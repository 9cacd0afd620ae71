CONSTANTS
  Modes = {"shot", "page", "scrollingPage", "scrolling"}
  MaxCaptures = 2
  MaxAcks = 1
  MaxRuns = 2
  Times <- MCTimes
  Weights = {1, 3}
  Limits <- MCLimits
  MaxIds = 4
  MaxDeeds = 2
SPECIFICATION SessionSpec
CHECK_DEADLOCK FALSE
INVARIANTS SessionSound
PROPERTIES Rests FeedbackHonest
