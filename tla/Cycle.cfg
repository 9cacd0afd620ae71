SPECIFICATION FairSpec
CONSTANTS
  Teams = 2
  Records = {1, 2, 3}
  TeamOf <- Owners
  Kept = {1}
  Theirs = {1}
  MaxEvents = 3
INVARIANTS Sound CursorCovers IdleMeansSent
PROPERTIES SwitchedOff CaughtUp
CHECK_DEADLOCK FALSE
