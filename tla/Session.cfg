CONSTANTS
  Engines = {1, 2, 3}
  Commands = {"members"}
  MaxTokens = 3
  MaxUses = 2
  MaxFaults = 1
SPECIFICATION FairSpec
CHECK_DEADLOCK FALSE
INVARIANTS Sound SignOutSticks
PROPERTIES RevocationShows
