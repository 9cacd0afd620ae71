CONSTANTS
  MaxRespawns = 2
  MaxSpawns = 5
  MaxCrashes = 3
  MaxRestarts = 1
SPECIFICATION FairSpec
CHECK_DEADLOCK FALSE
INVARIANTS Sound CrashLoopBounded
PROPERTIES BackUp
