CONSTANTS
  Contents = {"a", "b", "c", "d"}
  Images = {"a", "b"}
  Big = {"b"}
  MaxItems = 2
  MaxBytes = 3
  MaxCopies = 3
  MaxActs = 2
SPECIFICATION ClipFairSpec
CHECK_DEADLOCK FALSE
INVARIANTS ClipSound
PROPERTIES Recorded
