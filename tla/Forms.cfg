CONSTANTS
  MaxForms = 3
  MaxKills = 1
SPECIFICATION FormFairSpec
CHECK_DEADLOCK FALSE
INVARIANTS FormSound
PROPERTIES GoneBeforeAnswer Answered
