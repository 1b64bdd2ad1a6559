SPECIFICATION Spec
CONSTANTS
  None = None
  Guest = Guest
  Ann = Ann
  Commands <- FullPin
  Retried <- FullPin
  MaxSeeds = 2
  MaxTries = 2
  MaxLate = 1
  MaxCrashes = 0
  MaxRekeys = 0
PROPERTIES
  ComesToHoldToken
CHECK_DEADLOCK FALSE
