SPECIFICATION Spec
CONSTANTS
  None = None
  Guest = Guest
  Ann = Ann
  Commands <- Mixed
  Retried <- OnlyPlain
  MaxSeeds = 2
  MaxTries = 2
  MaxLate = 1
  MaxCrashes = 1
  MaxRekeys = 1
PROPERTIES
  NoSubstitutedName
  PinHolds
  ComesToHoldToken
CHECK_DEADLOCK FALSE
