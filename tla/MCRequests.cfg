SPECIFICATION Spec
CONSTANTS
  Commands <- MCCommands
  Ttl = 1
  Skew = 1
  Cap = 1
  Drift <- Clocks
  MaxTries = 2
  MaxTime = 2
  MaxSerial = 3
  MaxKeys = 2
  MaxThreads = 2
INVARIANTS LiveNonceOnce EffectOnce
CHECK_DEADLOCK FALSE
