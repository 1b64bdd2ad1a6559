SPECIFICATION FairSpec
CONSTANTS
  Managed = {a}
  Guest = {g}
  Key = {k1, k2}
  NoKey = NoKey
  Nonce = {n1, n2}
  Rank <- SomeRank
  HostCrashes = TRUE
  ReadFaults = FALSE
  MaxQueue = 1
  MaxEdits = 1
INVARIANTS ConfigNeverAhead RefusalLeavesNoTrace PromiseSurvives
PROPERTIES RestartPossible KeyChangesAuthorised LockReleased
CHECK_DEADLOCK FALSE
