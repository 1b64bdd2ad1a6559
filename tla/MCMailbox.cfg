SPECIFICATION Spec
CONSTANTS
  Name = {Ann, Bob}
  Ident = {k1, k2, k3}
  KeysOf <- Rotating
  FirstKey <- Enrolled
  Link = {l1}
  NoLink = NoLink
  Msg = {m1}
  Ttls <- OneDay
  Retention = 1
  PendingCap = 1
  DeadCap = 1
  MaxTime = 1
  MaxGen = 1
  MaxRequests = 2
  Ann = Ann
  Bob = Bob
  k1 = k1
  k2 = k2
  k3 = k3
INVARIANTS LiveMailHasConsent NothingLostSilently
PROPERTIES ReceiptsOnlyAdvance
CHECK_DEADLOCK FALSE
