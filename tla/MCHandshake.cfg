SPECIFICATION Spec
CONSTANTS
  Ident = {1, 2, 3}
  Link = {l1, l2}
  NoLink = NoLink
  NoIdent = NoIdent
  Attested = {}
  Lives <- TwoDays
  MaxUses = 2
  Offers = {"legacy", "public", "short"}
  EncVs = {0}
  Quota = 1
  PendingWindow = 1
  HsExpiry = 2
  MaxTime = 2
  MaxGen = 2
  MaxRound = 2
  MaxMsgs = 1
SYMMETRY Links
ACTION_CONSTRAINT DuelOrRace
INVARIANTS ConsentIsCurrent UsesCoverPairs InvitationKeepsItsTarget
PROPERTIES LiveCeremonyUntouched ImplementsConsent
CHECK_DEADLOCK FALSE
