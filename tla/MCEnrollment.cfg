SPECIFICATION Spec
CONSTANTS
    k1 = k1  k2 = k2  host = host  bob = bob  bob1 = bob1  guest = guest
    None = None
    Threads = {t1, t2}
    Keys = {k1, k2}
    Inviters = {host}
    Invites = {i1}
    Nonces = {c1, c2}
    Wanted = {bob}
    Guests = {guest}
    Fallback <- MCFallback
    Reserved <- MCReserved
    Files <- Dropped
    Gates = {"invite", "open"}
    Mailed = {bob}
    Quota = 1
    MaxUses = 1
    Life = 1
    ChallengeTtl = 1
    MaxTime = 1
    MaxSerial = 2
INVARIANTS UsesMatchEnrollments ChallengeWinsOnce OneNameAKey CachedNamesAreRows DeadNamesStayDead MailStaysWithItsOwner
SYMMETRY Alike
ACTION_CONSTRAINT Bounded
CHECK_DEADLOCK FALSE
