SPECIFICATION FairSpec
CONSTANTS
    m1 = m1
    Msgs = {m1}
    None = None
    Ttls = {0, 1, 2, 3}
    MaxTtl = 3
    Retention = 2
    MaxTime = 3
INVARIANTS StoredOnce
PROPERTIES ImplementsOutbox PendingEnds
CHECK_DEADLOCK FALSE
