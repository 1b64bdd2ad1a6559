SPECIFICATION Spec
CONSTANTS
    g1 = g1
    m1 = m1
    x1 = x1
    Grants = {g1}
    Msgs = {m1}
    Ins = {x1}
    Nonces = {n1}
    None = None
    Route <- MCRoute1
    PartitionCap = 1
    MaxGen = 4
    MaxTime = 2
INVARIANTS FenceHolds AckedIsKept
PROPERTIES DepartsAgainByRetry HeldLeavesOnLineage
CHECK_DEADLOCK FALSE
