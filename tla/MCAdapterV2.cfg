SPECIFICATION Spec
CONSTANTS
    alice = alice
    bob = bob
    op = op
    thief = thief
    home = home
    moved = moved
    m1 = m1
    x1 = x1
    Snapshots <- MCSnapshots
    Authority = op
    Loaders = {l1, l2}
    Skew = 0
    MaxLife = 2
    None = None
    MaxTime = 1
    Sent = {m1}
    Received = {x1}
    Ctx <- MCCtx
    Me = 1
    Configured = home
INVARIANTS OnlyPublishedContexts
PROPERTIES FirstDepartureIsGated
SYMMETRY Alike
CHECK_DEADLOCK FALSE
