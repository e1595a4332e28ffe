SPECIFICATION FairSpec
CONSTANTS
    g0 = g0
    g1 = g1
    g2 = g2
    a = a
    b = b
    c = c
    d = d
    e = e
    f = f
    r = r
    q = q
    NoOne = NoOne
    Tgcs = {g0, g1, g2}
    S_threads <- MCThreads
    MainTgc = g0
    Objects = {a, b, c, d, e, f, r, q}
    Old = {r, q}
    Creator <- MCCreator
    Segment <- MCSegment
    UseMarks = {c, d}
    MaxSweepers = 2
    Heaps <- MCHeaps
    Setups <- MCSetups
CHECK_DEADLOCK FALSE
INVARIANTS
    SweepInv
    SweepComplete
PROPERTIES
    OwnerOnly
    ImplementsReach
    Terminates
