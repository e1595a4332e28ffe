SPECIFICATION FairSpec
CONSTANTS
    m = m
    a = a
    b = b
    Threads = {m, a, b}
    Main = m
    Slots <- MCSlots
    NoOne = NoOne
    MaxFires = 2
    MaxLeaves = 2
CHECK_DEADLOCK FALSE
INVARIANTS
    RendezvousInv
    CollectsAlone
PROPERTIES
    RequestAnswered
    WaitsEnd
