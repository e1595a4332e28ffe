SPECIFICATION FairSpec
CONSTANTS
    a = a
    b = b
    t = t
    u = u
    p = p
    w = w
    x = x
    y = y
    Objects = {a, b, t, u, p, w}
    Typed = {b}
    Segment <- MCSegment
    Entries = {x, y}
    Heaps <- MCHeaps
INVARIANTS
    RetainedExactly
    EntriesInv
    BrokenExactly
PROPERTIES
    Terminates
