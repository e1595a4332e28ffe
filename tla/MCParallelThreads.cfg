SPECIFICATION FairSpec
CONSTANTS
    t1 = t1
    t2 = t2
    w1 = w1
    w2 = w2
    Threads = {t1, t2}
    Workers = {w1}
    Place = Place
    NoOne = NoOne
    MaxOps = 2
    MaxPosts = 1
    MaxSuspends = 1
CHECK_DEADLOCK FALSE
CONSTRAINT Followed
INVARIANTS
    PoolInv
    UnitsConserved
PROPERTIES
    NobodyStuck
    BlockedContinues
    QueuedRuns
