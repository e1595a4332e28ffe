SPECIFICATION FairSpec
CONSTANTS
    t1 = t1
    t2 = t2
    a = a
    b = b
    Threads = {t1, t2}
    Semas = {a, b}
    Args <- ArgsNack
    Breaks <- BreaksMixed
    Timeout <- OneTimeout
    InitValue <- Zero
    Disturb = {"kill", "postall"}
    Inf = Inf
    MaxPosts = 1
CHECK_DEADLOCK FALSE
INVARIANTS
    SyncInv
    BlocksOnlyWhileNotReady
PROPERTIES
    SyncReturns
