SPECIFICATION Spec
CONSTANTS
    t1 = t1
    t2 = t2
    a = a
    b = b
    Threads = {t1, t2}
    Semas = {a, b}
    Args <- ArgsPlain
    Breaks <- BreaksMixed
    Timeout <- ZeroTimeout
    InitValue <- Zero
    Disturb = {"break", "kill", "suspend"}
    Inf = Inf
    MaxPosts = 1
CHECK_DEADLOCK FALSE
INVARIANTS
    SyncInv
    NackIffNotSelected
    BreakOrSelect
