SPECIFICATION Spec
CONSTANTS
    Threads = {t1, t2, u1}
    Parallel = {u1}
    Uninterruptible = {u1}
    Ops = {"post", "postall", "try", "trypeek", "wait", "sync", "peek", "poll"}
    Inf = Inf
    NoOne = NoOne
    InitCount = 1
    MaxCount = 1
    SpuriousCas = TRUE
SYMMETRY Symmetry
INVARIANTS
    QueuedOnce
    CountMatchesQueue
    RetainedWhileBlocked
