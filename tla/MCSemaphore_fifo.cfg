SPECIFICATION Spec
CONSTANTS
    Threads = {t1, t2, p1}
    Parallel = {p1}
    Uninterruptible = {}
    Ops = {"post", "postall", "wait", "sync", "peek", "poll"}
    Inf = Inf
    NoOne = NoOne
    InitCount = 1
    MaxCount = 1
    SpuriousCas = TRUE
PROPERTIES
    ImplementsFifo
    WaitersServed
