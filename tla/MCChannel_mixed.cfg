SPECIFICATION Spec
CONSTANTS
    t1 = t1
    t2 = t2
    t3 = t3
    t4 = t4
    t5 = t5
    a = a
    b = b
    Threads = {t1, t2, t3, t4, t5}
    Channels = {a, b}
    Ops <- OpsMixed
    Args <- ArgsMixed
    Disturb = {"interrupt", "kill"}
    Nobody = Nobody
CHECK_DEADLOCK FALSE
INVARIANTS
    ChannelInv
    NobodyWaitsInVain
    NackExactly
