SPECIFICATION FairGroupSpec
CONSTANTS
    t1 = t1
    t2 = t2
    t3 = t3
    t4 = t4
    g0 = g0
    g1 = g1
    g2 = g2
    Nil = Nil
    Members = {t1, t2, t3, t4}
    Groups = {g0, g1, g2}
    Root = g0
    Parent <- ParentNested
INVARIANTS
    GroupInv
    CountExact
PROPERTIES
    RunsScheduled
    NoStarvation
