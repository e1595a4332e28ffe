SPECIFICATION FairSpec
CONSTANTS
    p1 = p1
    p2 = p2
    Places = {p1, p2}
    Pids = {1, 2}
    MaxForks = 2
    Nobody = Nobody
CONSTRAINT FirstOfAll
INVARIANTS
    StatusInv
    KillsOwnChild
PROPERTIES
    ExitNoticed
    UnusedReaped
