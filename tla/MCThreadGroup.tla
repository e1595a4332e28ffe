--------------------------- MODULE MCThreadGroup ---------------------------
(* ThreadGroup for TLC: four threads, three groups. *)
EXTENDS ThreadGroup, TLC

CONSTANTS t1, t2, t3, t4, g0, g1, g2

\* Group g1 is in the root group g0, and g2 in g1.
ParentNested == t1 :> g0 @@ t2 :> g0 @@ t3 :> g2 @@ t4 :> g2
    @@ g1 :> g0 @@ g2 :> g1
============================================================================
