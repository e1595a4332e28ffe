------------------------------- MODULE Reach -------------------------------
(***************************************************************************)
(* What sweeping promises: starting from the objects that the roots reach, *)
(* it keeps adding objects that a kept object refers to, and says that it  *)
(* is done only when every reference leads to a kept object.  An ephemeron *)
(* keeps its value when its key is kept.                                   *)
(***************************************************************************)
CONSTANTS
    Objects,      \* the objects that may be collected
    Old           \* the objects that stay in any case

VARIABLES
    heap,         \* the references: fields of plain objects, ephemerons
    kept,         \* objects found reachable so far
    done

\* The objects that a set of kept objects keeps directly.
Children(S) ==
    {heap.val[e] : e \in {e \in S \cap DOMAIN heap.key : heap.key[e] \in S}}
        \cup UNION {heap.refs[o] : o \in S}

Closed(S) == Children(S \cup Old) \subseteq S \cup Old

Init == kept \subseteq Objects /\ done = FALSE

Keep ==
    /\ ~done
    /\ kept' \subseteq Objects
    /\ kept \subseteq kept'
    /\ kept' \subseteq kept \cup Children(kept \cup Old)
    /\ UNCHANGED <<heap, done>>

Finish ==
    /\ ~done
    /\ Closed(kept)
    /\ done' = TRUE
    /\ UNCHANGED <<heap, kept>>

Spec == Init /\ [][Keep \/ Finish]_<<heap, kept, done>>
=============================================================================
