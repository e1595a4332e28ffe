---------------------------- MODULE MCSemaphore ----------------------------
(* Semaphore for TLC. *)
EXTENDS Semaphore, TLC

Coroutine == Threads \ Parallel
Roles == {Coroutine, Parallel \ Uninterruptible, Uninterruptible}

\* Threads of the same role are interchangeable.
Symmetry == UNION {Permutations(S) : S \in Roles}
============================================================================
