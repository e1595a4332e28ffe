------------------------- MODULE MCParallelThreads -------------------------
(* ParallelThreads for TLC: two threads, and up to two workers. *)
EXTENDS ParallelThreads

CONSTANTS t1, t2, w1, w2

\* What is left out: of two states that differ only in the threads' names, one of
\* those with a suspended thread; and, since the properties about the pool end
\* where a timer was late, the states after that in which the main thread has posted.
Followed == ~suspended[t2] /\ (late => posts = 0)
============================================================================
