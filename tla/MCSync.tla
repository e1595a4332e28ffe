------------------------------ MODULE MCSync ------------------------------
(* Sync for TLC: two threads, two semaphores. *)
EXTENDS Sync, TLC

CONSTANTS t1, t2, a, b

Take1(s) == [sema |-> s, peek |-> FALSE, nack |-> FALSE]
Peek1(s) == [sema |-> s, peek |-> TRUE, nack |-> FALSE]
Nack1(s) == [sema |-> s, peek |-> FALSE, nack |-> TRUE]

\* t1 syncs on a nack-guarded semaphore and a plain one, t2 on a peek event and
\* the same semaphore twice.
ArgsNack == t1 :> <<Nack1(a), Take1(b)>> @@ t2 :> <<Peek1(a), Take1(a)>>

\* t1 syncs on two plain semaphores, t2 twice on one of them, once guarded.
ArgsPlain == t1 :> <<Take1(a), Take1(b)>> @@ t2 :> <<Nack1(b), Take1(b)>>

BreaksMixed == t1 :> "enable" @@ t2 :> "on"

OneTimeout == t1 :> "finite" @@ t2 :> "never"
ZeroTimeout == t1 :> "never" @@ t2 :> "zero"

Zero == [s \in Semas |-> 0]
===========================================================================
