---------------------------- MODULE FifoSemaphore ----------------------------
(***************************************************************************)
(* What a Racket semaphore promises its callers: a counter, a first-come   *)
(* first-served line of blocked waiters, and operations that take effect   *)
(* at one instant between their call and their return.  The module states  *)
(* nothing about compare-and-set, atomic mode or retries; those belong to  *)
(* module Semaphore, which implements this one.                            *)
(***************************************************************************)
EXTENDS Integers, Sequences

CONSTANTS
    Threads,    \* everyone who calls an operation
    Ops,        \* the operations that are called
    Inf,        \* the counter after semaphore-post-all
    InitCount   \* the argument of make-semaphore

VARIABLES
    value,      \* the internal counter: a natural number or Inf
    line,       \* blocked waiters, first come first
    phase,      \* "idle", "active" (called, no effect yet) or "lined"
    op,         \* the current operation of a thread, or "none"
    result      \* "none" while an operation runs, then its outcome

avars == <<value, line, phase, op, result>>

Positive(n) == n = Inf \/ (n # Inf /\ n > 0)
Up(n)       == IF n = Inf THEN Inf ELSE n + 1
Down(n)     == IF n = Inf THEN Inf ELSE n - 1

\* Operations that take one unit, that only look, that may block, and that
\* return #f instead of blocking.
Consuming == {"wait", "sync", "try", "poll"}
Peeking   == {"peek", "trypeek"}
Blocking  == {"wait", "sync", "peek"}
Refusing  == {"try", "trypeek", "poll"}

AInit ==
    /\ value = InitCount
    /\ line = <<>>
    /\ phase = [t \in Threads |-> "idle"]
    /\ op = [t \in Threads |-> "none"]
    /\ result = [t \in Threads |-> "none"]

Finish(S, r) ==
    /\ phase' = [t \in Threads |-> IF t \in S THEN "idle" ELSE phase[t]]
    /\ result' = [t \in Threads |-> IF t \in S THEN r ELSE result[t]]
    /\ op' = [t \in Threads |-> IF t \in S THEN "none" ELSE op[t]]

Call(t, o) ==
    /\ phase[t] = "idle"
    /\ phase' = [phase EXCEPT ![t] = "active"]
    /\ op' = [op EXCEPT ![t] = o]
    /\ result' = [result EXCEPT ![t] = "none"]
    /\ UNCHANGED <<value, line>>

\* A post with nobody in line counts up.
CountPost(t) ==
    /\ phase[t] = "active" /\ op[t] = "post"
    /\ line = <<>>
    /\ value' = Up(value)
    /\ Finish({t}, "ok")
    /\ UNCHANGED line

\* A post with a consumer at the head of the line is handed to it.
HandOff(t) ==
    /\ phase[t] = "active" /\ op[t] = "post"
    /\ line # <<>> /\ op[Head(line)] \in Consuming
    /\ line' = Tail(line)
    /\ Finish({t, Head(line)}, "ok")
    /\ UNCHANGED value

\* A peeking waiter at the head is let go without using up the post.
ReleasePeek(t) ==
    /\ phase[t] = "active" /\ op[t] = "post"
    /\ line # <<>> /\ op[Head(line)] \in Peeking
    /\ line' = Tail(line)
    /\ Finish({Head(line)}, "ok")
    /\ UNCHANGED value

PostAll(t) ==
    /\ phase[t] = "active" /\ op[t] = "postall"
    /\ value' = Inf
    /\ line' = <<>>
    /\ Finish({t} \cup {line[i] : i \in 1..Len(line)}, "ok")

Take(t) ==
    /\ phase[t] = "active" /\ op[t] \in Consuming
    /\ Positive(value)
    /\ value' = Down(value)
    /\ Finish({t}, "ok")
    /\ UNCHANGED line

Peek(t) ==
    /\ phase[t] = "active" /\ op[t] \in Peeking
    /\ Positive(value)
    /\ Finish({t}, "ok")
    /\ UNCHANGED <<value, line>>

Refuse(t) ==
    /\ phase[t] = "active" /\ op[t] \in Refusing
    /\ value = 0
    /\ Finish({t}, "no")
    /\ UNCHANGED <<value, line>>

Enqueue(t) ==
    /\ phase[t] = "active" /\ op[t] \in Blocking
    /\ value = 0
    /\ line' = Append(line, t)
    /\ phase' = [phase EXCEPT ![t] = "lined"]
    /\ UNCHANGED <<value, op, result>>

\* A break, kill or suspend takes a waiter out of the line ...
LeaveLine(t, i) ==
    /\ i \in 1..Len(line) /\ line[i] = t
    /\ line' = [j \in 1..(Len(line) - 1) |-> IF j < i THEN line[j] ELSE line[j + 1]]
    /\ phase' = [phase EXCEPT ![t] = "active"]
    /\ UNCHANGED <<value, op, result>>

\* ... and an operation that has had no effect yet can be given up.
GiveUp(t) ==
    /\ phase[t] = "active"
    /\ Finish({t}, "aborted")
    /\ UNCHANGED <<value, line>>

ANext ==
    \E t \in Threads :
        \/ \E o \in Ops : Call(t, o)
        \/ CountPost(t) \/ HandOff(t) \/ ReleasePeek(t) \/ PostAll(t)
        \/ Take(t) \/ Peek(t) \/ Refuse(t) \/ Enqueue(t)
        \/ \E i \in 1..Len(line) : LeaveLine(t, i)
        \/ GiveUp(t)

ASpec == AInit /\ [][ANext]_avars
==============================================================================
