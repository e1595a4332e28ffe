------------------------------ MODULE Semaphore ------------------------------
(***************************************************************************)
(* The semaphore of Racket CS (racket/src/thread/semaphore.rkt) at the     *)
(* level of its reads, stores and compare-and-sets.                        *)
(*                                                                         *)
(* A coroutine thread runs in the Racket pthread; it is not preempted in   *)
(* atomic mode, so while some thread is in atomic mode no other coroutine  *)
(* thread moves.  A parallel thread runs in a pthread of its own: its      *)
(* lock-free steps interleave with everything, atomic sections included,   *)
(* and it enters atomic mode only through the Racket pthread.  The queue   *)
(* is touched in atomic mode only, so steps of an atomic section that      *)
(* touch nothing but the queue are joined with the compare-and-set next to *)
(* them.                                                                   *)
(*                                                                         *)
(* Everyone here may take locks (current-future-can-take-lock?): plain     *)
(* futures, which may not, and semaphore-wait/atomic, which only the will  *)
(* executors call, are left out.                                           *)
(***************************************************************************)
EXTENDS Integers, Sequences

CONSTANTS
    Threads,          \* everyone who calls an operation
    Parallel,         \* the ones that run in a pthread of their own
    Uninterruptible,  \* the ones that call in uninterruptible mode (cas-only-mode?)
    Ops,              \* the operations that are called
    Inf,              \* +inf.0, the counter after semaphore-post-all
    NoOne,            \* nobody is in atomic mode
    InitCount,        \* the argument of make-semaphore
    MaxCount,         \* bound: no post starts once the counter has reached it
    SpuriousCas       \* whether a compare-and-set may fail although the values agree

AllOps == {"post", "postall", "try", "trypeek", "wait", "sync", "peek", "poll"}

ASSUME SemaphoreAssumption ==
    /\ Parallel \subseteq Threads
    /\ Uninterruptible \subseteq Parallel
    /\ Ops \subseteq AllOps
    /\ Inf \notin Int
    /\ NoOne \notin Threads
    /\ InitCount \in Nat
    /\ MaxCount \in Nat
    /\ SpuriousCas \in BOOLEAN

VARIABLES
    count,       \* semaphore-count; -1 means that the queue is not empty
    queue,       \* the semaphore's queue of waiters; a waiter is its thread
    accessible,  \* accessible-semaphores, as far as it concerns this semaphore
    atomic,      \* the thread that is in atomic mode, or NoOne
    pc,          \* where each thread is
    c,           \* each thread's local c, the count it read last
    op,          \* each thread's current operation, "none" if it has none
    result       \* "none" while an operation runs, then its outcome

vars == <<count, queue, accessible, atomic, pc, c, op, result>>

\* The semaphore, taken to be a custodian-accessible one.
Self == "semaphore"

Counts == Nat \cup {-1, Inf}

Positive(n) == n = Inf \/ (n # Inf /\ n > 0)
AtLeastZero(n) == n = 0 \/ Positive(n)
Add1(n)     == IF n = Inf THEN Inf ELSE n + 1
Sub1(n)     == IF n = Inf THEN Inf ELSE n - 1

\* Control points outside atomic mode and inside it.
PlainPcs  == {"post_read", "post_cas", "post_u", "post_enter", "all_enter",
              "try_read", "try_cas", "try_u", "try_enter",
              "wait_read", "wait_cas", "wait_u", "wait_enter", "poll_enter"}
AtomicPcs == {"post_remove", "post_count", "all_read", "all_cas", "all_wake",
              "try_again", "try_set", "wait_block",
              "poll_read", "poll_cas", "poll_block"}
Pcs == {"idle", "queued", "error"} \cup PlainPcs \cup AtomicPcs

Results == {"none", "ok", "no", "aborted"}

\* Where an operation starts, and where a waiter resumes after an interrupt:
\* semaphore-wait loops, a sync retries in atomic mode.
Entry(o) == CASE o = "post" -> "post_read"
              [] o = "postall" -> "all_enter"
              [] o \in {"try", "trypeek"} -> "try_read"
              [] o = "wait" -> "wait_read"
              [] OTHER -> "poll_enter"

TypeOK ==
    /\ count \in Counts
    /\ queue \in Seq(Threads)
    /\ accessible \subseteq {Self}
    /\ atomic \in Threads \cup {NoOne}
    /\ pc \in [Threads -> Pcs]
    /\ c \in [Threads -> Counts]
    /\ op \in [Threads -> AllOps \cup {"none"}]
    /\ result \in [Threads -> Results]

Init ==
    /\ count = InitCount
    /\ queue = <<>>
    /\ accessible = {}
    /\ atomic = NoOne
    /\ pc = [t \in Threads |-> "idle"]
    /\ c = [t \in Threads |-> 0]
    /\ op = [t \in Threads |-> "none"]
    /\ result = [t \in Threads |-> "none"]

-----------------------------------------------------------------------------
(* Steps shared by the operations. *)

\* Thread t may take a step outside atomic mode: a parallel thread always, a
\* coroutine thread unless the Racket pthread is in someone's atomic section, which
\* swap-in-engine does not swap out.
MayRun(t) == t \in Parallel \/ atomic = NoOne

Goto(t, l) == pc' = [pc EXCEPT ![t] = l]

\* unsafe-struct*-cas!, success and failure.
CasOk(old, new) == count = old /\ count' = new
CasFails(old)   == (count # old \/ SpuriousCas) /\ UNCHANGED count

\* The operations of the threads in S are over, with outcome r.
Complete(S, r) ==
    /\ pc' = [t \in Threads |-> IF t \in S THEN "idle" ELSE pc[t]]
    /\ op' = [t \in Threads |-> IF t \in S THEN "none" ELSE op[t]]
    /\ result' = [t \in Threads |-> IF t \in S THEN r ELSE result[t]]

\* The operation of t returns r.
Return(t, r) == Complete({t}, r) /\ c' = [c EXCEPT ![t] = 0]

EnterAtomic(t, from, to) ==
    /\ pc[t] = from
    /\ atomic = NoOne
    /\ atomic' = t
    /\ Goto(t, to)
    /\ c' = [c EXCEPT ![t] = 0]
    /\ UNCHANGED <<count, queue, accessible, op, result>>

\* Reading the count into the local c and branching on it (the branch is to).
Read(t, from, to) ==
    /\ pc[t] = from
    /\ c' = [c EXCEPT ![t] = count]
    /\ Goto(t, to)
    /\ UNCHANGED <<count, queue, accessible, atomic, op, result>>

\* Where a failed lock-free attempt goes on.
Slow(t, u, enter) == IF t \in Uninterruptible THEN u ELSE enter

\* Fault: the new waiter goes to the front (queue-add-front!).
QueueAddFront(t) == queue' = <<t>> \o queue

\* queue-add!.
QueueAdd(t) == queue' = Append(queue, t)

\* ready-nonempty-queue succeeds, and the waiter is queued.
Block(t) ==
    /\ \/ queue # <<>> /\ UNCHANGED <<count, accessible>>
       \/ /\ queue = <<>> /\ count = 0
          /\ count' = -1
          /\ accessible' = accessible \cup {Self}
    /\ QueueAdd(t)

\* ready-nonempty-queue fails: the compare-and-set from 0 to -1 does.
CannotBlock == queue = <<>> /\ (count # 0 \/ SpuriousCas)

\* Fault: the semaphore stays in accessible-semaphores.
UnretainNot == UNCHANGED accessible

\* The semaphore leaves accessible-semaphores when its queue becomes empty.
Unretain == accessible' = accessible \ {Self}

\* queue-remove-node! of the node at position i.
RemoveAt(s, i) == [j \in 1..(Len(s) - 1) |-> IF j < i THEN s[j] ELSE s[j + 1]]

\* Fault: ready-empty-queue is not called.
RemoveWaiterOnly(i) ==
    /\ queue' = RemoveAt(queue, i)
    /\ UNCHANGED <<count, accessible>>

\* queue-remove! or queue-remove-node!, then ready-empty-queue.
RemoveWaiter(i) ==
    /\ queue' = RemoveAt(queue, i)
    /\ IF Len(queue) = 1
         THEN count' = 0 /\ Unretain
         ELSE UNCHANGED <<count, accessible>>

\* A thread calls an operation.  Only the lock-free operations are called in
\* uninterruptible mode.
Start(t, o) ==
    /\ pc[t] = "idle"
    /\ MayRun(t)
    /\ t \in Uninterruptible => o \in {"post", "try", "trypeek", "wait"}
    /\ o = "post" => (count = Inf \/ (count # Inf /\ count < MaxCount))
    /\ Goto(t, Entry(o))
    /\ op' = [op EXCEPT ![t] = o]
    /\ result' = [result EXCEPT ![t] = "none"]
    /\ UNCHANGED <<count, queue, accessible, atomic, c>>
-----------------------------------------------------------------------------
(* semaphore-post: unsafe-semaphore-post and semaphore-post/atomic. *)

PostRead(t) ==
    /\ MayRun(t)
    /\ Read(t, "post_read",
            IF AtLeastZero(count) THEN "post_cas" ELSE Slow(t, "post_u", "post_enter"))

PostCas(t) ==
    /\ pc[t] = "post_cas" /\ MayRun(t)
    /\ \/ CasOk(c[t], Add1(c[t])) /\ Return(t, "ok")
       \/ /\ CasFails(c[t])
          /\ Goto(t, Slow(t, "post_u", "post_enter"))
          /\ UNCHANGED <<c, op, result>>
    /\ UNCHANGED <<queue, accessible, atomic>>

\* Uninterruptible mode: an error if the semaphore is contested, else again.
PostCasOnly(t) ==
    /\ pc[t] = "post_u"
    /\ \/ CasOk(-1, -1) /\ Goto(t, "error")
       \/ CasFails(-1) /\ Goto(t, "post_read")
    /\ UNCHANGED <<queue, accessible, atomic, c, op, result>>

PostEnter(t) == EnterAtomic(t, "post_enter", "post_remove")

\* semaphore-peek-select-waiter?
OnlyPeeks(w) == op[w] = "peek"

\* The head of the queue is resumed, its operation complete; the post is used up
\* unless the waiter only peeks, in which case the post goes on with the next.
PostRemove(t) ==
    /\ pc[t] = "post_remove"
    /\ \/ /\ queue = <<>>
          /\ c' = [c EXCEPT ![t] = count]
          /\ Goto(t, "post_count")
          /\ UNCHANGED <<count, queue, accessible, atomic, op, result>>
       \/ /\ queue # <<>>
          /\ RemoveWaiter(1)
          /\ IF OnlyPeeks(Head(queue))
               THEN Complete({Head(queue)}, "ok") /\ UNCHANGED atomic
               ELSE Complete({Head(queue), t}, "ok") /\ atomic' = NoOne
          /\ c' = [c EXCEPT ![t] = 0]

\* Fault: a store instead of a compare-and-set.
PostCountStores(t) ==
    /\ pc[t] = "post_count"
    /\ count' = Add1(c[t])
    /\ Return(t, "ok")
    /\ atomic' = NoOne
    /\ UNCHANGED <<queue, accessible>>

\* Nobody is queued: count up, or look at the queue again.
PostCount(t) ==
    /\ pc[t] = "post_count"
    /\ \/ CasOk(c[t], Add1(c[t])) /\ Return(t, "ok") /\ atomic' = NoOne
       \/ CasFails(c[t]) /\ Goto(t, "post_remove") /\ UNCHANGED <<c, op, result, atomic>>
    /\ UNCHANGED <<queue, accessible>>
-----------------------------------------------------------------------------
(* semaphore-post-all and semaphore-post-all/atomic. *)

AllEnter(t) == EnterAtomic(t, "all_enter", "all_read")
AllRead(t)  == Read(t, "all_read", "all_cas")

AllCas(t) ==
    /\ pc[t] = "all_cas"
    /\ \/ CasOk(c[t], Inf) /\ Goto(t, "all_wake")
       \/ CasFails(c[t]) /\ Goto(t, "all_read")
    /\ UNCHANGED <<queue, accessible, atomic, c, op, result>>

\* queue-remove-all! resumes every waiter; the count stays +inf.0.
AllWake(t) ==
    /\ pc[t] = "all_wake"
    /\ Complete({t} \cup {queue[i] : i \in 1..Len(queue)}, "ok")
    /\ queue' = <<>>
    /\ Unretain
    /\ atomic' = NoOne
    /\ c' = [c EXCEPT ![t] = 0]
    /\ UNCHANGED count
-----------------------------------------------------------------------------
(* semaphore-try-wait? and unsafe-semaphore-try-peek?. *)

TryRead(t) ==
    /\ MayRun(t)
    /\ Read(t, "try_read",
            IF Positive(count) THEN "try_cas" ELSE Slow(t, "try_u", "try_enter"))

Taken(t, n) == IF op[t] = "trypeek" THEN n ELSE Sub1(n)

TryCas(t) ==
    /\ pc[t] = "try_cas" /\ MayRun(t)
    /\ \/ CasOk(c[t], Taken(t, c[t])) /\ Return(t, "ok")
       \/ /\ CasFails(c[t])
          /\ Goto(t, Slow(t, "try_u", "try_enter"))
          /\ UNCHANGED <<c, op, result>>
    /\ UNCHANGED <<queue, accessible, atomic>>

\* Uninterruptible mode: #f if the count is still the one that was read.
TryCasOnly(t) ==
    /\ pc[t] = "try_u"
    /\ \/ CasOk(c[t], c[t]) /\ Return(t, "no")
       \/ CasFails(c[t]) /\ Goto(t, "try_read") /\ UNCHANGED <<c, op, result>>
    /\ UNCHANGED <<queue, accessible, atomic>>

TryEnter(t) == EnterAtomic(t, "try_enter", "try_again")

\* In atomic mode: read again; a positive count is decremented by a store.
TryAgain(t) ==
    /\ pc[t] = "try_again"
    /\ IF Positive(count) /\ op[t] = "try"
         THEN /\ c' = [c EXCEPT ![t] = count]
              /\ Goto(t, "try_set")
              /\ UNCHANGED <<atomic, op, result>>
         ELSE /\ Return(t, IF Positive(count) THEN "ok" ELSE "no")
              /\ atomic' = NoOne
    /\ UNCHANGED <<count, queue, accessible>>

TrySet(t) ==
    /\ pc[t] = "try_set"
    /\ count' = Sub1(c[t])
    /\ Return(t, "ok")
    /\ atomic' = NoOne
    /\ UNCHANGED <<queue, accessible>>
-----------------------------------------------------------------------------
(* semaphore-wait. *)

WaitRead(t) ==
    /\ MayRun(t)
    /\ Read(t, "wait_read",
            IF Positive(count) THEN "wait_cas" ELSE Slow(t, "wait_u", "wait_enter"))

WaitCas(t) ==
    /\ pc[t] = "wait_cas" /\ MayRun(t)
    /\ \/ CasOk(c[t], Sub1(c[t])) /\ Return(t, "ok")
       \/ /\ CasFails(c[t])
          /\ Goto(t, Slow(t, "wait_u", "wait_enter"))
          /\ UNCHANGED <<c, op, result>>
    /\ UNCHANGED <<queue, accessible, atomic>>

\* Uninterruptible mode: an error if the semaphore is not ready, else again.
WaitCasOnly(t) ==
    /\ pc[t] = "wait_u"
    /\ \/ CasOk(0, 0) /\ Goto(t, "error")
       \/ CasFails(0) /\ Goto(t, "wait_read")
    /\ UNCHANGED <<queue, accessible, atomic, c, op, result>>

WaitEnter(t) == EnterAtomic(t, "wait_enter", "wait_block")

\* In atomic mode: join the queue and deschedule, or leave and start over
\* because the count is positive or the compare-and-set to -1 fails.
WaitBlock(t) ==
    /\ pc[t] = "wait_block"
    /\ \/ ~Positive(count) /\ Block(t) /\ Goto(t, "queued")
       \/ /\ Positive(count) \/ CannotBlock
          /\ Goto(t, "wait_read")
          /\ UNCHANGED <<count, queue, accessible>>
    /\ atomic' = NoOne
    /\ UNCHANGED <<c, op, result>>
-----------------------------------------------------------------------------
(* semaphore-wait/poll, as sync calls it: "sync" and "peek" queue a select  *)
(* waiter when the count is not positive, "poll" only asks.                 *)

PollEnter(t) == EnterAtomic(t, "poll_enter", "poll_read")

PollRead(t) ==
    /\ pc[t] = "poll_read"
    /\ \/ /\ Positive(count) /\ op[t] # "peek"
          /\ c' = [c EXCEPT ![t] = count]
          /\ Goto(t, "poll_cas")
          /\ UNCHANGED <<atomic, op, result>>
       \/ /\ Positive(count) /\ op[t] = "peek"
          /\ Return(t, "ok") /\ atomic' = NoOne
       \/ /\ ~Positive(count) /\ op[t] = "poll"
          /\ Return(t, "no") /\ atomic' = NoOne
       \/ /\ ~Positive(count) /\ op[t] # "poll"
          /\ Goto(t, "poll_block")
          /\ UNCHANGED <<atomic, c, op, result>>
    /\ UNCHANGED <<count, queue, accessible>>

PollCas(t) ==
    /\ pc[t] = "poll_cas"
    /\ \/ CasOk(c[t], Sub1(c[t])) /\ Return(t, "ok") /\ atomic' = NoOne
       \/ CasFails(c[t]) /\ Goto(t, "poll_read") /\ UNCHANGED <<c, op, result, atomic>>
    /\ UNCHANGED <<queue, accessible>>

PollBlock(t) ==
    /\ pc[t] = "poll_block"
    /\ \/ Block(t) /\ Goto(t, "queued") /\ atomic' = NoOne
       \/ /\ CannotBlock
          /\ Goto(t, "poll_read")
          /\ UNCHANGED <<count, queue, accessible, atomic>>
    /\ UNCHANGED <<c, op, result>>
-----------------------------------------------------------------------------
(* Interrupts: a break, a kill or a suspend. *)

\* Fault: the callback does not take the node out of the queue.
InterruptLeavesNode(i) ==
    /\ i \in 1..Len(queue)
    /\ atomic = NoOne
    /\ pc' = [pc EXCEPT ![queue[i]] = Entry(op[queue[i]])]
    /\ UNCHANGED <<count, queue, accessible, atomic, c, op, result>>

\* The interrupt callback of the waiter at position i of the queue; when the
\* thread goes on (the break is ignored, the suspended thread is resumed) it
\* starts over.
Interrupt(i) ==
    /\ i \in 1..Len(queue)
    /\ atomic = NoOne
    /\ RemoveWaiter(i)
    /\ pc' = [pc EXCEPT ![queue[i]] = Entry(op[queue[i]])]
    /\ UNCHANGED <<atomic, c, op, result>>

\* A break exception or a kill ends an operation outside atomic mode; neither
\* is delivered in uninterruptible mode.
Abort(t) ==
    /\ pc[t] \in PlainPcs
    /\ t \notin Uninterruptible
    /\ MayRun(t)
    /\ Return(t, "aborted")
    /\ UNCHANGED <<count, queue, accessible, atomic>>
-----------------------------------------------------------------------------
Step(t) ==
    \/ PostRead(t) \/ PostCas(t) \/ PostCasOnly(t)
    \/ PostEnter(t) \/ PostRemove(t) \/ PostCount(t)
    \/ AllEnter(t) \/ AllRead(t) \/ AllCas(t) \/ AllWake(t)
    \/ TryRead(t) \/ TryCas(t) \/ TryCasOnly(t)
    \/ TryEnter(t) \/ TryAgain(t) \/ TrySet(t)
    \/ WaitRead(t) \/ WaitCas(t) \/ WaitCasOnly(t) \/ WaitEnter(t) \/ WaitBlock(t)
    \/ PollEnter(t) \/ PollRead(t) \/ PollCas(t) \/ PollBlock(t)

Next ==
    \/ \E t \in Threads : Step(t) \/ Abort(t) \/ (\E o \in Ops : Start(t, o))
    \/ \E i \in 1..Len(queue) : Interrupt(i)

Spec == Init /\ [][Next]_vars
-----------------------------------------------------------------------------
(* Properties. *)

\* Only the thread that is in atomic mode is inside an atomic section, and it
\* is inside one (the mode every assert-atomic-mode of semaphore.rkt checks).
AtomicOwner ==
    /\ \A t \in Threads : pc[t] \in AtomicPcs <=> atomic = t

\* A thread is in the queue exactly while it is blocked, and it is there once:
\* no interrupt, post or retry leaves a stale or a duplicate waiter behind.
QueuedOnce ==
    /\ \A i, j \in 1..Len(queue) : queue[i] = queue[j] => i = j
    /\ \A t \in Threads :
          pc[t] = "queued" <=> \E i \in 1..Len(queue) : queue[i] = t

\* The count is -1, which turns the lock-free paths off, exactly while waiters
\* are queued (the assertions at semaphore.rkt 101, 113, 166, 173, 279, 312, 325
\* and 326); in between, semaphore-post-all has made it +inf.0 and is about to
\* wake them all.  So nobody is ever blocked on a semaphore with a positive
\* count, whatever the lock-free posts and waits of other pthreads do.
CountMatchesQueue ==
    /\ count = -1 => queue # <<>>
    /\ queue # <<>> => \/ count = -1
                       \/ count = Inf /\ \E t \in Threads : pc[t] = "all_wake"

\* A custodian-accessible semaphore is retained in accessible-semaphores as long
\* as a thread is blocked on it, and no longer.
RetainedWhileBlocked == Self \in accessible <=> queue # <<>>

\* A queued waiter is eventually let out of the queue if posts keep completing and
\* no semaphore-post-all is left in the middle.
PostCompletes ==
    \E t \in Threads : op[t] = "post" /\ result[t] = "none" /\ result'[t] = "ok"
WaitersServed ==
    /\ []<><<PostCompletes>>_vars
    /\ []<>(\A t \in Threads : pc[t] # "all_wake")
    => \A t \in Threads : pc[t] = "queued" ~> pc[t] # "queued"

\* The semaphore implements the counter with a first-come first-served line.
\* semaphore-post-all takes effect at its compare-and-set.
Woken(t) == pc[t] = "all_wake" \/ (pc[t] = "queued" /\ count = Inf)

Value == IF count = -1 THEN 0 ELSE count
Line == IF count = Inf THEN <<>> ELSE queue
Phase ==
    [t \in Threads |->
        CASE pc[t] = "idle" \/ Woken(t) -> "idle"
          [] pc[t] = "queued" /\ ~Woken(t) -> "lined"
          [] OTHER -> "active"]
Called == [t \in Threads |-> IF Woken(t) THEN "none" ELSE op[t]]
Outcome == [t \in Threads |-> IF Woken(t) THEN "ok" ELSE result[t]]

Fifo == INSTANCE FifoSemaphore WITH
    value <- Value, line <- Line, phase <- Phase, op <- Called, result <- Outcome

ImplementsFifo == Fifo!ASpec
==============================================================================
