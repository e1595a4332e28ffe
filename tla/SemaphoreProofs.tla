--------------------------- MODULE SemaphoreProofs ---------------------------
(***************************************************************************)
(* Proofs about module Semaphore, for every set of threads, every mix of   *)
(* coroutine, parallel and uninterruptible callers, every set of           *)
(* operations and with or without spurious compare-and-set failures.       *)
(***************************************************************************)
EXTENDS Semaphore, SequenceTheorems, TLAPS

\* What a thread knows about the count it has read, and what the atomic section
\* it is in guarantees: together with the invariants of Semaphore this is
\* inductive.
LocalCounts ==
    \A t \in Threads :
        /\ pc[t] = "post_cas" => AtLeastZero(c[t])
        /\ pc[t] \in {"try_cas", "wait_cas", "poll_cas"} => Positive(c[t])
        /\ pc[t] = "post_count" => queue = <<>> /\ AtLeastZero(c[t])
        /\ pc[t] = "try_set" => queue = <<>> /\ Positive(c[t])
        /\ pc[t] = "all_wake" => count = Inf

IInv ==
    /\ TypeOK
    /\ AtomicOwner
    /\ QueuedOnce
    /\ CountMatchesQueue
    /\ RetainedWhileBlocked
    /\ LocalCounts

-----------------------------------------------------------------------------
\* Taking position i out of a queue (queue-remove-node!) leaves a queue that is
\* one shorter and has the other waiters in their order.
LEMMA RemoveAtProps ==
    ASSUME NEW S, NEW s \in Seq(S), NEW i \in 1..Len(s)
    PROVE  /\ RemoveAt(s, i) \in Seq(S)
           /\ Len(RemoveAt(s, i)) = Len(s) - 1
           /\ \A j \in 1..(Len(s) - 1) :
                 RemoveAt(s, i)[j] = IF j < i THEN s[j] ELSE s[j + 1]
<1>1. Len(s) - 1 \in Nat
  OBVIOUS
<1>2. \A j \in 1..(Len(s) - 1) : (IF j < i THEN s[j] ELSE s[j + 1]) \in S
  OBVIOUS
<1>3. QED
  BY <1>1, <1>2 DEF RemoveAt

LEMMA RemoveAtMembers ==
    ASSUME NEW S, NEW s \in Seq(S), NEW i \in 1..Len(s),
           \A j, k \in 1..Len(s) : s[j] = s[k] => j = k
    PROVE  /\ \A j, k \in 1..Len(RemoveAt(s, i)) :
                RemoveAt(s, i)[j] = RemoveAt(s, i)[k] => j = k
           /\ \A x : (\E j \in 1..Len(RemoveAt(s, i)) : RemoveAt(s, i)[j] = x)
                        <=> x # s[i] /\ \E j \in 1..Len(s) : s[j] = x
<1> DEFINE r == RemoveAt(s, i)
<1>1. /\ Len(r) = Len(s) - 1
      /\ \A j \in 1..(Len(s) - 1) : r[j] = IF j < i THEN s[j] ELSE s[j + 1]
  BY RemoveAtProps
<1> HIDE DEF r
<1>2. \A j, k \in 1..Len(r) : r[j] = r[k] => j = k
  BY <1>1
<1>3. ASSUME NEW x, NEW j \in 1..Len(r), r[j] = x
      PROVE  x # s[i] /\ \E k \in 1..Len(s) : s[k] = x
  <2>1. CASE j < i
    BY <1>1, <1>3, <2>1
  <2>2. CASE ~(j < i)
    <3>1. j + 1 \in 1..Len(s) /\ s[j + 1] = x /\ j + 1 # i
      BY <1>1, <1>3, <2>2
    <3>2. QED
      BY <3>1
  <2>3. QED
    BY <2>1, <2>2
<1>4. ASSUME NEW x, x # s[i], NEW j \in 1..Len(s), s[j] = x
      PROVE  \E k \in 1..Len(r) : r[k] = x
  <2>1. CASE j < i
    BY <1>1, <1>4, <2>1
  <2>2. CASE j > i
    <3>1. j - 1 \in 1..Len(r) /\ r[j - 1] = x
      BY <1>1, <1>4, <2>2
    <3>2. QED
      BY <3>1
  <2>3. QED
    BY <1>4, <2>1, <2>2
<1>5. QED
  BY <1>2, <1>3, <1>4 DEF r
-----------------------------------------------------------------------------
LEMMA InitIInv == Init => IInv
<1> SUFFICES ASSUME Init PROVE IInv
  OBVIOUS
<1> USE SemaphoreAssumption DEF Init
<1>1. TypeOK
  BY DEF TypeOK, Counts, Pcs, Results
<1>2. AtomicOwner
  BY DEF AtomicOwner, AtomicPcs
<1>3. QueuedOnce /\ CountMatchesQueue /\ RetainedWhileBlocked /\ LocalCounts
  BY DEF QueuedOnce, CountMatchesQueue, RetainedWhileBlocked, LocalCounts
<1>4. QED
  BY <1>1, <1>2, <1>3 DEF IInv

\* The steps that never touch the queue.
LockfreeStep(t) ==
    \/ PostRead(t) \/ PostCas(t) \/ PostCasOnly(t) \/ PostEnter(t) \/ PostCount(t)
    \/ AllEnter(t) \/ AllRead(t) \/ AllCas(t)
    \/ TryRead(t) \/ TryCas(t) \/ TryCasOnly(t) \/ TryEnter(t) \/ TryAgain(t) \/ TrySet(t)
    \/ WaitRead(t) \/ WaitCas(t) \/ WaitCasOnly(t) \/ WaitEnter(t)
    \/ PollEnter(t) \/ PollRead(t) \/ PollCas(t)

\* They preserve the invariant: a compare-and-set of the lock-free paths starts
\* from a count that is not -1, so it neither hides nor invents a queued waiter.
LEMMA LockfreeIInv ==
    ASSUME NEW t \in Threads, IInv, LockfreeStep(t)
    PROVE  IInv'
<1> USE SemaphoreAssumption DEF IInv, TypeOK, AtomicOwner, QueuedOnce, CountMatchesQueue,
      RetainedWhileBlocked, LocalCounts, Counts, Pcs, PlainPcs, AtomicPcs, Results,
      Positive, AtLeastZero
<1>1. CASE PostRead(t)
  BY <1>1 DEF PostRead, Read, Goto, Slow
<1>2. CASE PostCas(t)
  <2> USE <1>2 DEF PostCas, CasOk, CasFails, Return, Complete, Goto, Slow, Add1
  <2>1. TypeOK'
    OBVIOUS
  <2>2. AtomicOwner' /\ QueuedOnce' /\ RetainedWhileBlocked'
    OBVIOUS
  <2>3. CountMatchesQueue' /\ LocalCounts'
    OBVIOUS
  <2>4. QED
    BY <2>1, <2>2, <2>3
<1>3. CASE PostCasOnly(t)
  BY <1>3 DEF PostCasOnly, CasOk, CasFails, Goto
<1>4. CASE PostEnter(t)
  BY <1>4 DEF PostEnter, EnterAtomic, Goto
<1>5. CASE PostCount(t)
  <2> USE <1>5 DEF PostCount, CasOk, CasFails, Return, Complete, Goto, Add1
  <2>1. TypeOK'
    <3>1. count' \in Counts
      OBVIOUS
    <3>2. pc' \in [Threads -> Pcs] /\ c' \in [Threads -> Counts]
      OBVIOUS
    <3>3. op' \in [Threads -> AllOps \cup {"none"}] /\ result' \in [Threads -> Results]
      OBVIOUS
    <3>4. QED
      BY <3>1, <3>2, <3>3
  <2>2. AtomicOwner' /\ QueuedOnce' /\ RetainedWhileBlocked'
    OBVIOUS
  <2>3. CountMatchesQueue' /\ LocalCounts'
    OBVIOUS
  <2>4. QED
    BY <2>1, <2>2, <2>3
<1>6. CASE AllEnter(t)
  BY <1>6 DEF AllEnter, EnterAtomic, Goto
<1>7. CASE AllRead(t)
  BY <1>7 DEF AllRead, Read, Goto
<1>8. CASE AllCas(t)
  BY <1>8 DEF AllCas, CasOk, CasFails, Goto
<1>9. CASE TryRead(t)
  BY <1>9 DEF TryRead, Read, Goto, Slow
<1>10. CASE TryCas(t)
  <2> USE <1>10 DEF TryCas, CasOk, CasFails, Return, Complete, Goto, Slow, Taken, Sub1
  <2>1. TypeOK'
    OBVIOUS
  <2>2. AtomicOwner' /\ QueuedOnce' /\ RetainedWhileBlocked'
    OBVIOUS
  <2>3. CountMatchesQueue' /\ LocalCounts'
    OBVIOUS
  <2>4. QED
    BY <2>1, <2>2, <2>3
<1>11. CASE TryCasOnly(t)
  <2> USE <1>11 DEF TryCasOnly, CasOk, CasFails, Return, Complete, Goto
  <2>1. TypeOK'
    OBVIOUS
  <2>2. AtomicOwner' /\ QueuedOnce' /\ RetainedWhileBlocked'
    OBVIOUS
  <2>3. CountMatchesQueue' /\ LocalCounts'
    OBVIOUS
  <2>4. QED
    BY <2>1, <2>2, <2>3
<1>12. CASE TryEnter(t)
  BY <1>12 DEF TryEnter, EnterAtomic, Goto
<1>13. CASE TryAgain(t)
  <2> USE <1>13 DEF TryAgain, Return, Complete, Goto
  <2>1. TypeOK'
    <3>1. count' \in Counts
      OBVIOUS
    <3>2. pc' \in [Threads -> Pcs] /\ c' \in [Threads -> Counts]
      OBVIOUS
    <3>3. op' \in [Threads -> AllOps \cup {"none"}] /\ result' \in [Threads -> Results]
      OBVIOUS
    <3>4. QED
      BY <3>1, <3>2, <3>3
  <2>2. AtomicOwner' /\ QueuedOnce' /\ RetainedWhileBlocked'
    OBVIOUS
  <2>3. CountMatchesQueue' /\ LocalCounts'
    OBVIOUS
  <2>4. QED
    BY <2>1, <2>2, <2>3
<1>14. CASE TrySet(t)
  BY <1>14 DEF TrySet, Return, Complete, Sub1
<1>15. CASE WaitRead(t)
  BY <1>15 DEF WaitRead, Read, Goto, Slow
<1>16. CASE WaitCas(t)
  BY <1>16 DEF WaitCas, CasOk, CasFails, Return, Complete, Goto, Slow, Sub1
<1>17. CASE WaitCasOnly(t)
  BY <1>17 DEF WaitCasOnly, CasOk, CasFails, Goto
<1>18. CASE WaitEnter(t)
  BY <1>18 DEF WaitEnter, EnterAtomic, Goto
<1>19. CASE PollEnter(t)
  BY <1>19 DEF PollEnter, EnterAtomic, Goto
<1>20. CASE PollRead(t)
  BY <1>20 DEF PollRead, Return, Complete, Goto
<1>21. CASE PollCas(t)
  <2> USE <1>21 DEF PollCas, CasOk, CasFails, Return, Complete, Goto, Sub1
  <2>1. TypeOK'
    OBVIOUS
  <2>2. AtomicOwner' /\ QueuedOnce' /\ RetainedWhileBlocked'
    OBVIOUS
  <2>3. CountMatchesQueue' /\ LocalCounts'
    OBVIOUS
  <2>4. QED
    BY <2>1, <2>2, <2>3
<1>22. QED
  BY <1>1, <1>2, <1>3, <1>4, <1>5, <1>6, <1>7, <1>8, <1>9, <1>10, <1>11, <1>12, <1>13, <1>14, <1>15, <1>16, <1>17, <1>18, <1>19, <1>20, <1>21 DEF LockfreeStep

\* A waiter that joins the queue (ready-nonempty-queue, queue-add!).
LEMMA BlockIInv ==
    ASSUME NEW t \in Threads, IInv, pc[t] \in {"wait_block", "poll_block"},
           Block(t), Goto(t, "queued"), atomic' = NoOne, UNCHANGED <<c, op, result>>
    PROVE  IInv'
<1> USE SemaphoreAssumption DEF IInv, TypeOK, Goto
<1>1. /\ queue' = Append(queue, t)
      /\ queue' \in Seq(Threads)
      /\ Len(queue') = Len(queue) + 1
      /\ \A i \in 1..Len(queue) : queue'[i] = queue[i]
      /\ queue'[Len(queue) + 1] = t
      /\ queue' # <<>>
  BY DEF Block, QueueAdd
<1>2. count' = -1 /\ accessible' = {Self}
  BY DEF Block, CountMatchesQueue, RetainedWhileBlocked, AtomicOwner, AtomicPcs
<1>3. TypeOK'
  BY <1>1, <1>2 DEF Counts, Pcs
<1>4. AtomicOwner'
  BY DEF AtomicOwner, AtomicPcs
<1>5. QueuedOnce'
  <2>1. \A i \in 1..Len(queue) : queue[i] # t
    BY DEF QueuedOnce
  <2>2. \A i, j \in 1..Len(queue') : queue'[i] = queue'[j] => i = j
    BY <1>1, <2>1 DEF QueuedOnce
  <2>3. \A u \in Threads :
          pc'[u] = "queued" <=> \E i \in 1..Len(queue') : queue'[i] = u
    <3> SUFFICES ASSUME NEW u \in Threads
                 PROVE  pc'[u] = "queued" <=> \E i \in 1..Len(queue') : queue'[i] = u
      OBVIOUS
    <3>1. Len(queue) \in Nat /\ 1..Len(queue') = 1..Len(queue) \cup {Len(queue) + 1}
      BY <1>1
    <3>2. CASE u = t
      <4>1. pc'[u] = "queued" /\ Len(queue) + 1 \in 1..Len(queue') /\ queue'[Len(queue) + 1] = u
        BY <1>1, <3>1, <3>2
      <4> QED
        BY <4>1
    <3>3. CASE u # t
      <4>1. pc'[u] = pc[u] /\ queue'[Len(queue) + 1] # u
        BY <1>1, <3>3
      <4>2. (\E i \in 1..Len(queue') : queue'[i] = u) <=> \E i \in 1..Len(queue) : queue[i] = u
        BY <1>1, <3>1, <4>1
      <4> QED
        BY <4>1, <4>2 DEF QueuedOnce
    <3> QED
      BY <3>2, <3>3
  <2>4. QED
    BY <2>2, <2>3 DEF QueuedOnce
<1>6. CountMatchesQueue' /\ RetainedWhileBlocked'
  BY <1>1, <1>2 DEF CountMatchesQueue, RetainedWhileBlocked
<1>7. LocalCounts'
  BY <1>1, <1>2 DEF LocalCounts, AtomicOwner, AtomicPcs, Positive, AtLeastZero
<1>8. QED
  BY <1>3, <1>4, <1>5, <1>6, <1>7

\* A waiter that leaves the queue, by a post or by an interrupt
\* (queue-remove-node!, ready-empty-queue): the rest of the queue stays as it is
\* and the count is -1 exactly if somebody is left.
LEMMA RemoveWaiterProps ==
    ASSUME IInv, NEW i \in 1..Len(queue), RemoveWaiter(i), count = -1
    PROVE  /\ queue' \in Seq(Threads)
           /\ \A j, k \in 1..Len(queue') : queue'[j] = queue'[k] => j = k
           /\ \A u \in Threads : (\E j \in 1..Len(queue') : queue'[j] = u)
                                  <=> u # queue[i] /\ pc[u] = "queued"
           /\ count' \in {0, -1}
           /\ count' = -1 <=> queue' # <<>>
           /\ accessible' = IF queue' = <<>> THEN {} ELSE {Self}
<1> USE DEF IInv, TypeOK, RemoveWaiter, Unretain
<1>1. queue' \in Seq(Threads) /\ Len(queue') = Len(queue) - 1
  BY RemoveAtProps
<1>2. /\ \A j, k \in 1..Len(queue') : queue'[j] = queue'[k] => j = k
      /\ \A u : (\E j \in 1..Len(queue') : queue'[j] = u)
                   <=> u # queue[i] /\ \E j \in 1..Len(queue) : queue[j] = u
  <2>1. \A j, k \in 1..Len(queue) : queue[j] = queue[k] => j = k
    BY DEF QueuedOnce
  <2>2. queue \in Seq(Threads) /\ queue' = RemoveAt(queue, i)
    OBVIOUS
  <2>3. i \in 1..Len(queue)
    OBVIOUS
  <2>4. QED
    <3>1. /\ \A j, k \in 1..Len(RemoveAt(queue, i)) :
                RemoveAt(queue, i)[j] = RemoveAt(queue, i)[k] => j = k
          /\ \A x : (\E j \in 1..Len(RemoveAt(queue, i)) : RemoveAt(queue, i)[j] = x)
                       <=> x # queue[i] /\ \E j \in 1..Len(queue) : queue[j] = x
      BY ONLY <2>1, <2>2, <2>3, RemoveAtMembers
    <3>2. QED
      BY ONLY <2>2, <3>1
<1>3. queue' = <<>> <=> Len(queue) = 1
  BY <1>1
<1>4. /\ count' \in {0, -1}
      /\ count' = -1 <=> queue' # <<>>
      /\ accessible' = IF queue' = <<>> THEN {} ELSE {Self}
  BY <1>3 DEF RetainedWhileBlocked
<1>5. QED
  BY <1>1, <1>2, <1>4 DEF QueuedOnce

\* A post hands the head of the queue on, or finds the queue empty.
LEMMA PostRemoveIInv ==
    ASSUME NEW t \in Threads, IInv, PostRemove(t)
    PROVE  IInv'
<1> USE SemaphoreAssumption DEF IInv, TypeOK
<1>1. pc[t] = "post_remove" /\ atomic = t
  BY DEF PostRemove, AtomicOwner, AtomicPcs
<1>2. CASE queue = <<>>
  <2>1. count # -1
    BY <1>2 DEF CountMatchesQueue
  <2>2. AtLeastZero(count)
    BY <2>1 DEF Counts, AtLeastZero, Positive
  <2>3. TypeOK' /\ AtomicOwner' /\ QueuedOnce'
    BY <1>1, <1>2 DEF PostRemove, Goto, Pcs, AtomicPcs, AtomicOwner, QueuedOnce
  <2>4. CountMatchesQueue' /\ RetainedWhileBlocked' /\ LocalCounts'
    BY <1>1, <1>2, <2>2 DEF PostRemove, Goto, CountMatchesQueue, RetainedWhileBlocked,
      LocalCounts, AtLeastZero, Positive
  <2>5. QED
    BY <2>3, <2>4
<1>3. CASE queue # <<>>
  <2> DEFINE w == Head(queue)
             done == IF OnlyPeeks(w) THEN {w} ELSE {w, t}
  <2>1. count = -1
    BY <1>1, <1>3 DEF CountMatchesQueue, AtomicOwner, AtomicPcs
  <2>2. 1 \in 1..Len(queue) /\ w = queue[1] /\ w \in Threads /\ pc[w] = "queued"
    BY <1>3 DEF QueuedOnce
  <2>3. /\ RemoveWaiter(1)
        /\ pc' = [u \in Threads |-> IF u \in done THEN "idle" ELSE pc[u]]
        /\ result' = [u \in Threads |-> IF u \in done THEN "ok" ELSE result[u]]
        /\ op' = [u \in Threads |-> IF u \in done THEN "none" ELSE op[u]]
        /\ atomic' = IF OnlyPeeks(w) THEN t ELSE NoOne
        /\ c' = [c EXCEPT ![t] = 0]
    BY <1>1, <1>3 DEF PostRemove, Complete
  <2>4. /\ queue' \in Seq(Threads)
        /\ \A j, k \in 1..Len(queue') : queue'[j] = queue'[k] => j = k
        /\ \A u \in Threads : (\E j \in 1..Len(queue') : queue'[j] = u)
                               <=> u # w /\ pc[u] = "queued"
        /\ count' \in {0, -1}
        /\ count' = -1 <=> queue' # <<>>
        /\ accessible' = IF queue' = <<>> THEN {} ELSE {Self}
    BY <2>1, <2>2, <2>3, RemoveWaiterProps
  <2> HIDE DEF w
  <2>5. TypeOK'
    BY <2>3, <2>4 DEF Counts, Pcs, Results
  <2>6. AtomicOwner'
    BY <1>1, <2>2, <2>3 DEF AtomicOwner, AtomicPcs
  <2>7. QueuedOnce'
    BY <1>1, <2>2, <2>3, <2>4 DEF QueuedOnce
  <2>8. CountMatchesQueue' /\ RetainedWhileBlocked'
    BY <2>4 DEF CountMatchesQueue, RetainedWhileBlocked
  <2>9. LocalCounts'
    BY <1>1, <2>2, <2>3, <2>4 DEF LocalCounts, AtomicOwner, AtomicPcs, Positive, AtLeastZero
  <2>10. QED
    BY <2>5, <2>6, <2>7, <2>8, <2>9
<1>4. QED
  BY <1>2, <1>3

\* semaphore-post-all wakes everyone in the queue.
LEMMA AllWakeIInv ==
    ASSUME NEW t \in Threads, IInv, AllWake(t)
    PROVE  IInv'
<1> USE SemaphoreAssumption DEF IInv, TypeOK
<1>1. pc[t] = "all_wake" /\ atomic = t /\ count = Inf
  BY DEF AllWake, AtomicOwner, AtomicPcs, LocalCounts
<1>2. \A u \in Threads : pc'[u] = IF pc[u] = "queued" \/ u = t THEN "idle" ELSE pc[u]
  BY DEF AllWake, Complete, QueuedOnce
<1>3. TypeOK'
  BY DEF AllWake, Complete, Unretain, Counts, Pcs, Results
<1>4. queue' = <<>> /\ count' = Inf /\ accessible' = {} /\ atomic' = NoOne
  BY <1>1 DEF AllWake, Unretain
<1>5. AtomicOwner'
  BY <1>1, <1>2, <1>4 DEF AtomicOwner, AtomicPcs
<1>6. QueuedOnce' /\ CountMatchesQueue' /\ RetainedWhileBlocked'
  BY <1>2, <1>4 DEF QueuedOnce, CountMatchesQueue, RetainedWhileBlocked
<1>7. LocalCounts'
  BY <1>1, <1>2, <1>4 DEF AllWake, LocalCounts, Positive, AtLeastZero
<1>8. QED
  BY <1>3, <1>5, <1>6, <1>7

\* The two blocking steps: either the waiter joins the queue or it tries again.
LEMMA WaitPollBlockIInv ==
    ASSUME NEW t \in Threads, IInv, WaitBlock(t) \/ PollBlock(t)
    PROVE  IInv'
<1>1. CASE Block(t) /\ Goto(t, "queued") /\ atomic' = NoOne /\ UNCHANGED <<c, op, result>>
  BY <1>1, BlockIInv DEF WaitBlock, PollBlock
<1>2. CASE /\ UNCHANGED <<count, queue, accessible, c, op, result>>
           /\ \/ pc[t] = "wait_block" /\ Goto(t, "wait_read") /\ atomic' = NoOne
              \/ pc[t] = "poll_block" /\ Goto(t, "poll_read") /\ atomic' = atomic
  BY <1>2, SemaphoreAssumption DEF IInv, TypeOK, AtomicOwner, QueuedOnce, CountMatchesQueue,
    RetainedWhileBlocked, LocalCounts, Pcs, PlainPcs, AtomicPcs, Goto
<1>3. QED
  BY <1>1, <1>2 DEF WaitBlock, PollBlock, Goto

\* A break, kill or suspend takes a waiter out of the queue.
LEMMA InterruptIInv ==
    ASSUME IInv, NEW i \in 1..Len(queue), Interrupt(i)
    PROVE  IInv'
<1> USE SemaphoreAssumption DEF IInv, TypeOK
<1> DEFINE w == queue[i]
<1>1. atomic = NoOne /\ w \in Threads /\ pc[w] = "queued"
  BY DEF Interrupt, QueuedOnce
<1>2. count = -1
  BY <1>1 DEF CountMatchesQueue, AtomicOwner, AtomicPcs
<1>3. /\ queue' \in Seq(Threads)
      /\ \A j, k \in 1..Len(queue') : queue'[j] = queue'[k] => j = k
      /\ \A u \in Threads : (\E j \in 1..Len(queue') : queue'[j] = u)
                             <=> u # w /\ pc[u] = "queued"
      /\ count' \in {0, -1}
      /\ count' = -1 <=> queue' # <<>>
      /\ accessible' = IF queue' = <<>> THEN {} ELSE {Self}
  BY <1>2, RemoveWaiterProps DEF Interrupt
<1> DEFINE l == Entry(op[w])
<1>4. l \in PlainPcs
  BY DEF Entry, PlainPcs
<1>5. pc' = [pc EXCEPT ![w] = l] /\ UNCHANGED <<atomic, c, op, result>>
  BY DEF Interrupt
<1> HIDE DEF w, l
<1>6. TypeOK'
  BY <1>1, <1>3, <1>4, <1>5 DEF Counts, Pcs
<1>7. AtomicOwner' /\ QueuedOnce'
  BY <1>1, <1>3, <1>4, <1>5 DEF AtomicOwner, QueuedOnce, PlainPcs, AtomicPcs
<1>8. CountMatchesQueue' /\ RetainedWhileBlocked'
  BY <1>3 DEF CountMatchesQueue, RetainedWhileBlocked
<1>9. LocalCounts'
  <2>1. l \notin {"post_cas", "try_cas", "wait_cas", "poll_cas"}
    BY DEF l, Entry
  <2>2. QED
    BY <1>1, <1>3, <1>4, <1>5, <2>1 DEF LocalCounts, AtomicOwner, PlainPcs, AtomicPcs,
      Positive, AtLeastZero
<1>10. QED
  BY <1>6, <1>7, <1>8, <1>9

\* Calling an operation, and giving one up, change the caller's control point.
LEMMA StartAbortIInv ==
    ASSUME NEW t \in Threads, IInv, Abort(t) \/ \E o \in Ops : Start(t, o)
    PROVE  IInv'
<1> USE SemaphoreAssumption DEF IInv, TypeOK, AtomicOwner, QueuedOnce, CountMatchesQueue,
      RetainedWhileBlocked, LocalCounts, Pcs, PlainPcs, AtomicPcs, Positive, AtLeastZero
<1>1. CASE Abort(t)
  BY <1>1 DEF Abort, Return, Complete, Counts, Results
<1>2. ASSUME NEW o \in Ops, Start(t, o)
      PROVE  IInv'
  <2>1. Entry(o) \in PlainPcs \ {"post_cas", "try_cas", "wait_cas"}
    BY DEF Entry
  <2>2. QED
    BY <1>2, <2>1 DEF Start, Goto, Results
<1>3. QED
  BY <1>1, <1>2

LEMMA NextIInv == IInv /\ [Next]_vars => IInv'
<1> SUFFICES ASSUME IInv, [Next]_vars PROVE IInv'
  OBVIOUS
<1>1. ASSUME NEW t \in Threads, Step(t) PROVE IInv'
  <2>1. LockfreeStep(t) \/ PostRemove(t) \/ AllWake(t) \/ WaitBlock(t) \/ PollBlock(t)
    BY <1>1 DEF Step, LockfreeStep
  <2>2. QED
    BY <2>1, LockfreeIInv, PostRemoveIInv, AllWakeIInv, WaitPollBlockIInv
<1>2. ASSUME NEW t \in Threads, Abort(t) \/ \E o \in Ops : Start(t, o) PROVE IInv'
  BY <1>2, StartAbortIInv
<1>3. ASSUME NEW i \in 1..Len(queue), Interrupt(i) PROVE IInv'
  BY <1>3, InterruptIInv
<1>4. CASE UNCHANGED vars
  BY <1>4 DEF vars, IInv, TypeOK, AtomicOwner, QueuedOnce, CountMatchesQueue,
    RetainedWhileBlocked, LocalCounts
<1>5. QED
  BY <1>1, <1>2, <1>3, <1>4 DEF Next

LEMMA SpecIInv == Spec => []IInv
  BY InitIInv, NextIInv, PTL DEF Spec

\* Every reachable state of the semaphore is well typed: the count is -1, a
\* natural number or +inf.0, whatever the lock-free paths do to it.
THEOREM TypeCorrect == Spec => []TypeOK
  BY SpecIInv, PTL DEF IInv

\* Atomic sections exclude each other.
THEOREM AtomicSections == Spec => []AtomicOwner
  BY SpecIInv, PTL DEF IInv

\* A thread is in the queue exactly while it is blocked, and only once.
THEOREM QueueMembership == Spec => []QueuedOnce
  BY SpecIInv, PTL DEF IInv

\* The count is -1 exactly while waiters are queued, except in the middle of
\* semaphore-post-all: nobody is left blocked on a positive count.
THEOREM NoWaiterLeftBehind == Spec => []CountMatchesQueue
  BY SpecIInv, PTL DEF IInv

\* A custodian-accessible semaphore is retained exactly while someone waits.
THEOREM Retained == Spec => []RetainedWhileBlocked
  BY SpecIInv, PTL DEF IInv
-----------------------------------------------------------------------------
(* The refinement of FifoSemaphore. *)

\* Which operation a thread is in the middle of at each control point.
OpOK ==
    \A t \in Threads :
        /\ pc[t] \in {"post_read", "post_cas", "post_u", "post_enter", "post_remove", "post_count"}
               => op[t] = "post"
        /\ pc[t] \in {"all_enter", "all_read", "all_cas", "all_wake"} => op[t] = "postall"
        /\ pc[t] \in {"try_read", "try_cas", "try_u", "try_enter", "try_again", "try_set"}
               => op[t] \in {"try", "trypeek"} \cap Ops
        /\ pc[t] \in {"wait_read", "wait_cas", "wait_u", "wait_enter", "wait_block"} => op[t] = "wait"
        /\ pc[t] \in {"poll_enter", "poll_read"} => op[t] \in {"sync", "peek", "poll"}
        /\ pc[t] = "poll_cas" => op[t] \in {"sync", "poll"}
        /\ pc[t] = "poll_block" => op[t] \in {"sync", "peek"}
        /\ pc[t] = "queued" => op[t] \in {"wait", "sync", "peek"}
        /\ pc[t] = "try_set" => op[t] = "try"
        /\ pc[t] = "try_u" => t \in Uninterruptible

RInv == IInv /\ OpOK

LEMMA InitOpOK == Init => OpOK
  BY DEF Init, OpOK

LEMMA EntryOp ==
    ASSUME NEW o \in AllOps
    PROVE  /\ o = "post" => Entry(o) = "post_read"
           /\ o = "postall" => Entry(o) = "all_enter"
           /\ o \in {"try", "trypeek"} => Entry(o) = "try_read"
           /\ o = "wait" => Entry(o) = "wait_read"
           /\ o \in {"sync", "peek", "poll"} => Entry(o) = "poll_enter"
  BY DEF Entry, AllOps

LEMMA NextOpOK == RInv /\ [Next]_vars => OpOK'
<1> SUFFICES ASSUME RInv, [Next]_vars PROVE OpOK'
  OBVIOUS
<1> USE SemaphoreAssumption
<1>1. IInv /\ TypeOK /\ OpOK
  BY DEF RInv, IInv
<1>2. ASSUME NEW t \in Threads, LockfreeStep(t) PROVE OpOK'
  <2> USE <1>1 DEF TypeOK, OpOK, Goto
  <2>1. CASE PostRead(t) \/ TryRead(t) \/ WaitRead(t) \/ AllRead(t)
    BY <2>1 DEF PostRead, TryRead, WaitRead, AllRead, Read, Slow
  <2>2. CASE PostEnter(t) \/ TryEnter(t) \/ WaitEnter(t) \/ AllEnter(t) \/ PollEnter(t)
    BY <2>2 DEF PostEnter, TryEnter, WaitEnter, AllEnter, PollEnter, EnterAtomic
  <2>3. CASE PostCas(t) \/ PostCount(t) \/ PostCasOnly(t) \/ AllCas(t)
    BY <2>3 DEF PostCas, PostCount, PostCasOnly, AllCas, Return, Complete, Slow
  <2>4. CASE TryCas(t) \/ TryCasOnly(t) \/ TryAgain(t) \/ TrySet(t)
    BY <2>4 DEF TryCas, TryCasOnly, TryAgain, TrySet, Return, Complete, Slow
  <2>5. CASE WaitCas(t) \/ WaitCasOnly(t)
    BY <2>5 DEF WaitCas, WaitCasOnly, Return, Complete, Slow
  <2>6. CASE PollRead(t) \/ PollCas(t)
    BY <2>6 DEF PollRead, PollCas, Return, Complete
  <2> QED
    BY <1>2, <2>1, <2>2, <2>3, <2>4, <2>5, <2>6 DEF LockfreeStep
<1>3. ASSUME NEW t \in Threads, PostRemove(t) \/ AllWake(t) PROVE OpOK'
  BY <1>1, <1>3 DEF TypeOK, OpOK, Goto, PostRemove, AllWake, Complete
<1>4. ASSUME NEW t \in Threads, WaitBlock(t) \/ PollBlock(t) PROVE OpOK'
  BY <1>1, <1>4 DEF TypeOK, OpOK, Goto, WaitBlock, PollBlock
<1>5. ASSUME NEW t \in Threads, Abort(t) PROVE OpOK'
  BY <1>1, <1>5 DEF TypeOK, OpOK, Abort, Return, Complete
<1>6. ASSUME NEW t \in Threads, NEW o \in Ops, Start(t, o) PROVE OpOK'
  <2>1. pc' = [pc EXCEPT ![t] = Entry(o)] /\ op' = [op EXCEPT ![t] = o]
    BY <1>6 DEF Start, Goto
  <2> QED
    BY <1>1, <2>1, EntryOp DEF TypeOK, OpOK, AllOps
<1>7. ASSUME NEW i \in 1..Len(queue), Interrupt(i) PROVE OpOK'
  <2>1. queue[i] \in Threads /\ pc[queue[i]] = "queued"
    BY <1>1 DEF IInv, TypeOK, QueuedOnce
  <2>2. op[queue[i]] \in {"wait", "sync", "peek"}
    BY <1>1, <2>1 DEF OpOK
  <2>3. Entry(op[queue[i]]) = IF op[queue[i]] = "wait" THEN "wait_read" ELSE "poll_enter"
    BY <2>2, EntryOp DEF AllOps
  <2>4. pc' = [pc EXCEPT ![queue[i]] = Entry(op[queue[i]])] /\ op' = op
    BY <1>7 DEF Interrupt
  <2> QED
    BY <1>1, <2>1, <2>2, <2>3, <2>4 DEF TypeOK, OpOK
<1>8. CASE UNCHANGED vars
  BY <1>1, <1>8 DEF vars, OpOK
<1> QED
  BY <1>2, <1>3, <1>4, <1>5, <1>6, <1>7, <1>8 DEF Next, Step, LockfreeStep

LEMMA SpecRInv == Spec => []RInv
<1>1. Init => RInv
  BY InitIInv, InitOpOK DEF RInv
<1>2. RInv /\ [Next]_vars => RInv'
  BY NextIInv, NextOpOK DEF RInv
<1> QED
  BY <1>1, <1>2, PTL DEF Spec

\* The operations that the refinement is about.  semaphore-try-wait? is left out
\* because its store in atomic mode may undo what a lock-free path did since the
\* count was read; in uninterruptible mode, unsafe-semaphore-try-peek? may say
\* that there is no unit although one has come back.
FifoOps == "try" \notin Ops /\ (Uninterruptible = {} \/ "trypeek" \notin Ops)

FifoStep == Fifo!ANext \/ UNCHANGED <<Value, Line, Phase, Called, Outcome>>

Active == Pcs \ {"idle", "queued", "all_wake"}

\* What the mapping says of a thread that is not queued and of the counter.
LEMMA Mapping ==
    ASSUME RInv
    PROVE  /\ \A t \in Threads : pc[t] \in Active =>
                ~Woken(t) /\ Phase[t] = "active" /\ Called[t] = op[t] /\ Outcome[t] = result[t]
           /\ \A t \in Threads : pc[t] = "idle" =>
                ~Woken(t) /\ Phase[t] = "idle" /\ Called[t] = op[t] /\ Outcome[t] = result[t]
           /\ \A t \in Threads : pc[t] = "queued" /\ count # Inf =>
                ~Woken(t) /\ Phase[t] = "lined" /\ Called[t] = op[t]
           /\ AtLeastZero(count) => Value = count /\ Line = <<>>
           /\ ~Positive(count) => Value = 0 /\ Line = queue /\ count # Inf
<1> USE SemaphoreAssumption DEF RInv, IInv, TypeOK, Counts
<1>1. \A t \in Threads : pc[t] \in Active \cup {"idle"} => ~Woken(t)
  BY DEF Woken, Active
<1>2. \A t \in Threads : pc[t] = "queued" /\ count # Inf => ~Woken(t)
  BY DEF Woken
<1>3. /\ AtLeastZero(count) => Value = count /\ Line = <<>>
      /\ ~Positive(count) => Value = 0 /\ Line = queue /\ count # Inf
  BY DEF AtLeastZero, Positive, Value, Line, CountMatchesQueue
<1> QED
  BY <1>1, <1>2, <1>3 DEF Phase, Called, Outcome, Active

\* A thread goes on with its operation, and nobody sees it.
LEMMA GoesOn ==
    ASSUME RInv, NEW t \in Threads, NEW l \in Active, pc[t] \in Active,
           pc' = [pc EXCEPT ![t] = l], UNCHANGED <<count, queue, op, result>>
    PROVE  UNCHANGED <<Value, Line, Phase, Called, Outcome>>
<1>1. \A u \in Threads : pc'[u] = pc[u] \/ (u = t /\ pc[u] \in Active /\ pc'[u] \in Active)
  BY DEF RInv, IInv, TypeOK
<1>2. \A u \in Threads : Woken(u)' <=> Woken(u)
  BY <1>1 DEF Woken, Active
<1>3. Phase' = Phase
  BY <1>1, <1>2 DEF Phase, Active
<1>4. Called' = Called /\ Outcome' = Outcome
  BY <1>2 DEF Called, Outcome
<1> QED
  BY <1>3, <1>4 DEF Value, Line

\* Operations that end in one step do so in the abstract semaphore.
LEMMA Finishes ==
    ASSUME RInv, NEW S \in SUBSET Threads, NEW r, Complete(S, r),
           \A u \in Threads \ S : Woken(u)' <=> Woken(u)
    PROVE  Fifo!Finish(S, r)
<1>1. \A u \in Threads : /\ pc'[u] = IF u \in S THEN "idle" ELSE pc[u]
                         /\ op'[u] = IF u \in S THEN "none" ELSE op[u]
                         /\ result'[u] = IF u \in S THEN r ELSE result[u]
  BY DEF Complete
<1>2. \A u \in S : ~Woken(u)'
  BY <1>1 DEF Woken
<1>3. Phase' = [u \in Threads |-> IF u \in S THEN "idle" ELSE Phase[u]]
  BY <1>1, <1>2 DEF Phase
<1>4. Outcome' = [u \in Threads |-> IF u \in S THEN r ELSE Outcome[u]]
  BY <1>1, <1>2 DEF Outcome
<1>5. Called' = [u \in Threads |-> IF u \in S THEN "none" ELSE Called[u]]
  BY <1>1, <1>2 DEF Called
<1> QED
  BY <1>3, <1>4, <1>5 DEF Fifo!Finish

LEMMA Returns ==
    ASSUME RInv, NEW t \in Threads, NEW r, Return(t, r), count' = Inf <=> count = Inf
    PROVE  Fifo!Finish({t}, r)
<1>1. Complete({t}, r) /\ {t} \in SUBSET Threads
  BY DEF Return
<1>2. \A u \in Threads \ {t} : pc'[u] = pc[u]
  BY <1>1 DEF Complete
<1>3. \A u \in Threads \ {t} : Woken(u)' <=> Woken(u)
  BY <1>2 DEF Woken
<1> QED
  BY <1>1, <1>3, Finishes

\* The counter is changed by a compare-and-set that finds the value c[t] >= 0.
LEMMA CountUpFifo ==
    ASSUME RInv, NEW t \in Threads, pc[t] \in Active, op[t] = "post",
           AtLeastZero(count), count' = Add1(count), Return(t, "ok"), queue' = queue
    PROVE  FifoStep
<1> USE SemaphoreAssumption
<1>1. count \in Nat \cup {Inf}
  BY DEF RInv, IInv, TypeOK, Counts, AtLeastZero, Positive
<1>2. /\ Phase[t] = "active" /\ Called[t] = "post" /\ Value = count /\ Line = <<>>
  BY Mapping
<1>3. (count' = Inf <=> count = Inf) /\ count' # -1
  BY <1>1 DEF Add1
<1>4. Fifo!Finish({t}, "ok")
  BY <1>3, Returns
<1>5. Value' = Fifo!Up(Value) /\ Line' = Line
  BY <1>1, <1>2, <1>3 DEF Value, Line, Add1, Fifo!Up
<1>6. Fifo!CountPost(t)
  BY <1>2, <1>4, <1>5 DEF Fifo!CountPost
<1> QED
  BY <1>6 DEF FifoStep, Fifo!ANext

LEMMA TakeFifo ==
    ASSUME RInv, NEW t \in Threads, pc[t] \in Active, op[t] \in {"wait", "sync", "poll"},
           Positive(count), count' = Sub1(count), Return(t, "ok"), queue' = queue
    PROVE  FifoStep
<1> USE SemaphoreAssumption
<1>1. count \in (Nat \ {0}) \cup {Inf}
  BY DEF RInv, IInv, TypeOK, Counts, Positive
<1>2. /\ Phase[t] = "active" /\ Called[t] = op[t] /\ Value = count /\ Line = <<>>
  BY Mapping DEF AtLeastZero
<1>3. (count' = Inf <=> count = Inf) /\ count' # -1
  BY <1>1 DEF Sub1
<1>4. Fifo!Finish({t}, "ok")
  BY <1>3, Returns
<1>5. queue = <<>> \/ count = Inf
  BY <1>1 DEF RInv, IInv, CountMatchesQueue
<1>6. Value' = Fifo!Down(Value) /\ Line' = Line
  BY <1>1, <1>2, <1>3, <1>5 DEF Value, Line, Sub1, Fifo!Down
<1>7. Fifo!Take(t)
  BY <1>2, <1>4, <1>6 DEF Fifo!Take, Fifo!Consuming, Fifo!Positive, Positive
<1> QED
  BY <1>7 DEF FifoStep, Fifo!ANext

\* An operation that only looks at the counter.
LEMMA LookFifo ==
    ASSUME RInv, NEW t \in Threads, pc[t] \in Active, UNCHANGED <<count, queue>>,
           \/ Return(t, "ok") /\ op[t] \in {"peek", "trypeek"} /\ Positive(count)
           \/ Return(t, "no") /\ op[t] \in {"try", "trypeek", "poll"} /\ ~Positive(count)
           \/ Return(t, "aborted")
    PROVE  FifoStep
<1>1. /\ Phase[t] = "active" /\ Called[t] = op[t]
      /\ Positive(count) => Value = count
      /\ ~Positive(count) => Value = 0
  BY Mapping DEF AtLeastZero
<1>2. Value' = Value /\ Line' = Line
  BY DEF Value, Line
<1>3. CASE Return(t, "ok") /\ op[t] \in {"peek", "trypeek"} /\ Positive(count)
  <2>1. Fifo!Finish({t}, "ok")
    BY <1>3, Returns
  <2>2. Fifo!Peek(t)
    BY <1>1, <1>2, <1>3, <2>1 DEF Fifo!Peek, Fifo!Peeking, Fifo!Positive, Positive
  <2> QED
    BY <2>2 DEF FifoStep, Fifo!ANext
<1>4. CASE Return(t, "no") /\ op[t] \in {"try", "trypeek", "poll"} /\ ~Positive(count)
  <2>1. Fifo!Finish({t}, "no")
    BY <1>4, Returns
  <2>2. Fifo!Refuse(t)
    BY <1>1, <1>2, <1>4, <2>1 DEF Fifo!Refuse, Fifo!Refusing
  <2> QED
    BY <2>2 DEF FifoStep, Fifo!ANext
<1>5. CASE Return(t, "aborted")
  <2>1. Fifo!Finish({t}, "aborted")
    BY <1>5, Returns
  <2>2. Fifo!GiveUp(t)
    BY <1>1, <1>2, <2>1 DEF Fifo!GiveUp
  <2> QED
    BY <2>2 DEF FifoStep, Fifo!ANext
<1> QED
  BY <1>3, <1>4, <1>5

\* The steps that do not touch the queue.
LEMMA LockfreeFifo ==
    ASSUME RInv, FifoOps, NEW t \in Threads, LockfreeStep(t)
    PROVE  FifoStep
<1> USE SemaphoreAssumption
<1>1. TypeOK /\ LocalCounts /\ OpOK
  BY DEF RInv, IInv
<1>2. CASE PostRead(t) \/ TryRead(t) \/ WaitRead(t) \/ AllRead(t)
  <2>1. PICK l \in Active : pc' = [pc EXCEPT ![t] = l]
    BY <1>2 DEF PostRead, TryRead, WaitRead, AllRead, Read, Slow, Goto, Active, Pcs, PlainPcs, AtomicPcs
  <2>2. pc[t] \in Active /\ UNCHANGED <<count, queue, op, result>>
    BY <1>2 DEF PostRead, TryRead, WaitRead, AllRead, Read, Active, Pcs, PlainPcs, AtomicPcs
  <2> QED
    BY <2>1, <2>2, GoesOn DEF FifoStep
<1>3. CASE PostEnter(t) \/ TryEnter(t) \/ WaitEnter(t) \/ AllEnter(t) \/ PollEnter(t)
  <2>1. PICK l \in Active : pc' = [pc EXCEPT ![t] = l]
    BY <1>3 DEF PostEnter, TryEnter, WaitEnter, AllEnter, PollEnter, EnterAtomic, Goto, Active, Pcs,
                PlainPcs, AtomicPcs
  <2>2. pc[t] \in Active /\ UNCHANGED <<count, queue, op, result>>
    BY <1>3 DEF PostEnter, TryEnter, WaitEnter, AllEnter, PollEnter, EnterAtomic, Active, Pcs, PlainPcs,
                AtomicPcs
  <2> QED
    BY <2>1, <2>2, GoesOn DEF FifoStep
<1>4. CASE PostCas(t) \/ PostCount(t)
  <2>1. pc[t] \in Active /\ op[t] = "post" /\ AtLeastZero(c[t]) /\ queue' = queue
    BY <1>1, <1>4 DEF PostCas, PostCount, LocalCounts, OpOK, Active, Pcs, PlainPcs, AtomicPcs
  <2>2. CASE CasOk(c[t], Add1(c[t])) /\ Return(t, "ok")
    BY <2>1, <2>2, CountUpFifo DEF CasOk
  <2>3. CASE /\ CasFails(c[t]) /\ UNCHANGED <<op, result>>
             /\ \E l \in Active : pc' = [pc EXCEPT ![t] = l]
    BY <2>1, <2>3, GoesOn DEF FifoStep, CasFails
  <2> QED
    BY <1>4, <2>2, <2>3 DEF PostCas, PostCount, Goto, Slow, Active, Pcs, PlainPcs, AtomicPcs
<1>5. CASE PostCasOnly(t) \/ WaitCasOnly(t)
  <2>1. PICK l \in Active : pc' = [pc EXCEPT ![t] = l]
    BY <1>5 DEF PostCasOnly, WaitCasOnly, Goto, Active, Pcs, PlainPcs, AtomicPcs
  <2>2. pc[t] \in Active /\ UNCHANGED <<count, queue, op, result>>
    BY <1>5 DEF PostCasOnly, WaitCasOnly, CasOk, CasFails, Active, Pcs, PlainPcs, AtomicPcs
  <2> QED
    BY <2>1, <2>2, GoesOn DEF FifoStep
<1>6. CASE TryCas(t)
  <2>1. pc[t] \in Active /\ op[t] = "trypeek" /\ Positive(c[t]) /\ queue' = queue
    BY <1>1, <1>6 DEF TryCas, LocalCounts, OpOK, FifoOps, Active, Pcs, PlainPcs, AtomicPcs
  <2>2. CASE CasOk(c[t], Taken(t, c[t])) /\ Return(t, "ok")
    BY <2>1, <2>2, LookFifo DEF CasOk, Taken
  <2>3. CASE CasFails(c[t]) /\ Goto(t, Slow(t, "try_u", "try_enter")) /\ UNCHANGED <<c, op, result>>
    <3>1. PICK l \in Active : pc' = [pc EXCEPT ![t] = l]
      BY <2>3 DEF Goto, Slow, Active, Pcs, PlainPcs, AtomicPcs
    <3> QED
      BY <2>1, <2>3, <3>1, GoesOn DEF FifoStep, CasFails
  <2> QED
    BY <1>6, <2>2, <2>3 DEF TryCas
<1>7. CASE TryCasOnly(t)
  BY <1>1, <1>7 DEF TryCasOnly, OpOK, FifoOps
<1>8. CASE TryAgain(t)
  <2>1. pc[t] \in Active /\ op[t] = "trypeek" /\ UNCHANGED <<count, queue>>
    BY <1>1, <1>8 DEF TryAgain, OpOK, FifoOps, Active, Pcs, AtomicPcs
  <2>2. Return(t, IF Positive(count) THEN "ok" ELSE "no")
    BY <1>8, <2>1 DEF TryAgain
  <2> QED
    BY <2>1, <2>2, LookFifo
<1>9. CASE TrySet(t)
  BY <1>1, <1>9 DEF TrySet, OpOK, FifoOps
<1>10. CASE WaitCas(t) \/ PollCas(t)
  <2>1. pc[t] \in Active /\ op[t] \in {"wait", "sync", "poll"} /\ Positive(c[t]) /\ queue' = queue
    BY <1>1, <1>10 DEF WaitCas, PollCas, LocalCounts, OpOK, Active, Pcs, PlainPcs, AtomicPcs
  <2>2. CASE CasOk(c[t], Sub1(c[t])) /\ Return(t, "ok")
    BY <2>1, <2>2, TakeFifo DEF CasOk
  <2>3. CASE /\ CasFails(c[t]) /\ UNCHANGED <<op, result>>
             /\ \E l \in Active : pc' = [pc EXCEPT ![t] = l]
    BY <2>1, <2>3, GoesOn DEF FifoStep, CasFails
  <2> QED
    BY <1>10, <2>2, <2>3 DEF WaitCas, PollCas, Goto, Slow, Active, Pcs, PlainPcs, AtomicPcs
<1>11. CASE PollRead(t)
  <2>1. pc[t] \in Active /\ UNCHANGED <<count, queue>> /\ op[t] \in {"sync", "peek", "poll"}
    BY <1>1, <1>11 DEF PollRead, OpOK, Active, Pcs, AtomicPcs
  <2>2. CASE Positive(count) /\ op[t] = "peek" /\ Return(t, "ok")
    BY <2>1, <2>2, LookFifo
  <2>3. CASE ~Positive(count) /\ op[t] = "poll" /\ Return(t, "no")
    BY <2>1, <2>3, LookFifo
  <2>4. CASE UNCHANGED <<op, result>> /\ \E l \in Active : pc' = [pc EXCEPT ![t] = l]
    BY <2>1, <2>4, GoesOn DEF FifoStep
  <2> QED
    BY <1>11, <2>2, <2>3, <2>4 DEF PollRead, Goto, Active, Pcs, AtomicPcs
<1>12. CASE AllCas(t)
  <2>1. pc[t] = "all_cas" /\ pc[t] \in Active /\ op[t] = "postall" /\ atomic = t
        /\ UNCHANGED <<queue, op, result>>
    BY <1>1, <1>12 DEF AllCas, OpOK, Active, Pcs, AtomicPcs, RInv, IInv, AtomicOwner
  <2>2. CASE CasFails(c[t]) /\ Goto(t, "all_read")
    BY <2>1, <2>2, GoesOn DEF FifoStep, CasFails, Goto, Active, Pcs, AtomicPcs
  <2>3. CASE CasOk(c[t], Inf) /\ Goto(t, "all_wake")
    <3>1. \A u \in Threads : pc'[u] = IF u = t THEN "all_wake" ELSE pc[u]
      BY <1>1, <2>3 DEF Goto, TypeOK
    <3>2. count' = Inf /\ Value' = Inf /\ Line' = <<>>
      BY <2>3 DEF CasOk, Value, Line
    <3>3. \A u \in Threads : Woken(u)' <=> u = t \/ pc[u] = "queued"
      BY <1>1, <2>1, <3>1, <3>2 DEF Woken, RInv, IInv, AtomicOwner, AtomicPcs
    <3>4. \A u \in Threads : Woken(u) => pc[u] = "queued"
      BY <2>1 DEF Woken, RInv, IInv, AtomicOwner, AtomicPcs
    <3>5. count = Inf => \A u \in Threads : pc[u] # "queued"
      BY <1>1, <2>1 DEF RInv, IInv, CountMatchesQueue, AtomicOwner, AtomicPcs, QueuedOnce, TypeOK
    <3>6. {Line[i] : i \in 1..Len(Line)} = {u \in Threads : pc[u] = "queued"}
      <4>1. CASE count = Inf
        BY <3>5, <4>1 DEF Line
      <4>2. CASE count # Inf
        <5>1. Line = queue
          BY <4>2 DEF Line
        <5> QED
          BY <1>1, <5>1 DEF RInv, IInv, QueuedOnce, TypeOK
      <4> QED
        BY <4>1, <4>2
    <3> DEFINE S == {t} \cup {u \in Threads : pc[u] = "queued"}
    <3>7. Phase' = [u \in Threads |-> IF u \in S THEN "idle" ELSE Phase[u]]
      BY <3>1, <3>3, <3>4 DEF Phase
    <3>8. Outcome' = [u \in Threads |-> IF u \in S THEN "ok" ELSE Outcome[u]]
      BY <2>1, <3>3, <3>4 DEF Outcome
    <3>9. Called' = [u \in Threads |-> IF u \in S THEN "none" ELSE Called[u]]
      BY <2>1, <3>3, <3>4 DEF Called
    <3>10. Fifo!Finish({t} \cup {Line[i] : i \in 1..Len(Line)}, "ok")
      BY <3>6, <3>7, <3>8, <3>9 DEF Fifo!Finish
    <3>11. Fifo!PostAll(t)
      BY <2>1, <3>2, <3>10, Mapping DEF Fifo!PostAll
    <3> QED
      BY <3>11 DEF FifoStep, Fifo!ANext
  <2> QED
    BY <1>12, <2>2, <2>3 DEF AllCas
<1> QED
  BY <1>2, <1>3, <1>4, <1>5, <1>6, <1>7, <1>8, <1>9, <1>10, <1>11, <1>12 DEF LockfreeStep

\* Everyone whom semaphore-post-all wakes has had its result since the
\* compare-and-set.
LEMMA AllWakeFifo ==
    ASSUME RInv, NEW t \in Threads, AllWake(t)
    PROVE  FifoStep
<1>1. pc[t] = "all_wake" /\ atomic = t /\ count = Inf /\ count' = Inf
  BY DEF AllWake, RInv, IInv, AtomicOwner, AtomicPcs, LocalCounts
<1> DEFINE S == {t} \cup {queue[i] : i \in 1..Len(queue)}
<1>2. Complete(S, "ok") /\ \A u \in Threads : u \in S <=> u = t \/ pc[u] = "queued"
  BY DEF AllWake, RInv, IInv, TypeOK, QueuedOnce
<1> HIDE DEF S
<1>3. \A u \in Threads : Woken(u) <=> u \in S
  BY <1>1, <1>2 DEF Woken, RInv, IInv, AtomicOwner, AtomicPcs
<1>4. \A u \in Threads : /\ pc'[u] = IF u \in S THEN "idle" ELSE pc[u]
                         /\ op'[u] = IF u \in S THEN "none" ELSE op[u]
                         /\ result'[u] = IF u \in S THEN "ok" ELSE result[u]
  BY <1>2 DEF Complete
<1>5. \A u \in Threads : ~Woken(u)'
  BY <1>2, <1>3, <1>4 DEF Woken
<1>6. Phase' = Phase
  BY <1>3, <1>4, <1>5 DEF Phase
<1>7. Called' = Called /\ Outcome' = Outcome
  BY <1>3, <1>4, <1>5 DEF Called, Outcome
<1>8. Value' = Value /\ Line' = Line
  BY <1>1 DEF Value, Line
<1> QED
  BY <1>6, <1>7, <1>8 DEF FifoStep

\* A post hands its unit to the head of the line, or lets a peeking one go.
LEMMA PostRemoveFifo ==
    ASSUME RInv, NEW t \in Threads, PostRemove(t)
    PROVE  FifoStep
<1> USE SemaphoreAssumption
<1>1. /\ TypeOK /\ pc[t] = "post_remove" /\ pc[t] \in Active /\ op[t] = "post" /\ atomic = t
  BY DEF PostRemove, RInv, IInv, OpOK, AtomicOwner, Active, Pcs, AtomicPcs
<1>2. CASE queue = <<>>
  <2>1. /\ pc' = [pc EXCEPT ![t] = "post_count"] /\ "post_count" \in Active
        /\ UNCHANGED <<count, queue, op, result>>
    BY <1>2 DEF PostRemove, Goto, Active, Pcs, AtomicPcs
  <2> QED
    BY <1>1, <2>1, GoesOn DEF FifoStep
<1>3. CASE queue # <<>>
  <2> DEFINE w == Head(queue)
             done == IF OnlyPeeks(w) THEN {w} ELSE {w, t}
  <2>1. count = -1
    BY <1>1, <1>3 DEF RInv, IInv, CountMatchesQueue, AtomicOwner, AtomicPcs
  <2>2. w \in Threads /\ pc[w] = "queued" /\ w = queue[1] /\ 1 \in 1..Len(queue)
    BY <1>1, <1>3 DEF RInv, IInv, QueuedOnce, TypeOK
  <2>3. RemoveWaiter(1) /\ Complete(done, "ok")
    BY <1>1, <1>3 DEF PostRemove
  <2>4. /\ Value = 0 /\ Line = queue /\ Called[w] = op[w] /\ Phase[t] = "active" /\ Called[t] = "post"
        /\ op[w] \in {"wait", "sync", "peek"}
    BY <1>1, <2>1, <2>2, Mapping DEF Positive, RInv, OpOK
  <2>5. count' \in {0, -1}
    BY <2>1, <2>2, <2>3, RemoveWaiterProps DEF RInv
  <2>6. queue' = Tail(queue)
    <3>1. queue' = RemoveAt(queue, 1) /\ Len(queue) \in Nat \ {0} /\ queue \in Seq(Threads)
      BY <1>1, <2>2, <2>3 DEF RemoveWaiter, TypeOK
    <3>2. /\ queue' \in Seq(Threads) /\ Len(queue') = Len(queue) - 1
          /\ \A j \in 1..(Len(queue) - 1) : queue'[j] = queue[j + 1]
      <4>1. /\ queue' \in Seq(Threads) /\ Len(queue') = Len(queue) - 1
            /\ \A j \in 1..(Len(queue) - 1) : queue'[j] = IF j < 1 THEN queue[j] ELSE queue[j + 1]
        BY <2>2, <3>1, RemoveAtProps
      <4> QED
        BY <3>1, <4>1
    <3>3. /\ Tail(queue) \in Seq(Threads) /\ Len(Tail(queue)) = Len(queue) - 1
          /\ \A j \in 1..(Len(queue) - 1) : Tail(queue)[j] = queue[j + 1]
      BY <1>3, <3>1
    <3> QED
      BY <3>2, <3>3, SeqEqual
  <2>7. Value' = Value /\ Line' = Tail(Line)
    <3>1. Value' = 0 /\ count' # Inf
      BY <2>5 DEF Value
    <3>2. Line' = queue'
      BY <3>1 DEF Line
    <3> QED
      BY <2>4, <2>6, <3>1, <3>2
  <2>8. \A u \in Threads \ done : pc'[u] = pc[u]
    BY <2>3 DEF Complete
  <2>9. \A u \in Threads \ done : Woken(u)' <=> Woken(u)
    BY <2>1, <2>5, <2>8 DEF Woken
  <2>10. done \in SUBSET Threads
    BY <2>2
  <2>11. Fifo!Finish(done, "ok")
    BY <2>3, <2>9, <2>10, Finishes
  <2>12. CASE OnlyPeeks(w)
    <3>1. Fifo!ReleasePeek(t)
      BY <1>3, <2>4, <2>7, <2>11, <2>12 DEF Fifo!ReleasePeek, Fifo!Peeking, OnlyPeeks
    <3> QED
      BY <3>1 DEF FifoStep, Fifo!ANext
  <2>13. CASE ~OnlyPeeks(w)
    <3>1. {t, Head(Line)} = done
      BY <2>4, <2>13
    <3>2. Fifo!HandOff(t)
      BY <1>3, <2>4, <2>7, <2>11, <2>13, <3>1 DEF Fifo!HandOff, Fifo!Consuming, OnlyPeeks
    <3> QED
      BY <3>2 DEF FifoStep, Fifo!ANext
  <2> QED
    BY <2>12, <2>13
<1> QED
  BY <1>2, <1>3

\* A waiter joins the line, or tries again.
LEMMA BlockFifo ==
    ASSUME RInv, NEW t \in Threads, WaitBlock(t) \/ PollBlock(t)
    PROVE  FifoStep
<1> USE SemaphoreAssumption
<1>1. TypeOK /\ pc[t] \in {"wait_block", "poll_block"} /\ pc[t] \in Active
      /\ op[t] \in {"wait", "sync", "peek"} /\ atomic = t /\ UNCHANGED <<op, result>>
  BY DEF WaitBlock, PollBlock, RInv, IInv, OpOK, AtomicOwner, Active, Pcs, AtomicPcs
<1>2. CASE Block(t) /\ Goto(t, "queued")
  <2>1. queue' = Append(queue, t) /\ count \in {0, -1} /\ count' = -1
    BY <1>1, <1>2 DEF Block, QueueAdd, RInv, IInv, CountMatchesQueue, AtomicOwner, AtomicPcs
  <2>2. Value = 0 /\ Line = queue /\ count # Inf /\ Phase[t] = "active" /\ Called[t] = op[t]
    BY <1>1, <2>1, Mapping DEF Positive
  <2>3. Value' = Value /\ Line' = Append(Line, t)
    BY <2>1, <2>2 DEF Value, Line
  <2>4. \A u \in Threads : pc'[u] = IF u = t THEN "queued" ELSE pc[u]
    BY <1>1, <1>2 DEF Goto, TypeOK
  <2>5. \A u \in Threads : ~Woken(u) /\ ~Woken(u)'
    BY <1>1, <2>1, <2>2, <2>4 DEF Woken, RInv, IInv, AtomicOwner, AtomicPcs
  <2>6. Phase' = [Phase EXCEPT ![t] = "lined"]
    BY <2>4, <2>5 DEF Phase
  <2>7. Called' = Called /\ Outcome' = Outcome
    BY <1>1, <2>5 DEF Called, Outcome
  <2>8. Fifo!Enqueue(t)
    BY <1>1, <2>2, <2>3, <2>6, <2>7 DEF Fifo!Enqueue, Fifo!Blocking
  <2> QED
    BY <2>8 DEF FifoStep, Fifo!ANext
<1>3. CASE UNCHANGED <<count, queue>> /\ \E l \in Active : pc' = [pc EXCEPT ![t] = l]
  BY <1>1, <1>3, GoesOn DEF FifoStep
<1> QED
  BY <1>2, <1>3 DEF WaitBlock, PollBlock, Goto, Active, Pcs, PlainPcs, AtomicPcs

\* A break, kill or suspend takes a waiter out of the line.
LEMMA InterruptFifo ==
    ASSUME RInv, NEW i \in 1..Len(queue), Interrupt(i)
    PROVE  FifoStep
<1> USE SemaphoreAssumption
<1> DEFINE w == queue[i]
<1>1. TypeOK /\ w \in Threads /\ pc[w] = "queued" /\ atomic = NoOne /\ UNCHANGED <<op, result>>
      /\ op[w] \in {"wait", "sync", "peek"}
  BY DEF Interrupt, RInv, IInv, TypeOK, QueuedOnce, OpOK
<1>2. count = -1 /\ RemoveWaiter(i)
  BY <1>1 DEF Interrupt, RInv, IInv, CountMatchesQueue, AtomicOwner, AtomicPcs
<1>3. count' \in {0, -1} /\ queue' = RemoveAt(queue, i)
  BY <1>2, RemoveWaiterProps DEF RInv, RemoveWaiter
<1>4. Line = queue /\ Value' = Value /\ Line' = RemoveAt(Line, i)
  BY <1>2, <1>3 DEF Value, Line
<1>5. pc' = [pc EXCEPT ![w] = Entry(op[w])] /\ Entry(op[w]) \in {"wait_read", "poll_enter"}
  BY <1>1, EntryOp DEF Interrupt, AllOps
<1> HIDE DEF w
<1>6. \A u \in Threads : pc'[u] = IF u = w THEN Entry(op[w]) ELSE pc[u]
  BY <1>1, <1>5 DEF TypeOK
<1>7. \A u \in Threads : ~Woken(u) /\ ~Woken(u)'
  BY <1>1, <1>2, <1>3, <1>5, <1>6 DEF Woken, RInv, IInv, AtomicOwner, AtomicPcs
<1>8. Phase' = [Phase EXCEPT ![w] = "active"]
  BY <1>5, <1>6, <1>7 DEF Phase
<1>9. Called' = Called /\ Outcome' = Outcome
  BY <1>1, <1>7 DEF Called, Outcome
<1>10. i \in 1..Len(Line) /\ Line[i] = w
  BY <1>4 DEF w
<1>11. Fifo!LeaveLine(w, i)
  BY <1>4, <1>8, <1>9, <1>10 DEF Fifo!LeaveLine, RemoveAt
<1> QED
  BY <1>1, <1>10, <1>11 DEF FifoStep, Fifo!ANext

\* An operation is called.
LEMMA StartFifo ==
    ASSUME RInv, NEW t \in Threads, NEW o \in Ops, Start(t, o)
    PROVE  FifoStep
<1> USE SemaphoreAssumption
<1>1. TypeOK /\ pc[t] = "idle" /\ Phase[t] = "idle"
  BY Mapping DEF Start, RInv, IInv
<1>2. Entry(o) \in Active
  BY EntryOp DEF AllOps, Active, Pcs, PlainPcs
<1>3. /\ \A u \in Threads : pc'[u] = IF u = t THEN Entry(o) ELSE pc[u]
      /\ \A u \in Threads : op'[u] = IF u = t THEN o ELSE op[u]
      /\ \A u \in Threads : result'[u] = IF u = t THEN "none" ELSE result[u]
      /\ UNCHANGED <<count, queue>>
  BY <1>1 DEF Start, Goto, TypeOK
<1>4. \A u \in Threads : (Woken(u)' <=> Woken(u)) /\ ~Woken(t)
  BY <1>1, <1>2, <1>3 DEF Woken, Active
<1>5. Phase' = [Phase EXCEPT ![t] = "active"]
  BY <1>2, <1>3, <1>4 DEF Phase, Active
<1>6. Called' = [Called EXCEPT ![t] = o]
  BY <1>3, <1>4 DEF Called
<1>7. Outcome' = [Outcome EXCEPT ![t] = "none"]
  BY <1>3, <1>4 DEF Outcome
<1>8. Fifo!Call(t, o)
  BY <1>1, <1>3, <1>5, <1>6, <1>7 DEF Fifo!Call, Value, Line
<1> QED
  BY <1>8 DEF FifoStep, Fifo!ANext

LEMMA NextFifo == FifoOps /\ RInv /\ [Next]_vars => FifoStep
<1> SUFFICES ASSUME FifoOps, RInv, [Next]_vars PROVE FifoStep
  OBVIOUS
<1>1. ASSUME NEW t \in Threads, Step(t) PROVE FifoStep
  <2>1. LockfreeStep(t) \/ PostRemove(t) \/ AllWake(t) \/ WaitBlock(t) \/ PollBlock(t)
    BY <1>1 DEF Step, LockfreeStep
  <2> QED
    BY <2>1, LockfreeFifo, PostRemoveFifo, AllWakeFifo, BlockFifo
<1>2. ASSUME NEW t \in Threads, Abort(t) PROVE FifoStep
  <2>1. pc[t] \in Active /\ Return(t, "aborted") /\ UNCHANGED <<count, queue>>
    BY <1>2 DEF Abort, Active, Pcs, PlainPcs
  <2> QED
    BY <2>1, LookFifo
<1>3. ASSUME NEW t \in Threads, NEW o \in Ops, Start(t, o) PROVE FifoStep
  BY <1>3, StartFifo
<1>4. ASSUME NEW i \in 1..Len(queue), Interrupt(i) PROVE FifoStep
  BY <1>4, InterruptFifo
<1>5. CASE UNCHANGED vars
  BY <1>5 DEF vars, FifoStep, Value, Line, Phase, Called, Outcome, Woken
<1> QED
  BY <1>1, <1>2, <1>3, <1>4, <1>5 DEF Next

LEMMA InitFifo == Init => Fifo!AInit
<1> SUFFICES ASSUME Init PROVE Fifo!AInit
  OBVIOUS
<1> USE SemaphoreAssumption
<1>1. \A t \in Threads : ~Woken(t)
  BY DEF Init, Woken
<1>2. Value = InitCount /\ Line = <<>>
  BY DEF Init, Value, Line
<1>3. Phase = [t \in Threads |-> "idle"] /\ Called = [t \in Threads |-> "none"]
      /\ Outcome = [t \in Threads |-> "none"]
  BY <1>1 DEF Init, Phase, Called, Outcome
<1> QED
  BY <1>2, <1>3 DEF Fifo!AInit

\* For any callers, with or without spurious failures of compare-and-set: the
\* lock-free paths, the retries in atomic mode, post-all and the interrupts of
\* semaphore.rkt together behave like one counter with a first-come first-served
\* line, in which each operation takes effect at one instant.
THEOREM FirstComeFirstServed == FifoOps => (Spec => ImplementsFifo)
<1> SUFFICES ASSUME FifoOps PROVE Spec => ImplementsFifo
  OBVIOUS
<1>1. RInv /\ [Next]_vars => [Fifo!ANext]_(Fifo!avars)
  BY NextFifo DEF FifoStep, Fifo!avars
<1> QED
  BY <1>1, InitFifo, SpecRInv, PTL DEF Spec, ImplementsFifo, Fifo!ASpec
==============================================================================
