-------------------------- MODULE RendezvousProofs --------------------------
(***************************************************************************)
(* Proofs about Rendezvous, for any number of threads and of slots: the    *)
(* bookkeeping of the collect rendezvous is exact (RendezvousInv) and a    *)
(* collection is run by one thread alone, the main thread if it takes part *)
(* (CollectsAlone).                                                        *)
(*                                                                         *)
(* IInv adds to what the theorems state who holds the tc mutex, that       *)
(* thread0-waiting? is true exactly while the main thread waits, and that  *)
(* the main thread and the others wait on different conditions.            *)
(***************************************************************************)
EXTENDS Rendezvous, FiniteSetTheorems, TLAPS

\* The tc mutex is held between two steps exactly by a thread that marks the
\* others or collects.
MutexHeld == \A t \in Threads : pc[t] \in {"mark", "collect"} <=> mutex = t

\* thread0-waiting? is true exactly while the main thread waits for a
\* collection, woken or not.
MainWaiting == thread0Waiting <=> pc[Main] = "waiting"

\* Only the main thread waits on collect-thread0-cond, only others on
\* collect-cond.
CondsApart == collectCond \subseteq Threads \ {Main} /\ thread0Cond \subseteq {Main}

IInv ==
    /\ TypeOK
    /\ ActiveExact
    /\ RequestSeen
    /\ NoLostWakeup
    /\ SlotsExact
    /\ StopTheWorld
    /\ MainCollects
    /\ MutexHeld
    /\ MainWaiting
    /\ CondsApart
-----------------------------------------------------------------------------
(* Counting threads by what they do. *)

At(f, L) == {t \in Threads : f[t] \in L}

\* Where no thread enters or leaves the labels L, their number stays.
LEMMA CountSame ==
    ASSUME NEW f, NEW g, NEW L,
           \A t \in Threads : f[t] \in L <=> g[t] \in L
    PROVE  Cardinality(At(g, L)) = Cardinality(At(f, L))
<1>1. At(g, L) = At(f, L)
  BY DEF At
<1> QED
  BY <1>1

\* It is a natural number, and not more than there are threads.
LEMMA CountType ==
    ASSUME NEW f, NEW L
    PROVE  /\ IsFiniteSet(At(f, L))
           /\ Cardinality(At(f, L)) \in 0..Cardinality(Threads)
           /\ (\E t \in Threads : f[t] \in L) => Cardinality(At(f, L)) # 0
           /\ (\A t \in Threads : f[t] \notin L) => Cardinality(At(f, L)) = 0
<1>1. IsFiniteSet(Threads)
  BY RendezvousAssumption
<1>2. At(f, L) \in SUBSET Threads
  BY DEF At
<1>3. /\ IsFiniteSet(At(f, L))
      /\ Cardinality(At(f, L)) <= Cardinality(Threads)
  BY <1>1, <1>2, FS_Subset
<1>4. Cardinality(At(f, L)) \in Nat /\ Cardinality(Threads) \in Nat
  BY <1>1, <1>3, FS_CardinalityType
<1>5. Cardinality(At(f, L)) = 0 <=> At(f, L) = {}
  BY <1>3, FS_EmptySet
<1> QED
  BY <1>3, <1>4, <1>5 DEF At

\* One thread enters L.
LEMMA CountUp ==
    ASSUME NEW f, NEW g, NEW L, NEW u \in Threads, f[u] \notin L, g[u] \in L,
           \A t \in Threads \ {u} : f[t] \in L <=> g[t] \in L
    PROVE  Cardinality(At(g, L)) = Cardinality(At(f, L)) + 1
<1>1. At(g, L) = At(f, L) \cup {u} /\ u \notin At(f, L)
  BY DEF At
<1> QED
  BY <1>1, CountType, FS_AddElement

\* One thread leaves L.
LEMMA CountDown ==
    ASSUME NEW f, NEW g, NEW L, NEW u \in Threads, f[u] \in L, g[u] \notin L,
           \A t \in Threads \ {u} : f[t] \in L <=> g[t] \in L
    PROVE  Cardinality(At(g, L)) = Cardinality(At(f, L)) - 1
<1>1. Cardinality(At(f, L)) = Cardinality(At(g, L)) + 1
  BY CountUp, Zenon
<1> QED
  BY <1>1, CountType

\* When one thread is counted, every other one is not.
LEMMA CountOne ==
    ASSUME NEW f, NEW L, NEW t \in Threads, f[t] \in L, Cardinality(At(f, L)) = 1
    PROVE  \A u \in Threads \ {t} : f[u] \notin L
<1>1. PICK x : At(f, L) = {x}
  BY CountType, FS_Singleton
<1> QED
  BY <1>1 DEF At
-----------------------------------------------------------------------------
\* The sets that the properties count, as labels.
LEMMA CountedSets ==
    /\ {t \in Threads : pc[t] \in ActiveAt} = At(pc, ActiveAt)
    /\ {t \in Threads : pc'[t] \in ActiveAt} = At(pc', ActiveAt)
    /\ Waiting = At(pc, {"waiting"})
    /\ Waiting' = At(pc', {"waiting"})
  BY DEF At, Waiting

\* The count of active threads follows what the threads do: nobody starts or
\* stops being active, or one thread does.
LEMMA ActiveCount ==
    ASSUME ActiveExact,
           \/ /\ \A u \in Threads : pc[u] \in ActiveAt <=> pc'[u] \in ActiveAt
              /\ active' = active
           \/ \E t \in Threads :
                /\ pc[t] \notin ActiveAt /\ pc'[t] \in ActiveAt /\ active' = active + 1
                /\ \A u \in Threads \ {t} : pc[u] \in ActiveAt <=> pc'[u] \in ActiveAt
           \/ \E t \in Threads :
                /\ pc[t] \in ActiveAt /\ pc'[t] \notin ActiveAt /\ active' = active - 1
                /\ \A u \in Threads \ {t} : pc[u] \in ActiveAt <=> pc'[u] \in ActiveAt
    PROVE  /\ ActiveExact' /\ active' \in 0..Cardinality(Threads)
           /\ (\E t \in Threads : pc'[t] \in ActiveAt) => active' # 0
<1>1. active = Cardinality(At(pc, ActiveAt))
  BY CountedSets DEF ActiveExact
<1>2. active' = Cardinality(At(pc', ActiveAt))
  <2>1. CASE /\ \A u \in Threads : pc[u] \in ActiveAt <=> pc'[u] \in ActiveAt
             /\ active' = active
    BY <1>1, <2>1, CountSame
  <2>2. ASSUME NEW t \in Threads, pc[t] \notin ActiveAt, pc'[t] \in ActiveAt, active' = active + 1,
               \A u \in Threads \ {t} : pc[u] \in ActiveAt <=> pc'[u] \in ActiveAt
        PROVE  active' = Cardinality(At(pc', ActiveAt))
    <3>1. Cardinality(At(pc', ActiveAt)) = Cardinality(At(pc, ActiveAt)) + 1
      BY <2>2, CountUp, Zenon
    <3> QED
      BY <1>1, <2>2, <3>1
  <2>3. ASSUME NEW t \in Threads, pc[t] \in ActiveAt, pc'[t] \notin ActiveAt, active' = active - 1,
               \A u \in Threads \ {t} : pc[u] \in ActiveAt <=> pc'[u] \in ActiveAt
        PROVE  active' = Cardinality(At(pc', ActiveAt))
    <3>1. Cardinality(At(pc', ActiveAt)) = Cardinality(At(pc, ActiveAt)) - 1
      BY <2>3, CountDown, Zenon
    <3> QED
      BY <1>1, <2>3, <3>1
  <2> QED
    BY <2>1, <2>2, <2>3
<1> QED
  BY <1>2, CountType, CountedSets DEF ActiveExact

\* The same for the count of waiters.
LEMMA WaitingCount ==
    ASSUME waitingThreads = Cardinality(Waiting),
           \/ Waiting' = Waiting /\ waitingThreads' = waitingThreads
           \/ \E t \in Threads :
                /\ pc[t] # "waiting" /\ pc'[t] = "waiting" /\ waitingThreads' = waitingThreads + 1
                /\ \A u \in Threads \ {t} : pc[u] = "waiting" <=> pc'[u] = "waiting"
           \/ \E t \in Threads :
                /\ pc[t] = "waiting" /\ pc'[t] # "waiting" /\ waitingThreads' = waitingThreads - 1
                /\ \A u \in Threads \ {t} : pc[u] = "waiting" <=> pc'[u] = "waiting"
    PROVE  waitingThreads' = Cardinality(Waiting') /\ waitingThreads' \in 0..Cardinality(Threads)
<1>1. Waiting = At(pc, {"waiting"}) /\ Waiting' = At(pc', {"waiting"})
  BY CountedSets
<1>2. waitingThreads' = Cardinality(Waiting')
  <2>1. CASE Waiting' = Waiting /\ waitingThreads' = waitingThreads
    BY <2>1
  <2>2. ASSUME NEW t \in Threads,
               pc[t] # "waiting", pc'[t] = "waiting", waitingThreads' = waitingThreads + 1,
               \A u \in Threads \ {t} : pc[u] = "waiting" <=> pc'[u] = "waiting"
        PROVE  waitingThreads' = Cardinality(Waiting')
    <3>1. /\ pc[t] \notin {"waiting"} /\ pc'[t] \in {"waiting"}
          /\ \A u \in Threads \ {t} : pc[u] \in {"waiting"} <=> pc'[u] \in {"waiting"}
      BY <2>2
    <3>2. Cardinality(At(pc', {"waiting"})) = Cardinality(At(pc, {"waiting"})) + 1
      BY <3>1, CountUp, Zenon
    <3> QED
      BY <1>1, <2>2, <3>2
  <2>3. ASSUME NEW t \in Threads,
               pc[t] = "waiting", pc'[t] # "waiting", waitingThreads' = waitingThreads - 1,
               \A u \in Threads \ {t} : pc[u] = "waiting" <=> pc'[u] = "waiting"
        PROVE  waitingThreads' = Cardinality(Waiting')
    <3>1. /\ pc[t] \in {"waiting"} /\ pc'[t] \notin {"waiting"}
          /\ \A u \in Threads \ {t} : pc[u] \in {"waiting"} <=> pc'[u] \in {"waiting"}
      BY <2>3
    <3>2. Cardinality(At(pc', {"waiting"})) = Cardinality(At(pc, {"waiting"})) - 1
      BY <3>1, CountDown, Zenon
    <3> QED
      BY <1>1, <2>3, <3>2
  <2> QED
    BY <2>1, <2>2, <2>3
<1> QED
  BY <1>1, <1>2, CountType

\* In the initial state only the main thread exists.
LEMMA InitIInv == Init => IInv
<1> SUFFICES ASSUME Init PROVE IInv
  OBVIOUS
<1> USE RendezvousAssumption DEF Init
<1>1. TypeOK
  <2>1. Cardinality(Threads) \in Nat /\ Cardinality(Threads) # 0
    BY FS_CardinalityType, FS_EmptySet
  <2>2. /\ active \in 0..Cardinality(Threads) /\ waitingThreads \in 0..Cardinality(Threads)
        /\ fires \in 0..MaxFires /\ leaves \in 0..MaxLeaves
    BY <2>1
  <2>3. /\ pc \in [Threads -> Stopped \cup ActiveAt]
        /\ after \in [Threads -> {"run", "rv"}]
        /\ joined \in [Threads -> Threads \cup {NoOne}]
        /\ waitingTcs \in [Slots -> Threads \cup {NoOne}]
    BY DEF Stopped, ActiveAt
  <2> QED
    BY <2>2, <2>3 DEF TypeOK, Waiting
<1>2. ActiveExact
  <2>1. {t \in Threads : pc[t] \in ActiveAt} = {Main}
    BY DEF ActiveAt
  <2> QED
    BY <2>1, FS_Singleton DEF ActiveExact
<1>3. SlotsExact
  <2>1. Waiting = {}
    BY DEF Waiting
  <2> QED
    BY <2>1, FS_EmptySet DEF SlotsExact
<1>4. RequestSeen /\ NoLostWakeup /\ StopTheWorld /\ MainCollects
  BY DEF RequestSeen, NoLostWakeup, StopTheWorld, MainCollects
<1>5. MutexHeld /\ MainWaiting /\ CondsApart
  BY DEF MutexHeld, MainWaiting, CondsApart
<1> QED
  BY <1>1, <1>2, <1>3, <1>4, <1>5 DEF IInv

\* A step in which threads only go from one active place to another, and which
\* neither starts nor ends a collection, disturbs only the flags and the mutex.
LEMMA QuietIInv ==
    ASSUME IInv, TypeOK', RequestSeen', MutexHeld',
           UNCHANGED <<active, conds, slots, thread0Waiting>>,
           \A u \in Threads : pc'[u] # pc[u] =>
               /\ pc[u] \in ActiveAt \ {"collect"}
               /\ pc'[u] \in ActiveAt \ {"collect"},
           NEW t \in Threads, pc[t] \in ActiveAt
    PROVE  IInv'
<1> USE RendezvousAssumption
<1>1. pc \in [Threads -> Stopped \cup ActiveAt] /\ pc' \in [Threads -> Stopped \cup ActiveAt]
  BY DEF IInv, TypeOK
<1>2. \A u \in Threads : /\ pc[u] \in ActiveAt <=> pc'[u] \in ActiveAt
                         /\ pc[u] = "waiting" <=> pc'[u] = "waiting"
                         /\ pc[u] = "collect" <=> pc'[u] = "collect"
  BY DEF ActiveAt
<1>3. ActiveExact'
  BY <1>2, CountSame, CountedSets DEF IInv, ActiveExact
<1>4. Waiting' = Waiting
  BY <1>2 DEF Waiting
<1>5. active # 0
  BY CountType, CountedSets DEF IInv, ActiveExact
<1>6. NoLostWakeup'
  BY <1>5 DEF NoLostWakeup
<1>7. SlotsExact'
  BY <1>4 DEF IInv, SlotsExact, slots
<1>8. StopTheWorld' /\ MainCollects'
  BY <1>1, <1>2 DEF IInv, StopTheWorld, MainCollects, Stopped, ActiveAt
<1>9. MainWaiting'
  BY <1>2 DEF IInv, MainWaiting
<1>10. CondsApart'
  BY DEF IInv, CondsApart, conds
<1> QED
  BY <1>3, <1>6, <1>7, <1>8, <1>9, <1>10 DEF IInv
\* Making a request and noticing it: S_fire_collector, the event check, and
\* the start of a forked thread.
LEMMA RequestIInv ==
    ASSUME NEW t \in Threads, IInv,
           \/ \E label \in {"run", "rv"} : FireCheck(t, label)
           \/ FireSet(t) \/ (\E u \in Threads : FireMark(t, u)) \/ FireEnd(t)
           \/ OtherEvent(t) \/ SafePoint(t) \/ Event(t)
           \/ \E u \in Threads : ForkStarts(t, u)
    PROVE  IInv'
<1> USE RendezvousAssumption
<1>1. TypeOK /\ RequestSeen /\ MutexHeld
  BY DEF IInv
<1> USE DEF TypeOK, RequestSeen, MutexHeld, S_threads, Stopped, ActiveAt, Goto, MutexFree,
      Waiting, KeepsWaits, KeepsRequest, conds, slots
<1>2. ASSUME NEW label \in {"run", "rv"}, FireCheck(t, label) PROVE IInv'
  <2>1. TypeOK'
    BY <1>1, <1>2 DEF FireCheck
  <2>2. RequestSeen'
    BY <1>1, <1>2 DEF FireCheck
  <2>3. MutexHeld'
    BY <1>1, <1>2 DEF FireCheck
  <2> QED
    BY <1>1, <1>2, <2>1, <2>2, <2>3, QuietIInv DEF FireCheck
<1>3. CASE FireSet(t)
  <2>1. TypeOK'
    <3>1. CASE pending
      BY <1>1, <1>3, <3>1 DEF FireSet
    <3>2. CASE ~pending
      BY <1>1, <1>3, <3>2 DEF FireSet
    <3> QED
      BY <3>1, <3>2
  <2>2. RequestSeen'
    BY <1>1, <1>3 DEF FireSet
  <2>3. MutexHeld'
    BY <1>1, <1>3 DEF FireSet
  <2> QED
    BY <1>1, <1>3, <2>1, <2>2, <2>3, QuietIInv DEF FireSet
<1>4. ASSUME NEW u \in Threads, FireMark(t, u) PROVE IInv'
  <2>1. TypeOK'
    BY <1>1, <1>4 DEF FireMark
  <2>2. RequestSeen'
    BY <1>1, <1>4 DEF FireMark
  <2>3. MutexHeld'
    BY <1>1, <1>4 DEF FireMark
  <2> QED
    BY <1>1, <1>4, <2>1, <2>2, <2>3, QuietIInv DEF FireMark
<1>5. CASE FireEnd(t)
  <2>1. TypeOK'
    BY <1>1, <1>5 DEF FireEnd
  <2>2. RequestSeen'
    BY <1>1, <1>5 DEF FireEnd
  <2>3. MutexHeld'
    BY <1>1, <1>5 DEF FireEnd
  <2> QED
    BY <1>1, <1>5, <2>1, <2>2, <2>3, QuietIInv DEF FireEnd
<1>6. CASE OtherEvent(t) \/ SafePoint(t) \/ Event(t)
  <2>1. TypeOK'
    BY <1>1, <1>6 DEF OtherEvent, SafePoint, Event
  <2>2. RequestSeen'
    BY <1>1, <1>6 DEF OtherEvent, SafePoint, Event
  <2>3. MutexHeld'
    BY <1>1, <1>6 DEF OtherEvent, SafePoint, Event
  <2> QED
    BY <1>1, <1>6, <2>1, <2>2, <2>3, QuietIInv DEF OtherEvent, SafePoint, Event
<1>7. ASSUME NEW u \in Threads, ForkStarts(t, u) PROVE IInv'
  <2>1. TypeOK'
    BY <1>1, <1>7 DEF ForkStarts
  <2>2. RequestSeen'
    BY <1>1, <1>7 DEF ForkStarts
  <2>3. MutexHeld'
    BY <1>1, <1>7 DEF ForkStarts
  <2> QED
    BY <1>1, <1>7, <2>1, <2>2, <2>3, QuietIInv DEF ForkStarts
<1> QED
  BY <1>2, <1>3, <1>4, <1>5, <1>6, <1>7-----------------------------------------------------------------------------
\* A thread that stops being active wakes whom it must: if it was the last one,
\* a thread on either condition is woken, and no thread is on both.
LEMMA StoppingWakes ==
    ASSUME IInv, NEW n, StopsBeingActive(n, TRUE), pending' = pending, Waiting' = Waiting
    PROVE  /\ NoLostWakeup' /\ CondsApart'
           /\ collectCond' \subseteq collectCond /\ thread0Cond' \subseteq thread0Cond
<1>1. CondsApart /\ NoLostWakeup /\ collectCond \subseteq Waiting /\ thread0Cond \subseteq Waiting
  BY DEF IInv, TypeOK
<1>2. collectCond' \subseteq collectCond /\ thread0Cond' \subseteq thread0Cond
  BY DEF StopsBeingActive, Signalled
<1>3. CondsApart'
  BY <1>1, <1>2 DEF CondsApart
<1>4. NoLostWakeup'
  <2> SUFFICES ASSUME pending, active' = 0, Waiting # {}
               PROVE  Waiting \ (collectCond' \cup thread0Cond') # {}
    BY DEF NoLostWakeup
  <2>1. Signalled(collectCond, collectCond') /\ Signalled(thread0Cond, thread0Cond')
    BY DEF StopsBeingActive
  <2>2. CASE collectCond = {} /\ thread0Cond = {}
    BY <1>2, <2>2
  <2>3. CASE collectCond # {}
    BY <1>1, <1>2, <2>1, <2>3 DEF Signalled, CondsApart
  <2>4. CASE thread0Cond # {}
    BY <1>1, <1>2, <2>1, <2>4 DEF Signalled, CondsApart
  <2> QED
    BY <2>2, <2>3, <2>4
<1> QED
  BY <1>2, <1>3, <1>4

\* A step of threads that are not in the rendezvous, with the mutex free,
\* disturbs only the count of active threads, the flags and the conditions.
LEMMA OutsideIInv ==
    ASSUME IInv, TypeOK', ActiveExact', RequestSeen', NoLostWakeup', CondsApart', MutexFree,
           UNCHANGED <<mutex, slots, thread0Waiting>>,
           \A u \in Threads : pc'[u] # pc[u] =>
               /\ pc[u] \notin {"waiting", "mark", "collect"}
               /\ pc'[u] \notin {"waiting", "mark", "collect"}
    PROVE  IInv'
<1> USE RendezvousAssumption
<1>1. \A u \in Threads : /\ pc[u] = "waiting" <=> pc'[u] = "waiting"
                         /\ pc[u] = "collect" <=> pc'[u] = "collect"
                         /\ pc[u] = "mark" <=> pc'[u] = "mark"
  OBVIOUS
<1>2. Waiting' = Waiting
  BY <1>1 DEF Waiting
<1>3. SlotsExact'
  BY <1>2 DEF IInv, SlotsExact, slots
<1>4. MutexHeld'
  BY <1>1 DEF IInv, MutexHeld
<1>5. \A u \in Threads : pc'[u] # "collect"
  BY <1>1 DEF IInv, MutexHeld, MutexFree
<1>6. StopTheWorld' /\ MainCollects'
  BY <1>5 DEF StopTheWorld, MainCollects
<1>7. MainWaiting'
  BY <1>1 DEF IInv, MainWaiting
<1> QED
  BY <1>3, <1>4, <1>6, <1>7 DEF IInv

\* Deactivating, reactivating, creating and destroying a thread.
LEMMA ActivityIInv ==
    ASSUME NEW t \in Threads, IInv,
           Deactivate(t) \/ Reactivate(t) \/ ActivateNew(t) \/ Destroy(t)
    PROVE  IInv'
<1> USE RendezvousAssumption
<1>1. TypeOK /\ RequestSeen /\ MutexHeld /\ ActiveExact /\ CondsApart
  BY DEF IInv
<1> USE DEF TypeOK, RequestSeen, S_threads, Stopped, Goto,
      Waiting, KeepsWaits, KeepsRequest, conds, slots
<1>2. CASE Deactivate(t)
  <2> USE <1>2 DEF Deactivate
  <2>1. NoLostWakeup' /\ CondsApart' /\ collectCond' \subseteq collectCond /\ thread0Cond' \subseteq thread0Cond
    <3>1. Waiting' = Waiting /\ pending' = pending
      BY <1>1
    <3> QED
      BY <3>1, StoppingWakes
  <2>2. ActiveExact' /\ active' \in 0..Cardinality(Threads)
    BY <1>1, ActiveCount DEF ActiveAt, StopsBeingActive
  <2>3. TypeOK'
    BY <1>1, <2>1, <2>2 DEF ActiveAt
  <2>4. RequestSeen'
    BY <1>1
  <2> QED
    BY <1>1, <2>1, <2>2, <2>3, <2>4, OutsideIInv
<1>3. CASE Reactivate(t)
  <2> USE <1>3 DEF Reactivate
  <2>1. ActiveExact' /\ active' \in 0..Cardinality(Threads)
    BY <1>1, ActiveCount DEF ActiveAt
  <2>2. TypeOK'
    BY <1>1, <2>1 DEF ActiveAt
  <2>3. NoLostWakeup' /\ CondsApart'
    BY <1>1 DEF NoLostWakeup, CondsApart
  <2>4. RequestSeen'
    BY <1>1
  <2> QED
    BY <1>1, <2>1, <2>2, <2>3, <2>4, OutsideIInv
<1>4. CASE ActivateNew(t)
  <2> USE <1>4 DEF ActivateNew, CreateThreadObject
  <2>1. ActiveExact' /\ active' \in 0..Cardinality(Threads)
    BY <1>1, ActiveCount DEF ActiveAt
  <2>2. TypeOK'
    BY <1>1, <2>1 DEF CreatedAware, ActiveAt
  <2>3. NoLostWakeup' /\ CondsApart'
    BY <1>1 DEF NoLostWakeup, CondsApart
  <2>4. RequestSeen'
    BY <1>1 DEF CreatedAware
  <2> QED
    BY <1>1, <2>1, <2>2, <2>3, <2>4, OutsideIInv
<1>5. CASE Destroy(t)
  <2> USE <1>5 DEF Destroy, DestroyThread
  <2>1. NoLostWakeup' /\ CondsApart' /\ collectCond' \subseteq collectCond /\ thread0Cond' \subseteq thread0Cond
    <3>1. Waiting' = Waiting /\ pending' = pending
      BY <1>1
    <3>2. CASE pc[t] = "run"
      BY <3>1, <3>2, StoppingWakes DEF ActiveAt
    <3>3. CASE pc[t] = "away"
      BY <3>1, <3>3 DEF IInv, NoLostWakeup, CondsApart, ActiveAt
    <3> QED
      BY <3>2, <3>3
  <2>2. ActiveExact' /\ active' \in 0..Cardinality(Threads)
    <3>1. CASE pc[t] = "run"
      BY <1>1, <3>1, ActiveCount DEF ActiveAt, StopsBeingActive
    <3>2. CASE pc[t] = "away"
      BY <1>1, <3>2, ActiveCount DEF ActiveAt
    <3> QED
      BY <3>1, <3>2
  <2>3. TypeOK'
    BY <1>1, <2>1, <2>2 DEF ActiveAt
  <2>4. RequestSeen'
    BY <1>1
  <2> QED
    BY <1>1, <2>1, <2>2, <2>3, <2>4, OutsideIInv
<1> QED
  BY <1>2, <1>3, <1>4, <1>5
\* Forking a thread, which may fail once the thread object exists.
LEMMA ForkIInv ==
    ASSUME NEW t \in Threads, NEW u \in Threads, IInv, Fork(t, u) \/ ForkFails(t, u)
    PROVE  IInv'
<1> USE RendezvousAssumption
<1>1. TypeOK /\ RequestSeen /\ MutexHeld /\ ActiveExact /\ CondsApart
  BY DEF IInv
<1> USE DEF TypeOK, RequestSeen, S_threads, Stopped, Waiting, KeepsWaits, KeepsRequest, conds, slots
<1>2. CASE Fork(t, u)
  <2> USE <1>2 DEF Fork, CreateThreadObject
  <2>1. ActiveExact' /\ active' \in 0..Cardinality(Threads)
    BY <1>1, ActiveCount DEF ActiveAt
  <2>2. TypeOK'
    BY <1>1, <2>1 DEF CreatedAware, ActiveAt
  <2>3. NoLostWakeup' /\ CondsApart'
    BY <1>1 DEF NoLostWakeup, CondsApart
  <2>4. RequestSeen'
    BY <1>1 DEF CreatedAware
  <2> QED
    BY <1>1, <2>1, <2>2, <2>3, <2>4, OutsideIInv
<1>3. CASE ForkFails(t, u)
  <2> USE <1>3 DEF ForkFails, DestroyThread
  <2>1. NoLostWakeup' /\ CondsApart' /\ collectCond' \subseteq collectCond /\ thread0Cond' \subseteq thread0Cond
    <3>1. Waiting' = Waiting /\ pending' = pending
      BY <1>1
    <3> QED
      BY <3>1, StoppingWakes DEF ActiveAt
  <2>2. ActiveExact' /\ active' \in 0..Cardinality(Threads)
    BY <1>1, ActiveCount DEF ActiveAt, StopsBeingActive
  <2>3. TypeOK'
    BY <1>1, <2>1, <2>2 DEF ActiveAt
  <2>4. RequestSeen'
    BY <1>1
  <2> QED
    BY <1>1, <2>1, <2>2, <2>3, <2>4, OutsideIInv
<1> QED
  BY <1>2, <1>3

\* Joining a thread: t enters the loop of thread-join or goes on with it.
LEMMA JoinIInv ==
    ASSUME NEW t \in Threads, IInv, JoinWakes(t) \/ \E u \in Threads : Join(t, u)
    PROVE  IInv'
<1> USE RendezvousAssumption
<1>1. TypeOK /\ RequestSeen /\ MutexHeld /\ ActiveExact /\ CondsApart
  BY DEF IInv
<1>2. PICK u \in Threads \cup {NoOne}, n \in {active, active + 1} :
        /\ MutexFree
        /\ JoinLoop(t, u, n)
        /\ \/ pc[t] = "run" /\ n = active
           \/ pc[t] = "joining" /\ n = active + 1
        /\ t \notin terminatedCond
        /\ leaves' \in 0..MaxLeaves
  <2>1. CASE JoinWakes(t)
    BY <1>1, <2>1 DEF JoinWakes, TypeOK
  <2>2. CASE \E u \in Threads : Join(t, u)
    BY <1>1, <2>2 DEF Join, TypeOK
  <2> QED
    BY <2>1, <2>2
<1> USE DEF TypeOK, RequestSeen, S_threads, Stopped, Goto, Waiting, KeepsRequest, conds, slots
<1>3. CASE pc[u] = "dead"
  <2>1. /\ active' = n /\ pc' = [pc EXCEPT ![t] = "run"]
        /\ joined' = [joined EXCEPT ![t] = NoOne]
        /\ collectCond' = collectCond /\ thread0Cond' = thread0Cond /\ terminatedCond' = terminatedCond
        /\ UNCHANGED <<mutex, thread0Waiting, slots, pending, something, todo, after, fires>>
    BY <1>2, <1>3 DEF JoinLoop
  <2>2. ActiveExact' /\ active' \in 0..Cardinality(Threads) /\ active' # 0
    BY <1>1, <1>2, <2>1, ActiveCount DEF ActiveAt
  <2>3. TypeOK'
    BY <1>1, <1>2, <2>1, <2>2 DEF ActiveAt
  <2>5. NoLostWakeup' /\ CondsApart'
    BY <1>1, <2>1, <2>2 DEF NoLostWakeup, CondsApart
  <2>6. RequestSeen'
    BY <1>1, <1>2, <2>1
  <2> QED
    BY <1>1, <1>2, <2>1, <2>2, <2>3, <2>5, <2>6, OutsideIInv
<1>4. CASE pc[u] # "dead"
  <2>1. /\ StopsBeingActive(n, TRUE) /\ pc' = [pc EXCEPT ![t] = "joining"]
        /\ joined' = [joined EXCEPT ![t] = u]
        /\ terminatedCond' = terminatedCond \cup {t}
        /\ UNCHANGED <<mutex, thread0Waiting, slots, pending, something, todo, after, fires>>
    BY <1>2, <1>4 DEF JoinLoop
  <2>2. NoLostWakeup' /\ CondsApart' /\ collectCond' \subseteq collectCond /\ thread0Cond' \subseteq thread0Cond
    <3>1. Waiting' = Waiting /\ pending' = pending
      BY <1>1, <1>2, <2>1
    <3> QED
      BY <2>1, <3>1, StoppingWakes
  <2>3. ActiveExact' /\ active' \in 0..Cardinality(Threads)
    <3>1. active \in Nat /\ active' = n - 1
      BY <1>1, <2>1 DEF StopsBeingActive
    <3>2. CASE pc[t] = "run" /\ n = active
      BY <1>1, <2>1, <3>1, <3>2, ActiveCount DEF ActiveAt
    <3>3. CASE pc[t] = "joining" /\ n = active + 1
      <4>1. active' = active /\ \A v \in Threads : pc[v] \in ActiveAt <=> pc'[v] \in ActiveAt
        BY <1>1, <2>1, <3>1, <3>3 DEF ActiveAt
      <4> QED
        BY <1>1, <4>1, ActiveCount
    <3> QED
      BY <1>2, <3>2, <3>3
  <2>4. TypeOK'
    BY <1>1, <1>2, <2>1, <2>2, <2>3 DEF ActiveAt
  <2>5. RequestSeen'
    BY <1>1, <1>2, <2>1
  <2> QED
    BY <1>1, <1>2, <2>1, <2>2, <2>3, <2>4, <2>5, OutsideIInv
<1> QED
  BY <1>3, <1>4

\* A wait that ends without a signal leaves the thread where it is.
LEMMA SpuriousIInv ==
    ASSUME NEW t \in Threads, IInv, Spurious(t)
    PROVE  IInv'
<1> USE DEF Spurious, KeepsRequest, slots
<1>1. Waiting' = Waiting /\ S_threads' = S_threads
  BY DEF Waiting, S_threads
<1>2. TypeOK'
  BY <1>1 DEF IInv, TypeOK
<1>3. ActiveExact' /\ RequestSeen' /\ StopTheWorld' /\ MainCollects' /\ MutexHeld'
  BY <1>1 DEF IInv, ActiveExact, RequestSeen, StopTheWorld, MainCollects, MutexHeld
<1>4. NoLostWakeup'
  BY <1>1 DEF IInv, NoLostWakeup
<1>5. SlotsExact' /\ MainWaiting' /\ CondsApart'
  BY <1>1 DEF IInv, SlotsExact, MainWaiting, CondsApart
<1> QED
  BY <1>2, <1>3, <1>4, <1>5 DEF IInv-----------------------------------------------------------------------------
\* Leaving the loop of the rendezvous, to run on or to collect: the counts, the
\* slots and thread0-waiting? follow.
LEMMA LeavesKeeps ==
    ASSUME NEW t \in Threads, NEW label \in {"run", "collect"}, IInv,
           InLoop(t), Leaves(t), Goto(t, label),
           mutex' \in Threads \cup {NoOne}, label = "run" => ~pending
    PROVE  TypeOK' /\ ActiveExact' /\ SlotsExact' /\ MainWaiting' /\ RequestSeen' /\ CondsApart'
<1> USE RendezvousAssumption
<1>1. TypeOK /\ ActiveExact /\ SlotsExact /\ MainWaiting /\ RequestSeen /\ CondsApart
  BY DEF IInv
<1>2. /\ pc' = [pc EXCEPT ![t] = label]
      /\ pc[t] \in {"rv", "waiting"} /\ t \notin collectCond \cup thread0Cond \cup terminatedCond
  BY <1>1 DEF InLoop, Goto, TypeOK, Waiting
<1>3. /\ active' = IF pc[t] = "waiting" THEN active + 1 ELSE active
      /\ waitingThreads' = IF pc[t] = "waiting" THEN waitingThreads - 1 ELSE waitingThreads
      /\ UNCHANGED <<collectCond, thread0Cond, terminatedCond, joined, leaves>>
      /\ UNCHANGED <<pending, something, todo, after, fires>>
  BY <1>1 DEF Leaves, ActiveWith, WaitersBut, Back, conds, KeepsRequest, TypeOK
<1>4. ActiveExact' /\ active' \in 0..Cardinality(Threads)
  BY <1>1, <1>2, <1>3, ActiveCount DEF TypeOK, ActiveAt
<1>5. waitingThreads' = Cardinality(Waiting') /\ waitingThreads' \in 0..Cardinality(Threads)
  BY <1>1, <1>2, <1>3, WaitingCount DEF TypeOK, SlotsExact, Waiting
<1>6. waitingTcs' = [i \in Slots |-> IF waitingTcs[i] = t THEN NoOne ELSE waitingTcs[i]]
  BY DEF Leaves, SlotsBut
<1>7. SlotsExact'
  <2>1. \A i \in Slots : waitingTcs'[i] # NoOne => waitingTcs'[i] = waitingTcs[i] /\ waitingTcs[i] # t
    BY <1>6
  <2>2. \A u \in Waiting : u # t => u \in Waiting'
    BY <1>1, <1>2 DEF TypeOK, Waiting
  <2> QED
    BY <1>1, <1>5, <1>6, <2>1, <2>2 DEF SlotsExact
<1>8. thread0Waiting' = (thread0Waiting /\ t # Main)
  BY DEF Leaves, Thread0WaitingBut
<1>9. MainWaiting'
  BY <1>1, <1>2, <1>8 DEF MainWaiting, TypeOK
<1>10. TypeOK'
  <2>1. thread0Waiting' \in BOOLEAN
    BY <1>8
  <2>2. waitingTcs' \in [Slots -> Threads \cup {NoOne}]
    BY <1>1, <1>6 DEF TypeOK
  <2>3. /\ collectCond' \subseteq Waiting' /\ thread0Cond' \subseteq Waiting'
        /\ terminatedCond' \subseteq {u \in Threads : pc'[u] = "joining"}
    BY <1>1, <1>2, <1>3 DEF TypeOK, Waiting
  <2> QED
    BY <1>1, <1>2, <1>3, <1>4, <1>5, <2>1, <2>2, <2>3 DEF TypeOK, Stopped, ActiveAt
<1>11. RequestSeen'
  BY <1>1, <1>2, <1>3 DEF RequestSeen, S_threads, TypeOK
<1>12. CondsApart'
  BY <1>1, <1>3 DEF CondsApart
<1> QED
  BY <1>4, <1>7, <1>9, <1>10, <1>11, <1>12
\* Nothing to do, or the last one standing collects, which needs every other
\* thread to be inactive and the main thread to take no part.
LEMMA LeaveLoopIInv ==
    ASSUME NEW t \in Threads, IInv, NoRequest(t) \/ Collect(t)
    PROVE  IInv'
<1> USE RendezvousAssumption
<1>1. TypeOK /\ MutexHeld /\ MutexFree /\ pc[t] \in {"rv", "waiting"} /\ pc \in [Threads -> Stopped \cup ActiveAt]
  BY DEF IInv, NoRequest, Collect, InLoop, TypeOK
<1>2. CASE NoRequest(t)
  <2>1. pc' = [pc EXCEPT ![t] = "run"] /\ mutex' = mutex /\ pending' = pending /\ ~pending
    BY <1>2 DEF NoRequest, Goto, Leaves, KeepsRequest
  <2>2. TypeOK' /\ ActiveExact' /\ SlotsExact' /\ MainWaiting' /\ RequestSeen' /\ CondsApart'
    <3>1. mutex' \in Threads \cup {NoOne}
      BY <1>1, <2>1 DEF TypeOK
    <3> QED
      BY <1>2, <2>1, <3>1, LeavesKeeps DEF NoRequest
  <2>3. NoLostWakeup'
    BY <2>1 DEF NoLostWakeup
  <2>4. MutexHeld' /\ \A u \in Threads : pc'[u] # "collect"
    BY <1>1, <2>1 DEF MutexHeld, MutexFree
  <2> QED
    BY <2>2, <2>3, <2>4 DEF IInv, StopTheWorld, MainCollects
<1>3. CASE Collect(t)
  <2>1. pc' = [pc EXCEPT ![t] = "collect"] /\ mutex' = t
    BY <1>3 DEF Collect, Goto
  <2>2. TypeOK' /\ ActiveExact' /\ SlotsExact' /\ MainWaiting' /\ RequestSeen' /\ CondsApart'
    BY <1>3, <2>1, LeavesKeeps DEF Collect
  <2>3. active' = 1
    BY <1>3 DEF Collect, Leaves
  <2>4. \A u \in Threads \ {t} : pc'[u] \notin ActiveAt
    <3>1. Cardinality(At(pc', ActiveAt)) = 1 /\ pc'[t] \in ActiveAt
      BY <1>1, <2>1, <2>2, <2>3, CountedSets DEF ActiveExact, ActiveAt
    <3> QED
      BY <3>1, CountOne
  <2>5. StopTheWorld'
    <3>1. \A u \in Threads \ {t} : pc'[u] \in Stopped
      BY <2>2, <2>4 DEF TypeOK
    <3>2. \A u \in Threads \ {t} : pc'[u] # "collect"
      BY <2>4 DEF ActiveAt
    <3> QED
      BY <3>1, <3>2 DEF StopTheWorld
  <2>6. MainCollects'
    <3>1. \A u \in Threads \ {t} : pc'[u] # "collect"
      BY <2>4 DEF ActiveAt
    <3>2. CASE t = Main
      BY <3>1, <3>2 DEF MainCollects
    <3>3. CASE t # Main
      <4>1. ~thread0Waiting
        BY <1>3, <3>3 DEF Collect, MayCollect
      <4>2. pc[Main] # "waiting"
        BY <4>1 DEF IInv, MainWaiting
      <4>3. pc'[Main] \notin ActiveAt \cup {"waiting"}
        BY <1>1, <2>1, <2>4, <3>3, <4>2
      <4> QED
        BY <3>1, <4>3 DEF MainCollects
    <3> QED
      BY <3>2, <3>3
  <2>7. NoLostWakeup'
    BY <2>3 DEF NoLostWakeup
  <2>8. MutexHeld'
    BY <1>1, <2>1 DEF MutexHeld, MutexFree
  <2> QED
    BY <2>2, <2>5, <2>6, <2>7, <2>8 DEF IInv
<1> QED
  BY <1>2, <1>3

\* Waiting for the others: the counts and the slots follow, whether t waits for
\* the first time or again.
LEMMA CollectWaitKeeps ==
    ASSUME NEW t \in Threads, IInv, InLoop(t), CollectWait(t)
    PROVE  /\ pc' = [pc EXCEPT ![t] = "waiting"] /\ Waiting' = Waiting \cup {t}
           /\ ActiveExact' /\ SlotsExact' /\ RequestSeen' /\ MutexHeld'
           /\ StopTheWorld' /\ MainCollects'
           /\ pc' \in [Threads -> Stopped \cup ActiveAt]
           /\ active' \in 0..Cardinality(Threads)
           /\ waitingThreads' \in 0..Cardinality(Threads)
           /\ waitingTcs' \in [Slots -> Threads \cup {NoOne}]
           /\ \A u \in Threads : pc'[u] = "joining" <=> pc[u] = "joining"
<1> USE RendezvousAssumption
<1>1. TypeOK /\ ActiveExact /\ SlotsExact /\ RequestSeen /\ MutexHeld
  BY DEF IInv
<1>2. /\ pc' = [pc EXCEPT ![t] = "waiting"] /\ pc \in [Threads -> Stopped \cup ActiveAt]
      /\ pc[t] \in {"rv", "waiting"} /\ MutexFree /\ mutex' = mutex
  BY <1>1 DEF InLoop, CollectWait, Goto, TypeOK
<1>3. /\ active' = IF pc[t] = "waiting" THEN active ELSE active - 1
      /\ waitingThreads' = IF pc[t] = "waiting" THEN waitingThreads ELSE waitingThreads + 1
      /\ UNCHANGED <<pending, something, todo>>
  BY <1>1 DEF CollectWait, ActiveWith, WaitersBut, Back, KeepsRequest, TypeOK
<1>4. ActiveExact' /\ active' \in 0..Cardinality(Threads)
  <2>1. CASE pc[t] = "waiting"
    BY <1>1, <1>2, <1>3, <2>1, ActiveCount DEF ActiveAt
  <2>2. CASE pc[t] = "rv"
    BY <1>1, <1>2, <1>3, <2>2, ActiveCount DEF ActiveAt
  <2> QED
    BY <1>2, <2>1, <2>2
<1>5. Waiting' = Waiting \cup {t}
  BY <1>2 DEF Waiting
<1>6. waitingThreads' = Cardinality(Waiting') /\ waitingThreads' \in 0..Cardinality(Threads)
  <2>1. CASE pc[t] = "waiting"
    BY <1>1, <1>2, <1>3, <1>5, <2>1, WaitingCount DEF SlotsExact, Waiting
  <2>2. CASE pc[t] = "rv"
    BY <1>1, <1>2, <1>3, <2>2, WaitingCount DEF SlotsExact
  <2> QED
    BY <1>2, <2>1, <2>2
<1>7. PICK x : \/ waitingTcs' = SlotsBut(t)
               \/ waitingTcs' = [SlotsBut(t) EXCEPT ![x] = t]
  BY DEF CollectWait, SlotsWith
<1>8. waitingTcs' \in [Slots -> Threads \cup {NoOne}]
  <2>1. SlotsBut(t) \in [Slots -> Threads \cup {NoOne}]
    BY <1>1 DEF SlotsBut, TypeOK
  <2> QED
    BY <1>7, <2>1
<1>9. SlotsExact'
  <2>1. \A i \in Slots : waitingTcs'[i] \in {t, NoOne, waitingTcs[i]}
    BY <1>7 DEF SlotsBut
  <2>2. \A i, j \in Slots : waitingTcs'[i] = t /\ waitingTcs'[j] = t => i = j
    BY <1>7 DEF SlotsBut
  <2>3. \A i \in Slots : waitingTcs'[i] # NoOne => waitingTcs'[i] \in Waiting'
    BY <1>1, <1>5, <2>1 DEF SlotsExact
  <2>4. ASSUME NEW i \in Slots, NEW j \in Slots \ {i}, waitingTcs'[i] # NoOne,
               waitingTcs'[j] = waitingTcs'[i]
        PROVE  FALSE
    BY <1>1, <2>1, <2>2, <2>4 DEF SlotsExact
  <2> QED
    BY <1>6, <2>3, <2>4 DEF SlotsExact
<1>10. RequestSeen'
  BY <1>1, <1>2, <1>3 DEF RequestSeen, S_threads
<1>11. MutexHeld' /\ \A u \in Threads : pc'[u] # "collect"
  BY <1>1, <1>2 DEF MutexHeld, MutexFree
<1>12. StopTheWorld' /\ MainCollects'
  BY <1>11 DEF StopTheWorld, MainCollects
<1>13. pc' \in [Threads -> Stopped \cup ActiveAt]
  BY <1>2 DEF Stopped
<1>14. \A u \in Threads : pc'[u] = "joining" <=> pc[u] = "joining"
  BY <1>2
<1> QED
  BY <1>2, <1>4, <1>5, <1>6, <1>8, <1>9, <1>10, <1>11, <1>12, <1>13, <1>14

\* The last one standing passes the collection to the main thread, which it
\* wakes; a thread that is not the last one need not wake anybody.
LEMMA WaitIInv ==
    ASSUME NEW t \in Threads, IInv, PassToMain(t) \/ MainWaits(t) \/ OtherWaits(t)
    PROVE  IInv'
<1> USE RendezvousAssumption
<1>1. TypeOK /\ MainWaiting /\ CondsApart
  BY DEF IInv
<1>2. InLoop(t) /\ CollectWait(t)
  BY DEF PassToMain, MainWaits, OtherWaits
<1>3. /\ pc' = [pc EXCEPT ![t] = "waiting"] /\ Waiting' = Waiting \cup {t}
      /\ ActiveExact' /\ SlotsExact' /\ RequestSeen' /\ MutexHeld'
      /\ StopTheWorld' /\ MainCollects'
      /\ pc' \in [Threads -> Stopped \cup ActiveAt]
      /\ active' \in 0..Cardinality(Threads)
      /\ waitingThreads' \in 0..Cardinality(Threads)
      /\ waitingTcs' \in [Slots -> Threads \cup {NoOne}]
      /\ \A u \in Threads : pc'[u] = "joining" <=> pc[u] = "joining"
  BY <1>2, CollectWaitKeeps
<1>4. /\ UNCHANGED <<mutex, terminatedCond, joined, leaves, pending, something, todo, after, fires>>
      /\ active' = ActiveWith(t) - 1
  BY <1>2 DEF CollectWait, KeepsRequest
<1>5. CASE PassToMain(t)
  <2>1. /\ collectCond' = collectCond \cup {t} /\ thread0Cond' = {} /\ t # Main
        /\ thread0Waiting /\ thread0Waiting' = thread0Waiting
    BY <1>5 DEF PassToMain, MayCollect
  <2>2. TypeOK'
    BY <1>1, <1>3, <1>4, <2>1 DEF TypeOK
  <2>3. CondsApart'
    BY <1>1, <2>1 DEF CondsApart
  <2>4. MainWaiting'
    BY <1>1, <1>3, <2>1 DEF MainWaiting, TypeOK
  <2>5. NoLostWakeup'
    <3>1. Main \in Waiting'
      BY <1>1, <1>3, <2>1 DEF MainWaiting, Waiting
    <3> QED
      BY <2>1, <2>3, <3>1 DEF NoLostWakeup, CondsApart
  <2> QED
    BY <1>3, <2>2, <2>3, <2>4, <2>5 DEF IInv
<1>6. CASE MainWaits(t)
  <2>1. /\ thread0Cond' = thread0Cond \cup {t} /\ collectCond' = collectCond /\ t = Main
        /\ thread0Waiting' = TRUE /\ ActiveWith(t) # 1
    BY <1>6 DEF MainWaits
  <2>2. TypeOK'
    BY <1>1, <1>3, <1>4, <2>1 DEF TypeOK
  <2>3. CondsApart'
    BY <1>1, <2>1 DEF CondsApart
  <2>4. MainWaiting'
    BY <1>1, <1>3, <2>1 DEF MainWaiting, TypeOK
  <2>5. NoLostWakeup'
    BY <1>1, <1>4, <2>1 DEF NoLostWakeup, ActiveWith, Back, TypeOK
  <2> QED
    BY <1>3, <2>2, <2>3, <2>4, <2>5 DEF IInv
<1>7. CASE OtherWaits(t)
  <2>1. /\ collectCond' = collectCond \cup {t} /\ thread0Cond' = thread0Cond /\ t # Main
        /\ thread0Waiting' = thread0Waiting /\ ActiveWith(t) # 1
    BY <1>7 DEF OtherWaits
  <2>2. TypeOK'
    BY <1>1, <1>3, <1>4, <2>1 DEF TypeOK
  <2>3. CondsApart'
    BY <1>1, <2>1 DEF CondsApart
  <2>4. MainWaiting'
    BY <1>1, <1>3, <2>1 DEF MainWaiting, TypeOK
  <2>5. NoLostWakeup'
    BY <1>1, <1>4, <2>1 DEF NoLostWakeup, ActiveWith, Back, TypeOK
  <2> QED
    BY <1>3, <2>2, <2>3, <2>4, <2>5 DEF IInv
<1> QED
  BY <1>5, <1>6, <1>7

\* The collection is over: everybody who waits for it is woken.
LEMMA CollectDoneIInv ==
    ASSUME NEW t \in Threads, IInv, CollectDone(t)
    PROVE  IInv'
<1> USE RendezvousAssumption
<1>1. TypeOK /\ ActiveExact /\ SlotsExact /\ MutexHeld /\ StopTheWorld /\ MainWaiting
  BY DEF IInv
<1>2. /\ pc[t] = "collect" /\ pc' = [pc EXCEPT ![t] = "run"] /\ mutex' = NoOne /\ pending' = FALSE
      /\ collectCond' = {} /\ thread0Cond' = {} /\ active' = active
      /\ UNCHANGED <<something, todo, after, fires, leaves, thread0Waiting, terminatedCond, joined,
                     waitingThreads, waitingTcs>>
  BY DEF CollectDone, Goto, slots
<1>3. ActiveExact'
  BY <1>1, <1>2, ActiveCount DEF TypeOK, ActiveAt
<1>4. Waiting' = Waiting
  BY <1>1, <1>2 DEF TypeOK, Waiting
<1>5. SlotsExact'
  BY <1>1, <1>2, <1>4 DEF SlotsExact
<1>6. TypeOK'
  BY <1>1, <1>2, <1>4 DEF TypeOK, Stopped, ActiveAt
<1>7. MutexHeld' /\ \A u \in Threads : pc'[u] # "collect"
  BY <1>1, <1>2 DEF MutexHeld, TypeOK
<1>8. MainWaiting'
  BY <1>1, <1>2 DEF MainWaiting, TypeOK
<1>9. RequestSeen' /\ NoLostWakeup' /\ StopTheWorld' /\ MainCollects' /\ CondsApart'
  BY <1>2, <1>7 DEF RequestSeen, NoLostWakeup, StopTheWorld, MainCollects, CondsApart
<1> QED
  BY <1>3, <1>5, <1>6, <1>7, <1>8, <1>9 DEF IInv
-----------------------------------------------------------------------------
\* Every step preserves the invariant.
LEMMA NextIInv == IInv /\ [Next]_vars => IInv'
<1> SUFFICES ASSUME IInv, [Next]_vars PROVE IInv'
  OBVIOUS
<1>1. ASSUME NEW t \in Threads, Obliged(t) PROVE IInv'
  <2>1. CASE \/ FireSet(t) \/ (\E u \in Threads : FireMark(t, u)) \/ FireEnd(t)
             \/ SafePoint(t) \/ Event(t) \/ \E u \in Threads : ForkStarts(t, u)
    BY <2>1, RequestIInv
  <2>2. CASE NoRequest(t) \/ Collect(t)
    BY <2>2, LeaveLoopIInv
  <2>3. CASE PassToMain(t) \/ MainWaits(t) \/ OtherWaits(t)
    BY <2>3, WaitIInv
  <2>4. CASE CollectDone(t)
    BY <2>4, CollectDoneIInv
  <2>5. CASE \E u \in Threads : ForkFails(t, u)
    BY <2>5, ForkIInv
  <2>6. CASE JoinWakes(t)
    BY <2>6, JoinIInv
  <2> QED
    BY <1>1, <2>1, <2>2, <2>3, <2>4, <2>5, <2>6 DEF Obliged
<1>2. ASSUME NEW t \in Threads, Free(t) PROVE IInv'
  <2>1. CASE (\E label \in {"run", "rv"} : FireCheck(t, label)) \/ OtherEvent(t)
    BY <2>1, RequestIInv
  <2>2. CASE Deactivate(t) \/ Reactivate(t) \/ ActivateNew(t) \/ Destroy(t)
    BY <2>2, ActivityIInv
  <2>3. CASE \E u \in Threads : Fork(t, u)
    BY <2>3, ForkIInv
  <2>4. CASE \E u \in Threads : Join(t, u)
    BY <2>4, JoinIInv
  <2>5. CASE Spurious(t)
    BY <2>5, SpuriousIInv
  <2> QED
    BY <1>2, <2>1, <2>2, <2>3, <2>4, <2>5 DEF Free
<1>3. CASE UNCHANGED vars
  <2> USE <1>3 DEF vars, conds, slots
  <2>1. TypeOK' /\ ActiveExact' /\ RequestSeen' /\ NoLostWakeup' /\ SlotsExact'
    BY DEF IInv, TypeOK, ActiveExact, RequestSeen, NoLostWakeup, SlotsExact, Waiting, S_threads
  <2>2. StopTheWorld' /\ MainCollects' /\ MutexHeld' /\ MainWaiting' /\ CondsApart'
    BY DEF IInv, StopTheWorld, MainCollects, MutexHeld, MainWaiting, CondsApart
  <2> QED
    BY <2>1, <2>2 DEF IInv
<1> QED
  BY <1>1, <1>2, <1>3 DEF Next

LEMMA SpecIInv == Spec => []IInv
  BY InitIInv, NextIInv, PTL DEF Spec

\* The bookkeeping of the rendezvous is exact in every reachable state, however
\* many threads and slots there are: $active-threads counts the active threads, a
\* collect request is seen by every thread, when everybody has stopped some
\* waiter has been woken, and the slots record who waits.
THEOREM BookkeepingExact == Spec => []RendezvousInv
  BY SpecIInv, PTL DEF IInv, RendezvousInv

\* While a thread runs the collect-request handler every other thread is
\* inactive, and only the main thread does so while it takes part.
THEOREM CollectionExclusive == Spec => []CollectsAlone
  BY SpecIInv, PTL DEF IInv, CollectsAlone
=============================================================================
