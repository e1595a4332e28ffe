----------------------------- MODULE Rendezvous -----------------------------
(***************************************************************************)
(* How the Scheme threads of Racket CS stop for a garbage collection: the  *)
(* collect request (S_fire_collector of ChezScheme/c/schsig.c), the event  *)
(* check that notices it (the event entry of s/library.ss), the rendezvous *)
(* ($collect-rendezvous of s/7.ss), and everything in c/thread.c and       *)
(* c/types.h that changes which threads are active: creating, forking and  *)
(* destroying a thread, deactivating one around a blocking foreign call,   *)
(* and waiting on a condition.                                             *)
(*                                                                         *)
(* A critical section of the tc mutex is one step, except for the two that *)
(* another thread can see half done: marking the threads after a request,  *)
(* which they read without the mutex, and the collection itself.  A thread *)
(* that waits on a condition is in the condition's set until it is woken,  *)
(* and goes on once it has the mutex again.                                *)
(***************************************************************************)
EXTENDS Integers, FiniteSets

CONSTANTS
    Threads,        \* every thread there may ever be
    Main,           \* the thread whose get-thread-id is 0
    Slots,          \* indices of S_collect_waiting_tcs
    NoOne,
    MaxFires,       \* how many collect requests are made
    MaxLeaves       \* how often threads deactivate, join or have other events

ASSUME RendezvousAssumption ==
    /\ IsFiniteSet(Threads) /\ IsFiniteSet(Slots)
    /\ Main \in Threads /\ NoOne \notin Threads
    /\ MaxFires \in Nat /\ MaxLeaves \in Nat

VARIABLES
    pending,         \* $collect-request-pending
    active,          \* $active-threads
    something,       \* the threads with SOMETHINGPENDING
    pc,              \* what each thread is doing
    mutex,           \* the owner of the tc mutex between two steps
    todo,            \* threads that S_fire_collector still has to mark
    after,           \* where a thread goes on when it has fired
    thread0Waiting,  \* thread0-waiting?
    collectCond, thread0Cond, terminatedCond,  \* waiters not yet woken
    joined,          \* the thread that thread-join waits for
    waitingThreads,  \* S_collect_waiting_threads
    waitingTcs,      \* S_collect_waiting_tcs
    fires, leaves    \* bounded by MaxFires and MaxLeaves

conds == <<collectCond, thread0Cond, terminatedCond>>
slots == <<waitingThreads, waitingTcs>>
vars  == <<pending, active, something, pc, mutex, todo, after, thread0Waiting,
           conds, joined, slots, fires, leaves>>

\* A thread is active from its creation on, except while it is deactivated.
Stopped == {"unborn", "away", "waiting", "joining", "dead"}
ActiveAt == {"run", "fire", "mark", "event", "rv", "collect", "created", "forking"}

Waiting == {t \in Threads : pc[t] = "waiting"}
S_threads == {t \in Threads : pc[t] \notin {"unborn", "dead"}}

TypeOK ==
    /\ pending \in BOOLEAN
    /\ active \in 0..Cardinality(Threads)
    /\ something \subseteq Threads
    /\ pc \in [Threads -> Stopped \cup ActiveAt]
    /\ mutex \in Threads \cup {NoOne}
    /\ todo \subseteq Threads
    /\ after \in [Threads -> {"run", "rv"}]
    /\ thread0Waiting \in BOOLEAN
    /\ collectCond \subseteq Waiting
    /\ thread0Cond \subseteq Waiting
    /\ terminatedCond \subseteq {t \in Threads : pc[t] = "joining"}
    /\ joined \in [Threads -> Threads \cup {NoOne}]
    /\ waitingThreads \in 0..Cardinality(Threads)
    /\ waitingTcs \in [Slots -> Threads \cup {NoOne}]
    /\ fires \in 0..MaxFires /\ leaves \in 0..MaxLeaves

\* S_thread_init, and the base thread that main creates.
Init ==
    /\ pending = FALSE
    /\ active = 1
    /\ something = {}
    /\ pc = [t \in Threads |-> IF t = Main THEN "run" ELSE "unborn"]
    /\ mutex = NoOne
    /\ todo = {}
    /\ after = [t \in Threads |-> "run"]
    /\ thread0Waiting = FALSE
    /\ collectCond = {} /\ thread0Cond = {} /\ terminatedCond = {}
    /\ joined = [t \in Threads |-> NoOne]
    /\ waitingThreads = 0
    /\ waitingTcs = [i \in Slots |-> NoOne]
    /\ fires = 0 /\ leaves = 0

Goto(t, label) == pc' = [pc EXCEPT ![t] = label]
MutexFree == mutex = NoOne
KeepsRequest == UNCHANGED <<pending, something, todo, after, fires>>
KeepsWaits == UNCHANGED <<thread0Waiting, conds, joined, slots>>
-----------------------------------------------------------------------------
(* Requests. *)

\* S_fire_collector is called, by S_maybe_fire_collector after an allocation
\* or by collect-rendezvous, which goes on to the rendezvous (label).  The
\* first look at the flag is without the mutex.
FireCheck(t, label) ==
    /\ pc[t] = "run"
    /\ \/ /\ pending
          /\ Goto(t, label)
          /\ UNCHANGED <<after, fires>>
       \/ /\ ~pending /\ fires < MaxFires
          /\ fires' = fires + 1
          /\ Goto(t, "fire")
          /\ after' = [after EXCEPT ![t] = label]
    /\ UNCHANGED <<pending, active, something, mutex, todo, leaves>>
    /\ KeepsWaits

\* The second look, with the mutex: another thread may have been faster.
FireSet(t) ==
    /\ pc[t] = "fire" /\ MutexFree
    /\ \/ /\ pending
          /\ Goto(t, after[t])
          /\ after' = [after EXCEPT ![t] = "run"]
          /\ UNCHANGED <<pending, mutex, todo>>
       \/ /\ ~pending
          /\ pending' = TRUE
          /\ todo' = S_threads
          /\ mutex' = t
          /\ Goto(t, "mark")
          /\ UNCHANGED after
    /\ UNCHANGED <<active, something, fires, leaves>>
    /\ KeepsWaits

\* One iteration of the loop over S_threads, then its end.
FireMark(t, u) ==
    /\ pc[t] = "mark" /\ u \in todo
    /\ something' = something \cup {u}
    /\ todo' = todo \ {u}
    /\ UNCHANGED <<pending, active, pc, mutex, after, fires, leaves>>
    /\ KeepsWaits

FireEnd(t) ==
    /\ pc[t] = "mark" /\ todo = {}
    /\ mutex' = NoOne
    /\ Goto(t, after[t])
    /\ after' = [after EXCEPT ![t] = "run"]
    /\ UNCHANGED <<pending, active, something, todo, fires, leaves>>
    /\ KeepsWaits

\* The flag also announces timers and signals.
OtherEvent(t) ==
    /\ pc[t] = "run" /\ leaves < MaxLeaves
    /\ something' = something \cup {t}
    /\ leaves' = leaves + 1
    /\ UNCHANGED <<pending, active, pc, mutex, todo, after, fires>>
    /\ KeepsWaits

\* The event entry, which compiled code reaches when the trap counter runs
\* out: it clears the thread's flag first,
SafePoint(t) ==
    /\ pc[t] = "run" /\ t \in something
    /\ something' = something \ {t}
    /\ Goto(t, "event")
    /\ UNCHANGED <<pending, active, mutex, todo, after, fires, leaves>>
    /\ KeepsWaits

\* and then looks for a collect request, without the mutex.
Event(t) ==
    /\ pc[t] = "event"
    /\ Goto(t, IF pending THEN "rv" ELSE "run")
    /\ UNCHANGED <<active, mutex, leaves>>
    /\ KeepsRequest /\ KeepsWaits
-----------------------------------------------------------------------------
(* Conditions and activity. *)

\* s_thread_cond_signal wakes one waiter if there is any.
Signalled(cond, new) ==
    IF cond = {} THEN new = cond ELSE \E t \in cond : new = cond \ {t}

\* One of n active threads stops being active; signals says whether a thread
\* that waits for the collection is woken when nobody is left (check_collect).
StopsBeingActive(n, signals) ==
    /\ active' = n - 1
    /\ IF signals /\ pending /\ active' = 0
       THEN Signalled(collectCond, collectCond') /\ Signalled(thread0Cond, thread0Cond')
       ELSE UNCHANGED <<collectCond, thread0Cond>>

\* Fault: nobody is told that the last active thread has left.
DeactivateSilently(t) ==
    /\ pc[t] = "run" /\ MutexFree /\ leaves < MaxLeaves
    /\ StopsBeingActive(active, FALSE)
    /\ Goto(t, "away")
    /\ leaves' = leaves + 1
    /\ UNCHANGED <<mutex, thread0Waiting, terminatedCond, joined, slots>>
    /\ KeepsRequest

\* deactivate_thread: a blocking foreign call, Sdeactivate_thread, or a wait
\* on any other condition with interrupts enabled.
Deactivate(t) ==
    /\ pc[t] = "run" /\ MutexFree /\ leaves < MaxLeaves
    /\ StopsBeingActive(active, TRUE)
    /\ Goto(t, "away")
    /\ leaves' = leaves + 1
    /\ UNCHANGED <<mutex, thread0Waiting, terminatedCond, joined, slots>>
    /\ KeepsRequest

\* Fault: the mutex is not taken.
ReactivateUnlocked(t) ==
    /\ pc[t] = "away"
    /\ active' = active + 1
    /\ Goto(t, "run")
    /\ UNCHANGED <<mutex, leaves>>
    /\ KeepsRequest /\ KeepsWaits

\* reactivate_thread
Reactivate(t) ==
    /\ pc[t] = "away" /\ MutexFree
    /\ active' = active + 1
    /\ Goto(t, "run")
    /\ UNCHANGED <<mutex, leaves>>
    /\ KeepsRequest /\ KeepsWaits

\* Fault: the new thread's flag is clear.
CreatedUnaware(t) == UNCHANGED something

\* A new thread learns of a request that was made before it was listed.
CreatedAware(t) ==
    something' = IF pending THEN something \cup {t} ELSE something \ {t}

\* S_create_thread_object
CreateThreadObject(t) ==
    /\ pc[t] = "unborn" /\ MutexFree
    /\ active' = active + 1
    /\ CreatedAware(t)
    /\ UNCHANGED <<pending, mutex, todo, after, fires, leaves>>
    /\ KeepsWaits

\* Sactivate_thread in a thread that Scheme has not seen yet.
ActivateNew(t) ==
    /\ CreateThreadObject(t)
    /\ Goto(t, "run")

\* S_fork_thread: the thread object is created before the thread, which may
\* then start
Fork(t, u) ==
    /\ pc[t] = "run"
    /\ CreateThreadObject(u)
    /\ pc' = [pc EXCEPT ![t] = "forking", ![u] = "created"]

ForkStarts(t, u) ==
    /\ pc[t] = "forking" /\ pc[u] = "created"
    /\ pc' = [pc EXCEPT ![t] = "run", ![u] = "run"]
    /\ UNCHANGED <<active, mutex, leaves>>
    /\ KeepsRequest /\ KeepsWaits

\* destroy_thread of a listed thread: it may be active or not, and whoever
\* joins a thread is woken to look.
DestroyThread(u) ==
    /\ MutexFree
    /\ IF pc[u] \in ActiveAt
       THEN StopsBeingActive(active, TRUE)
       ELSE UNCHANGED <<active, collectCond, thread0Cond>>
    /\ terminatedCond' = {}
    /\ UNCHANGED <<mutex, thread0Waiting, joined, slots, leaves>>
    /\ KeepsRequest

\* start_thread returns, or Sdestroy_thread.
Destroy(t) ==
    /\ t # Main
    /\ pc[t] \in {"run", "away"}
    /\ DestroyThread(t)
    /\ Goto(t, "dead")

\* or not (s_thread_create fails).
ForkFails(t, u) ==
    /\ pc[t] = "forking" /\ pc[u] = "created"
    /\ DestroyThread(u)
    /\ pc' = [pc EXCEPT ![t] = "run", ![u] = "dead"]

\* thread-join, entered or (when it was waiting) continued with the mutex: it
\* waits, inactive, as long as the other thread is listed.
JoinLoop(t, u, n) ==
    /\ \/ /\ pc[u] = "dead"
          /\ active' = n
          /\ Goto(t, "run")
          /\ joined' = [joined EXCEPT ![t] = NoOne]
          /\ UNCHANGED conds
       \/ /\ pc[u] # "dead"
          /\ StopsBeingActive(n, TRUE)
          /\ Goto(t, "joining")
          /\ joined' = [joined EXCEPT ![t] = u]
          /\ terminatedCond' = terminatedCond \cup {t}
    /\ UNCHANGED <<mutex, thread0Waiting, slots>>
    /\ KeepsRequest

Join(t, u) ==
    /\ pc[t] = "run" /\ MutexFree /\ leaves < MaxLeaves
    /\ pc[u] # "unborn" /\ u # t
    /\ leaves' = leaves + 1
    /\ JoinLoop(t, u, active)

JoinWakes(t) ==
    /\ pc[t] = "joining" /\ t \notin terminatedCond /\ MutexFree
    /\ leaves' = leaves
    /\ JoinLoop(t, joined[t], active + 1)

\* A wait may end without a signal.
Spurious(t) ==
    /\ t \in collectCond \cup thread0Cond \cup terminatedCond
    /\ collectCond' = collectCond \ {t}
    /\ thread0Cond' = thread0Cond \ {t}
    /\ terminatedCond' = terminatedCond \ {t}
    /\ UNCHANGED <<active, pc, mutex, thread0Waiting, joined, slots, leaves>>
    /\ KeepsRequest
-----------------------------------------------------------------------------
(* The rendezvous. *)

\* t has the mutex in the loop f of $collect-rendezvous, having entered it or
\* returned from one of its waits.
InLoop(t) ==
    /\ MutexFree
    /\ \/ pc[t] = "rv"
       \/ pc[t] = "waiting" /\ t \notin collectCond \cup thread0Cond

\* What a thread finds there: S_condition_wait has made it active again, taken
\* it off the count of waiters and cleared its slot, and the main thread has
\* reset thread0-waiting?.
Back(t) == IF pc[t] = "waiting" THEN 1 ELSE 0
ActiveWith(t) == active + Back(t)
WaitersBut(t) == waitingThreads - Back(t)

SlotsBut(t) == [i \in Slots |-> IF waitingTcs[i] = t THEN NoOne ELSE waitingTcs[i]]
Thread0WaitingBut(t) == thread0Waiting /\ t # Main

\* A waiter is recorded in the first open slot of S_collect_waiting_tcs, if
\* there are no more waiters than slots.
SlotsWith(t) ==
    LET open == {i \in Slots : SlotsBut(t)[i] = NoOne} IN
    IF WaitersBut(t) < Cardinality(Slots) /\ open # {}
    THEN [SlotsBut(t) EXCEPT ![CHOOSE i \in open : \A j \in open : i <= j] = t]
    ELSE SlotsBut(t)

\* t leaves the loop.
Leaves(t) ==
    /\ active' = ActiveWith(t)
    /\ waitingThreads' = WaitersBut(t) /\ waitingTcs' = SlotsBut(t)
    /\ thread0Waiting' = Thread0WaitingBut(t)
    /\ UNCHANGED <<conds, joined, leaves>>
    /\ KeepsRequest

\* S_condition_wait on one of the collect conditions: it does not signal, even
\* if t was the last active thread.
CollectWait(t) ==
    /\ active' = ActiveWith(t) - 1
    /\ waitingThreads' = WaitersBut(t) + 1 /\ waitingTcs' = SlotsWith(t)
    /\ Goto(t, "waiting")
    /\ UNCHANGED <<mutex, terminatedCond, joined, leaves>>
    /\ KeepsRequest

NoRequest(t) ==
    /\ InLoop(t) /\ ~pending
    /\ Leaves(t)
    /\ Goto(t, "run")
    /\ UNCHANGED mutex

\* The main thread collects when it takes part.
MayCollect(t) == t = Main \/ ~thread0Waiting

\* The last one standing runs the collect-request handler, with the mutex.
Collect(t) ==
    /\ InLoop(t) /\ pending
    /\ ActiveWith(t) = 1 /\ MayCollect(t)
    /\ Leaves(t)
    /\ Goto(t, "collect")
    /\ mutex' = t

\* The last one standing leaves the collection to the main thread.
PassToMain(t) ==
    /\ InLoop(t) /\ pending
    /\ ActiveWith(t) = 1 /\ ~MayCollect(t)
    /\ CollectWait(t)
    /\ collectCond' = collectCond \cup {t}
    /\ thread0Cond' = {}
    /\ UNCHANGED thread0Waiting

MainWaits(t) ==
    /\ InLoop(t) /\ pending
    /\ ActiveWith(t) # 1 /\ t = Main
    /\ CollectWait(t)
    /\ thread0Waiting' = TRUE
    /\ thread0Cond' = thread0Cond \cup {t}
    /\ UNCHANGED collectCond

OtherWaits(t) ==
    /\ InLoop(t) /\ pending
    /\ ActiveWith(t) # 1 /\ t # Main
    /\ CollectWait(t)
    /\ collectCond' = collectCond \cup {t}
    /\ UNCHANGED <<thread0Waiting, thread0Cond>>

\* Fault: only those on the main condition are told.
CollectDoneHalf(t) ==
    /\ pc[t] = "collect"
    /\ pending' = FALSE
    /\ thread0Cond' = {}
    /\ mutex' = NoOne
    /\ Goto(t, "run")
    /\ UNCHANGED <<active, something, todo, after, fires, leaves>>
    /\ UNCHANGED <<thread0Waiting, collectCond, terminatedCond, joined, slots>>

\* The handler is done.
CollectDone(t) ==
    /\ pc[t] = "collect"
    /\ pending' = FALSE
    /\ collectCond' = {} /\ thread0Cond' = {}
    /\ mutex' = NoOne
    /\ Goto(t, "run")
    /\ UNCHANGED <<active, something, todo, after, fires, leaves>>
    /\ UNCHANGED <<thread0Waiting, terminatedCond, joined, slots>>
-----------------------------------------------------------------------------
\* The steps a thread takes on its way through a request, and the ones it may
\* take or leave.
Obliged(t) ==
    \/ FireSet(t) \/ (\E u \in Threads : FireMark(t, u)) \/ FireEnd(t)
    \/ SafePoint(t) \/ Event(t)
    \/ NoRequest(t) \/ Collect(t) \/ PassToMain(t) \/ MainWaits(t) \/ OtherWaits(t)
    \/ CollectDone(t)
    \/ \E u \in Threads : ForkStarts(t, u) \/ ForkFails(t, u)
    \/ JoinWakes(t)

Free(t) ==
    \/ \E label \in {"run", "rv"} : FireCheck(t, label)
    \/ OtherEvent(t) \/ Deactivate(t) \/ Reactivate(t)
    \/ ActivateNew(t) \/ Destroy(t)
    \/ \E u \in Threads : Fork(t, u) \/ Join(t, u)
    \/ Spurious(t)

Next == \E t \in Threads : Obliged(t) \/ Free(t)

Spec == Init /\ [][Next]_vars

\* Scheme code checks for events again and again (SafePoint) wherever it is in
\* between, and a thread that waits for the tc mutex gets it in the end.
FairSpec == Spec /\ \A t \in Threads : SF_vars(Obliged(t))
-----------------------------------------------------------------------------
(* Properties. *)

\* $active-threads is exactly the number of threads that may be running Scheme
\* code: a fork that failed, a thread that ended while inactive and every kind
\* of wait included.
ActiveExact == active = Cardinality({t \in Threads : pc[t] \in ActiveAt})

\* While a thread collects, every other thread is inactive (the check in
\* docollect, "cannot collect when multiple threads are active", never fails).
StopTheWorld ==
    \A t \in Threads : pc[t] = "collect" => \A u \in Threads \ {t} : pc[u] \in Stopped

\* "If the main thread is active, perform the GC there": another thread
\* collects only if the main thread takes no part in the rendezvous.
MainCollects ==
    \A t \in Threads \ {Main} : pc[t] = "collect" => pc[Main] \notin ActiveAt \cup {"waiting"}

\* When a collection is requested, nobody is active and somebody waits for it,
\* then a waiter has been woken; waiting does not signal, so this is what the
\* signals of the threads that leave must achieve.
NoLostWakeup ==
    pending /\ active = 0 /\ Waiting # {} => Waiting \ (collectCond \cup thread0Cond) # {}

\* A request reaches every thread: one that is not on its way to the
\* rendezvous has its flag set or will be marked next, whatever raced with
\* clearing the flag, and even if it was away or did not exist.
RequestSeen ==
    pending => \A t \in S_threads :
        pc[t] \in {"event", "rv", "waiting", "collect"} \/ t \in something \cup todo

\* The slots from which the parallel collector takes its helpers: only threads
\* that wait are recorded, each once, and a thread is left out only when there
\* were more waiters than slots.
SlotsExact ==
    /\ waitingThreads = Cardinality(Waiting)
    /\ \A i \in Slots : waitingTcs[i] # NoOne =>
         /\ waitingTcs[i] \in Waiting
         /\ \A j \in Slots \ {i} : waitingTcs[j] # waitingTcs[i]

\* Every request is followed by a collection, unless every thread is in a
\* foreign call or a wait of its own and stays there.
RequestAnswered == pending ~> (~pending \/ (active = 0 /\ Waiting = {}))

\* A thread that waits for a collection runs again.
WaitersReturn == \A t \in Threads : pc[t] = "waiting" ~> pc[t] = "run"

\* thread-join returns once the other thread has ended.
JoinReturns ==
    \A t \in Threads :
        (\E u \in Threads : joined[t] = u /\ pc[u] = "dead") ~> joined[t] = NoOne

\* The bookkeeping of the rendezvous: active threads are counted, nobody misses a
\* request, the threads that wait for it are woken when all are there, and the
\* slots show who waits.
RendezvousInv == TypeOK /\ ActiveExact /\ RequestSeen /\ NoLostWakeup /\ SlotsExact

\* A collection is run by one thread alone, the main thread if it takes part.
CollectsAlone == StopTheWorld /\ MainCollects

\* Every wait ends: for a collection, and for the end of another thread.
WaitsEnd == WaitersReturn /\ JoinReturns
=============================================================================
