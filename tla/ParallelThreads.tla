-------------------------- MODULE ParallelThreads --------------------------
(***************************************************************************)
(* Threads made by thread/parallel (thread/future.rkt), their pool, and    *)
(* fsemaphores (thread/fsemaphore.rkt).  Each parallel thread is a future, *)
(* run by the workers of the pool in OS threads of their own, with a       *)
(* Racket thread of the place that continues the future when it blocks:    *)
(* future and Racket thread go by the same name here.                      *)
(*                                                                         *)
(* The pool's mutex is innermost and is held only for a few assignments,   *)
(* so what is done under it is one step.  The spinlocks of future-lock.rkt *)
(* are variables, held across steps where another one is taken inside.     *)
(* Everything of the place happens in one OS thread: its main Racket       *)
(* thread, the Racket threads of the futures, and callbacks.               *)
(*                                                                         *)
(* The timer of a worker's engine is stopped only in uninterruptible mode. *)
(* It may still go off when a future has suspended and released its lock,  *)
(* before it has left its code, and then stop or switch it again: the      *)
(* variable late tells whether that has happened.                          *)
(*                                                                         *)
(* Plain futures and touch, breaks, the closing of a pool, and blocking of *)
(* the future's Racket thread on something else are left out.              *)
(***************************************************************************)
EXTENDS Integers, FiniteSets, FiniteSetsExt, Sequences, SequencesExt

CONSTANTS
    Threads,
    Workers,
    Place,         \* the place's OS thread, as a holder of locks
    NoOne,
    MaxOps,        \* bound: operations of all the threads
    MaxPosts,      \* bound: fsemaphore-post by the main Racket thread
    MaxSuspends    \* bound: thread-suspend and kill-thread by it

ASSUME PoolAssumption ==
    /\ IsFiniteSet(Threads) /\ IsFiniteSet(Workers)
    /\ Place \notin Workers /\ NoOne \notin Workers \cup Threads \cup {Place}
    /\ {"thunk", "racket", "over"} \cap Workers = {}
    /\ MaxOps \in Nat /\ MaxPosts \in Nat /\ MaxSuspends \in Nat

VARIABLES
    state,     \* future*-state, "free" for #f
    at,        \* the continuation: "thunk" when saved there, or who runs it;
               \* "lost" when one is saved that only leaves the future
    lock,      \* future*-lock: who holds it
    stop,      \* parallel*-stop?
    queue,     \* the futures from futures-head to futures-tail
    capacity,  \* scheduler-capacity
    waiters,   \* workers waiting for the pool's condition
    active,    \* place-active-parallel
    c, waiting, fslock,     \* the fsemaphore, with both its lists as one queue
    round,     \* scheduler-round-robin
    wpc, cur, seen,         \* each worker: where, its future, the capacity it read
    tpc,       \* each Racket thread: at touch-blocked, in the future's code, or over
    sched,     \* in its thread group (on), descheduled (off), or with 'future
    suspended, \* thread-suspended?
    ppc, whom, \* what the place does in atomic mode, and for which thread
    callbacks, \* futures with a callback of wakeup-racket-thread posted
    latch,     \* the place's wakeup handle
    ops, posts, suspends,   \* for the bounds
    posted, granted,        \* history: units posted, and units waits have got,
    late       \* and whether a timer went off in a future that had suspended

futures  == <<state, at, lock, stop, queue, waiters, active>>
fsema    == <<c, waiting, fslock>>
workers  == <<wpc, cur, seen, capacity, round>>
threads  == <<tpc, sched, suspended>>
placevar == <<ppc, whom>>
signals  == <<callbacks, latch>>
counts   == <<ops, posts, suspends>>
history  == <<posted, granted, late>>
vars == <<futures, fsema, workers, threads, placevar, signals, counts, history>>

Free(f) == lock[f] = NoOne
Scheduled(f) == f \in Range(queue)
Goto(w, l) == wpc' = [wpc EXCEPT ![w] = l] /\ UNCHANGED <<cur, seen, capacity, round>>
Set(f, s, where) == state' = [state EXCEPT ![f] = s] /\ at' = [at EXCEPT ![f] = where]

\* future-suspend, in a worker, pauses switching in the whole pool.
SwapsOut(w, l) ==
    wpc' = [wpc EXCEPT ![w] = l] /\ round' = "pause" /\ UNCHANGED <<cur, seen, capacity>>

\* try-deschedule-future?: it is unlinked from the queue.
Deschedule(f) == \E i \in DOMAIN queue : queue[i] = f /\ queue' = RemoveAt(queue, i)

\* Fault: the queue is extended without a signal.
SilentSchedule(f, front) ==
    /\ queue' = IF front THEN <<f>> \o queue ELSE Append(queue, f)
    /\ active' = active + 1
    /\ UNCHANGED waiters

\* schedule-future!
Schedule(f, front) ==
    /\ queue' = IF front THEN <<f>> \o queue ELSE Append(queue, f)
    /\ active' = active + 1
    /\ \/ waiters = {} /\ waiters' = {}
       \/ \E w \in waiters : waiters' = waiters \ {w}

\* future-maybe-notify-stop: whether it wakes the place.
NotifyStop(f) == stop[f] /\ state[f] = "running"

Init ==
    /\ state = [f \in Threads |-> "free"]
    /\ at = [f \in Threads |-> "thunk"]
    /\ lock = [f \in Threads |-> NoOne]
    /\ stop = [f \in Threads |-> FALSE]
    /\ queue \in {s \in [1..Cardinality(Threads) -> Threads] : IsInjective(s)}
    /\ waiters = {} /\ active = Cardinality(Threads)
    /\ c = 0 /\ waiting = << >> /\ fslock = NoOne
    /\ wpc = [w \in Workers |-> "loop"]
    /\ cur = [w \in Workers |-> NoOne]
    /\ seen = [w \in Workers |-> 0]
    /\ capacity = Cardinality(Workers) /\ round = "round"
    /\ tpc = [f \in Threads |-> "touch"]
    /\ sched = [f \in Threads |-> "future"]
    /\ suspended = [f \in Threads |-> FALSE]
    /\ ppc = "free" /\ whom = NoOne
    /\ callbacks = {} /\ latch = FALSE
    /\ ops = 0 /\ posts = 0 /\ suspends = 0
    /\ posted = 0 /\ granted = 0 /\ late = FALSE
-----------------------------------------------------------------------------
(* Workers: start-worker, maybe-run-future-in-worker, run-future-in-worker. *)

\* Under the mutex: back from a future, look for another, or wait.
Loop(w) ==
    /\ wpc[w] \in {"loop", "back"} /\ w \notin waiters
    /\ capacity' = IF wpc[w] = "back" THEN capacity + 1 ELSE capacity
    /\ IF queue = << >>
       THEN /\ wpc' = [wpc EXCEPT ![w] = "loop"]
            /\ cur' = [cur EXCEPT ![w] = NoOne]
            /\ waiters' = waiters \cup {w}
       ELSE /\ wpc' = [wpc EXCEPT ![w] = "claim"]
            /\ cur' = [cur EXCEPT ![w] = Head(queue)]
            /\ UNCHANGED waiters
    /\ UNCHANGED <<state, at, lock, stop, queue, active, seen, round>>
    /\ UNCHANGED <<fsema, threads, placevar, signals, counts, history>>

\* The future may have been claimed or stopped since the mutex was released.
\* The capacity is read here and written in Run, without the mutex.
Claim(w) ==
    LET f == cur[w] IN
    /\ wpc[w] = "claim" /\ Free(f)
    /\ IF Scheduled(f)
       THEN /\ Deschedule(f)
            /\ lock' = [lock EXCEPT ![f] = w]
            /\ seen' = [seen EXCEPT ![w] = capacity]
            /\ wpc' = [wpc EXCEPT ![w] = "claimed"]
            /\ UNCHANGED <<cur, capacity, round>>
       ELSE UNCHANGED <<queue, lock>> /\ Goto(w, "loop")
    /\ UNCHANGED <<state, at, stop, waiters, active>>
    /\ UNCHANGED <<fsema, threads, placevar, signals, counts, history>>

\* Run, or not when a stop was requested in between.
Run(w) ==
    LET f == cur[w] IN
    /\ wpc[w] = "claimed"
    /\ capacity' = seen[w] - 1
    /\ lock' = [lock EXCEPT ![f] = NoOne]
    /\ IF stop[f]
       THEN /\ state' = [state EXCEPT ![f] = "free"] /\ UNCHANGED at
            /\ latch' = TRUE
            /\ active' = active - 1
            /\ wpc' = [wpc EXCEPT ![w] = "back"]
       ELSE /\ Set(f, "running", w) /\ UNCHANGED <<latch, active>>
            /\ \E l \in IF at[f] = "lost" THEN {"wake", "left"} ELSE {"run"} :
                  wpc' = [wpc EXCEPT ![w] = l]
    /\ seen' = [seen EXCEPT ![w] = 0]
    /\ UNCHANGED <<cur, round, stop, queue, waiters, callbacks>>
    /\ UNCHANGED <<fsema, threads, placevar, counts, history>>

Running(w) == wpc[w] = "run" /\ Free(cur[w])

\* The engine's timer: a stop request ends the run.  It may come late, when the
\* future has suspended already; the continuation that was saved is then replaced
\* by the rest of that suspension.
StopRun(w) ==
    LET f == cur[w] IN
    /\ wpc[w] \in {"run", "wake", "left"} /\ Free(f) /\ stop[f]
    /\ Set(f, "free", IF wpc[w] = "run" THEN "thunk" ELSE "lost")
    /\ late' = (late \/ wpc[w] # "run")
    /\ latch' = TRUE
    /\ SwapsOut(w, "wake")
    /\ UNCHANGED <<lock, stop, queue, waiters, active, callbacks, posted, granted>>
    /\ UNCHANGED <<fsema, threads, placevar, counts>>

\* The engine's timer, with all workers busy and futures waiting: under the mutex.
\* It may come late, before or after the future has left the prompt of run-future.
RoundRobin(w) ==
    /\ round = "round" /\ queue # << >> /\ capacity = 0
    /\ \/ wpc[w] = "run" /\ Goto(w, "switch") /\ UNCHANGED late
       \/ wpc[w] \in {"wake", "left"} /\ Goto(w, "reswitch") /\ late' = TRUE
       \/ wpc[w] \in {"left", "ended"} /\ Goto(w, "raise") /\ late' = TRUE
    /\ UNCHANGED <<futures, fsema, threads, placevar, signals, counts, posted, granted>>

\* Then the future makes room for another.
Switch(w) ==
    LET f == cur[w] IN
    /\ wpc[w] \in {"switch", "reswitch"} /\ Free(f)
    /\ latch' = (latch \/ NotifyStop(f))
    /\ Set(f, "free", IF wpc[w] = "switch" THEN "thunk" ELSE "lost")
    /\ IF stop[f] THEN UNCHANGED <<queue, waiters, active>> ELSE Schedule(f, FALSE)
    /\ SwapsOut(w, "left")
    /\ UNCHANGED <<lock, stop, callbacks>>
    /\ UNCHANGED <<fsema, threads, placevar, counts, history>>

\* Outside the prompt of run-future, a late stop or switch cannot save a
\* continuation; the error leaves the future's lock held.
Raise(w) ==
    LET f == cur[w] IN
    /\ wpc[w] = "raise" \/ (wpc[w] \in {"left", "ended"} /\ stop[f])
    /\ Free(f)
    /\ lock' = [lock EXCEPT ![f] = w]
    /\ state' = [state EXCEPT ![f] = "free"]
    /\ latch' = (latch \/ wpc[w] # "raise" \/ NotifyStop(f))
    /\ late' = TRUE
    /\ Goto(w, "hung")
    /\ UNCHANGED <<at, stop, queue, waiters, active, callbacks, posted, granted>>
    /\ UNCHANGED <<fsema, threads, placevar, counts>>

\* future-block: an operation that needs the Racket thread.
Block(w) ==
    LET f == cur[w] IN
    /\ Running(w) /\ ops < MaxOps
    /\ ops' = ops + 1
    /\ Set(f, "blocked", "thunk") /\ latch' = TRUE
    /\ SwapsOut(w, "wake")
    /\ UNCHANGED <<lock, stop, queue, waiters, active, callbacks, posts, suspends>>
    /\ UNCHANGED <<fsema, threads, placevar, history>>

\* finish! of run-future; nothing depends on a parallel thread's future.  It is
\* uninterruptible until the Racket thread is woken.
Finish(w) ==
    LET f == cur[w] IN
    /\ Running(w)
    /\ Set(f, "done", "over") /\ latch' = (latch \/ NotifyStop(f))
    /\ Goto(w, "finish")
    /\ UNCHANGED <<lock, stop, queue, waiters, active, callbacks>>
    /\ UNCHANGED <<fsema, threads, placevar, counts, history>>

\* wakeup-racket-thread, without the future's lock.
Wake(w) ==
    /\ wpc[w] \in {"wake", "finish"}
    /\ IF stop[cur[w]] THEN UNCHANGED signals
       ELSE callbacks' = callbacks \cup {cur[w]} /\ latch' = TRUE
    /\ Goto(w, IF wpc[w] = "wake" THEN "left" ELSE "ended")
    /\ UNCHANGED <<futures, fsema, threads, placevar, counts, history>>

\* The future has left the prompt of run-future, and the engine ends.
Left(w) ==
    /\ wpc[w] \in {"left", "ended"}
    /\ active' = active - 1
    /\ latch' = (latch \/ active = 1)
    /\ wpc' = [wpc EXCEPT ![w] = "back"]
    /\ round' = "round"
    /\ UNCHANGED <<cur, seen, capacity>>
    /\ UNCHANGED <<state, at, lock, stop, queue, waiters, callbacks>>
    /\ UNCHANGED <<fsema, threads, placevar, counts, history>>
-----------------------------------------------------------------------------
(* fsemaphore.rkt *)

\* fsemaphore-wait when the counter is not zero, and fsemaphore-try-wait?.
WaitTakes(w) ==
    LET f == cur[w] IN
    /\ wpc[w] = "run" /\ ops < MaxOps /\ fslock = NoOne /\ c > 0
    /\ ops' = ops + 1
    /\ c' = c - 1 /\ granted' = granted + 1
    /\ UNCHANGED <<waiting, fslock, posted, late, posts, suspends>>
    /\ UNCHANGED <<futures, workers, threads, placevar, signals>>

\* fsemaphore-wait when it is zero: the fsemaphore's lock, then the future's.
WaitLocks(w) ==
    LET f == cur[w] IN
    /\ wpc[w] = "run" /\ ops < MaxOps /\ fslock = NoOne /\ c = 0
    /\ ops' = ops + 1
    /\ fslock' = w
    /\ Goto(w, "wait")
    /\ UNCHANGED <<c, waiting, posts, suspends>>
    /\ UNCHANGED <<futures, threads, placevar, signals, history>>

\* Fault: the future's lock is not held until the future has suspended.
WaitJoinsUnlocked(w) ==
    LET f == cur[w] IN
    /\ wpc[w] = "wait" /\ Free(f)
    /\ waiting' = Append(waiting, f)
    /\ latch' = (latch \/ NotifyStop(f))
    /\ state' = [state EXCEPT ![f] = "fsema"]
    /\ fslock' = NoOne
    /\ Goto(w, "suspend")
    /\ UNCHANGED <<at, lock, stop, queue, waiters, active, c, callbacks>>
    /\ UNCHANGED <<threads, placevar, counts, history>>

\* Fault: the place is not told that the future no longer runs.
WaitJoinsSilently(w) ==
    LET f == cur[w] IN
    /\ wpc[w] = "wait" /\ Free(f)
    /\ lock' = [lock EXCEPT ![f] = w]
    /\ waiting' = Append(waiting, f)
    /\ state' = [state EXCEPT ![f] = "fsema"]
    /\ fslock' = NoOne
    /\ Goto(w, "suspend")
    /\ UNCHANGED <<at, stop, queue, waiters, active, c, signals>>
    /\ UNCHANGED <<threads, placevar, counts, history>>

\* In the queue, and out of the fsemaphore's lock before the continuation is
\* saved.
WaitJoins(w) ==
    LET f == cur[w] IN
    /\ wpc[w] = "wait" /\ Free(f)
    /\ lock' = [lock EXCEPT ![f] = w]
    /\ waiting' = Append(waiting, f)
    /\ latch' = (latch \/ NotifyStop(f))
    /\ state' = [state EXCEPT ![f] = "fsema"]
    /\ fslock' = NoOne
    /\ Goto(w, "suspend")
    /\ UNCHANGED <<at, stop, queue, waiters, active, c, callbacks>>
    /\ UNCHANGED <<threads, placevar, counts, history>>

\* future-suspend.
Suspends(w) ==
    LET f == cur[w] IN
    /\ wpc[w] = "suspend"
    /\ at' = [at EXCEPT ![f] = "thunk"]
    /\ lock' = [lock EXCEPT ![f] = NoOne]
    /\ SwapsOut(w, "wake")
    /\ UNCHANGED <<state, stop, queue, waiters, active>>
    /\ UNCHANGED <<fsema, threads, placevar, signals, counts, history>>

\* fsemaphore-post, by a future or by the main Racket thread of the place.
PostLocks(w) ==
    LET f == cur[w] IN
    /\ wpc[w] = "run" /\ ops < MaxOps /\ fslock = NoOne
    /\ ops' = ops + 1
    /\ fslock' = w
    /\ Goto(w, "post")
    /\ UNCHANGED <<c, waiting, posts, suspends>>
    /\ UNCHANGED <<futures, threads, placevar, signals, history>>

MainPosts ==
    /\ ppc = "free" /\ posts < MaxPosts /\ fslock = NoOne
    /\ posts' = posts + 1
    /\ fslock' = Place
    /\ ppc' = "post" /\ UNCHANGED whom
    /\ UNCHANGED <<c, waiting, ops, suspends>>
    /\ UNCHANGED <<futures, workers, threads, signals, history>>

PostReturns(a) ==
    IF a = Place THEN ppc' = "free" /\ UNCHANGED <<whom, workers>>
    ELSE Goto(a, "run") /\ UNCHANGED placevar

\* Nobody is in line.
PostCounts(a) ==
    /\ fslock = a /\ IF a = Place THEN ppc = "post" ELSE wpc[a] = "post"
    /\ c > 0 \/ waiting = << >>
    /\ c' = c + 1 /\ posted' = posted + 1
    /\ fslock' = NoOne
    /\ PostReturns(a)
    /\ UNCHANGED <<waiting, granted, late, futures, threads, signals, counts>>

\* Fault: a unit that the first in line cannot take is dropped.
PostNotifiesOnce(a) ==
    /\ fslock = a /\ IF a = Place THEN ppc = "post" ELSE wpc[a] = "post"
    /\ c = 0 /\ waiting # << >>
    /\ LET f == Head(waiting) IN
       /\ Free(f)
       /\ waiting' = Tail(waiting)
       /\ IF stop[f]
          THEN UNCHANGED <<state, queue, waiters, active, latch, granted>>
          ELSE /\ state' = [state EXCEPT ![f] = "free"]
               /\ Schedule(f, TRUE)
               /\ latch' = (latch \/ a # Place)
               /\ granted' = granted + 1
       /\ posted' = posted + 1 /\ fslock' = NoOne /\ PostReturns(a)
    /\ UNCHANGED <<c, at, lock, stop, threads, callbacks, counts, late>>

\* future-notify-dependent for the first in line; a stopped one is passed over.
PostNotifies(a) ==
    /\ fslock = a /\ IF a = Place THEN ppc = "post" ELSE wpc[a] = "post"
    /\ c = 0 /\ waiting # << >>
    /\ LET f == Head(waiting) IN
       /\ Free(f)
       /\ waiting' = Tail(waiting)
       /\ IF stop[f]
          THEN UNCHANGED <<state, queue, waiters, active, latch, fslock, history, placevar, workers>>
          ELSE /\ state' = [state EXCEPT ![f] = "free"]
               /\ Schedule(f, TRUE)
               /\ latch' = (latch \/ a # Place)
               /\ posted' = posted + 1 /\ granted' = granted + 1
               /\ fslock' = NoOne
               /\ PostReturns(a)
    /\ UNCHANGED <<c, at, lock, stop, threads, callbacks, counts, late>>
-----------------------------------------------------------------------------
(* The place's OS thread: the futures' Racket threads, callbacks, and the main
   Racket thread, which suspends, resumes and kills them. *)

Turn(f) == ppc = "free" /\ sched[f] = "on" /\ tpc[f] # "over"

\* touch-blocked: continue the blocked future here, or wait for it to block.
TouchBlocked(f) ==
    /\ Turn(f) /\ tpc[f] = "touch" /\ Free(f) /\ state[f] # "done"
    /\ IF state[f] = "blocked"
       THEN /\ Set(f, "free", "racket")
            /\ tpc' = [tpc EXCEPT ![f] = "racket"]
            /\ UNCHANGED sched
       ELSE sched' = [sched EXCEPT ![f] = "future"] /\ UNCHANGED <<state, at, tpc>>
    /\ UNCHANGED <<lock, stop, queue, waiters, active, suspended>>
    /\ UNCHANGED <<fsema, workers, placevar, signals, counts, history>>

\* future-unblock: back to the pool.
Unblock(f) ==
    /\ Turn(f) /\ tpc[f] = "racket" /\ Free(f)
    /\ at' = [at EXCEPT ![f] = "thunk"]
    /\ Schedule(f, FALSE)
    /\ tpc' = [tpc EXCEPT ![f] = "touch"]
    /\ UNCHANGED <<state, lock, stop, sched, suspended>>
    /\ UNCHANGED <<fsema, workers, placevar, signals, counts, history>>

\* thread-dead!, up to the kill callback that stops the future.
Dies(f) ==
    /\ tpc' = [tpc EXCEPT ![f] = "over"]
    /\ sched' = [sched EXCEPT ![f] = "off"]
    /\ ppc' = "stop" /\ whom' = f
    /\ UNCHANGED <<suspended, fsema, workers, signals, history>>

\* The Racket thread ends: the future is done, or has ended in the Racket thread.
Ends(f) ==
    /\ Turn(f)
    /\ \/ tpc[f] = "touch" /\ Free(f) /\ state[f] = "done" /\ UNCHANGED at
       \/ tpc[f] = "racket" /\ at' = [at EXCEPT ![f] = "over"]
    /\ Dies(f)
    /\ UNCHANGED <<state, lock, stop, queue, waiters, active, counts>>

Kill(f) ==
    /\ ppc = "free" /\ tpc[f] # "over" /\ suspends < MaxSuspends
    /\ suspends' = suspends + 1
    /\ Dies(f)
    /\ UNCHANGED <<futures, ops, posts>>

\* do-thread-suspend, up to the callback that stops the future.
Suspend(f) ==
    /\ ppc = "free" /\ tpc[f] # "over" /\ ~suspended[f] /\ suspends < MaxSuspends
    /\ suspends' = suspends + 1
    /\ suspended' = [suspended EXCEPT ![f] = TRUE]
    /\ ppc' = "stop" /\ whom' = f
    /\ UNCHANGED <<futures, fsema, workers, tpc, sched, signals, ops, posts, history>>

\* The callbacks of wakeup-racket-thread, all at once.
Woken == {f \in callbacks : sched[f] = "future" /\ tpc[f] # "over"}
Callbacks ==
    /\ sched' = [f \in Threads |->
                   IF f \in Woken THEN IF suspended[f] THEN "off" ELSE "on" ELSE sched[f]]
    /\ callbacks' = {}

RunCallbacks ==
    /\ ppc = "free" /\ callbacks # {}
    /\ Callbacks
    /\ UNCHANGED <<futures, fsema, workers, tpc, suspended, placevar, latch, counts, history>>

\* The place's scheduler has slept, and has been woken.
PlaceWakes ==
    /\ ppc = "free" /\ latch
    /\ latch' = FALSE
    /\ UNCHANGED <<futures, fsema, workers, threads, placevar, callbacks, counts, history>>

\* do-thread-suspend goes on when future-external-stop has returned.
Stopped(f) ==
    /\ ppc' = "free" /\ whom' = NoOne
    /\ sched' = [sched EXCEPT ![f] = IF @ = "on" THEN "off" ELSE @]

\* future-external-stop: take the future from the queue, or wait in atomic mode
\* until it no longer runs.
Stops(f) ==
    /\ ppc \in {"stop", "check"} /\ whom = f /\ Free(f)
    /\ stop' = [stop EXCEPT ![f] = TRUE]
    /\ IF ppc = "stop" /\ Scheduled(f)
       THEN /\ Deschedule(f)
            /\ active' = active - 1 /\ latch' = (latch \/ active = 1)
       ELSE UNCHANGED <<queue, active, latch>>
    /\ IF state[f] = "running"
       THEN ppc' = "asleep" /\ Callbacks /\ UNCHANGED whom
       ELSE Stopped(f) /\ UNCHANGED callbacks
    /\ UNCHANGED <<state, at, lock, waiters, fsema, workers, tpc, suspended, counts, history>>

\* sleep-this-place returns.
StopWakes ==
    /\ ppc = "asleep" /\ latch
    /\ latch' = FALSE
    /\ ppc' = "check" /\ UNCHANGED whom
    /\ UNCHANGED <<futures, fsema, workers, threads, callbacks, counts, history>>

\* Fault: a blocked future's thread keeps its mark and is not rescheduled.
ResumeBlockedNot(f) ==
    /\ ppc = "free" /\ suspended[f] /\ tpc[f] # "over" /\ Free(f)
    /\ suspended' = [suspended EXCEPT ![f] = FALSE]
    /\ stop' = [stop EXCEPT ![f] = FALSE]
    /\ IF sched[f] = "future" /\ state[f] = "free"
       THEN Schedule(f, FALSE) ELSE UNCHANGED <<queue, waiters, active>>
    /\ sched' = [sched EXCEPT ![f] = IF @ = "future" THEN @ ELSE "on"]
    /\ UNCHANGED <<state, at, lock, tpc>>
    /\ UNCHANGED <<fsema, workers, placevar, signals, counts, history>>

\* do-thread-resume: future-external-resume, then thread-reschedule!, which does
\* nothing for a thread that is marked 'future.
Resume(f) ==
    /\ ppc = "free" /\ suspended[f] /\ tpc[f] # "over" /\ Free(f)
    /\ suspended' = [suspended EXCEPT ![f] = FALSE]
    /\ stop' = [stop EXCEPT ![f] = FALSE]
    /\ IF sched[f] = "future" /\ state[f] = "free"
       THEN Schedule(f, FALSE) ELSE UNCHANGED <<queue, waiters, active>>
    /\ sched' = [sched EXCEPT ![f] =
                   IF @ = "future" /\ state[f] # "blocked" THEN @ ELSE "on"]
    /\ UNCHANGED <<state, at, lock, tpc>>
    /\ UNCHANGED <<fsema, workers, placevar, signals, counts, history>>
-----------------------------------------------------------------------------
Obliged(w) == Loop(w) \/ Claim(w) \/ Run(w) \/ StopRun(w) \/ RoundRobin(w) \/ Switch(w)
                \/ Raise(w) \/ Wake(w) \/ Left(w) \/ WaitJoins(w) \/ Suspends(w)
                \/ PostCounts(w) \/ PostNotifies(w)

Chosen(w) == Block(w) \/ Finish(w) \/ WaitTakes(w) \/ WaitLocks(w) \/ PostLocks(w)

PlaceObliged ==
    \/ PostCounts(Place) \/ PostNotifies(Place)
    \/ RunCallbacks \/ PlaceWakes \/ StopWakes
    \/ \E f \in Threads : Stops(f)

Racket(f) == TouchBlocked(f) \/ Unblock(f) \/ Ends(f)

Next ==
    \/ \E w \in Workers : Obliged(w) \/ Chosen(w)
    \/ PlaceObliged \/ MainPosts
    \/ \E f \in Threads : Racket(f) \/ Suspend(f) \/ Kill(f) \/ Resume(f)

Spec == Init /\ [][Next]_vars

\* OS threads and the place's Racket threads are scheduled fairly, and the timer
\* reaches a running future; a thread's own code need not get anywhere.  The spinlock
\* that the place waits for to stop a future is taken at last: a future runs for a
\* whole quantum between two short uses of its lock.
FairSpec ==
    /\ Spec
    /\ \A w \in Workers : WF_vars(Obliged(w))
    /\ WF_vars(PostCounts(Place) \/ PostNotifies(Place) \/ StopWakes \/ RunCallbacks)
    /\ SF_vars(\E f \in Threads : Stops(f))
    /\ \A f \in Threads : WF_vars(Racket(f))
-----------------------------------------------------------------------------
(* Properties.  They are about a pool in which no timer was late yet. *)

TypeOK ==
    /\ state \in [Threads -> {"free", "running", "blocked", "fsema", "done"}]
    /\ at \in [Threads -> {"thunk", "racket", "over"} \cup Workers]
    /\ lock \in [Threads -> Workers \cup {NoOne}]
    /\ stop \in [Threads -> BOOLEAN]
    /\ Range(queue) \subseteq Threads /\ IsInjective(queue)
    /\ waiters \subseteq Workers
    /\ capacity \in Int /\ active \in Nat
    /\ c \in Nat /\ Range(waiting) \subseteq Threads
    /\ fslock \in Workers \cup {Place, NoOne}
    /\ wpc \in [Workers -> {"loop", "claim", "claimed", "run", "wait", "suspend",
                            "post", "switch", "wake", "left", "finish", "ended", "back"}]
    /\ round \in {"round", "pause"}
    /\ cur \in [Workers -> Threads \cup {NoOne}]
    /\ seen \in [Workers -> Int]
    /\ tpc \in [Threads -> {"touch", "racket", "over"}]
    /\ sched \in [Threads -> {"on", "off", "future"}]
    /\ suspended \in [Threads -> BOOLEAN]
    /\ ppc \in {"free", "post", "stop", "asleep", "check"}
    /\ whom \in Threads \cup {NoOne}
    /\ callbacks \subseteq Threads /\ latch \in BOOLEAN
    /\ ops \in 0..MaxOps /\ posts \in 0..MaxPosts /\ suspends \in 0..MaxSuspends
    /\ posted \in Nat /\ granted \in Nat

InCode(w) == wpc[w] \in {"run", "post", "wait", "switch"}

\* One OS thread at a time runs a future, and a future in the pool's queue has its
\* continuation saved and is run by nobody: the assertions of schedule-future! and
\* run-future (future.rkt:880-882, 146-149), although fsemaphore-wait lets go of the
\* fsemaphore before the future has suspended.
OneRunner ==
    \A f \in Threads :
        /\ Scheduled(f) => state[f] = "free" /\ at[f] = "thunk"
        /\ \A w \in Workers : InCode(w) /\ cur[w] = f => state[f] = "running" /\ at[f] = w
        /\ state[f] = "running" => \E w \in Workers : InCode(w) /\ cur[w] = f
        /\ tpc[f] = "racket" => state[f] = "free" /\ at[f] = "racket"

\* When future-external-stop has returned, the future of a suspended or killed
\* thread is in no queue and runs nowhere until it is resumed (future.rkt:728 "it
\* ends up descheduled and not running").
StopHolds ==
    \A f \in Threads :
        stop[f] /\ whom # f => ~Scheduled(f) /\ state[f] # "running" /\ at[f] \notin Workers

\* The place's count of active parallel threads, which keeps the place from
\* idling or exiting, is the number of futures queued or with a worker.
ActiveExact ==
    active = Len(queue) + Cardinality({w \in Workers :
                 wpc[w] \in {"claimed", "run", "wait", "suspend", "post", "switch",
                            "wake", "left", "finish", "ended"}})

\* Every unit posted is in the counter or with a future that waited, also when the
\* future first in line was stopped; and nobody is in line while there are units.
UnitsConserved == posted = c + granted /\ (c > 0 => waiting = << >>)

\* A request to stop a future returns, so that the place goes on: whatever the
\* future does next, the place is woken.
StopReturns == (ppc = "stop") ~> (ppc = "free" \/ late)

Unlocked == fslock = NoOne /\ \A f \in Threads : Free(f)

\* Nobody waits forever for a spinlock: fsemaphore before future is an order that
\* everybody keeps (future-lock.rkt:11).
LocksReleased == ~Unlocked ~> (Unlocked \/ late)

\* A blocked future is continued in its Racket thread, whichever of callback,
\* suspension and resumption comes first.
BlockedContinues ==
    \A f \in Threads :
        (state[f] = "blocked") ~> (state[f] # "blocked" \/ suspended[f] \/ tpc[f] = "over" \/ late)

\* In a pool of one worker, a queued future gets it, even when the others never
\* block or end: no signal of the pool's condition is lost, and the timer makes
\* room.  (With several workers it may not: scheduler-capacity is changed without
\* the mutex in future.rkt:1021, and may never be seen to be zero.)
QueuedRuns ==
    Cardinality(Workers) = 1 => \A f \in Threads : Scheduled(f) ~> (~Scheduled(f) \/ late)

\* future.rkt:583, in touch-blocked: "only reason we should get rescheduled is
\* wakeup-racket-thread or (if that one is skipped by a stop request)
\* future-external-resume".  So a thread whose future is done comes to its end
\* unless it stays suspended.
FinishedEnds ==
    \A f \in Threads :
        (state[f] = "done") ~> (tpc[f] = "over" \/ suspended[f] \/ late)

\* As long as no timer was late: a future is run by one OS thread at a time, by none
\* while its thread is stopped, and the place's count of active ones is exact.
PoolInv == late \/ (TypeOK /\ OneRunner /\ StopHolds /\ ActiveExact)

\* Nobody is stuck: spinlocks are released and a request to stop a future returns,
\* unless a timer was late.
NobodyStuck == LocksReleased /\ StopReturns
=============================================================================
