-------------------------------- MODULE Sync --------------------------------
(***************************************************************************)
(* sync on several semaphores (racket/src/thread/sync.rkt) together with   *)
(* the parts of thread.rkt that disturb it: breaks, suspend, resume, kill, *)
(* timeouts and descheduling.                                              *)
(*                                                                         *)
(* Every thread is a coroutine thread and calls sync once.  Coroutine      *)
(* threads are not preempted in atomic mode, so each atomic section is one *)
(* step; everything between two atomic sections can be interleaved with    *)
(* the steps of others.  A semaphore is its counter and its line of        *)
(* waiters, which is what module Semaphore is shown to implement; a waiter *)
(* here is <<t, k>>, the k-th syncer of the sync of thread t.              *)
(*                                                                         *)
(* An event is a semaphore or a peek event for one, plain or produced by a *)
(* nack-guard-evt.                                                         *)
(***************************************************************************)
EXTENDS Integers, Sequences, FiniteSets, Subsequence

CONSTANTS
    Threads,    \* the threads that call sync
    Semas,      \* the semaphores
    Args,       \* Args[t]: the events thread t syncs on, a sequence of records
    Breaks,     \* Breaks[t]: "on", "off", or "enable" for sync/enable-break
    Timeout,    \* Timeout[t]: "never", "finite" or "zero"
    InitValue,  \* InitValue[s]: the initial counter of s
    Disturb,    \* what others do besides semaphore-post: "break", "kill", "suspend", "postall"
    Inf,        \* +inf.0
    MaxPosts    \* bound: how often each semaphore is posted

Events == [sema : Semas, peek : BOOLEAN, nack : BOOLEAN]

ASSUME SyncAssumption ==
    /\ \A t \in Threads : Args[t] \in Seq(Events) /\ Len(Args[t]) > 0
    /\ Breaks \in [Threads -> {"on", "off", "enable"}]
    /\ Timeout \in [Threads -> {"never", "finite", "zero"}]
    /\ InitValue \in [Semas -> Nat]
    /\ Disturb \subseteq {"break", "kill", "suspend", "postall"}
    /\ Inf \notin Int
    /\ MaxPosts \in Nat

VARIABLES
    value, line, posts,       \* the semaphores; how often each was posted
    evts,                     \* each thread's events in the order of its syncers
    stage,                    \* stage[t][k]: what syncer-evt of syncer k is by now
    selected,                 \* syncing-selected: NotYet, a syncer or NoneSyncer
    interrupted,              \* the syncers with syncer-interrupted? set
    needRetry,                \* threads with syncing-need-retry? set
    wakeup,                   \* threads whose syncing-wakeup is not void
    nacked,                   \* the syncers whose nack semaphore has been posted
    pc, at, polled, outcome,  \* do-sync: control, current syncer, polled-all?, result
    descheduled,              \* thread-descheduled?
    callback,                 \* threads with a thread-interrupt-callback
    retry,                    \* threads with a retry-callback to run
    sleeping,                 \* threads registered with the sandman for a timeout
    expired,                  \* threads whose timeout-at has passed
    suspended, dead,          \* thread-suspended?, is-thread-dead?
    pending,                  \* thread-pending-break
    ignored,                  \* threads that ignore their local break cell
    fault                     \* the internal-error that has been signalled, if any

semas   == <<value, line, posts>>
syncing == <<stage, selected, interrupted, needRetry, wakeup, nacked>>
locals  == <<pc, at, polled, outcome>>
sched   == <<descheduled, callback, retry, sleeping>>
others  == <<expired, suspended, dead, pending>>
vars    == <<semas, evts, syncing, locals, sched, others, ignored, fault>>

NotYet     == 0
NoneSyncer == -1

Syncers(t) == 1..Len(evts[t])
SemaOf(t, k) == evts[t][k].sema

Stages == {"guard", "register", "maker", "sema", "async"}

\* The body of the dynamic-wind, where the kill, suspend and resume callbacks
\* are installed.
BodyPcs == {"loop", "suspend", "waiting", "poll", "call", "unwind"}
Pcs == {"fast", "wind", "returned"} \cup BodyPcs

TypeOK ==
    /\ value \in [Semas -> Nat \cup {Inf}]
    /\ \A s \in Semas : \A i \in 1..Len(line[s]) :
          line[s][i][1] \in Threads /\ line[s][i][2] \in Syncers(line[s][i][1])
    /\ posts \in [Semas -> 0..MaxPosts]
    /\ \A t \in Threads :
          /\ evts[t] \in Seq(Events)
          /\ stage[t] \in [Syncers(t) -> Stages]
          /\ selected[t] \in Syncers(t) \cup {NotYet, NoneSyncer}
          /\ interrupted[t] \subseteq Syncers(t)
          /\ nacked[t] \subseteq Syncers(t)
          /\ at[t] \in 1..(Len(evts[t]) + 1)
    /\ pc \in [Threads -> Pcs]
    /\ polled \subseteq Threads
    /\ outcome \in [Threads -> {"none", "selected", "timeout", "break"}]
    /\ \A S \in {needRetry, wakeup, descheduled, callback, retry, sleeping,
                 expired, suspended, dead, pending, ignored} : S \subseteq Threads
    /\ fault \in {"none", "dead", "scheduled", "descheduled"}

\* random-rotate
Rotations(s) ==
    {[i \in 1..Len(s) |-> s[((i + m - 1) % Len(s)) + 1]] : m \in 0..(Len(s) - 1)}

Init ==
    /\ value = InitValue
    /\ line = [s \in Semas |-> <<>>]
    /\ posts = [s \in Semas |-> 0]
    /\ evts \in {e \in [Threads -> UNION {Rotations(Args[t]) : t \in Threads}] :
                    \A t \in Threads : e[t] \in Rotations(Args[t])}
    /\ stage = [t \in Threads |->
                  [k \in Syncers(t) |-> IF evts[t][k].nack THEN "guard" ELSE "sema"]]
    /\ selected = [t \in Threads |-> NotYet]
    /\ interrupted = [t \in Threads |-> {}]
    /\ nacked = [t \in Threads |-> {}]
    \* sync/enable-break goes to the general loop at once
    /\ pc = [t \in Threads |-> IF Breaks[t] = "enable" THEN "wind" ELSE "fast"]
    /\ at = [t \in Threads |-> 1]
    /\ outcome = [t \in Threads |-> "none"]
    /\ polled = {} /\ needRetry = {} /\ wakeup = {}
    /\ descheduled = {} /\ callback = {} /\ retry = {} /\ sleeping = {}
    /\ expired = {} /\ suspended = {} /\ dead = {} /\ pending = {} /\ ignored = {}
    /\ fault = "none"
-----------------------------------------------------------------------------
(* Helpers. *)

Positive(s) == value[s] = Inf \/ value[s] # 0

\* Lines without the entries of the threads in T.
LinesWithout(T) ==
    [s \in Semas |-> Sub(line[s], {i \in 1..Len(line[s]) : line[s][i][1] \notin T})]

\* check-for-break raises an exception: breaks are enabled and their cell is
\* not ignored.  They are off in the pre and post thunks of the dynamic-wind.
BreakDue(t) ==
    /\ t \in pending
    /\ outcome[t] # "break"
    /\ \/ Breaks[t] = "on" /\ pc[t] \in {"fast"} \cup BodyPcs
       \/ Breaks[t] = "enable" /\ pc[t] \in BodyPcs /\ t \notin ignored

\* t takes its next step.  A thread checks for breaks whenever it is swapped in,
\* so a break that another thread has sent is raised before anything else.
Runs(t) ==
    /\ fault = "none"
    /\ t \notin descheduled \cup dead
    /\ ~BreakDue(t)

Goto(t, l) == pc' = [pc EXCEPT ![t] = l]

\* The sync of t is not over; what happens to a thread afterwards is left out.
InSync(t) == fault = "none" /\ pc[t] # "returned" /\ t \notin dead

\* Fault: the nack is registered only after its maker has returned.
RegisteredLate(t, k) == evts[t][k].nack /\ stage[t][k] \in {"sema", "async"}

\* The nack semaphore of syncer k has been put into syncer-abandons.
Registered(t, k) == evts[t][k].nack /\ stage[t][k] \in {"maker", "sema", "async"}

\* Fault: the disable-break thunk is not called.
IgnoreBreakCellNot(T) == UNCHANGED ignored

\* syncing-disable-break
IgnoreBreakCell(T) == ignored' = ignored \cup {t \in T : Breaks[t] = "enable"}

\* The interrupt callbacks of the syncers: queue-remove-node!.
LeaveLines(T) == line' = LinesWithout(T)

\* syncing-done! for each thread t of T with syncer sel[t], up to the wakeup: the
\* syncers that lose leave their lines and their nacks are posted.
Decide(T, sel) ==
    /\ selected' = [t \in Threads |-> IF t \in T THEN sel[t] ELSE selected[t]]
    /\ LeaveLines(T)
    /\ nacked' = [t \in Threads |->
                    IF t \in T THEN {k \in Syncers(t) : Registered(t, k) /\ k # sel[t]}
                               ELSE nacked[t]]
    /\ IgnoreBreakCell(T)

\* Fault: the wakeup callback is still void.
WakeUpNot(T) == UNCHANGED <<wakeup, fault, descheduled, callback, sleeping>>

\* The wakeup callbacks of T: a thread that is still descheduled is rescheduled.
WakeUp(T) ==
    LET woken == T \cap wakeup \cap descheduled IN
    /\ wakeup' = wakeup \ T
    /\ fault' = IF woken \cap dead # {} THEN "dead" ELSE fault
    /\ descheduled' = descheduled \ woken
    /\ callback' = callback \ woken
    /\ sleeping' = sleeping \ woken

Done(T, sel) == Decide(T, sel) /\ WakeUp(T)

DoneOne(t, k) == Done({t}, [u \in {t} |-> k])

\* The unit that syncer k of t takes when it is selected.
Take(t, k) ==
    value' = IF evts[t][k].peek \/ value[SemaOf(t, k)] = Inf
               THEN value
               ELSE [value EXCEPT ![SemaOf(t, k)] = @ - 1]
-----------------------------------------------------------------------------
(* sync-poll with just-poll? and fast-only?, before the dynamic-wind. *)

FastPoll(t) ==
    /\ pc[t] = "fast" /\ Runs(t)
    /\ \/ /\ at[t] > Len(evts[t])
          /\ IF Timeout[t] = "zero"
               THEN Goto(t, "returned") /\ outcome' = [outcome EXCEPT ![t] = "timeout"]
               ELSE Goto(t, "wind") /\ UNCHANGED outcome
          /\ UNCHANGED <<semas, syncing, sched, ignored, fault, at>>
       \/ /\ at[t] \in Syncers(t)
          /\ stage[t][at[t]] = "guard"
          /\ Goto(t, "wind")
          /\ UNCHANGED <<semas, syncing, sched, ignored, fault, at, outcome>>
       \/ /\ at[t] \in Syncers(t)
          /\ stage[t][at[t]] = "sema"
          /\ Positive(SemaOf(t, at[t]))
          /\ Take(t, at[t])
          /\ DoneOne(t, at[t])
          /\ Goto(t, "returned")
          /\ outcome' = [outcome EXCEPT ![t] = "selected"]
          /\ UNCHANGED <<posts, stage, interrupted, needRetry, retry, at>>
       \/ /\ at[t] \in Syncers(t)
          /\ stage[t][at[t]] = "sema"
          /\ ~Positive(SemaOf(t, at[t]))
          /\ at' = [at EXCEPT ![t] = @ + 1]
          /\ UNCHANGED <<semas, syncing, sched, ignored, fault, pc, outcome>>
    /\ UNCHANGED <<evts, polled, others>>

\* The pre thunk installs the callbacks; the loop (with a zero timeout: the
\* poll) begins.
Wind(t) ==
    /\ pc[t] = "wind" /\ Runs(t)
    /\ Goto(t, IF Timeout[t] = "zero" THEN "poll" ELSE "loop")
    /\ at' = [at EXCEPT ![t] = 1]
    /\ UNCHANGED <<semas, evts, syncing, polled, outcome, sched, others, ignored, fault>>

\* A finite timeout passes.
Expire(t) ==
    /\ InSync(t)
    /\ Timeout[t] = "finite"
    /\ pc[t] \in BodyPcs
    /\ t \notin expired
    /\ expired' = expired \cup {t}
    /\ UNCHANGED <<semas, evts, syncing, locals, sched, suspended, dead, pending,
                   ignored, fault>>
-----------------------------------------------------------------------------
(* The loop of do-sync. *)

TimedOut(t) == t \in polled /\ t \in expired

\* Fault: a selection that came before the timeout is overwritten.
LoopTimeoutUnchecked(t) ==
    /\ pc[t] = "loop" /\ Runs(t)
    /\ TimedOut(t)
    /\ DoneOne(t, NoneSyncer)
    /\ Goto(t, "unwind")
    /\ outcome' = [outcome EXCEPT ![t] = "timeout"]
    /\ UNCHANGED <<value, posts, evts, stage, interrupted, needRetry, at, polled,
                   retry, others>>

LoopTimeout(t) ==
    /\ pc[t] = "loop" /\ Runs(t)
    /\ TimedOut(t)
    /\ IF selected[t] # NotYet
         THEN /\ polled' = polled \ {t}
              /\ UNCHANGED <<semas, syncing, sched, ignored, fault, pc, outcome>>
         ELSE /\ DoneOne(t, NoneSyncer)
              /\ Goto(t, "unwind")
              /\ outcome' = [outcome EXCEPT ![t] = "timeout"]
              /\ UNCHANGED <<value, posts, stage, interrupted, needRetry, polled, retry>>
    /\ UNCHANGED <<evts, at, others>>

\* all-asynchronous? and nothing to do yet: suspend; otherwise poll.
LoopCheck(t) ==
    /\ pc[t] = "loop" /\ Runs(t)
    /\ ~TimedOut(t)
    /\ IF /\ \A k \in Syncers(t) : stage[t][k] = "async"
          /\ selected[t] = NotYet
          /\ t \notin needRetry
         THEN Goto(t, "suspend") /\ UNCHANGED at
         ELSE Goto(t, "poll") /\ at' = [at EXCEPT ![t] = 1]
    /\ UNCHANGED <<semas, evts, syncing, polled, outcome, sched, others, ignored, fault>>

\* thread-deschedule!, with the sandman told about the timeout.
Deschedule(t) ==
    /\ fault' = IF t \in descheduled THEN "descheduled" ELSE fault
    /\ descheduled' = descheduled \cup {t}
    /\ callback' = callback \cup {t}
    /\ sleeping' = IF Timeout[t] = "finite" THEN sleeping \cup {t} ELSE sleeping

\* Fault: a selection since the check in the loop goes unnoticed.
SuspendUnchecked(t, sel) ==
    /\ Goto(t, "waiting")
    /\ wakeup' = wakeup \cup {t}
    /\ Deschedule(t)
    /\ UNCHANGED polled

\* The atomic section of suspend-syncing-thread, from its label retry on: do not
\* suspend after all, or set the wakeup callback and deschedule.
SuspendOrReturn(t, sel) ==
    IF sel # NotYet
      THEN /\ Goto(t, "loop")
           /\ wakeup' = wakeup \ {t}
           /\ polled' = polled \cup {t}
           /\ UNCHANGED <<descheduled, callback, sleeping, fault>>
      ELSE /\ Goto(t, "waiting")
           /\ wakeup' = wakeup \cup {t}
           /\ Deschedule(t)
           /\ UNCHANGED polled

SuspendSyncing(t) ==
    /\ pc[t] = "suspend" /\ Runs(t)
    /\ SuspendOrReturn(t, selected[t])
    /\ UNCHANGED <<semas, evts, stage, selected, interrupted, needRetry, nacked,
                   at, outcome, retry, others, ignored>>

\* syncing-retry! looks at the interrupted syncers in order: the first whose
\* semaphore is positive is selected, the ones before it get back in line.
RetryReady(t) == {k \in interrupted[t] : stage[t][k] = "async" /\ Positive(SemaOf(t, k))}

\* The lines when none is ready.
Requeued(t) ==
    [s \in Semas |->
        line[s] \o Sub([k \in Syncers(t) |-> <<t, k>>],
                       {k \in interrupted[t] : stage[t][k] = "async" /\ SemaOf(t, k) = s})]

RetryTakes(t, k) ==
    /\ k \in RetryReady(t)
    /\ \A j \in RetryReady(t) : k <= j
    /\ Take(t, k)
    /\ DoneOne(t, k)
    /\ interrupted' = [interrupted EXCEPT ![t] = {j \in @ : j > k}]

\* The thread runs again because something was selected or the timeout passed.
Woken(t) ==
    /\ pc[t] = "waiting" /\ Runs(t)
    /\ t \notin retry
    /\ wakeup' = wakeup \ {t}
    /\ polled' = polled \cup {t}
    /\ Goto(t, "loop")
    /\ UNCHANGED <<semas, evts, stage, selected, interrupted, needRetry, nacked,
                   at, outcome, sched, others, ignored, fault>>

\* The thread runs again after a suspend or an ignored break: the retry callback.
RetryWait(t) ==
    /\ pc[t] = "waiting" /\ Runs(t)
    /\ t \in retry
    /\ retry' = retry \ {t}
    /\ \/ /\ selected[t] # NotYet
          /\ SuspendOrReturn(t, selected[t])
          /\ UNCHANGED <<value, line, selected, interrupted, nacked, needRetry, ignored>>
       \/ /\ selected[t] = NotYet
          /\ \E k \in RetryReady(t) : RetryTakes(t, k)
          /\ needRetry' = needRetry \ {t}
          /\ Goto(t, "loop")
          /\ polled' = polled \cup {t}
       \/ /\ selected[t] = NotYet
          /\ RetryReady(t) = {}
          /\ line' = Requeued(t)
          /\ interrupted' = [interrupted EXCEPT ![t] = {}]
          /\ needRetry' = needRetry \ {t}
          /\ SuspendOrReturn(t, NotYet)
          /\ UNCHANGED <<value, selected, nacked, ignored>>
    /\ UNCHANGED <<posts, evts, stage, at, outcome, others>>
-----------------------------------------------------------------------------
(* sync-poll in the loop: one atomic section for each syncer. *)

\* Syncer at[t] is polled; q are the lines after a retry, if one
\* was due.
PollSyncer(t, q) ==
    LET k == at[t]
        Unselected == UNCHANGED <<value, selected, nacked, wakeup, descheduled, callback,
                                  sleeping, ignored, fault>>
    IN
    \* past the last syncer: with a zero timeout that is the end, else yield
    \/ /\ k > Len(evts[t])
       /\ Timeout[t] = "zero"
       /\ DoneOne(t, NoneSyncer)
       /\ Goto(t, "unwind")
       /\ outcome' = [outcome EXCEPT ![t] = "timeout"]
       /\ UNCHANGED <<value, stage, at, polled>>
    \/ /\ k > Len(evts[t])
       /\ Timeout[t] # "zero"
       /\ Goto(t, "loop")
       /\ polled' = polled \cup {t}
       /\ line' = q /\ Unselected
       /\ UNCHANGED <<stage, at, outcome>>
    \* a poll-guard-evt: its procedure is called outside atomic mode
    \/ /\ k \in Syncers(t)
       /\ stage[t][k] \in {"guard", "maker"}
       /\ Goto(t, "call")
       /\ line' = q /\ Unselected
       /\ UNCHANGED <<stage, at, polled, outcome>>
    \* the control-state-evt of a nack-guard-evt: syncer-abandons is extended
    \/ /\ k \in Syncers(t)
       /\ stage[t][k] = "register"
       /\ stage' = [stage EXCEPT ![t][k] = "maker"]
       /\ line' = q /\ Unselected
       /\ UNCHANGED <<pc, at, polled, outcome>>
    \* semaphore-wait/poll
    \/ /\ k \in Syncers(t)
       /\ stage[t][k] = "sema"
       /\ Positive(SemaOf(t, k))
       /\ Take(t, k)
       /\ DoneOne(t, k)
       /\ Goto(t, "unwind")
       /\ outcome' = [outcome EXCEPT ![t] = "selected"]
       /\ UNCHANGED <<stage, at, polled>>
    \/ /\ k \in Syncers(t)
       /\ stage[t][k] = "sema"
       /\ ~Positive(SemaOf(t, k))
       /\ Timeout[t] # "zero"
       /\ stage' = [stage EXCEPT ![t][k] = "async"]
       /\ line' = [q EXCEPT ![SemaOf(t, k)] = Append(@, <<t, k>>)]
       /\ Unselected
       /\ UNCHANGED <<pc, at, polled, outcome>>
    \* no progress on this syncer
    \/ /\ k \in Syncers(t)
       /\ \/ stage[t][k] = "async"
          \/ stage[t][k] = "sema" /\ ~Positive(SemaOf(t, k)) /\ Timeout[t] = "zero"
       /\ at' = [at EXCEPT ![t] = @ + 1]
       /\ line' = q /\ Unselected
       /\ UNCHANGED <<stage, pc, polled, outcome>>

Poll(t) ==
    /\ pc[t] = "poll" /\ Runs(t)
    /\ \/ /\ selected[t] # NotYet
          /\ Goto(t, "unwind")
          /\ outcome' = [outcome EXCEPT ![t] = "selected"]
          /\ UNCHANGED <<value, line, stage, selected, interrupted, nacked, wakeup, ignored,
                         at, polled, descheduled, callback, sleeping, fault>>
       \/ /\ selected[t] = NotYet
          /\ t \in needRetry
          /\ \E k \in RetryReady(t) : RetryTakes(t, k)
          /\ Goto(t, "unwind")
          /\ outcome' = [outcome EXCEPT ![t] = "selected"]
          /\ UNCHANGED <<stage, at, polled>>
       \/ /\ selected[t] = NotYet
          /\ t \in needRetry
          /\ RetryReady(t) = {}
          /\ PollSyncer(t, Requeued(t))
          /\ interrupted' = [interrupted EXCEPT ![t] = {}]
       \/ /\ selected[t] = NotYet
          /\ t \notin needRetry
          /\ PollSyncer(t, line)
          /\ UNCHANGED interrupted
    /\ needRetry' = needRetry \ {t}
    /\ UNCHANGED <<posts, evts, retry, others>>

\* The procedure of a poll-guard-evt returns: the one that nack-guard-evt makes
\* with the event that registers the nack, the user's with the semaphore event.
Call(t) ==
    /\ pc[t] = "call" /\ Runs(t)
    /\ stage' = [stage EXCEPT ![t][at[t]] = IF @ = "guard" THEN "register" ELSE "sema"]
    /\ Goto(t, "poll")
    /\ UNCHANGED <<semas, evts, selected, interrupted, needRetry, wakeup, nacked,
                   at, polled, outcome, sched, others, ignored, fault>>

\* The post thunk of the dynamic-wind: the callbacks are removed, syncing-abandon!.
Unwind(t) ==
    /\ pc[t] = "unwind" /\ Runs(t)
    /\ Goto(t, "returned")
    /\ IF selected[t] = NotYet
         THEN DoneOne(t, NoneSyncer)
         ELSE UNCHANGED <<line, selected, nacked, wakeup, descheduled, callback, sleeping,
                          ignored, fault>>
    /\ UNCHANGED <<value, posts, evts, stage, interrupted, needRetry, at, polled, outcome,
                   retry, others>>
-----------------------------------------------------------------------------
(* What others do. *)

\* Entries of a line that are the first of their thread.
Firsts(s) == {i \in 1..Len(line[s]) : \A j \in 1..(i - 1) : line[s][j][1] # line[s][i][1]}

Peeks(e) == evts[e[1]][e[2]].peek

\* The entries at the positions in I are resumed.
Select(s, I) ==
    LET T == {line[s][i][1] : i \in I} IN
    Done(T, [t \in T |-> line[s][CHOOSE i \in I : line[s][i][1] = t][2]])

\* semaphore-post: peeking waiters are resumed until one takes the unit.
Post(s) ==
    /\ fault = "none"
    /\ posts[s] < MaxPosts
    /\ posts' = [posts EXCEPT ![s] = @ + 1]
    /\ LET takers == {i \in Firsts(s) : ~Peeks(line[s][i])}
           upto == {i \in Firsts(s) : \A j \in takers : i <= j}
       IN /\ Select(s, upto)
          /\ value' = IF takers # {} \/ value[s] = Inf
                        THEN value ELSE [value EXCEPT ![s] = @ + 1]
    /\ UNCHANGED <<evts, stage, interrupted, needRetry, locals, retry, others>>

\* semaphore-post-all
PostAll(s) ==
    /\ fault = "none" /\ "postall" \in Disturb
    /\ value[s] # Inf
    /\ value' = [value EXCEPT ![s] = Inf]
    /\ Select(s, Firsts(s))
    /\ UNCHANGED <<posts, evts, stage, interrupted, needRetry, locals, retry, others>>

\* thread-reschedule! by the sandman.
TimerWakes(t) ==
    /\ fault = "none"
    /\ t \in sleeping \cap expired
    /\ fault' = IF t \in dead THEN "dead" ELSE IF t \notin descheduled THEN "scheduled" ELSE fault
    /\ descheduled' = descheduled \ {t}
    /\ callback' = callback \ {t}
    /\ sleeping' = sleeping \ {t}
    /\ UNCHANGED <<semas, evts, syncing, locals, retry, others, ignored>>

\* run-interrupt-callback clears the wakeup and leaves a retry callback behind.
RunInterruptCallback(t) ==
    /\ callback' = callback \ {t}
    /\ retry' = IF t \in callback THEN retry \cup {t} ELSE retry
    /\ wakeup' = IF t \in callback THEN wakeup \ {t} ELSE wakeup

\* Fault: the syncers stay in their lines.
SyncingInterruptFlagsOnly(t) ==
    /\ interrupted' = IF pc[t] \in BodyPcs THEN [interrupted EXCEPT ![t] = Syncers(t)]
                                           ELSE interrupted
    /\ UNCHANGED line

\* syncing-interrupt!, through the suspend callback.
SyncingInterrupt(t) ==
    IF pc[t] \in BodyPcs
      THEN /\ interrupted' = [interrupted EXCEPT ![t] = Syncers(t)]
           /\ line' = LinesWithout({t})
      ELSE UNCHANGED <<interrupted, line>>

\* thread-suspend
Suspend(t) ==
    /\ InSync(t) /\ "suspend" \in Disturb
    /\ t \notin suspended
    /\ suspended' = suspended \cup {t}
    /\ RunInterruptCallback(t)
    /\ SyncingInterrupt(t)
    /\ descheduled' = descheduled \cup {t}
    /\ sleeping' = sleeping \ {t}
    /\ UNCHANGED <<value, posts, evts, stage, selected, needRetry, nacked, locals,
                   expired, dead, pending, ignored, fault>>

\* thread-resume
Resume(t) ==
    /\ fault = "none"
    /\ t \in suspended \ dead
    /\ suspended' = suspended \ {t}
    /\ needRetry' = IF pc[t] \in BodyPcs THEN needRetry \cup {t} ELSE needRetry
    /\ fault' = IF t \notin descheduled THEN "scheduled" ELSE fault
    /\ descheduled' = descheduled \ {t}
    /\ callback' = callback \ {t}
    /\ sleeping' = sleeping \ {t}
    /\ UNCHANGED <<semas, evts, stage, selected, interrupted, wakeup, nacked, locals,
                   retry, expired, dead, pending, ignored>>

\* do-break-thread for a thread without a pending break: what it waits for is
\* interrupted so that a break is noticed before anything is selected.
Break(t) ==
    /\ InSync(t) /\ "break" \in Disturb
    /\ t \notin pending
    /\ pending' = pending \cup {t}
    /\ IF t \in suspended
         THEN UNCHANGED <<line, interrupted, needRetry, wakeup, sched>>
         ELSE /\ SyncingInterrupt(t)
              /\ needRetry' = IF pc[t] \in BodyPcs THEN needRetry \cup {t} ELSE needRetry
              /\ IF t \in descheduled
                   THEN /\ RunInterruptCallback(t)
                        /\ descheduled' = descheduled \ {t}
                        /\ sleeping' = sleeping \ {t}
                   ELSE UNCHANGED <<wakeup, sched>>
    /\ UNCHANGED <<value, posts, evts, stage, selected, nacked, locals,
                   expired, suspended, dead, ignored, fault>>

\* check-for-break: the exception escapes from sync.
RaiseBreak(t) ==
    /\ InSync(t)
    /\ t \notin descheduled
    /\ BreakDue(t)
    /\ pending' = pending \ {t}
    /\ outcome' = [outcome EXCEPT ![t] = "break"]
    /\ Goto(t, IF pc[t] \in BodyPcs THEN "unwind" ELSE "returned")
    /\ retry' = retry \ {t}
    /\ UNCHANGED <<semas, evts, syncing, at, polled, descheduled, callback, sleeping,
                   expired, suspended, dead, ignored, fault>>

\* thread-dead!: the interrupt callback, then the kill callback, which abandons
\* the sync; its wakeup callback must not find the thread descheduled.
Kill(t) ==
    /\ InSync(t) /\ "kill" \in Disturb
    /\ dead' = dead \cup {t}
    /\ callback' = callback \ {t}
    /\ sleeping' = sleeping \ {t}
    /\ retry' = retry \ {t}
    /\ wakeup' = wakeup \ {t}
    /\ IF pc[t] \in BodyPcs /\ selected[t] = NotYet
         THEN /\ Decide({t}, [u \in {t} |-> NoneSyncer])
              /\ fault' = IF t \in (wakeup \ callback) \cap descheduled THEN "dead" ELSE fault
         ELSE UNCHANGED <<line, selected, nacked, ignored, fault>>
    /\ UNCHANGED <<value, posts, evts, stage, interrupted, needRetry, locals,
                   descheduled, expired, suspended, pending>>
-----------------------------------------------------------------------------
ThreadStep(t) ==
    \/ FastPoll(t) \/ Wind(t)
    \/ LoopTimeout(t) \/ LoopCheck(t) \/ SuspendSyncing(t) \/ Woken(t) \/ RetryWait(t)
    \/ Poll(t) \/ Call(t) \/ Unwind(t)
    \/ RaiseBreak(t)

Next ==
    \/ \E t \in Threads : \/ ThreadStep(t)
                          \/ Expire(t) \/ TimerWakes(t)
                          \/ Suspend(t) \/ Resume(t) \/ Break(t) \/ Kill(t)
    \/ \E s \in Semas : Post(s) \/ PostAll(s)

\* The scheduler runs every thread that can run, again and again.
Fairness == \A t \in Threads : WF_vars(ThreadStep(t))

Spec == Init /\ [][Next]_vars
FairSpec == Spec /\ Fairness
-----------------------------------------------------------------------------
(* Properties. *)

Entries(s, t, k) == {i \in 1..Len(line[s]) : line[s][i] = <<t, k>>}

\* A syncer is in line exactly once while its sync is undecided and not
\* interrupted, and nowhere otherwise: so no post is handed to a sync that has
\* already selected something else, been abandoned or been killed (the assertion
\* of syncing-done!), and no retry queues a syncer twice.
InLineExactly ==
    \A s \in Semas, t \in Threads : \A k \in Syncers(t) :
        Cardinality(Entries(s, t, k)) =
            IF /\ SemaOf(t, k) = s
               /\ stage[t][k] = "async"
               /\ k \notin interrupted[t]
               /\ selected[t] = NotYet
              THEN 1 ELSE 0

\* sync blocks only while none of its events is ready: a thread that is
\* descheduled, and that nobody has suspended, waits for semaphores that are all
\* zero.
BlocksOnlyWhileNotReady ==
    \A t \in descheduled \ (suspended \cup dead) :
        \A k \in Syncers(t) : ~Positive(SemaOf(t, k))

\* No unit is lost or handed out twice, whatever is interrupted, retried, killed
\* or timed out: the posts that are not in the counter are the ones that selected
\* a syncer that takes.
Takers(s) == {t \in Threads : /\ selected[t] > 0
                              /\ SemaOf(t, selected[t]) = s
                              /\ ~evts[t][selected[t]].peek}
UnitsConserved ==
    \A s \in Semas : value[s] # Inf =>
        InitValue[s] + posts[s] = value[s] + Cardinality(Takers(s))

\* The nack of an event is posted if its maker was called and the sync is over
\* without selecting it, by a selection, an escape, a timeout or a kill, and it
\* is never posted for the event that is selected.
MakerCalled(t, k) ==
    /\ evts[t][k].nack
    /\ \/ stage[t][k] \in {"sema", "async"}
       \/ stage[t][k] = "maker" /\ pc[t] = "call" /\ at[t] = k
NackIffNotSelected ==
    \A t \in Threads : \A k \in Syncers(t) :
        /\ k \in nacked[t] => selected[t] \notin {NotYet, k}
        /\ /\ MakerCalled(t, k)
           /\ selected[t] \notin {NotYet, k} \/ pc[t] = "returned" \/ t \in dead
           /\ selected[t] # k
           => k \in nacked[t]

\* sync/enable-break either selects an event or raises a break, never both.
BreakOrSelect ==
    \A t \in Threads :
        Breaks[t] = "enable" /\ outcome[t] = "break" => selected[t] \in {NotYet, NoneSyncer}

\* No thread is rescheduled when dead or already scheduled, and none is
\* descheduled twice (the internal-error calls of thread.rkt).
NoInternalError == fault = "none"

\* A sync with an event that is ready for good comes to an end.
SyncReturns ==
    \A t \in Threads :
        (\E k \in Syncers(t) : value[SemaOf(t, k)] = Inf)
            ~> (pc[t] = "returned" \/ t \in dead)

\* What every step of a sync and of its disturbers keeps: the lines hold exactly
\* the syncers that wait, no unit of a semaphore is lost or made, and nobody
\* reschedules a dead thread or one that is scheduled (internal-error).
SyncInv == TypeOK /\ InLineExactly /\ UnitsConserved /\ NoInternalError
=============================================================================
