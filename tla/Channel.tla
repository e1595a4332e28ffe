------------------------------ MODULE Channel ------------------------------
(***************************************************************************)
(* Synchronous channels (racket/src/thread/channel.rkt): channel-get,      *)
(* channel-put, sync on channel events, and the polls of the commit        *)
(* manager of io/port/commit-manager.rkt.                                  *)
(*                                                                         *)
(* Every thread performs one operation, with a sequence of events: "get"   *)
(* and "put" block on their only event, "sync" chooses among its events,   *)
(* "commit" polls its only event the way port-commit-peeked does.  A       *)
(* waiter is <<t, k>>: thread t itself for k = 0, its k-th syncer for      *)
(* k > 0.  A poll that may not wait (poll-ctx-poll?) is left out.          *)
(*                                                                         *)
(* What a matching operation does in its atomic section (resume            *)
(* the partner, decide a sync, make the losers leave, post their nacks,    *)
(* which may decide further syncs) nests, so it is carried out as an       *)
(* agenda of tasks; nothing else happens until the agenda is empty.        *)
(***************************************************************************)
EXTENDS Integers, Sequences, FiniteSets, Subsequence

CONSTANTS
    Threads,
    Channels,
    Ops,        \* Ops[t]: "get", "put", "sync" or "commit"
    Args,       \* Args[t]: the events, a sequence of records
    Disturb,    \* "interrupt" and "kill"
    Nobody      \* no partner

\* An event gets from or puts to channel ch, or waits for the nack of syncer
\* of[2] of thread of[1]; guard tells whether a nack-guard-evt made it, as it
\* made the nack.
ChannelEvents == [kind : {"get", "put"}, ch : Channels, guard : BOOLEAN]
NackEvents    == [kind : {"nack"}, of : Threads \X (Nat \ {0}), guard : {FALSE}]

NoneSyncer == -1
Sides == Channels \X {"get", "put"}
Syncers(t) == IF Ops[t] = "sync" THEN 1..Len(Args[t]) ELSE {0}
Waiters == UNION {{t} \X Syncers(t) : t \in Threads}
Event(w) == Args[w[1]][IF w[2] = 0 THEN 1 ELSE w[2]]

ASSUME ChannelAssumption ==
    /\ \A t \in Threads :
          /\ Ops[t] \in {"get", "put", "sync", "commit"}
          /\ Args[t] \in Seq(ChannelEvents \cup NackEvents)
          /\ Ops[t] # "sync" => Len(Args[t]) = 1 /\ Args[t][1].kind \in {"get", "put"}
    /\ \A w \in Waiters : Event(w).kind = "nack" => Event(w).of \in Waiters /\ Event(Event(w).of).guard
    /\ Disturb \subseteq {"interrupt", "kill"}
    /\ Nobody \notin Threads \X Nat

VARIABLES
    queue,        \* queue[<<ch, "get">>], queue[<<ch, "put">>]: channel-get-queue, -put-queue
    queuedSema,   \* who waits on get-queued-sema, put-queued-sema
    nackQueue,    \* nackQueue[<<t, k>>]: peeking waiters on the nack semaphore
    nackPosted,   \* the nack semaphores that have been posted
    pc, at,       \* control; the syncer that is polled next
    stage,        \* stage[t][k]: "guard", "plain", or "async" once queued
    interrupted,  \* interrupted[t]: syncers taken out of their queues
    selected,     \* syncing-selected: 0, a syncer, or NoneSyncer
    decided,      \* how often syncing-done! has run
    got,          \* got[<<t, k>>]: the waiter whose value is in the box
    agenda        \* what is left to do in the current atomic section

vars == <<queue, queuedSema, nackQueue, nackPosted, pc, at, stage, interrupted, selected,
          decided, got, agenda>>

\* The queue a waiter joins, and the one it looks for a partner in.
Side(w) == <<Event(w).ch, Event(w).kind>>
OtherSide(w) == <<Event(w).ch, IF Event(w).kind = "get" THEN "put" ELSE "get">>

Tasks == {"resume", "select", "lose", "post", "retry"}

TypeOK ==
    /\ queue \in [Sides -> Seq(Waiters)]
    /\ queuedSema \in [Sides -> SUBSET Threads]
    /\ nackQueue \in [Waiters -> Seq(Waiters)]
    /\ nackPosted \subseteq Waiters
    /\ pc \in [Threads -> {"start", "poll", "blocked", "waiting", "done", "dead"}]
    /\ \A t \in Threads :
          /\ at[t] \in 1..(Len(Args[t]) + 1)
          /\ stage[t] \in [Syncers(t) -> {"guard", "plain", "async"}]
          /\ interrupted[t] \subseteq Syncers(t)
          /\ selected[t] \in Syncers(t) \cup {0, NoneSyncer}
    /\ decided \in [Threads -> 0..2]
    /\ got \in [Waiters -> Waiters \cup {Nobody}]
    /\ \A i \in 1..Len(agenda) : agenda[i][1] \in Tasks

Init ==
    /\ queue = [q \in Sides |-> <<>>]
    /\ queuedSema = [q \in Sides |-> {}]
    /\ nackQueue = [w \in Waiters |-> <<>>]
    /\ nackPosted = {}
    /\ pc = [t \in Threads |-> IF Ops[t] = "sync" THEN "poll" ELSE "start"]
    /\ at = [t \in Threads |-> 1]
    /\ stage = [t \in Threads |->
                  [k \in Syncers(t) |-> IF Event(<<t, k>>).guard THEN "guard" ELSE "plain"]]
    /\ interrupted = [t \in Threads |-> {}]
    /\ selected = [t \in Threads |-> 0]
    /\ decided = [t \in Threads |-> 0]
    /\ got = [w \in Waiters |-> Nobody]
    /\ agenda = <<>>
-----------------------------------------------------------------------------
(* Matching. *)

\* Fault: syncs do not match each other.
MayMatchThreadsOnly(t, w) == w[2] = 0

\* not-matching-select-waiter: a thread does not match a syncer of its own sync.
MayMatch(t, w) == w[2] = 0 \/ w[1] # t

\* The positions in queue q that waiter w may match: channel-get and channel-put
\* take the first waiter, a sync or a commit the first of another thread.
Partners(w, q) ==
    {i \in 1..Len(queue[q]) : Ops[w[1]] \in {"get", "put"} \/ MayMatch(w[1], queue[q][i])}

\* Waiter w takes the first partner p: the value goes into the box of whoever gets.
Match(w, after) ==
    LET q == OtherSide(w)
        i == CHOOSE i \in Partners(w, q) : \A j \in Partners(w, q) : i <= j
        p == queue[q][i]
    IN /\ Partners(w, q) # {}
       /\ queue' = [queue EXCEPT ![q] = Sub(@, (1..Len(@)) \ {i})]
       /\ got' = IF Event(w).kind = "get" THEN [got EXCEPT ![w] = p] ELSE [got EXCEPT ![p] = w]
       /\ agenda' = <<<<"resume", p>>>> \o after

\* post-queued: the commit managers that wait for a waiter on side q try again.
PostQueued(q) ==
    /\ queuedSema' = [queuedSema EXCEPT ![q] = {}]
    /\ pc' = [t \in Threads |-> IF t \in queuedSema[q] THEN "start" ELSE pc[t]]

Enqueue(w) == queue' = [queue EXCEPT ![Side(w)] = Append(@, w)]

Without(s, W) == Sub(s, {i \in 1..Len(s) : s[i] \notin W})
LeaveQueues(W) == [q \in Sides |-> Without(queue[q], W)]
LeaveNackQueues(W) == [n \in Waiters |-> Without(nackQueue[n], W)]
Own(t) == {t} \X Syncers(t)

\* The same job for the syncers K of t, in their order.
Each(job, t, K) == Sub([k \in 1..Len(Args[t]) |-> <<job, <<t, k>>>>], K)

Idle == agenda = <<>>
-----------------------------------------------------------------------------
(* channel-get and channel-put. *)

GetOrPut(t) ==
    /\ Idle /\ pc[t] = "start" /\ Ops[t] \in {"get", "put"}
    /\ \/ /\ Match(<<t, 0>>, <<>>)
          /\ pc' = [pc EXCEPT ![t] = "done"]
       \/ /\ queue[OtherSide(<<t, 0>>)] = <<>>
          /\ Enqueue(<<t, 0>>)
          /\ pc' = [pc EXCEPT ![t] = "blocked"]
          /\ UNCHANGED <<got, agenda>>
    /\ UNCHANGED <<queuedSema, nackQueue, nackPosted, at, stage, interrupted, selected, decided>>

\* channel-get/poll and channel-put/poll with 'sema, as the commit manager calls
\* them: match, or wait for the semaphore that the next waiter posts.
Commit(t) ==
    /\ Idle /\ pc[t] = "start" /\ Ops[t] = "commit"
    /\ \/ /\ Match(<<t, 0>>, <<>>)
          /\ pc' = [pc EXCEPT ![t] = "done"]
          /\ UNCHANGED queuedSema
       \/ /\ Partners(<<t, 0>>, OtherSide(<<t, 0>>)) = {}
          /\ queuedSema' = [queuedSema EXCEPT ![OtherSide(<<t, 0>>)] = @ \cup {t}]
          /\ pc' = [pc EXCEPT ![t] = "waiting"]
          /\ UNCHANGED <<queue, got, agenda>>
    /\ UNCHANGED <<nackQueue, nackPosted, at, stage, interrupted, selected, decided>>
-----------------------------------------------------------------------------
(* sync: one atomic section for each syncer, as in module Sync. *)

\* A nack event is known to others once it is registered.
Known(t) ==
    \A k \in Syncers(t) : Event(<<t, k>>).kind = "nack" =>
        LET n == Event(<<t, k>>).of IN stage[n[1]][n[2]] # "guard"

Poll(t) ==
    LET k == at[t]
        w == <<t, k>>
        Advance == at' = [at EXCEPT ![t] = @ + 1]
    IN
    /\ Idle /\ pc[t] = "poll" /\ Ops[t] = "sync" /\ Known(t)
    /\ selected[t] = 0 /\ interrupted[t] = {}
    /\ \/ /\ k > Len(Args[t])
          /\ pc' = [pc EXCEPT ![t] = "blocked"]
          /\ UNCHANGED <<queue, queuedSema, nackQueue, at, stage, got, agenda>>
       \/ /\ k \in Syncers(t) /\ stage[t][k] = "guard"
          /\ stage' = [stage EXCEPT ![t][k] = "plain"]
          /\ UNCHANGED <<queue, queuedSema, nackQueue, pc, at, got, agenda>>
       \/ /\ k \in Syncers(t) /\ stage[t][k] = "plain" /\ Event(w).kind # "nack"
          /\ Match(w, <<<<"select", w>>>>)
          /\ UNCHANGED <<queuedSema, nackQueue, pc, at, stage>>
       \/ /\ k \in Syncers(t) /\ stage[t][k] = "plain" /\ Event(w).kind # "nack"
          /\ Partners(w, OtherSide(w)) = {}
          /\ Enqueue(w)
          /\ PostQueued(Side(w))
          /\ stage' = [stage EXCEPT ![t][k] = "async"]
          /\ Advance
          /\ UNCHANGED <<nackQueue, got, agenda>>
       \/ /\ k \in Syncers(t) /\ stage[t][k] = "plain" /\ Event(w).kind = "nack"
          /\ Event(w).of \in nackPosted
          /\ agenda' = <<<<"select", w>>>>
          /\ UNCHANGED <<queue, queuedSema, nackQueue, pc, at, stage, got>>
       \/ /\ k \in Syncers(t) /\ stage[t][k] = "plain" /\ Event(w).kind = "nack"
          /\ Event(w).of \notin nackPosted
          /\ nackQueue' = [nackQueue EXCEPT ![Event(w).of] = Append(@, w)]
          /\ stage' = [stage EXCEPT ![t][k] = "async"]
          /\ Advance
          /\ UNCHANGED <<queue, queuedSema, pc, got, agenda>>
    /\ UNCHANGED <<nackPosted, interrupted, selected, decided>>

\* The thread finds its sync decided.
Finish(t) ==
    /\ Idle /\ pc[t] \in {"poll", "blocked"} /\ selected[t] # 0
    /\ pc' = [pc EXCEPT ![t] = "done"]
    /\ UNCHANGED <<queue, queuedSema, nackQueue, nackPosted, at, stage, interrupted,
                   selected, decided, got, agenda>>
-----------------------------------------------------------------------------
(* Breaks, suspends and kills. *)

\* Fault: the nodes stay in their queues.
InterruptStaysQueued(t) ==
    /\ Idle /\ "interrupt" \in Disturb
    /\ Ops[t] = "sync" /\ pc[t] \in {"poll", "blocked"} /\ selected[t] = 0
    /\ interrupted' = [interrupted EXCEPT ![t] = {k \in Syncers(t) : stage[t][k] = "async"}]
    /\ interrupted'[t] # interrupted[t]
    /\ UNCHANGED <<queue, queuedSema, nackQueue, nackPosted, pc, at, stage, selected,
                   decided, got, agenda>>

\* A blocked thread leaves its queues; when it goes on it starts over, a sync
\* with syncing-retry!.
Interrupt(t) ==
    /\ Idle /\ "interrupt" \in Disturb
    /\ \/ /\ Ops[t] \in {"get", "put"} /\ pc[t] = "blocked"
          /\ pc' = [pc EXCEPT ![t] = "start"]
          /\ UNCHANGED interrupted
       \/ /\ Ops[t] = "sync" /\ pc[t] \in {"poll", "blocked"} /\ selected[t] = 0
          /\ interrupted' = [interrupted EXCEPT ![t] = {k \in Syncers(t) : stage[t][k] = "async"}]
          /\ interrupted'[t] # interrupted[t]
          /\ UNCHANGED pc
    /\ queue' = LeaveQueues(Own(t))
    /\ nackQueue' = LeaveNackQueues(Own(t))
    /\ UNCHANGED <<queuedSema, nackPosted, at, stage, selected, decided, got, agenda>>

\* syncing-retry!: the interrupted syncers are retried in order.
Retry(t) ==
    /\ Idle /\ pc[t] \in {"poll", "blocked"} /\ interrupted[t] # {} /\ selected[t] = 0
    /\ agenda' = Each("retry", t, interrupted[t])
    /\ UNCHANGED <<queue, queuedSema, nackQueue, nackPosted, pc, at, stage, interrupted,
                   selected, decided, got>>

Kill(t) ==
    /\ Idle /\ "kill" \in Disturb
    /\ pc[t] \in {"start", "poll", "blocked"} /\ Ops[t] # "commit"
    /\ pc' = [pc EXCEPT ![t] = "dead"]
    /\ queue' = LeaveQueues(Own(t))
    /\ nackQueue' = LeaveNackQueues(Own(t))
    /\ agenda' = IF Ops[t] = "sync" /\ selected[t] = 0
                   THEN <<<<"select", <<t, NoneSyncer>>>>>> ELSE <<>>
    /\ UNCHANGED <<queuedSema, nackPosted, at, stage, interrupted, selected, decided, got>>
-----------------------------------------------------------------------------
(* The tasks of an atomic section. *)

\* waiter-resume!: a thread goes on, a syncer is selected.
ResumeTask(w) ==
    /\ agenda # <<>> /\ Head(agenda) = <<"resume", w>>
    /\ IF w[2] = 0
         THEN pc' = [pc EXCEPT ![w[1]] = "done"] /\ agenda' = Tail(agenda)
         ELSE agenda' = <<<<"select", w>>>> \o Tail(agenda) /\ UNCHANGED pc
    /\ UNCHANGED <<queue, queuedSema, nackQueue, nackPosted, at, stage, interrupted,
                   selected, decided, got>>

\* syncing-done!
SelectTask(w) ==
    LET t == w[1] IN
    /\ agenda # <<>> /\ Head(agenda) = <<"select", w>>
    /\ selected' = [selected EXCEPT ![t] = w[2]]
    /\ decided' = [decided EXCEPT ![t] = @ + 1]
    /\ agenda' = Each("lose", t, Syncers(t) \ {w[2]}) \o Tail(agenda)
    /\ UNCHANGED <<queue, queuedSema, nackQueue, nackPosted, pc, at, stage, interrupted, got>>

\* Fault: the abandon callbacks are not called.
LoseNoAbandon(w) ==
    /\ agenda # <<>> /\ Head(agenda) = <<"lose", w>>
    /\ queue' = LeaveQueues({w})
    /\ nackQueue' = LeaveNackQueues({w})
    /\ agenda' = Tail(agenda)
    /\ UNCHANGED <<queuedSema, nackPosted, pc, at, stage, interrupted, selected, decided, got>>

\* A syncer that is not selected: interrupt and abandon.
LoseTask(w) ==
    /\ agenda # <<>> /\ Head(agenda) = <<"lose", w>>
    /\ queue' = LeaveQueues({w})
    /\ nackQueue' = LeaveNackQueues({w})
    /\ agenda' = IF Event(w).guard /\ stage[w[1]][w[2]] # "guard"
                   THEN <<<<"post", w>>>> \o Tail(agenda) ELSE Tail(agenda)
    /\ UNCHANGED <<queuedSema, nackPosted, pc, at, stage, interrupted, selected, decided, got>>

\* semaphore-post of the nack semaphore: every waiter peeks, so all are resumed.
PostTask(w) ==
    /\ agenda # <<>> /\ Head(agenda) = <<"post", w>>
    /\ \/ /\ nackQueue[w] # <<>>
          /\ nackQueue' = [nackQueue EXCEPT ![w] = Tail(@)]
          /\ agenda' = <<<<"select", Head(nackQueue[w])>>>> \o agenda
          /\ UNCHANGED nackPosted
       \/ /\ nackQueue[w] = <<>>
          /\ nackPosted' = nackPosted \cup {w}
          /\ agenda' = Tail(agenda)
          /\ UNCHANGED nackQueue
    /\ UNCHANGED <<queue, queuedSema, pc, at, stage, interrupted, selected, decided, got>>

\* The retry callback of a syncer: match or get back in line, unless something
\* else has been selected meanwhile.
RetryTask(w) ==
    LET t == w[1] IN
    /\ agenda # <<>> /\ Head(agenda) = <<"retry", w>>
    /\ \/ /\ selected[t] # 0
          /\ agenda' = Tail(agenda)
          /\ UNCHANGED <<queue, queuedSema, nackQueue, pc, interrupted, got>>
       \/ /\ selected[t] = 0 /\ Event(w).kind # "nack"
          /\ interrupted' = [interrupted EXCEPT ![t] = @ \ {w[2]}]
          /\ \/ /\ Match(w, <<<<"select", w>>>> \o Tail(agenda))
                /\ UNCHANGED <<queuedSema, pc>>
             \/ /\ Partners(w, OtherSide(w)) = {}
                /\ Enqueue(w)
                /\ PostQueued(Side(w))
                /\ agenda' = Tail(agenda)
                /\ UNCHANGED got
          /\ UNCHANGED nackQueue
       \/ /\ selected[t] = 0 /\ Event(w).kind = "nack"
          /\ interrupted' = [interrupted EXCEPT ![t] = @ \ {w[2]}]
          /\ IF Event(w).of \in nackPosted
               THEN agenda' = <<<<"select", w>>>> \o Tail(agenda) /\ UNCHANGED nackQueue
               ELSE /\ nackQueue' = [nackQueue EXCEPT ![Event(w).of] = Append(@, w)]
                    /\ agenda' = Tail(agenda)
          /\ UNCHANGED <<queue, queuedSema, pc, got>>
    /\ UNCHANGED <<nackPosted, at, stage, selected, decided>>
-----------------------------------------------------------------------------
Task == \E w \in Waiters \cup {<<t, NoneSyncer>> : t \in Threads} :
            ResumeTask(w) \/ SelectTask(w) \/ LoseTask(w) \/ PostTask(w) \/ RetryTask(w)

Step(t) == GetOrPut(t) \/ Commit(t) \/ Poll(t) \/ Finish(t) \/ Retry(t)

Next ==
    \/ Task
    \/ \E t \in Threads : Step(t) \/ Interrupt(t) \/ Kill(t)

Spec == Init /\ [][Next]_vars
-----------------------------------------------------------------------------
(* What the properties assume of the operations; both are about constants. *)

\* Nack event u is posted when the sync that waiter w belongs to selects w.
Loses(w, u) == Event(u).kind = "nack" /\ Event(u).of[1] = w[1] /\ Event(u).of[2] # w[2]

\* R relates a waiter to the threads whose syncs may be decided, through nacks,
\* when it is selected.  No sync waits, even through others, for the nack of an
\* event of its own, or of an event that loses when it finds a partner.
Apart(R) ==
    LET Subjects == Waiters \cup {<<t, NoneSyncer>> : t \in Threads} IN
    /\ \A w \in Subjects, u \in Waiters : Loses(w, u) =>
          <<w, u[1]>> \in R /\ \A t \in Threads : <<u, t>> \in R => <<w, t>> \in R
    /\ \A w \in Subjects : <<w, w[1]>> \notin R
    /\ \A w, p \in Waiters :
          /\ Event(w).kind # "nack" /\ Event(p).kind # "nack"
          /\ Side(p) = OtherSide(w) /\ w[1] # p[1]
          => <<p, w[1]>> \notin R

\* No thread blocks in channel-get or channel-put on the side a commit manager
\* waits for.
CommitsMeetSyncs ==
    \A t, u \in Threads : Ops[t] = "commit" /\ Ops[u] \in {"get", "put"} =>
        Side(<<u, 0>>) # OtherSide(<<t, 0>>)
-----------------------------------------------------------------------------
(* Properties; they are about states outside atomic mode. *)

\* The operation of waiter w is complete.
Completed(w) ==
    IF w[2] = 0 THEN pc[w[1]] = "done" ELSE selected[w[1]] = w[2]

\* Every put that completes is received by exactly one get, and every get that
\* completes has the value of a put that completes, whatever is interrupted,
\* retried or killed.
Rendezvous ==
    Idle =>
        \A w \in Waiters : Event(w).kind # "nack" /\ Completed(w) =>
            IF Event(w).kind = "get"
              THEN got[w] # Nobody /\ Completed(got[w]) /\ Event(got[w]).ch = Event(w).ch
              ELSE Cardinality({g \in Waiters : got[g] = w /\ Completed(g)}) = 1

\* No thread receives from itself.
NoSelfMatch == \A w \in Waiters : got[w] # Nobody => got[w][1] # w[1]

\* A getter and a putter of two threads never wait for each other.
NobodyMissed ==
    Idle => \A ch \in Channels :
        \A i \in 1..Len(queue[<<ch, "get">>]), j \in 1..Len(queue[<<ch, "put">>]) :
            queue[<<ch, "get">>][i][1] = queue[<<ch, "put">>][j][1]

\* A sync is decided at most once (the assertion of syncing-done!).
DecidedOnce == \A t \in Threads : decided[t] <= 1

\* A nack is posted exactly for the guarded events that were registered and lost.
NackExactly ==
    Idle => \A w \in Waiters : Event(w).guard /\ stage[w[1]][w[2]] # "guard" =>
        (w \in nackPosted <=> selected[w[1]] \notin {0, w[2]})

\* A commit manager waits only while there is nobody it could match.
CommitNotMissed ==
    Idle => \A t \in Threads : pc[t] = "waiting" =>
        Partners(<<t, 0>>, OtherSide(<<t, 0>>)) = {}

\* A channel's promise: each value goes from one put to one get, of two threads,
\* and each sync in it is decided once.
ChannelInv == TypeOK /\ Rendezvous /\ NoSelfMatch /\ DecidedOnce

\* Nobody waits, in a queue or as a commit manager, for a partner who is there.
NobodyWaitsInVain == NobodyMissed /\ CommitNotMissed
=============================================================================
