------------------------------ MODULE ParSweep ------------------------------
(***************************************************************************)
(* The parallel sweep of Chez Scheme's garbage collector (c/gc.c, compiled *)
(* with ENABLE_PARALLEL): from run_sweepers to the moment the collecting   *)
(* thread goes on alone.                                                   *)
(*                                                                         *)
(* Each Scheme thread's heap context (thread_gc) is given to a sweeper,    *)
(* and an object may be copied or marked only in the context that created  *)
(* its segment.  A sweeper that finds a reference to somebody else's       *)
(* object sends the object that holds the reference to the other context,  *)
(* which sweeps it again.  A sweeper that runs out of work waits until it  *)
(* is sent some or until nobody is running.                                *)
(*                                                                         *)
(* Objects are atoms, and a sweep of one object is one step: an object is  *)
(* in the hands of one sweeper at a time, which is one of the properties.  *)
(* The other state a sweep reads is whether somebody else's object has     *)
(* been marked; that is read without a lock, and may be stale.             *)
(***************************************************************************)
EXTENDS Integers, FiniteSets, Sequences, SequencesExt, Bags

CONSTANTS
    Tgcs,        \* the thread_gc of every Scheme thread
    S_threads,   \* the list of threads, as a sequence of their thread_gc
    MainTgc,     \* the thread_gc of the thread that collects
    Objects,     \* everything the collector meets
    Old,         \* the objects of older generations, which stay in place
    Creator,     \* the thread_gc that owns the segment of each object
    Segment,     \* the segment of each object
    UseMarks,    \* objects on segments that are marked rather than copied
    Heaps,       \* possible heaps, see below
    MaxSweepers, \* maximum_parallel_collect_threads
    Setups,      \* possible situations when the collection starts, see below
    NoOne

\* A heap h has: h.refs[o], the fields of a plain object in the order in which
\* they are swept; h.key[e], h.val[e],
\* of an ephemeron; h.rooted[g], what was copied into g's context before the
\* sweepers start; h.dirty[g], the old objects on dirty cards of g's segments,
\* an object once for each card that it overlaps.
\*
\* A setup u has: u.tcs and u.count, S_collect_waiting_tcs and the number of
\* waiting threads; u.started, the sweepers that run since an earlier
\* collection; u.limit, how many the system is willing to run.

\* What the mutator and earlier collections guarantee of a heap: an old object
\* that refers to a younger one is on a dirty card, of a segment of its creator,
\* and an ephemeron lies on one card.
HeapOK(h) ==
    /\ DOMAIN h.key \subseteq Objects
    /\ h.key \in [DOMAIN h.key -> Objects] /\ h.val \in [DOMAIN h.key -> Objects]
    /\ h.refs \in [Objects -> Seq(Objects)] /\ \A e \in DOMAIN h.key : h.refs[e] = << >>
    /\ h.rooted \in [Tgcs -> SUBSET (Objects \ Old)] /\ h.dirty \in [Tgcs -> Seq(Old)]
    /\ \A g \in Tgcs : \A o \in h.rooted[g] \cup Range(h.dirty[g]) : Creator[o] = g
    /\ \A o \in Old :
          \/ \E g \in Tgcs : o \in Range(h.dirty[g])
          \/ IF o \in DOMAIN h.key THEN h.key[o] \in Old /\ h.val[o] \in Old
                                   ELSE Range(h.refs[o]) \subseteq Old
    /\ \A g \in Tgcs : \A i, j \in DOMAIN h.dirty[g] :
          h.dirty[g][i] = h.dirty[g][j] /\ h.dirty[g][i] \in DOMAIN h.key => i = j

ASSUME SweepAssumption ==
    /\ MainTgc \in Tgcs /\ Old \subseteq Objects
    /\ Creator \in [Objects -> Tgcs]
    /\ MaxSweepers \in Nat /\ NoOne \notin Tgcs
    /\ \A h \in Heaps : HeapOK(h)

VARIABLES
    heap,
    lists,      \* the contexts of each sweeper, first_tgc to last_tgc
    status,     \* READY, SWEEPING, WAITING, or NONE for a sweeper never started
    running,    \* num_running_sweepers
    asleep,     \* sweepers in a wait on their work_cond, not yet woken
    pc,         \* what each sweeper is doing
    cur,        \* the index of the context it is doing it for
    reached,    \* objects that are forwarded or marked
    fixed,      \* references <<o, x>> that have been updated
    todo,       \* what a context still has to sweep
    dirty,      \* what it has not yet looked at on dirty cards
    send, recv, \* its send and receive stacks
    pend,       \* its pending_ephemerons
    batch,      \* those of them that check_pending_ephemerons is going through
    trig,       \* trigger_ephemerons of each segment
    change      \* contexts with sweep_change

control == <<lists, status, running, asleep>>
stacks  == <<todo, dirty, send, recv, pend, batch, trig>>
vars    == <<heap, control, pc, cur, reached, fixed, stacks, change>>

MainSweeper == MaxSweepers
Sweepers == 0..MaxSweepers
Used == {s \in Sweepers : lists[s] # <<>>}

Ephemerons == DOMAIN heap.key
Segments == {Segment[o] : o \in Objects}
-----------------------------------------------------------------------------
(* setup_sweepers: which context goes to which sweeper. *)

\* assign_sweeper
Assign(ls, n, g) == [ls EXCEPT ![n] = Append(ls[n], g)]

\* sweeper_started: a new sweeper is started only for a waiting thread, and
\* only if its thread can be created.
SweeperStarted(u, n, new) == n \in u.started \/ (new /\ n < u.limit)

\* The waiting threads get a sweeper each: slot i is looked at only if i is
\* less than the number of waiting threads (slots count from 1 here).
AssignWaiting(u) ==
    FoldLeft(LAMBDA a, i :
                 IF /\ i <= u.count /\ u.tcs[i] # NoOne
                    /\ a.n < MaxSweepers /\ SweeperStarted(u, a.n, TRUE)
                 THEN [n |-> a.n + 1, lists |-> Assign(a.lists, a.n, u.tcs[i])]
                 ELSE a,
             [n |-> 0,
              lists |-> Assign([s \in Sweepers |-> <<>>], MainSweeper, MainTgc)],
             [i \in 1..Len(u.tcs) |-> i])

\* The others get a sweeper that runs already, or are dealt out in turn to the
\* ones in use and to the collecting thread.
AssignOther(u, given, a, g) ==
    IF g = MainTgc \/ g \in given
    THEN a
    ELSE IF a.n < MaxSweepers /\ SweeperStarted(u, a.n, FALSE)
    THEN [n |-> a.n + 1, next |-> a.n + 1, lists |-> Assign(a.lists, a.n, g)]
    ELSE LET to == IF a.next = a.n THEN MainSweeper ELSE a.next IN
         [n |-> a.n,
          next |-> IF to = MainSweeper THEN 0 ELSE to + 1,
          lists |-> Assign(a.lists, to, g)]

SetupSweepers(u) ==
    LET first == AssignWaiting(u)
        given == UNION {Range(first.lists[n]) : n \in 0..first.n - 1}
    IN  FoldLeft(LAMBDA a, g : AssignOther(u, given, a, g),
                 [n |-> first.n, next |-> first.n, lists |-> first.lists],
                 S_threads).lists
-----------------------------------------------------------------------------
\* The collecting thread has set up the sweepers, copied what the roots refer
\* to directly, and sets the sweepers going (the first part of run_sweepers).
Init ==
    /\ heap \in Heaps
    /\ \E u \in Setups : lists = SetupSweepers(u)
    /\ status = [s \in Sweepers |-> IF s \in Used THEN "sweeping" ELSE "none"]
    /\ running = Cardinality(Used)
    /\ asleep = {}
    /\ pc = [s \in Sweepers |-> IF s = MainSweeper THEN "dirty" ELSE "idle"]
    /\ cur = [s \in Sweepers |-> 1]
    /\ reached = UNION {heap.rooted[g] : g \in Tgcs}
    /\ fixed = {}
    /\ todo = [g \in Tgcs |-> SetToBag(heap.rooted[g])]
    /\ dirty = heap.dirty
    /\ send = [g \in Tgcs |-> EmptyBag] /\ recv = [g \in Tgcs |-> EmptyBag]
    /\ pend = [g \in Tgcs |-> {}] /\ batch = [g \in Tgcs |-> {}]
    /\ trig = [z \in Segments |-> {}]
    /\ change = {}

One(x) == SetToBag({x})
Goto(s, label) == pc' = [pc EXCEPT ![s] = label]
Ctx(s) == lists[s][cur[s]]
-----------------------------------------------------------------------------
(* Relocating references. *)

\* Whether a reference is seen as local in context g (SEGMENT_IS_LOCAL): the
\* object is g's own, or it is seen to be marked already.
MaybeMarked(X) == X \cap UseMarks \cap reached

\* Fault: every reference is local, as outside the parallel sweep.
AllLocal(g, X, seen) == X

Local(g, X, seen) == {x \in X : Creator[x] = g \/ x \in seen}

\* The references of o among X that still lead to a place from which objects
\* are copied or marked.
Unfixed(o, X) == {x \in X \ Old : <<o, x>> \notin fixed}

\* Fault: triggers are not looked at.
NoTriggers(new) == {}

\* check_triggers: the segments whose triggers are pulled.
Pulled(new) == {Segment[x] : x \in new}

\* Fault: the object goes nowhere.
FlushNothing(g, o, fs, far) == UNCHANGED send

\* RECORD_REMOTE keeps the last remote reference; FLUSH_REMOTE registers the
\* object for its context.
Flush(g, o, fs, far) ==
    \/ far = {} /\ UNCHANGED send
    \/ \E i \in DOMAIN fs :
          /\ fs[i] \in far /\ \A j \in DOMAIN fs : fs[j] \in far => j <= i
          /\ send' = [send EXCEPT ![g] = @ (+) One(<<o, Creator[fs[i]]>>)]

\* Context g relocates the references of o in the fields fs (and has updated its
\* references to Y): local objects are copied or marked if they are not yet,
\* which makes g sweep them and makes ephemerons pending; if there are others,
\* o is to be swept again elsewhere.  rest is what g has to sweep besides.
Relocate(g, o, fs, Y, rest) ==
    LET open == Unfixed(o, Range(fs)) IN
    \E seen \in SUBSET MaybeMarked(open) :
        LET loc == Local(g, open, seen)
            new == loc \ reached
            far == open \ loc
            pulled == Pulled(new)
        IN
        /\ reached' = reached \cup new
        /\ fixed' = fixed \cup {<<o, x>> : x \in loc \cup Y}
        /\ todo' = [todo EXCEPT ![g] = rest (+) SetToBag(new)]
        /\ pend' = [pend EXCEPT ![g] = @ \cup UNION {trig[z] : z \in pulled}]
        /\ trig' = [z \in Segments |-> IF z \in pulled THEN {} ELSE trig[z]]
        /\ Flush(g, o, fs, far)
        /\ change' = IF new \cup far = {} THEN change ELSE change \cup {g}

\* check_ephemeron and check_dirty_ephemeron in context g.  If the key is known
\* to be kept, the value is relocated; if it is somebody else's, the ephemeron
\* is sent there; if it is g's own and not reached so far, the ephemeron waits,
\* with the segment of the key or (a dirty one) with g.
CheckEphemeron(g, e, isDirty) ==
    LET k == heap.key[e]
        val == <<heap.val[e]>>
    IN
    \/ /\ Unfixed(e, {k}) = {}
       /\ Relocate(g, e, val, {}, todo[g])
    \/ /\ Unfixed(e, {k}) # {} /\ k \in reached
       /\ Creator[k] = g \/ k \in UseMarks
       /\ Relocate(g, e, val, {k}, todo[g])
    \/ /\ Unfixed(e, {k}) # {} /\ k \notin reached
       /\ Creator[k] = g
       /\ IF isDirty
          THEN pend' = [pend EXCEPT ![g] = @ \cup {e}] /\ trig' = trig
          ELSE trig' = [trig EXCEPT ![Segment[k]] = @ \cup {e}] /\ pend' = pend
       /\ UNCHANGED <<reached, fixed, todo, send, change>>
    \/ /\ Unfixed(e, {k}) # {}
       /\ Creator[k] # g
       /\ send' = [send EXCEPT ![g] = @ (+) One(<<e, Creator[k]>>)]
       /\ change' = change \cup {g}
       /\ UNCHANGED <<reached, fixed, todo, pend, trig>>
-----------------------------------------------------------------------------
(* The work of a sweeper: run_sweeper and sweep_generation_pass. *)

\* start_sweeper: the sweeper's thread is woken, or created, and starts.
Start(s) ==
    /\ pc[s] = "idle" /\ status[s] = "sweeping"
    /\ Goto(s, "dirty")
    /\ UNCHANGED <<heap, control, cur, reached, fixed, stacks, change>>

\* sweep_dirty_segments, one object on one card; a dirty ephemeron is checked
\* right away.
SweepDirty(s) ==
    LET g == Ctx(s)
        o == Head(dirty[g])
    IN
    /\ pc[s] = "dirty" /\ dirty[g] # <<>>
    /\ dirty' = [dirty EXCEPT ![g] = Tail(@)]
    /\ IF o \in Ephemerons
       THEN CheckEphemeron(g, o, TRUE)
       ELSE Relocate(g, o, heap.refs[o], {}, todo[g])
    /\ UNCHANGED <<heap, control, pc, cur, recv, batch>>

DirtyDone(s) ==
    /\ pc[s] = "dirty" /\ dirty[Ctx(s)] = <<>>
    /\ Goto(s, "pass")
    /\ change' = change \ {Ctx(s)}
    /\ UNCHANGED <<heap, control, cur, reached, fixed, stacks>>

\* sweep, for one object; an ephemeron becomes pending.
Sweep(s) ==
    LET g == Ctx(s) IN
    /\ pc[s] = "pass"
    /\ \E o \in BagToSet(todo[g]) :
        IF o \in Ephemerons
        THEN /\ todo' = [todo EXCEPT ![g] = @ (-) One(o)]
             /\ pend' = [pend EXCEPT ![g] = @ \cup {o}]
             /\ UNCHANGED <<reached, fixed, send, trig, change>>
        ELSE Relocate(g, o, heap.refs[o], {}, todo[g] (-) One(o))
    /\ UNCHANGED <<heap, control, pc, cur, dirty, recv, batch>>

\* The contexts that are sent something, and their sweepers that wait.
Sent(g) == {m[2] : m \in BagToSet(send[g])}
SweeperOf(g) == CHOOSE s \in Used : g \in Range(lists[s])
WakenBy(g) == {s \in {SweeperOf(h) : h \in Sent(g)} : status[s] = "waiting"}

\* Fault: the sender does not count a sweeper that it wakes.
CountNone(g) == 0

\* A sweeper that is given work counts as running from then on.
CountWaken(g) == Cardinality(WakenBy(g))

\* The receive stacks after g has sent everything.
Delivered(g) ==
    [h \in Tgcs |-> recv[h] (+)
        [o \in {m[1] : m \in {m \in BagToSet(send[g]) : m[2] = h}} |-> send[g][<<o, h>>]]]

\* The end of an iteration of sweep_generation_pass: what was recorded is sent
\* and what came in is taken (send_and_receive_remote_sweeps, which also counts
\* and wakes the sweepers that wait); if there was no progress, the pending
\* ephemerons are taken up.
Exchange(s) ==
    LET g == Ctx(s)
        got == Delivered(g)[g]
    IN
    /\ pc[s] = "pass" /\ (todo[g] = EmptyBag \/ g \in change)
    /\ send' = [send EXCEPT ![g] = EmptyBag]
    /\ recv' = [Delivered(g) EXCEPT ![g] = EmptyBag]
    /\ todo' = [todo EXCEPT ![g] = @ (+) got]
    /\ running' = running + CountWaken(g)
    /\ status' = [t \in Sweepers |-> IF t \in WakenBy(g) THEN "sweeping" ELSE status[t]]
    /\ asleep' = asleep \ WakenBy(g)
    /\ change' = IF got = EmptyBag THEN change ELSE change \cup {g}
    /\ batch' = [batch EXCEPT ![g] = IF g \in change' THEN {} ELSE pend[g]]
    /\ pend' = [pend EXCEPT ![g] = IF g \in change' THEN @ ELSE {}]
    /\ Goto(s, "eph")
    /\ UNCHANGED <<heap, lists, cur, reached, fixed, dirty, trig>>

\* check_pending_ephemerons
CheckPending(s) ==
    LET g == Ctx(s) IN
    /\ pc[s] = "eph"
    /\ \E e \in batch[g] :
        /\ batch' = [batch EXCEPT ![g] = @ \ {e}]
        /\ CheckEphemeron(g, e, FALSE)
    /\ UNCHANGED <<heap, control, pc, cur, dirty, recv>>

\* Another iteration if there was progress, otherwise the next context.
Again(s) ==
    LET g == Ctx(s) IN
    /\ pc[s] = "eph" /\ batch[g] = {}
    /\ \/ /\ g \in change
          /\ change' = change \ {g}
          /\ Goto(s, "pass")
          /\ cur' = cur
       \/ /\ g \notin change
          /\ change' = change
          /\ cur' = [cur EXCEPT ![s] = IF @ = Len(lists[s]) THEN 1 ELSE @ + 1]
          /\ Goto(s, IF cur[s] = Len(lists[s]) THEN "finish" ELSE "dirty")
    /\ UNCHANGED <<heap, control, reached, fixed, stacks>>
-----------------------------------------------------------------------------
(* Finding out that everyone is done. *)

AnyRanges(s) == \E g \in Range(lists[s]) : recv[g] # EmptyBag

\* Fault: the last sweeper does not tell the others.
DecideSilently(s, n) ==
    \/ /\ AnyRanges(s)
       /\ running' = n + 1
       /\ Goto(s, "dirty")
       /\ UNCHANGED <<asleep, status>>
    \/ /\ ~AnyRanges(s) /\ n = 0
       /\ running' = n /\ UNCHANGED <<asleep, status>>
       /\ Goto(s, "left")
    \/ /\ ~AnyRanges(s) /\ n # 0
       /\ running' = n /\ asleep' = asleep \cup {s}
       /\ status' = [status EXCEPT ![s] = "waiting"]
       /\ Goto(s, "wait")

\* The top of the loop in run_sweeper, with the mutex and n sweepers running:
\* work has come in; or everyone is done, and is told; or wait.
Decide(s, n) ==
    \/ /\ AnyRanges(s)
       /\ running' = n + 1
       /\ Goto(s, "dirty")
       /\ UNCHANGED <<asleep, status>>
    \/ /\ ~AnyRanges(s) /\ n = 0
       /\ running' = n /\ asleep' = {} /\ status' = status
       /\ Goto(s, "left")
    \/ /\ ~AnyRanges(s) /\ n # 0
       /\ running' = n /\ asleep' = asleep \cup {s}
       /\ status' = [status EXCEPT ![s] = "waiting"]
       /\ Goto(s, "wait")

FinishPass(s) ==
    /\ pc[s] = "finish"
    /\ Decide(s, running - 1)
    /\ UNCHANGED <<heap, lists, cur, reached, fixed, stacks, change>>

\* The wait ends: there is work, or everyone is done, or neither.
Wake(s) ==
    /\ pc[s] = "wait" /\ s \notin asleep
    /\ \/ /\ status[s] # "waiting"
          /\ Goto(s, "dirty")
          /\ UNCHANGED <<running, asleep, status>>
       \/ /\ status[s] = "waiting" /\ running = 0
          /\ Goto(s, "left")
          /\ UNCHANGED <<running, asleep, status>>
       \/ /\ status[s] = "waiting" /\ running # 0
          /\ Decide(s, running)
    /\ UNCHANGED <<heap, lists, cur, reached, fixed, stacks, change>>

Spurious(s) ==
    /\ s \in asleep
    /\ asleep' = asleep \ {s}
    /\ UNCHANGED <<heap, lists, status, running, pc, cur, reached, fixed, stacks, change>>

\* The end of the loop in start_sweeper.
Ready(s) ==
    /\ pc[s] = "left" /\ s # MainSweeper
    /\ status' = [status EXCEPT ![s] = "ready"]
    /\ Goto(s, "idle")
    /\ UNCHANGED <<heap, lists, running, asleep, cur, reached, fixed, stacks, change>>

\* The end of run_sweepers: the collecting thread waits for every sweeper.
Finish(s) ==
    /\ pc[s] = "left" /\ s = MainSweeper
    /\ \A t \in Used \ {MainSweeper} : status[t] = "ready"
    /\ Goto(s, "alone")
    /\ UNCHANGED <<heap, control, cur, reached, fixed, stacks, change>>

Alone == pc[MainSweeper] = "alone"

Work(s) ==
    \/ Start(s) \/ SweepDirty(s) \/ DirtyDone(s) \/ Sweep(s) \/ Exchange(s)
    \/ CheckPending(s) \/ Again(s) \/ FinishPass(s) \/ Wake(s) \/ Ready(s) \/ Finish(s)

Next == \E s \in Used : Work(s) \/ Spurious(s)

Spec == Init /\ [][Next]_vars

\* Every sweeper's thread keeps running, and gets the mutex when it is free.
FairSpec == Spec /\ \A s \in Sweepers : WF_vars(s \in Used /\ Work(s))
-----------------------------------------------------------------------------
(* Properties. *)

TypeOK ==
    /\ heap \in Heaps
    /\ lists \in [Sweepers -> Seq(Tgcs)]
    /\ status \in [Sweepers -> {"none", "ready", "sweeping", "waiting"}]
    /\ running \in 0..MaxSweepers + 1
    /\ asleep \subseteq Used
    /\ pc \in [Sweepers -> {"idle", "dirty", "pass", "eph", "finish", "wait", "left", "alone"}]
    /\ reached \subseteq Objects \ Old
    /\ fixed \subseteq Objects \X Objects
    /\ \A g \in Tgcs :
        /\ BagToSet(todo[g]) \subseteq Objects /\ BagToSet(recv[g]) \subseteq Objects
        /\ BagToSet(send[g]) \subseteq Objects \X Tgcs
        /\ pend[g] \subseteq Ephemerons /\ batch[g] \subseteq Ephemerons
    /\ change \subseteq Tgcs

\* Each context is on one sweeper's list, once, the collecting thread's on its
\* own, and the sweepers in use are the first ones.
OnceEach(ls) ==
    /\ ls \in [Sweepers -> Seq(Tgcs)] /\ MainTgc \in Range(ls[MainSweeper])
    /\ \A g \in Tgcs : \E s \in Sweepers : \E i \in DOMAIN ls[s] :
          /\ ls[s][i] = g
          /\ \A t \in Sweepers : \A j \in DOMAIN ls[t] : ls[t][j] = g => t = s /\ j = i
    /\ \A s \in Sweepers \ {MainSweeper} : ls[s] # << >> => \A t \in 0..s : ls[t] # << >>

\* Every thread's context is swept by exactly one sweeper, whatever the slots
\* hold and however many sweepers could be started.
AssignedOnce == OnceEach(lists)

\* The objects in the hands of a context: to be swept, sent on or checked.
Held(g) ==
    BagToSet(todo[g]) \cup {m[1] : m \in BagToSet(send[g])} \cup BagToSet(recv[g])
        \cup pend[g] \cup batch[g] \cup Range(dirty[g])

\* "An object is swept by only one sweeper at a time", although an object with
\* references to several contexts travels, and an ephemeron waits at triggers.
\* The exception is an old object on two dirty cards: it is swept for each of
\* them, and if an object that it refers to is marked in between, it is sent to
\* two contexts, which then update different fields of it.
Overlapping ==
    {o \in Old : \E g \in Tgcs : \E i, j \in DOMAIN heap.dirty[g] :
                    i < j /\ heap.dirty[g][i] = o /\ heap.dirty[g][j] = o}

OneSweeperAtATime ==
    /\ \A g, h \in Tgcs :
        (Held(g) \cap Held(h)) \ Overlapping # {} => SweeperOf(g) = SweeperOf(h)
    /\ \A g \in Tgcs, z \in Segments : Held(g) \cap trig[z] = {}

\* num_running_sweepers is the number of sweepers that are at work or have been
\* given some; one that waits has nothing to do.
RunningExact ==
    /\ running = Cardinality({s \in Used :
            \/ pc[s] \in {"dirty", "pass", "eph", "finish"}
            \/ pc[s] \in {"idle", "wait"} /\ status[s] = "sweeping"})
    /\ \A s \in Used : status[s] = "waiting" => ~AnyRanges(s)

\* When a sweeper has decided that everyone is done, no context has anything
\* left in any of its stacks: what the collector checks later with "sweep stack
\* ended non-empty" and "non-empty pending list".
DoneMeansDone ==
    (\E s \in Used : pc[s] \in {"left", "alone"})
        => \A g \in Tgcs : Held(g) = {}

\* The objects on dirty cards when the sweep starts.
OnCards == UNION {Range(heap.dirty[g]) : g \in Tgcs}

\* Every reference of o is up to date, or o is an ephemeron that waits at the
\* segment of its key, which is not kept.
Forwarded(o) ==
    IF o \in Ephemerons
    THEN IF heap.key[o] \in reached \cup Old
         THEN \A x \in {heap.key[o], heap.val[o]} \ Old : <<o, x>> \in fixed
         ELSE o \in trig[Segment[heap.key[o]]]
    ELSE \A x \in Range(heap.refs[o]) \ Old : <<o, x>> \in fixed

\* When the collecting thread goes on alone, every reference of a kept object
\* is up to date, but for ephemerons whose key is not kept.
AllForwarded == Alone => \A o \in reached \cup OnCards : Forwarded(o)

\* Objects are copied and marked only in the context that owns them.
OwnerOnly ==
    [][\A x \in reached' \ reached : \E s \in Used :
            /\ pc[s] \in {"dirty", "pass", "eph"}
            /\ Ctx(s) = Creator[x]
            /\ <<todo[Ctx(s)], pend[Ctx(s)], batch[Ctx(s)], dirty[Ctx(s)]>>
                 # <<todo'[Ctx(s)], pend'[Ctx(s)], batch'[Ctx(s)], dirty'[Ctx(s)]>>]_vars

\* The sweepers together do what sweeping promises.
References == [o \in Objects |-> Range(heap.refs[o])]
Collectable == Objects \ Old
Graph == [refs |-> References, key |-> heap.key, val |-> heap.val]
Abstract == INSTANCE Reach WITH
    Objects <- Collectable,
    heap <- Graph,
    kept <- reached,
    done <- Alone
ImplementsReach == Abstract!Spec

\* The collection goes on.
Terminates == <>Alone

\* Each context belongs to one sweeper and each object is in the hands of one,
\* and the count of running sweepers, by which they find out that they are done,
\* is exact.
SweepInv == TypeOK /\ AssignedOnce /\ OneSweeperAtATime /\ RunningExact

\* The sweep ends only when nothing is left to do and every reference is updated.
SweepComplete == DoneMeansDone /\ AllForwarded
=============================================================================
