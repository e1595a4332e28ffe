------------------------- MODULE ThreadLayerProofs -------------------------
(***************************************************************************)
(* Proofs about two components of the thread layer: channels (module       *)
(* Channel) and thread groups (module ThreadGroup), each for every value   *)
(* of its constants.                                                       *)
(*                                                                         *)
(* Channels.  Shape is what each variable may hold.  SemaOK, with Shape,   *)
(* is enough for NobodyWaitsInVain.  For the rendezvous itself the states  *)
(* inside atomic sections matter, so ChannelsOK says what each task that   *)
(* is left on the agenda is about: a waiter that is to be resumed or       *)
(* selected is out of its queue and its sync undecided, one that is to     *)
(* lose or to post its nack belongs to a sync that is decided.  Nothing    *)
(* of that may be undone by the tasks before it: InOrder says that no task *)
(* decides, through the nacks it leads to, a sync that a later task is     *)
(* about.  It needs NacksApart, a property of the operations: without it   *)
(* the code decides a sync twice.                                          *)
(*                                                                         *)
(* Thread groups.  The scheduler is right if the links of every list are,  *)
(* so the inductive invariant says what the pointers mean.  A node is      *)
(* linked if it is in its parent's list; during an operation that differs  *)
(* from being active for the node the operation is about.  That a list has *)
(* no cycle and no second part is expressed by ranks that decrease along   *)
(* it: the start has the highest rank of the group's linked nodes, the end *)
(* the lowest, and next leads to the one just below.  Removing a node      *)
(* keeps all ranks, and a node that is added gets a rank above the old     *)
(* start.  For what List computes, the place of a linked node is the       *)
(* number of linked nodes of its group with at least its rank: next leads  *)
(* from each place to the following one, so the nodes by place satisfy the *)
(* equation of List's recursive function, and nothing else does.           *)
(***************************************************************************)
EXTENDS Channel, ThreadGroup, FiniteSetTheorems, TLAPS

-----------------------------------------------------------------------------
(* Channels: what the proofs are about. *)

\* What a task of the agenda is about: a waiter, or a thread that is killed.
Subjects == Waiters \cup {<<t, NoneSyncer>> : t \in Threads}

\* No sync waits for a nack that its own decision leads to.
NacksApart == \E R \in SUBSET (Subjects \X Threads) : Apart(R)

\* The threads that the selection of a waiter may lead to, through nacks.
Leads == CHOOSE R \in SUBSET (Subjects \X Threads) : Apart(R)

Entries(s) == {s[i] : i \in 1..Len(s)}
NoTwice(s) == \A i, j \in 1..Len(s) : s[i] = s[j] => i = j

\* The waiters in some queue, the tasks that are left, and the waiters that have
\* a partner.
Lined == {w \in Waiters : \/ \E q \in Sides : w \in Entries(queue[q])
                          \/ \E n \in Waiters : w \in Entries(nackQueue[n])}
Jobs == Entries(agenda)
Paired == {w \in Waiters : got[w] # Nobody \/ \E g \in Waiters : got[g] = w}

\* A commit manager is in no queue; only a syncer waits for a nack.
Liners == {w \in Waiters : Ops[w[1]] # "commit"}
SyncWaiters == {w \in Waiters : Ops[w[1]] = "sync"}

JobShape(job) ==
    /\ job \in Tasks \X Subjects
    /\ job[1] = "resume" => job[2] \in Liners
    /\ job[1] # "select" => job[2] \in Waiters
    /\ job[1] # "resume" => Ops[job[2][1]] = "sync"

AgendaShape(s) == s \in Seq(Tasks \X Subjects) /\ \A job \in Entries(s) : JobShape(job)

QueuesShape ==
    /\ queue \in [Sides -> Seq(Liners)]
    /\ queuedSema \in [Sides -> SUBSET Threads]
    /\ nackQueue \in [Waiters -> Seq(SyncWaiters)]
    /\ nackPosted \subseteq Waiters
    /\ got \in [Waiters -> Waiters \cup {Nobody}]

AtShape == at \in [Threads -> Nat] /\ \A t \in Threads : at[t] \in 1..(Len(Args[t]) + 1)

ThreadsShape ==
    /\ pc \in [Threads -> {"start", "poll", "blocked", "waiting", "done", "dead"}]
    /\ stage = [t \in Threads |-> stage[t]]
    /\ interrupted = [t \in Threads |-> interrupted[t]]
    /\ selected = [t \in Threads |-> selected[t]]
    /\ decided \in [Threads -> Nat]
    /\ \A t \in Threads :
          /\ stage[t] \in [Syncers(t) -> {"guard", "plain", "async"}]
          /\ interrupted[t] \subseteq Syncers(t)
          /\ selected[t] \in Syncers(t) \cup {0, NoneSyncer}

\* What each kind of operation may be doing.
KindsShape ==
    /\ \A t \in Threads :
          /\ Ops[t] = "sync" => pc[t] \in {"poll", "blocked", "done", "dead"}
          /\ Ops[t] \in {"get", "put"} => pc[t] \in {"start", "blocked", "done", "dead"}
          /\ Ops[t] = "commit" => pc[t] \in {"start", "waiting", "done"}
          /\ Ops[t] # "sync" => selected[t] = 0 /\ interrupted[t] = {}
    /\ \A q \in Sides : \A t \in queuedSema[q] :
          Ops[t] = "commit" /\ pc[t] = "waiting" /\ q = OtherSide(<<t, 0>>)

Shape == QueuesShape /\ AtShape /\ ThreadsShape /\ KindsShape /\ AgendaShape(agenda)

\* A waiter is in the queue its event belongs to, once.
LinesOK ==
    /\ \A q \in Sides :
          /\ \A w \in Entries(queue[q]) : Event(w).kind # "nack" /\ Side(w) = q
          /\ NoTwice(queue[q])
    /\ \A n \in Waiters :
          /\ \A w \in Entries(nackQueue[n]) : Event(w).kind = "nack" /\ Event(w).of = n
          /\ NoTwice(nackQueue[n])

ResumeOK(w) ==
    /\ Event(w).kind # "nack" /\ w \notin Lined /\ w \in Paired
    /\ w[2] = 0 => pc[w[1]] = "blocked"
    /\ w[2] # 0 => selected[w[1]] = 0

SelectOK(w) ==
    /\ selected[w[1]] = 0 /\ w \notin Lined /\ w[2] # 0
    /\ (w \in Waiters /\ Event(w).kind # "nack") => w \in Paired

LoseOK(w) == selected[w[1]] \notin {0, w[2]}

PostOK(w) == LoseOK(w) /\ Event(w).guard /\ stage[w[1]][w[2]] # "guard"

RetryOK(w) ==
    /\ stage[w[1]][w[2]] = "async" /\ pc[w[1]] \in {"poll", "blocked"}
    /\ selected[w[1]] = 0 => w[2] \in interrupted[w[1]]

JobsOK ==
    \A w \in Subjects :
        /\ <<"resume", w>> \in Jobs => ResumeOK(w)
        /\ <<"select", w>> \in Jobs => SelectOK(w)
        /\ <<"lose", w>> \in Jobs => LoseOK(w)
        /\ <<"post", w>> \in Jobs => PostOK(w)
        /\ <<"retry", w>> \in Jobs => RetryOK(w)

\* A waiter in a queue has no partner and still waits, or is about to leave.
LinedOK ==
    \A w \in Lined :
        /\ w \notin Paired
        /\ w[2] = 0 => Ops[w[1]] # "commit" /\ pc[w[1]] = "blocked"
        /\ w[2] # 0 =>
              /\ stage[w[1]][w[2]] = "async" /\ w[2] \notin interrupted[w[1]]
              /\ pc[w[1]] \in {"poll", "blocked"}
              /\ selected[w[1]] = 0 \/ <<"lose", w>> \in Jobs

ThreadsOK ==
    \A t \in Threads :
        /\ decided[t] = IF selected[t] = 0 THEN 0 ELSE 1
        /\ \A k \in interrupted[t] : stage[t][k] = "async"

NacksOK ==
    \A w \in Waiters :
        /\ w \in nackPosted => selected[w[1]] \notin {0, w[2]}
        /\ Event(w).guard /\ stage[w[1]][w[2]] # "guard" /\ selected[w[1]] \notin {0, w[2]}
              => w \in nackPosted \/ <<"lose", w>> \in Jobs \/ <<"post", w>> \in Jobs

\* Values go from one put to one get of another thread.
BoxesOK ==
    \A g \in Waiters : got[g] # Nobody =>
        /\ Event(g).kind = "get" /\ got[g] \in Waiters /\ Event(got[g]).kind = "put"
        /\ Event(got[g]).ch = Event(g).ch /\ got[g][1] # g[1]
        /\ \A h \in Waiters : got[h] = got[g] => h = g

\* Who has a partner completes, now or in this atomic section, and nobody else.
PairsOK ==
    \A w \in Waiters :
        /\ w \in Paired => Completed(w) \/ <<"resume", w>> \in Jobs \/ <<"select", w>> \in Jobs
        /\ Event(w).kind # "nack" /\ Completed(w) => w \in Paired

\* The threads that a task may select an event of.
Reach(w) == {w[1]} \cup {x \in Threads : <<w, x>> \in Leads}
Selects(job) ==
    IF job[1] \in {"resume", "select"} THEN {x \in Reach(job[2]) : job[2][2] # 0}
    ELSE UNION {Reach(u) : u \in {u \in Waiters : Event(u).kind = "nack" /\ Event(u).of = job[2]}}

\* Task x may come before task y.
Clear(x, y) ==
    /\ y[1] # "resume"
    /\ x[1] = "retry" => y[1] = "retry" /\ y # x
    /\ x[1] # "retry" /\ y[1] \in {"select", "lose"} => y[2][1] \notin Selects(x)

InOrder(s) == \A i, j \in 1..Len(s) : i < j => Clear(s[i], s[j])

SemaOK ==
    /\ \A t \in Threads : pc[t] = "waiting" =>
          t \in queuedSema[OtherSide(<<t, 0>>)] /\ Entries(queue[OtherSide(<<t, 0>>)]) = {}
    /\ \A c \in Channels : \A x \in Entries(queue[<<c, "get">>]), y \in Entries(queue[<<c, "put">>]) :
          x[1] = y[1]
-----------------------------------------------------------------------------
(* Waiters and events. *)

LEMMA WaiterFacts ==
    /\ \A w \in Waiters : /\ w = <<w[1], w[2]>> /\ w[1] \in Threads
                          /\ w[2] \in Syncers(w[1]) /\ w[2] \in Nat
                          /\ w[2] = 0 <=> Ops[w[1]] # "sync"
    /\ \A t \in Threads : \A k \in Syncers(t) : <<t, k>> \in Waiters
    /\ \A t \in Threads : Ops[t] # "sync" => <<t, 0>> \in Waiters
    /\ \A t \in Threads : Ops[t] = "sync" => Syncers(t) = 1..Len(Args[t])
    /\ \A t \in Threads : Len(Args[t]) \in Nat
    /\ Nobody \notin Waiters
<1>1. \A t \in Threads : Len(Args[t]) \in Nat
  BY ChannelAssumption
<1>2. \A w \in Waiters : \E t \in Threads : \E k \in Syncers(t) : w = <<t, k>>
  BY DEF Waiters
<1>3. \A t \in Threads : \A k \in Syncers(t) : <<t, k>> \in Waiters
  BY DEF Waiters
<1>4. \A t \in Threads : \A k \in Syncers(t) : k \in Nat /\ (k = 0 <=> Ops[t] # "sync")
  BY <1>1 DEF Syncers
<1>5. \A t \in Threads : Ops[t] # "sync" => 0 \in Syncers(t)
  BY DEF Syncers
<1>6. \A t \in Threads : Ops[t] = "sync" => Syncers(t) = 1..Len(Args[t])
  BY DEF Syncers
<1>7. \A w \in Waiters : /\ w = <<w[1], w[2]>> /\ w[1] \in Threads
                         /\ w[2] \in Syncers(w[1]) /\ w[2] \in Nat
                         /\ w[2] = 0 <=> Ops[w[1]] # "sync"
  <2> TAKE w \in Waiters
  <2>1. PICK t \in Threads : \E k \in Syncers(t) : w = <<t, k>>
    BY <1>2
  <2>2. PICK k \in Syncers(t) : w = <<t, k>>
    BY <2>1
  <2>3. w[1] = t /\ w[2] = k
    BY <2>2
  <2> QED
    BY <1>4, <2>2, <2>3
<1>8. Nobody \notin Waiters
  <2> SUFFICES ASSUME Nobody \in Waiters PROVE FALSE
    OBVIOUS
  <2>1. PICK t \in Threads : \E k \in Syncers(t) : Nobody = <<t, k>>
    BY <1>2
  <2>2. PICK k \in Syncers(t) : Nobody = <<t, k>>
    BY <2>1
  <2>3. <<t, k>> \in Threads \X Nat
    BY <1>4
  <2> QED
    BY <2>2, <2>3, ChannelAssumption
<1>9. \A t \in Threads : Ops[t] # "sync" => <<t, 0>> \in Waiters
  BY <1>3, <1>5
<1> QED
  BY ONLY <1>1, <1>3, <1>6, <1>7, <1>8, <1>9

LEMMA EventType ==
    ASSUME NEW w \in Waiters
    PROVE  Event(w) \in ChannelEvents \cup NackEvents
<1>1. w[1] \in Threads /\ w[2] \in Syncers(w[1])
  BY WaiterFacts
<1>2. Args[w[1]] \in Seq(ChannelEvents \cup NackEvents)
  BY <1>1, ChannelAssumption
<1>3. (IF w[2] = 0 THEN 1 ELSE w[2]) \in 1..Len(Args[w[1]])
  <2>1. CASE Ops[w[1]] = "sync"
    BY <1>1, <2>1, WaiterFacts
  <2>2. CASE Ops[w[1]] # "sync"
    <3>1. Len(Args[w[1]]) = 1 /\ w[2] = 0
      BY <1>1, <2>2, WaiterFacts, ChannelAssumption
    <3> QED
      BY <3>1
  <2> QED
    BY <2>1, <2>2
<1> QED
  BY <1>2, <1>3 DEF Event

LEMMA EventFacts ==
    \A w \in Waiters :
        /\ Event(w).kind \in {"get", "put", "nack"}
        /\ Event(w).guard \in BOOLEAN
        /\ Event(w).kind # "nack" => Side(w) \in Sides /\ OtherSide(w) \in Sides /\ Event(w).ch \in Channels
        /\ Event(w).kind = "nack" => Event(w).of \in Waiters /\ Event(Event(w).of).guard /\ w[2] # 0
<1> TAKE w \in Waiters
<1>1. \/ Event(w).kind \in {"get", "put"} /\ Event(w).ch \in Channels /\ Event(w).guard \in BOOLEAN
      \/ Event(w).kind = "nack" /\ Event(w).guard = FALSE
  BY EventType DEF ChannelEvents, NackEvents
<1>2. Event(w).kind # "nack" => Side(w) \in Sides /\ OtherSide(w) \in Sides /\ Event(w).ch \in Channels
  BY <1>1 DEF Side, OtherSide, Sides
<1>3. Event(w).kind = "nack" => Event(w).of \in Waiters /\ Event(Event(w).of).guard
  BY ChannelAssumption
<1>4. ASSUME Event(w).kind = "nack", w[2] = 0 PROVE FALSE
  <2>1. w[1] \in Threads /\ Ops[w[1]] # "sync"
    BY <1>4, WaiterFacts
  <2>2. Args[w[1]][1].kind \in {"get", "put"}
    BY <2>1, ChannelAssumption
  <2> QED
    BY <1>4, <2>2 DEF Event
<1> QED
  BY <1>1, <1>2, <1>3, <1>4

\* Partners are on the two sides of one channel.
LEMMA SideFacts ==
    \A w, p \in Waiters : Event(w).kind # "nack" /\ Event(p).kind # "nack" /\ Side(p) = OtherSide(w) =>
        /\ Event(p).ch = Event(w).ch
        /\ Event(w).kind = "get" => Event(p).kind = "put"
        /\ Event(w).kind # "get" => Event(w).kind = "put" /\ Event(p).kind = "get"
        /\ p # w
<1> SUFFICES ASSUME NEW w \in Waiters, NEW p \in Waiters, Event(w).kind # "nack",
                    Event(p).kind # "nack", Side(p) = OtherSide(w)
             PROVE  /\ Event(p).ch = Event(w).ch
                    /\ Event(w).kind = "get" => Event(p).kind = "put"
                    /\ Event(w).kind # "get" => Event(w).kind = "put" /\ Event(p).kind = "get"
                    /\ p # w
  OBVIOUS
<1>1. Event(w).kind \in {"get", "put"} /\ Event(p).kind \in {"get", "put"}
  BY EventFacts
<1>2. /\ Event(p).ch = Event(w).ch
      /\ Event(p).kind = IF Event(w).kind = "get" THEN "put" ELSE "get"
  BY DEF Side, OtherSide
<1> QED
  BY <1>1, <1>2

\* A plain operation is about a channel.
LEMMA PlainFacts ==
    \A t \in Threads : Ops[t] # "sync" => <<t, 0>> \in Waiters /\ Event(<<t, 0>>).kind # "nack"
<1> TAKE t \in Threads
<1> HAVE Ops[t] # "sync"
<1>1. <<t, 0>> \in Waiters
  BY WaiterFacts
<1>2. <<t, 0>>[2] = 0
  OBVIOUS
<1> QED
  BY <1>1, <1>2, EventFacts

LEMMA SubjectFacts ==
    /\ \A w \in Subjects : /\ w = <<w[1], w[2]>> /\ w[1] \in Threads
                           /\ w \notin Waiters => w[2] = NoneSyncer
    /\ Waiters \subseteq Subjects
    /\ \A t \in Threads : <<t, NoneSyncer>> \in Subjects /\ <<t, NoneSyncer>> \notin Waiters
<1>1. \A w \in Subjects : /\ w = <<w[1], w[2]>> /\ w[1] \in Threads
                          /\ w \notin Waiters => w[2] = NoneSyncer
  BY WaiterFacts DEF Subjects
<1>2. Waiters \subseteq Subjects
  BY DEF Subjects
<1>3. \A t \in Threads : <<t, NoneSyncer>> \in Subjects /\ <<t, NoneSyncer>> \notin Waiters
  <2> TAKE t \in Threads
  <2>1. <<t, NoneSyncer>> \in Subjects
    BY DEF Subjects
  <2>2. ASSUME <<t, NoneSyncer>> \in Waiters PROVE FALSE
    <3>1. <<t, NoneSyncer>>[2] \in Nat
      BY <2>2, WaiterFacts
    <3> QED
      BY <3>1 DEF NoneSyncer
  <2> QED
    BY <2>1, <2>2
<1> QED
  BY <1>1, <1>2, <1>3

-----------------------------------------------------------------------------
(* Sequences. *)

\* The number of a position among the positions in I, counted from 1.
Rank(I, i) == Cardinality(I \cap (1..i))

\* Numbering the positions in I in order is one to one and exhausts 1..|I|.
LEMMA RankBijective ==
    ASSUME NEW n \in Nat, NEW I \in SUBSET (1..n)
    PROVE  /\ IsFiniteSet(I)
           /\ Cardinality(I) \in Nat
           /\ \A i \in I : Rank(I, i) \in 1..Cardinality(I)
           /\ \A i, j \in I : i < j => Rank(I, i) < Rank(I, j)
           /\ \A m \in 1..Cardinality(I) : \E i \in I : Rank(I, i) = m
<1>1. IsFiniteSet(I) /\ Cardinality(I) \in Nat
  <2>1. 1 \in Int /\ n \in Int
    OBVIOUS
  <2>2. IsFiniteSet(1..n)
    BY <2>1, FS_Interval
  <2>3. IsFiniteSet(I)
    BY <2>2, FS_Subset
  <2> QED
    BY <2>3, FS_CardinalityType
<1>2. \A i \in I : /\ IsFiniteSet(I \cap (1..i))
                   /\ Rank(I, i) \in Nat
                   /\ Rank(I, i) <= Cardinality(I)
  <2> TAKE i \in I
  <2>1. I \cap (1..i) \in SUBSET I
    OBVIOUS
  <2> QED
    BY <1>1, <2>1, FS_Subset, FS_CardinalityType DEF Rank
<1>3. \A i \in I : Rank(I, i) \in 1..Cardinality(I)
  <2> TAKE i \in I
  <2>1. i \in I \cap (1..i)
    OBVIOUS
  <2>2. Cardinality(I \cap (1..i)) # 0
    <3>1. IsFiniteSet(I \cap (1..i)) /\ I \cap (1..i) # {}
      BY <1>2, <2>1
    <3> QED
      BY ONLY <3>1, FS_EmptySet
  <2> QED
    BY <1>1, <1>2, <2>2 DEF Rank
<1>4. \A i, j \in I : i < j => Rank(I, i) < Rank(I, j)
  <2> SUFFICES ASSUME NEW i \in I, NEW j \in I, i < j
               PROVE  Rank(I, i) < Rank(I, j)
    OBVIOUS
  <2>1. I \cap (1..i) \in SUBSET (I \cap (1..j))
    OBVIOUS
  <2>2. j \in (I \cap (1..j)) /\ j \notin (I \cap (1..i))
    OBVIOUS
  <2>3. /\ Cardinality(I \cap (1..i)) <= Cardinality(I \cap (1..j))
        /\ Cardinality(I \cap (1..i)) # Cardinality(I \cap (1..j))
    BY <1>2, <2>1, <2>2, FS_Subset
  <2> QED
    BY <1>2, <2>3 DEF Rank
<1>5. \A m \in 1..Cardinality(I) : \E i \in I : Rank(I, i) = m
  <2> DEFINE r == [i \in I |-> Rank(I, i)]
  <2>1. r \in Injection(I, 1..Cardinality(I))
    <3>1. r \in [I -> 1..Cardinality(I)]
      BY <1>3
    <3>2. \A i, j \in I : i # j => r[i] # r[j]
      <4> SUFFICES ASSUME NEW i \in I, NEW j \in I, i # j
                   PROVE  Rank(I, i) # Rank(I, j)
        OBVIOUS
      <4>1. i < j \/ j < i
        OBVIOUS
      <4>2. Rank(I, i) \in Nat /\ Rank(I, j) \in Nat
        BY <1>2
      <4>3. Rank(I, i) < Rank(I, j) \/ Rank(I, j) < Rank(I, i)
        BY <1>4, <4>1
      <4> QED
        BY <4>2, <4>3
    <3> QED
      BY <3>1, <3>2 DEF Injection, IsInjective
  <2>2. IsFiniteSet(1..Cardinality(I)) /\ Cardinality(1..Cardinality(I)) = Cardinality(I)
    <3>1. 1 \in Int /\ Cardinality(I) \in Int
      BY <1>1
    <3>2. /\ IsFiniteSet(1..Cardinality(I))
          /\ Cardinality(1..Cardinality(I)) =
                IF 1 > Cardinality(I) THEN 0 ELSE Cardinality(I) - 1 + 1
      BY <3>1, FS_Interval
    <3> QED
      BY <1>1, <3>2
  <2>3. r \in Surjection(I, 1..Cardinality(I))
    BY <2>1, <2>2, FS_Injection
  <2> QED
    BY <2>3 DEF Surjection
<1> QED
  BY <1>1, <1>3, <1>4, <1>5

\* A set of positions has a first one.
LEMMA FirstPosition ==
    ASSUME NEW n \in Nat, NEW I \in SUBSET (1..n), I # {}
    PROVE  \E i \in I : \A j \in I : i <= j
<1>1. Cardinality(I) \in Nat /\ Cardinality(I) # 0
  BY RankBijective, FS_EmptySet
<1>2. PICK i \in I : Rank(I, i) = 1
  BY <1>1, RankBijective
<1>3. \A j \in I : i <= j
  <2> SUFFICES ASSUME NEW j \in I, j < i PROVE FALSE
    OBVIOUS
  <2>1. Rank(I, j) < 1 /\ Rank(I, j) \in 1..Cardinality(I)
    BY <1>2, RankBijective
  <2> QED
    BY <2>1, <1>1
<1> QED
  BY <1>3

\* Sub keeps exactly the entries at the positions given, each of them once
\* (queue-remove-node! on the others).
LEMMA SubProps ==
    ASSUME NEW S, NEW q \in Seq(S), NEW I \in SUBSET (1..Len(q))
    PROVE  /\ Sub(q, I) \in Seq(S)
           /\ \A e : e \in Entries(Sub(q, I)) <=> \E i \in I : q[i] = e
           /\ NoTwice(q) => NoTwice(Sub(q, I))
<1> DEFINE c == Cardinality(I)
           p == [m \in 1..c |-> CHOOSE i \in I : Cardinality(I \cap (1..i)) = m]
<1>1. /\ Len(q) \in Nat /\ c \in Nat
      /\ \A i \in I : Rank(I, i) \in 1..c
      /\ \A i, j \in I : i < j => Rank(I, i) < Rank(I, j)
      /\ \A m \in 1..c : \E i \in I : Rank(I, i) = m
  <2>1. Len(q) \in Nat
    OBVIOUS
  <2> QED
    BY <2>1, RankBijective
<1>2. \A m \in 1..c : p[m] \in I /\ Rank(I, p[m]) = m
  <2> TAKE m \in 1..c
  <2>1. \E i \in I : Cardinality(I \cap (1..i)) = m
    BY <1>1 DEF Rank
  <2> DEFINE i == CHOOSE i \in I : Cardinality(I \cap (1..i)) = m
  <2>2. i \in I /\ Cardinality(I \cap (1..i)) = m
    BY ONLY <2>1
  <2> HIDE DEF i
  <2>3. p[m] = i
    BY DEF i
  <2> QED
    BY <2>2, <2>3 DEF Rank
<1> HIDE DEF p
<1>3. \A i \in I : p[Rank(I, i)] = i
  <2> TAKE i \in I
  <2>1. Rank(I, i) \in 1..c
    BY <1>1
  <2>2. p[Rank(I, i)] \in I /\ Rank(I, p[Rank(I, i)]) = Rank(I, i)
    BY <1>2, <2>1
  <2>3. Rank(I, i) \in Int
    BY <1>1, <2>1
  <2>4. PICK j \in I : j = p[Rank(I, i)]
    BY <2>2
  <2>5. Rank(I, j) = Rank(I, i)
    BY <2>2, <2>4
  <2>6. ~(j < i) /\ ~(i < j)
    BY <1>1, <2>3, <2>5
  <2>7. j = i
    BY <2>6
  <2> QED
    BY <2>4, <2>7
<1>4. Sub(q, I) = [m \in 1..c |-> q[p[m]]]
  BY DEF Sub, p
<1> HIDE DEF c
<1>5. /\ Sub(q, I) \in Seq(S)
      /\ Len(Sub(q, I)) = c
      /\ \A m \in 1..c : Sub(q, I)[m] = q[p[m]]
  <2>1. \A m \in 1..c : q[p[m]] \in S
    <3>1. \A i \in I : q[i] \in S
      OBVIOUS
    <3> QED
      BY <1>2, <3>1
  <2> QED
    BY <1>1, <1>4, <2>1
<1>6. \A e : e \in Entries(Sub(q, I)) <=> \E i \in I : q[i] = e
  <2> TAKE e
  <2>1. e \in Entries(Sub(q, I)) => \E i \in I : q[i] = e
    BY <1>2, <1>5 DEF Entries
  <2>2. ASSUME NEW i \in I, q[i] = e PROVE e \in Entries(Sub(q, I))
    <3>1. Rank(I, i) \in 1..c /\ Sub(q, I)[Rank(I, i)] = q[i]
      BY <1>1, <1>3, <1>5
    <3> QED
      BY <1>5, <2>2, <3>1 DEF Entries
  <2> QED
    BY <2>1, <2>2
<1>7. ASSUME NoTwice(q) PROVE NoTwice(Sub(q, I))
  <2> SUFFICES ASSUME NEW i \in 1..c, NEW j \in 1..c, q[p[i]] = q[p[j]] PROVE i = j
    BY <1>5 DEF NoTwice
  <2>1. p[i] = p[j]
    BY <1>2, <1>7 DEF NoTwice
  <2> QED
    BY <1>2, <2>1
<1> QED
  BY <1>5, <1>6, <1>7

LEMMA EntriesType ==
    ASSUME NEW S, NEW s \in Seq(S)
    PROVE  /\ Entries(s) \subseteq S
           /\ s = <<>> <=> Entries(s) = {}
<1>1. Entries(s) \subseteq S
  BY DEF Entries
<1>2. s = <<>> => Entries(s) = {}
  BY DEF Entries
<1>3. s # <<>> => s[1] \in Entries(s)
  <2> HAVE s # <<>>
  <2>1. 1 \in 1..Len(s)
    OBVIOUS
  <2> QED
    BY <2>1 DEF Entries
<1> QED
  BY <1>1, <1>2, <1>3

LEMMA OneEntry ==
    ASSUME NEW a
    PROVE  Entries(<<a>>) = {a} /\ NoTwice(<<a>>)
<1>1. Len(<<a>>) = 1 /\ <<a>>[1] = a
  OBVIOUS
<1> QED
  BY <1>1 DEF Entries, NoTwice

LEMMA ConcatEntries ==
    ASSUME NEW S, NEW p \in Seq(S), NEW q \in Seq(S)
    PROVE  p \o q \in Seq(S) /\ Entries(p \o q) = Entries(p) \cup Entries(q)
<1> DEFINE r == p \o q
<1>1. /\ r \in Seq(S) /\ Len(r) = Len(p) + Len(q) /\ Len(p) \in Nat /\ Len(q) \in Nat
      /\ \A i \in 1..Len(p) : r[i] = p[i]
      /\ \A i \in 1..Len(q) : r[Len(p) + i] = q[i]
  OBVIOUS
<1> HIDE DEF r
<1>2. ASSUME NEW e \in Entries(r) PROVE e \in Entries(p) \cup Entries(q)
  <2>1. PICK i \in 1..Len(r) : e = r[i]
    BY DEF Entries
  <2>2. CASE i <= Len(p)
    BY <1>1, <2>1, <2>2 DEF Entries
  <2>3. CASE i > Len(p)
    <3>1. i - Len(p) \in 1..Len(q) /\ Len(p) + (i - Len(p)) = i
      BY <1>1, <2>3
    <3>2. e = q[i - Len(p)]
      BY <1>1, <2>1, <3>1
    <3> QED
      BY <3>1, <3>2 DEF Entries
  <2> QED
    BY <1>1, <2>2, <2>3
<1>3. ASSUME NEW e \in Entries(p) PROVE e \in Entries(r)
  <2>1. PICK i \in 1..Len(p) : e = p[i]
    BY <1>3 DEF Entries
  <2>2. i \in 1..Len(r) /\ r[i] = e
    BY <1>1, <2>1
  <2> QED
    BY <2>2 DEF Entries
<1>4. ASSUME NEW e \in Entries(q) PROVE e \in Entries(r)
  <2>1. PICK i \in 1..Len(q) : e = q[i]
    BY <1>4 DEF Entries
  <2>2. Len(p) + i \in 1..Len(r) /\ r[Len(p) + i] = e
    BY <1>1, <2>1
  <2> QED
    BY <2>2 DEF Entries
<1>5. Entries(r) = Entries(p) \cup Entries(q)
  BY <1>2, <1>3, <1>4
<1> QED
  BY <1>1, <1>5 DEF r

LEMMA ConsEntries ==
    ASSUME NEW S, NEW a \in S, NEW s \in Seq(S)
    PROVE  /\ <<a>> \o s \in Seq(S) /\ Entries(<<a>> \o s) = {a} \cup Entries(s)
<1>0. <<a>> \in Seq(S)
  OBVIOUS
<1>1. PICK p \in Seq(S) : p = <<a>>
  BY <1>0, Zenon
<1>2. p \o s \in Seq(S) /\ Entries(p \o s) = Entries(p) \cup Entries(s)
  BY ConcatEntries
<1>3. Entries(p) = {a}
  BY <1>1, OneEntry
<1> QED
  BY <1>1, <1>2, <1>3

LEMMA AppendEntries ==
    ASSUME NEW S, NEW s \in Seq(S), NEW a \in S
    PROVE  /\ Append(s, a) \in Seq(S) /\ Entries(Append(s, a)) = Entries(s) \cup {a}
           /\ NoTwice(s) /\ a \notin Entries(s) => NoTwice(Append(s, a))
<1> DEFINE r == Append(s, a)
<1>1. /\ r \in Seq(S) /\ Len(r) = Len(s) + 1 /\ Len(s) \in Nat
      /\ \A i \in 1..Len(s) : r[i] = s[i]
      /\ r[Len(s) + 1] = a
  OBVIOUS
<1> HIDE DEF r
<1>2. Entries(r) = Entries(s) \cup {a}
  BY <1>1 DEF Entries
<1>3. NoTwice(s) /\ a \notin Entries(s) => NoTwice(r)
  BY <1>1 DEF Entries, NoTwice
<1> QED
  BY <1>1, <1>2, <1>3 DEF r

LEMMA TailEntries ==
    ASSUME NEW S, NEW s \in Seq(S), s # <<>>
    PROVE  /\ Tail(s) \in Seq(S) /\ Head(s) \in S
           /\ Entries(s) = {Head(s)} \cup Entries(Tail(s))
           /\ NoTwice(s) => NoTwice(Tail(s)) /\ Head(s) \notin Entries(Tail(s))
<1> DEFINE r == Tail(s)
<1>1. /\ r \in Seq(S) /\ Len(s) \in Nat /\ Len(s) = Len(r) + 1 /\ Len(r) \in Nat
      /\ Head(s) = s[1] /\ s[1] \in S
      /\ \A i \in 1..Len(r) : r[i] = s[i + 1]
  OBVIOUS
<1> HIDE DEF r
<1>2. ASSUME NEW e \in Entries(s) PROVE e \in {Head(s)} \cup Entries(r)
  <2>1. PICK i \in 1..Len(s) : e = s[i]
    BY DEF Entries
  <2>2. CASE i = 1
    BY <1>1, <2>1, <2>2
  <2>3. CASE i # 1
    <3>1. i - 1 \in 1..Len(r) /\ r[i - 1] = e
      BY <1>1, <2>1, <2>3
    <3> QED
      BY <3>1 DEF Entries
  <2> QED
    BY <2>2, <2>3
<1>3. ASSUME NEW e \in Entries(r) PROVE \E i \in 1..Len(s) : i > 1 /\ e = s[i]
  <2>1. PICK i \in 1..Len(r) : e = r[i]
    BY DEF Entries
  <2>2. i + 1 \in 1..Len(s) /\ i + 1 > 1 /\ e = s[i + 1]
    BY <1>1, <2>1
  <2> QED
    BY <2>2
<1>4. Entries(s) = {Head(s)} \cup Entries(r)
  <2>1. Head(s) \in Entries(s)
    BY <1>1 DEF Entries
  <2>2. Entries(r) \subseteq Entries(s)
    BY <1>3 DEF Entries
  <2> QED
    BY <1>2, <2>1, <2>2
<1>5. ASSUME NoTwice(s) PROVE NoTwice(r) /\ Head(s) \notin Entries(r)
  <2>1. NoTwice(r)
    BY <1>1, <1>5 DEF NoTwice
  <2>2. Head(s) \notin Entries(r)
    <3> SUFFICES ASSUME Head(s) \in Entries(r) PROVE FALSE
      OBVIOUS
    <3>1. PICK i \in 1..Len(s) : i > 1 /\ s[1] = s[i]
      BY <1>1, <1>3
    <3> QED
      BY <1>1, <1>5, <3>1 DEF NoTwice
  <2> QED
    BY <2>1, <2>2
<1> QED
  BY <1>1, <1>4, <1>5 DEF r

LEMMA WithoutEntries ==
    ASSUME NEW S, NEW s \in Seq(S), NEW W
    PROVE  /\ Without(s, W) \in Seq(S) /\ Entries(Without(s, W)) = Entries(s) \ W
           /\ NoTwice(s) => NoTwice(Without(s, W))
<1> DEFINE I == {i \in 1..Len(s) : s[i] \notin W}
<1>1. I \in SUBSET (1..Len(s))
  OBVIOUS
<1>2. Without(s, W) = Sub(s, I)
  BY DEF Without
<1> HIDE DEF I
<1>3. /\ Sub(s, I) \in Seq(S)
      /\ \A e : e \in Entries(Sub(s, I)) <=> \E i \in I : s[i] = e
      /\ NoTwice(s) => NoTwice(Sub(s, I))
  BY <1>1, SubProps
<1>4. \A e : e \in Entries(Sub(s, I)) <=> e \in Entries(s) \ W
  BY <1>3 DEF Entries, I
<1> QED
  BY <1>2, <1>3, <1>4

LEMMA RemoveEntries ==
    ASSUME NEW S, NEW s \in Seq(S), NEW i \in 1..Len(s), NoTwice(s)
    PROVE  /\ Sub(s, (1..Len(s)) \ {i}) \in Seq(S)
           /\ Entries(Sub(s, (1..Len(s)) \ {i})) = Entries(s) \ {s[i]}
           /\ NoTwice(Sub(s, (1..Len(s)) \ {i}))
<1> DEFINE I == (1..Len(s)) \ {i}
<1>1. I \in SUBSET (1..Len(s))
  OBVIOUS
<1> HIDE DEF I
<1>3. /\ Sub(s, I) \in Seq(S)
      /\ \A e : e \in Entries(Sub(s, I)) <=> \E j \in I : s[j] = e
      /\ NoTwice(s) => NoTwice(Sub(s, I))
  BY <1>1, SubProps
<1>4. \A e : e \in Entries(Sub(s, I)) <=> e \in Entries(s) \ {s[i]}
  <2>1. \A j \in I : j \in 1..Len(s) /\ s[j] # s[i]
    BY DEF I, NoTwice
  <2>2. \A j \in 1..Len(s) : s[j] # s[i] => j \in I
    BY DEF I
  <2>3. \A e : e \in Entries(s) <=> \E j \in 1..Len(s) : s[j] = e
    BY DEF Entries
  <2> QED
    BY <1>3, <2>1, <2>2, <2>3
<1> QED
  BY <1>3, <1>4 DEF I

LEMMA RemoveType ==
    ASSUME NEW S, NEW s \in Seq(S), NEW i
    PROVE  /\ Sub(s, (1..Len(s)) \ {i}) \in Seq(S)
           /\ Entries(Sub(s, (1..Len(s)) \ {i})) \subseteq Entries(s)
<1> DEFINE I == (1..Len(s)) \ {i}
<1>1. I \in SUBSET (1..Len(s))
  OBVIOUS
<1> HIDE DEF I
<1>3. /\ Sub(s, I) \in Seq(S)
      /\ \A e : e \in Entries(Sub(s, I)) <=> \E j \in I : s[j] = e
  BY <1>1, SubProps
<1>4. Entries(Sub(s, I)) \subseteq Entries(s)
  BY <1>1, <1>3 DEF Entries
<1> QED
  BY <1>3, <1>4 DEF I

\* The same job for some syncers: one task for each.
LEMMA EachEntries ==
    ASSUME NEW t \in Threads, NEW job \in Tasks, NEW K \in SUBSET (1..Len(Args[t])), Ops[t] = "sync"
    PROVE  /\ Each(job, t, K) \in Seq(Tasks \X Subjects)
           /\ Entries(Each(job, t, K)) = {<<job, <<t, k>>>> : k \in K}
           /\ NoTwice(Each(job, t, K))
<1> DEFINE s == [k \in 1..Len(Args[t]) |-> <<job, <<t, k>>>>]
<1>0. Len(Args[t]) \in Nat
  BY WaiterFacts
<1>1. \A k \in 1..Len(Args[t]) : <<job, <<t, k>>>> \in Tasks \X Subjects
  BY WaiterFacts, SubjectFacts
<1>2. s \in Seq(Tasks \X Subjects) /\ Len(s) = Len(Args[t])
  BY <1>0, <1>1
<1>3. \A k \in 1..Len(s) : s[k] = <<job, <<t, k>>>>
  BY <1>2
<1>4. NoTwice(s)
  BY <1>3 DEF NoTwice
<1>5. Each(job, t, K) = Sub(s, K)
  BY DEF Each
<1> HIDE DEF s
<1>6. /\ Sub(s, K) \in Seq(Tasks \X Subjects)
      /\ \A e : e \in Entries(Sub(s, K)) <=> \E i \in K : s[i] = e
      /\ NoTwice(s) => NoTwice(Sub(s, K))
  BY <1>2, SubProps
<1>7. \A e : e \in Entries(Sub(s, K)) <=> e \in {<<job, <<t, k>>>> : k \in K}
  BY <1>2, <1>3, <1>6
<1> QED
  BY <1>4, <1>5, <1>6, <1>7

LEMMA OneInOrder ==
    ASSUME NEW a
    PROVE  InOrder(<<>>) /\ InOrder(<<a>>)
<1>1. Len(<<a>>) = 1 /\ Len(<<>>) = 0
  OBVIOUS
<1> QED
  BY <1>1 DEF InOrder

LEMMA ConcatInOrder ==
    ASSUME NEW S, NEW p \in Seq(S), NEW q \in Seq(S), InOrder(p), InOrder(q),
           \A x \in Entries(p), y \in Entries(q) : Clear(x, y)
    PROVE  InOrder(p \o q)
<1> DEFINE r == p \o q
<1>1. /\ Len(r) = Len(p) + Len(q) /\ Len(p) \in Nat /\ Len(q) \in Nat
      /\ \A i \in 1..Len(p) : r[i] = p[i]
      /\ \A i \in 1..Len(r) : i > Len(p) => i - Len(p) \in 1..Len(q) /\ r[i] = q[i - Len(p)]
  OBVIOUS
<1> HIDE DEF r
<1> SUFFICES ASSUME NEW i \in 1..Len(r), NEW j \in 1..Len(r), i < j
             PROVE  Clear(r[i], r[j])
  BY DEF InOrder, r
<1>2. CASE j <= Len(p)
  <2>1. i \in 1..Len(p) /\ j \in 1..Len(p)
    BY <1>1, <1>2
  <2> QED
    BY <1>1, <2>1 DEF InOrder
<1>3. CASE i > Len(p)
  <2>1. i - Len(p) \in 1..Len(q) /\ j - Len(p) \in 1..Len(q) /\ i - Len(p) < j - Len(p)
        /\ r[i] = q[i - Len(p)] /\ r[j] = q[j - Len(p)]
    BY <1>1, <1>3
  <2>2. Clear(q[i - Len(p)], q[j - Len(p)])
    BY <2>1 DEF InOrder
  <2> QED
    BY <2>1, <2>2
<1>4. CASE i <= Len(p) /\ j > Len(p)
  <2>1. r[i] \in Entries(p) /\ r[j] \in Entries(q)
    BY <1>1, <1>4 DEF Entries
  <2> QED
    BY <2>1
<1> QED
  BY <1>1, <1>2, <1>3, <1>4

LEMMA ConsInOrder ==
    ASSUME NEW S, NEW a \in S, NEW s \in Seq(S), InOrder(s), \A y \in Entries(s) : Clear(a, y)
    PROVE  InOrder(<<a>> \o s)
<1>1. <<a>> \in Seq(S) /\ InOrder(<<a>>) /\ Entries(<<a>>) = {a}
  BY OneInOrder, OneEntry
<1> QED
  BY <1>1, ConcatInOrder

LEMMA TailInOrder ==
    ASSUME NEW S, NEW s \in Seq(S), s # <<>>, InOrder(s)
    PROVE  InOrder(Tail(s)) /\ \A y \in Entries(Tail(s)) : Clear(Head(s), y)
<1> DEFINE r == Tail(s)
<1>1. /\ r \in Seq(S) /\ Len(s) \in Nat /\ Len(s) = Len(r) + 1 /\ Len(r) \in Nat
      /\ Head(s) = s[1]
      /\ \A i \in 1..Len(r) : r[i] = s[i + 1]
  OBVIOUS
<1> HIDE DEF r
<1>2. InOrder(r)
  <2> SUFFICES ASSUME NEW i \in 1..Len(r), NEW j \in 1..Len(r), i < j PROVE Clear(r[i], r[j])
    BY DEF InOrder
  <2>1. i + 1 \in 1..Len(s) /\ j + 1 \in 1..Len(s) /\ i + 1 < j + 1
    BY <1>1
  <2>2. Clear(s[i + 1], s[j + 1])
    BY <2>1 DEF InOrder
  <2> QED
    BY <1>1, <2>2
<1>3. ASSUME NEW y \in Entries(r) PROVE Clear(Head(s), y)
  <2>1. PICK i \in 1..Len(r) : y = r[i]
    BY DEF Entries
  <2>2. 1 \in 1..Len(s) /\ i + 1 \in 1..Len(s) /\ 1 < i + 1
    BY <1>1
  <2>3. Clear(s[1], s[i + 1])
    BY <2>2 DEF InOrder
  <2> QED
    BY <1>1, <2>1, <2>3
<1> QED
  BY <1>2, <1>3 DEF r

\* Tasks of which each may come before every other one are in order.
LEMMA AllInOrder ==
    ASSUME NEW S, NEW s \in Seq(S), NoTwice(s), \A x, y \in Entries(s) : x # y => Clear(x, y)
    PROVE  InOrder(s)
<1> SUFFICES ASSUME NEW i \in 1..Len(s), NEW j \in 1..Len(s), i < j PROVE Clear(s[i], s[j])
  BY DEF InOrder
<1>1. s[i] \in Entries(s) /\ s[j] \in Entries(s) /\ s[i] # s[j]
  BY DEF Entries, NoTwice
<1> QED
  BY <1>1

-----------------------------------------------------------------------------
(* The steps: the ways an action can go.  What a sync does when it polls a     *)
(* syncer and when it retries one is the same; rest is what follows it.        *)

PlainMatch(t) ==
    /\ Idle /\ pc[t] = "start" /\ Ops[t] # "sync"
    /\ Match(<<t, 0>>, <<>>)
    /\ pc' = [pc EXCEPT ![t] = "done"]
    /\ UNCHANGED <<queuedSema, nackQueue, nackPosted, stage, interrupted, selected, decided>>

PlainQueue(t) ==
    /\ Idle /\ pc[t] = "start" /\ Ops[t] \in {"get", "put"}
    /\ queue[OtherSide(<<t, 0>>)] = <<>>
    /\ Enqueue(<<t, 0>>)
    /\ pc' = [pc EXCEPT ![t] = "blocked"]
    /\ UNCHANGED <<queuedSema, nackQueue, nackPosted, stage, interrupted, selected, decided,
                   got, agenda>>

CommitWait(t) ==
    /\ Idle /\ pc[t] = "start" /\ Ops[t] = "commit"
    /\ Partners(<<t, 0>>, OtherSide(<<t, 0>>)) = {}
    /\ queuedSema' = [queuedSema EXCEPT ![OtherSide(<<t, 0>>)] = @ \cup {t}]
    /\ pc' = [pc EXCEPT ![t] = "waiting"]
    /\ UNCHANGED <<queue, nackQueue, nackPosted, stage, interrupted, selected, decided,
                   got, agenda>>

PollBlock(t) ==
    /\ Idle /\ pc[t] = "poll" /\ Ops[t] = "sync"
    /\ pc' = [pc EXCEPT ![t] = "blocked"]
    /\ UNCHANGED <<queue, queuedSema, nackQueue, nackPosted, stage, interrupted, selected,
                   decided, got, agenda>>

PollGuard(w) ==
    /\ Idle /\ selected[w[1]] = 0 /\ stage[w[1]][w[2]] = "guard"
    /\ stage' = [stage EXCEPT ![w[1]] = [@ EXCEPT ![w[2]] = "plain"]]
    /\ UNCHANGED <<queue, queuedSema, nackQueue, nackPosted, pc, interrupted, selected,
                   decided, got, agenda>>

Try(w, rest) ==
    /\ Ops[w[1]] = "sync" /\ selected[w[1]] = 0
    /\ \/ /\ agenda = <<>> /\ rest = <<>>
          /\ stage[w[1]][w[2]] = "plain" /\ pc[w[1]] = "poll" /\ interrupted[w[1]] = {}
       \/ agenda # <<>> /\ Head(agenda) = <<"retry", w>> /\ rest = Tail(agenda)
    /\ interrupted' = [interrupted EXCEPT ![w[1]] = @ \ {w[2]}]
    /\ UNCHANGED <<nackPosted, selected, decided>>

Queued(w) ==
    \/ stage' = [stage EXCEPT ![w[1]] = [@ EXCEPT ![w[2]] = "async"]]
    \/ agenda # <<>> /\ stage' = stage

TryMatch(w, rest) ==
    /\ Try(w, rest) /\ Event(w).kind # "nack"
    /\ Match(w, <<<<"select", w>>>> \o rest)
    /\ UNCHANGED <<queuedSema, nackQueue, pc, stage>>

TryQueue(w, rest) ==
    /\ Try(w, rest) /\ Event(w).kind # "nack"
    /\ Partners(w, OtherSide(w)) = {}
    /\ Enqueue(w) /\ PostQueued(Side(w)) /\ Queued(w)
    /\ agenda' = rest
    /\ UNCHANGED <<nackQueue, got>>

TryNacked(w, rest) ==
    /\ Try(w, rest) /\ Event(w).kind = "nack"
    /\ agenda' = <<<<"select", w>>>> \o rest
    /\ UNCHANGED <<queue, queuedSema, nackQueue, pc, stage, got>>

TryWait(w, rest) ==
    /\ Try(w, rest) /\ Event(w).kind = "nack"
    /\ nackQueue' = [nackQueue EXCEPT ![Event(w).of] = Append(@, w)]
    /\ Queued(w)
    /\ agenda' = rest
    /\ UNCHANGED <<queue, queuedSema, pc, got>>

InterruptPlain(t) ==
    /\ Idle /\ Ops[t] \in {"get", "put"} /\ pc[t] = "blocked"
    /\ pc' = [pc EXCEPT ![t] = "start"]
    /\ queue' = LeaveQueues(Own(t))
    /\ nackQueue' = LeaveNackQueues(Own(t))
    /\ UNCHANGED <<queuedSema, nackPosted, stage, interrupted, selected, decided, got, agenda>>

InterruptSync(t) ==
    /\ Idle /\ Ops[t] = "sync" /\ pc[t] \in {"poll", "blocked"} /\ selected[t] = 0
    /\ interrupted' = [interrupted EXCEPT ![t] = {k \in Syncers(t) : stage[t][k] = "async"}]
    /\ queue' = LeaveQueues(Own(t))
    /\ nackQueue' = LeaveNackQueues(Own(t))
    /\ UNCHANGED <<queuedSema, nackPosted, pc, stage, selected, decided, got, agenda>>

ResumeThread(w) ==
    /\ agenda # <<>> /\ Head(agenda) = <<"resume", w>> /\ w[2] = 0
    /\ pc' = [pc EXCEPT ![w[1]] = "done"] /\ agenda' = Tail(agenda)
    /\ UNCHANGED <<queue, queuedSema, nackQueue, nackPosted, stage, interrupted,
                   selected, decided, got>>

ResumeSyncer(w) ==
    /\ agenda # <<>> /\ Head(agenda) = <<"resume", w>> /\ w[2] # 0
    /\ agenda' = <<<<"select", w>>>> \o Tail(agenda)
    /\ UNCHANGED <<queue, queuedSema, nackQueue, nackPosted, pc, stage, interrupted,
                   selected, decided, got>>

PostOne(w) ==
    /\ agenda # <<>> /\ Head(agenda) = <<"post", w>> /\ nackQueue[w] # <<>>
    /\ nackQueue' = [nackQueue EXCEPT ![w] = Tail(@)]
    /\ agenda' = <<<<"select", Head(nackQueue[w])>>>> \o agenda
    /\ UNCHANGED <<queue, queuedSema, nackPosted, pc, stage, interrupted, selected, decided, got>>

PostLast(w) ==
    /\ agenda # <<>> /\ Head(agenda) = <<"post", w>>
    /\ nackPosted' = nackPosted \cup {w}
    /\ agenda' = Tail(agenda)
    /\ UNCHANGED <<queue, queuedSema, nackQueue, pc, stage, interrupted, selected, decided, got>>

RetrySkip(w) ==
    /\ agenda # <<>> /\ Head(agenda) = <<"retry", w>> /\ selected[w[1]] # 0
    /\ agenda' = Tail(agenda)
    /\ UNCHANGED <<queue, queuedSema, nackQueue, nackPosted, pc, stage, interrupted,
                   selected, decided, got>>

StepOf(t) ==
    \/ PlainMatch(t) \/ PlainQueue(t) \/ CommitWait(t) \/ PollBlock(t) \/ Finish(t)
    \/ InterruptPlain(t) \/ InterruptSync(t) \/ Retry(t) \/ Kill(t)

TryOf(w, rest) ==
    TryMatch(w, rest) \/ TryQueue(w, rest) \/ TryNacked(w, rest) \/ TryWait(w, rest)

TaskOf(w) ==
    \/ ResumeThread(w) \/ ResumeSyncer(w) \/ SelectTask(w) \/ LoseTask(w)
    \/ PostOne(w) \/ PostLast(w) \/ RetrySkip(w)

AnyStep ==
    \/ \E t \in Threads : StepOf(t)
    \/ \E w \in Waiters : PollGuard(w)
    \/ \E w \in Waiters : \E rest \in {<<>>, Tail(agenda)} : TryOf(w, rest)
    \/ \E w \in Subjects : TaskOf(w)

LEMMA EmptyRest ==
    ASSUME NEW a
    PROVE  <<a>> \o <<>> = <<a>>
OBVIOUS

LEMMA PollStep ==
    ASSUME Shape, NEW t \in Threads, Poll(t)
    PROVE  AnyStep /\ AtShape'
<1> DEFINE k == at[t]
           w == <<t, k>>
<1>1. /\ Idle /\ pc[t] = "poll" /\ Ops[t] = "sync"
      /\ selected[t] = 0 /\ interrupted[t] = {}
      /\ UNCHANGED <<nackPosted, interrupted, selected, decided>>
  BY DEF Poll
<1>2. w[1] = t /\ w[2] = k
  OBVIOUS
<1>3. k \in Syncers(t) => w \in Waiters
  BY WaiterFacts
<1>a. interrupted' = [interrupted EXCEPT ![t] = @ \ {k}]
  BY <1>1 DEF Shape, ThreadsShape
<1>b. stage[t][k] = "plain" => Try(w, <<>>)
  BY <1>1, <1>2, <1>a DEF Try, Idle
<1>c. AtShape /\ Len(Args[t]) \in Nat
  BY WaiterFacts DEF Shape
<1>4. CASE /\ k > Len(Args[t])
           /\ pc' = [pc EXCEPT ![t] = "blocked"]
           /\ UNCHANGED <<queue, queuedSema, nackQueue, at, stage, got, agenda>>
  <2>1. PollBlock(t)
    BY <1>1, <1>4 DEF PollBlock
  <2>2. AtShape'
    BY <1>4, <1>c DEF AtShape
  <2> QED
    BY <2>1, <2>2 DEF AnyStep, StepOf
<1>5. CASE /\ k \in Syncers(t) /\ stage[t][k] = "guard"
           /\ stage' = [stage EXCEPT ![t][k] = "plain"]
           /\ UNCHANGED <<queue, queuedSema, nackQueue, pc, at, got, agenda>>
  <2>1. PollGuard(w)
    BY <1>1, <1>2, <1>5 DEF PollGuard
  <2>2. AtShape'
    BY <1>5, <1>c DEF AtShape
  <2> QED
    BY <1>3, <1>5, <2>1, <2>2 DEF AnyStep
<1>6. CASE /\ k \in Syncers(t) /\ stage[t][k] = "plain" /\ Event(w).kind # "nack"
           /\ Match(w, <<<<"select", w>>>>)
           /\ UNCHANGED <<queuedSema, nackQueue, pc, at, stage>>
  <2>0. <<<<"select", w>>>> \o <<>> = <<<<"select", w>>>>
    BY EmptyRest
  <2>1. TryMatch(w, <<>>)
    BY <1>6, <1>b, <2>0 DEF TryMatch
  <2>2. AtShape'
    BY <1>6, <1>c DEF AtShape
  <2> QED
    BY <1>3, <1>6, <2>1, <2>2 DEF AnyStep, TryOf
<1>7. CASE /\ k \in Syncers(t) /\ stage[t][k] = "plain" /\ Event(w).kind # "nack"
           /\ Partners(w, OtherSide(w)) = {}
           /\ Enqueue(w)
           /\ PostQueued(Side(w))
           /\ stage' = [stage EXCEPT ![t][k] = "async"]
           /\ at' = [at EXCEPT ![t] = @ + 1]
           /\ UNCHANGED <<nackQueue, got, agenda>>
  <2>1. Queued(w)
    BY <1>2, <1>7 DEF Queued
  <2>2. TryQueue(w, <<>>)
    BY <1>1, <1>7, <1>b, <2>1 DEF TryQueue, Idle
  <2>3. AtShape'
    BY <1>1, <1>7, <1>c, WaiterFacts DEF AtShape
  <2> QED
    BY <1>3, <1>7, <2>2, <2>3 DEF AnyStep, TryOf
<1>8. CASE /\ k \in Syncers(t) /\ stage[t][k] = "plain" /\ Event(w).kind = "nack"
           /\ Event(w).of \in nackPosted
           /\ agenda' = <<<<"select", w>>>>
           /\ UNCHANGED <<queue, queuedSema, nackQueue, pc, at, stage, got>>
  <2>0. <<<<"select", w>>>> \o <<>> = <<<<"select", w>>>>
    BY EmptyRest
  <2>1. TryNacked(w, <<>>)
    BY <1>8, <1>b, <2>0 DEF TryNacked
  <2>2. AtShape'
    BY <1>8, <1>c DEF AtShape
  <2> QED
    BY <1>3, <1>8, <2>1, <2>2 DEF AnyStep, TryOf
<1>9. CASE /\ k \in Syncers(t) /\ stage[t][k] = "plain" /\ Event(w).kind = "nack"
           /\ Event(w).of \notin nackPosted
           /\ nackQueue' = [nackQueue EXCEPT ![Event(w).of] = Append(@, w)]
           /\ stage' = [stage EXCEPT ![t][k] = "async"]
           /\ at' = [at EXCEPT ![t] = @ + 1]
           /\ UNCHANGED <<queue, queuedSema, pc, got, agenda>>
  <2>1. Queued(w)
    BY <1>2, <1>9 DEF Queued
  <2>2. TryWait(w, <<>>)
    BY <1>1, <1>9, <1>b, <2>1 DEF TryWait, Idle
  <2>3. AtShape'
    BY <1>1, <1>9, <1>c, WaiterFacts DEF AtShape
  <2> QED
    BY <1>3, <1>9, <2>2, <2>3 DEF AnyStep, TryOf
<1> QED
  BY <1>4, <1>5, <1>6, <1>7, <1>8, <1>9 DEF Poll

LEMMA HeadJob ==
    ASSUME Shape, agenda # <<>>, NEW job, NEW w, Head(agenda) = <<job, w>>
    PROVE  /\ JobShape(<<job, w>>) /\ <<job, w>> \in Jobs /\ w \in Subjects
           /\ AgendaShape(Tail(agenda))
           /\ Jobs = {<<job, w>>} \cup Entries(Tail(agenda))
           /\ job # "select" => w \in Waiters
           /\ job = "resume" => w \in Liners
           /\ job # "resume" => Ops[w[1]] = "sync"
<1>1. agenda \in Seq(Tasks \X Subjects) /\ \A x \in Entries(agenda) : JobShape(x)
  BY DEF Shape, AgendaShape
<1>2. /\ Tail(agenda) \in Seq(Tasks \X Subjects)
      /\ Entries(agenda) = {Head(agenda)} \cup Entries(Tail(agenda))
  BY <1>1, TailEntries
<1>3. JobShape(<<job, w>>) /\ <<job, w>> \in Jobs
  BY <1>1, <1>2 DEF Jobs
<1>4. AgendaShape(Tail(agenda))
  BY <1>1, <1>2 DEF AgendaShape
<1>5. /\ <<job, w>>[1] = job /\ <<job, w>>[2] = w
      /\ <<job, w>> \in Tasks \X Subjects => w \in Subjects
  OBVIOUS
<1>6. /\ w \in Subjects
      /\ job # "select" => w \in Waiters
      /\ job = "resume" => w \in Liners
      /\ job # "resume" => Ops[w[1]] = "sync"
  BY <1>3, <1>5 DEF JobShape
<1>7. Jobs = {<<job, w>>} \cup Entries(Tail(agenda))
  BY <1>2 DEF Jobs
<1> QED
  BY <1>3, <1>4, <1>6, <1>7

LEMMA HeadResume ==
    ASSUME Shape, agenda # <<>>, NEW w, Head(agenda) = <<"resume", w>>
    PROVE  /\ w \in Waiters /\ w \in Subjects /\ w \in Liners
           /\ AgendaShape(Tail(agenda))
           /\ Jobs = {<<"resume", w>>} \cup Entries(Tail(agenda))
<1>1. PICK job : job = "resume"
  OBVIOUS
<1>2. Head(agenda) = <<job, w>>
  BY <1>1
<1>3. /\ w \in Subjects
      /\ job # "select" => w \in Waiters
      /\ job = "resume" => w \in Liners
      /\ job # "resume" => Ops[w[1]] = "sync"
      /\ AgendaShape(Tail(agenda))
      /\ Jobs = {<<job, w>>} \cup Entries(Tail(agenda))
  BY <1>2, HeadJob
<1> QED
  BY <1>1, <1>3

LEMMA HeadSelect ==
    ASSUME Shape, agenda # <<>>, NEW w, Head(agenda) = <<"select", w>>
    PROVE  /\ w \in Subjects /\ Ops[w[1]] = "sync"
           /\ AgendaShape(Tail(agenda))
           /\ Jobs = {<<"select", w>>} \cup Entries(Tail(agenda))
<1>1. PICK job : job = "select"
  OBVIOUS
<1>2. Head(agenda) = <<job, w>>
  BY <1>1
<1>3. /\ w \in Subjects
      /\ job # "select" => w \in Waiters
      /\ job = "resume" => w \in Liners
      /\ job # "resume" => Ops[w[1]] = "sync"
      /\ AgendaShape(Tail(agenda))
      /\ Jobs = {<<job, w>>} \cup Entries(Tail(agenda))
  BY <1>2, HeadJob
<1> QED
  BY <1>1, <1>3

LEMMA HeadLose ==
    ASSUME Shape, agenda # <<>>, NEW w, Head(agenda) = <<"lose", w>>
    PROVE  /\ w \in Waiters /\ w \in Subjects /\ Ops[w[1]] = "sync"
           /\ AgendaShape(Tail(agenda))
           /\ Jobs = {<<"lose", w>>} \cup Entries(Tail(agenda))
<1>1. PICK job : job = "lose"
  OBVIOUS
<1>2. Head(agenda) = <<job, w>>
  BY <1>1
<1>3. /\ w \in Subjects
      /\ job # "select" => w \in Waiters
      /\ job = "resume" => w \in Liners
      /\ job # "resume" => Ops[w[1]] = "sync"
      /\ AgendaShape(Tail(agenda))
      /\ Jobs = {<<job, w>>} \cup Entries(Tail(agenda))
  BY <1>2, HeadJob
<1> QED
  BY <1>1, <1>3

LEMMA HeadPost ==
    ASSUME Shape, agenda # <<>>, NEW w, Head(agenda) = <<"post", w>>
    PROVE  /\ w \in Waiters /\ w \in Subjects /\ Ops[w[1]] = "sync"
           /\ AgendaShape(Tail(agenda))
           /\ Jobs = {<<"post", w>>} \cup Entries(Tail(agenda))
<1>1. PICK job : job = "post"
  OBVIOUS
<1>2. Head(agenda) = <<job, w>>
  BY <1>1
<1>3. /\ w \in Subjects
      /\ job # "select" => w \in Waiters
      /\ job = "resume" => w \in Liners
      /\ job # "resume" => Ops[w[1]] = "sync"
      /\ AgendaShape(Tail(agenda))
      /\ Jobs = {<<job, w>>} \cup Entries(Tail(agenda))
  BY <1>2, HeadJob
<1> QED
  BY <1>1, <1>3

LEMMA HeadRetry ==
    ASSUME Shape, agenda # <<>>, NEW w, Head(agenda) = <<"retry", w>>
    PROVE  /\ w \in Waiters /\ w \in Subjects /\ Ops[w[1]] = "sync"
           /\ AgendaShape(Tail(agenda))
           /\ Jobs = {<<"retry", w>>} \cup Entries(Tail(agenda))
<1>1. PICK job : job = "retry"
  OBVIOUS
<1>2. Head(agenda) = <<job, w>>
  BY <1>1
<1>3. /\ w \in Subjects
      /\ job # "select" => w \in Waiters
      /\ job = "resume" => w \in Liners
      /\ job # "resume" => Ops[w[1]] = "sync"
      /\ AgendaShape(Tail(agenda))
      /\ Jobs = {<<job, w>>} \cup Entries(Tail(agenda))
  BY <1>2, HeadJob
<1> QED
  BY <1>1, <1>3

LEMMA RetryStep ==
    ASSUME Shape, NEW w \in Subjects, RetryTask(w)
    PROVE  AnyStep
<1> DEFINE t == w[1]
           rest == Tail(agenda)
<1>1. /\ agenda # <<>> /\ Head(agenda) = <<"retry", w>>
      /\ UNCHANGED <<nackPosted, at, stage, selected, decided>>
  BY DEF RetryTask
<1>2. w \in Waiters /\ Ops[t] = "sync"
  BY <1>1, HeadRetry
<1>3. ASSUME selected[t] = 0, interrupted' = [interrupted EXCEPT ![t] = @ \ {w[2]}]
      PROVE  Try(w, rest)
  BY <1>1, <1>2, <1>3 DEF Try
<1>4. Queued(w)
  BY <1>1 DEF Queued
<1>5. CASE /\ selected[t] # 0
           /\ agenda' = Tail(agenda)
           /\ UNCHANGED <<queue, queuedSema, nackQueue, pc, interrupted, got>>
  <2>1. RetrySkip(w)
    BY <1>1, <1>5 DEF RetrySkip
  <2> QED
    BY <2>1 DEF AnyStep, TaskOf
<1>6. CASE /\ selected[t] = 0 /\ Event(w).kind # "nack"
           /\ interrupted' = [interrupted EXCEPT ![t] = @ \ {w[2]}]
           /\ Match(w, <<<<"select", w>>>> \o Tail(agenda))
           /\ UNCHANGED <<queuedSema, pc>>
           /\ UNCHANGED nackQueue
  <2>1. TryMatch(w, rest)
    BY <1>1, <1>3, <1>6 DEF TryMatch
  <2> QED
    BY <1>2, <2>1 DEF AnyStep, TryOf
<1>7. CASE /\ selected[t] = 0 /\ Event(w).kind # "nack"
           /\ interrupted' = [interrupted EXCEPT ![t] = @ \ {w[2]}]
           /\ Partners(w, OtherSide(w)) = {}
           /\ Enqueue(w)
           /\ PostQueued(Side(w))
           /\ agenda' = Tail(agenda)
           /\ UNCHANGED got
           /\ UNCHANGED nackQueue
  <2>1. TryQueue(w, rest)
    BY <1>1, <1>3, <1>4, <1>7 DEF TryQueue
  <2> QED
    BY <1>2, <2>1 DEF AnyStep, TryOf
<1>8. CASE /\ selected[t] = 0 /\ Event(w).kind = "nack"
           /\ interrupted' = [interrupted EXCEPT ![t] = @ \ {w[2]}]
           /\ Event(w).of \in nackPosted
           /\ agenda' = <<<<"select", w>>>> \o Tail(agenda)
           /\ UNCHANGED nackQueue
           /\ UNCHANGED <<queue, queuedSema, pc, got>>
  <2>1. TryNacked(w, rest)
    BY <1>1, <1>3, <1>8 DEF TryNacked
  <2> QED
    BY <1>2, <2>1 DEF AnyStep, TryOf
<1>9. CASE /\ selected[t] = 0 /\ Event(w).kind = "nack"
           /\ interrupted' = [interrupted EXCEPT ![t] = @ \ {w[2]}]
           /\ nackQueue' = [nackQueue EXCEPT ![Event(w).of] = Append(@, w)]
           /\ agenda' = Tail(agenda)
           /\ UNCHANGED <<queue, queuedSema, pc, got>>
  <2>1. TryWait(w, rest)
    BY <1>1, <1>3, <1>4, <1>9 DEF TryWait
  <2> QED
    BY <1>2, <2>1 DEF AnyStep, TryOf
<1> QED
  BY <1>5, <1>6, <1>7, <1>8, <1>9 DEF RetryTask

LEMMA TaskStep ==
    ASSUME Shape, Task
    PROVE  AnyStep /\ AtShape'
<1>1. PICK w \in Subjects : ResumeTask(w) \/ SelectTask(w) \/ LoseTask(w) \/ PostTask(w) \/ RetryTask(w)
  BY DEF Task, Subjects
<1>2. UNCHANGED at
  BY <1>1 DEF ResumeTask, SelectTask, LoseTask, PostTask, RetryTask
<1>3. AtShape'
  BY <1>2 DEF AtShape, Shape
<1>4. CASE ResumeTask(w)
  <2>1. ResumeThread(w) \/ ResumeSyncer(w)
    BY <1>4 DEF ResumeTask, ResumeThread, ResumeSyncer
  <2> QED
    BY <1>3, <2>1 DEF AnyStep, TaskOf
<1>5. CASE SelectTask(w)
  BY <1>3, <1>5 DEF AnyStep, TaskOf
<1>6. CASE LoseTask(w)
  BY <1>3, <1>6 DEF AnyStep, TaskOf
<1>7. CASE PostTask(w)
  <2>1. PostOne(w) \/ PostLast(w)
    BY <1>7 DEF PostTask, PostOne, PostLast
  <2> QED
    BY <1>3, <2>1 DEF AnyStep, TaskOf
<1>8. CASE RetryTask(w)
  BY <1>3, <1>8, RetryStep
<1> QED
  BY <1>1, <1>4, <1>5, <1>6, <1>7, <1>8

LEMMA StepCases ==
    ASSUME Shape, Next
    PROVE  AnyStep /\ AtShape'
<1>1. CASE Task
  BY <1>1, TaskStep
<1>2. ASSUME NEW t \in Threads, Step(t) \/ Interrupt(t) \/ Kill(t)
      PROVE  AnyStep /\ AtShape'
  <2>1. CASE Poll(t)
    BY <2>1, PollStep
  <2>2. CASE ~Poll(t)
    <3>1. UNCHANGED at
      BY <1>2, <2>2 DEF Step, Interrupt, Kill, GetOrPut, Commit, Finish, Retry
    <3>2. AtShape'
      BY <3>1 DEF AtShape, Shape
    <3>3. CASE GetOrPut(t)
      <4>1. PlainMatch(t) \/ PlainQueue(t)
        BY <3>3 DEF GetOrPut, PlainMatch, PlainQueue
      <4> QED
        BY <3>2, <4>1 DEF AnyStep, StepOf
    <3>4. CASE Commit(t)
      <4>1. PlainMatch(t) \/ CommitWait(t)
        BY <3>4 DEF Commit, PlainMatch, CommitWait
      <4> QED
        BY <3>2, <4>1 DEF AnyStep, StepOf
    <3>5. CASE Interrupt(t)
      <4>1. InterruptPlain(t) \/ InterruptSync(t)
        BY <3>5 DEF Interrupt, InterruptPlain, InterruptSync
      <4> QED
        BY <3>2, <4>1 DEF AnyStep, StepOf
    <3>6. CASE Finish(t) \/ Retry(t) \/ Kill(t)
      BY <3>2, <3>6 DEF AnyStep, StepOf
    <3> QED
      BY <1>2, <2>2, <3>3, <3>4, <3>5, <3>6 DEF Step
  <2> QED
    BY <2>1, <2>2
<1> QED
  BY <1>1, <1>2 DEF Next

-----------------------------------------------------------------------------
(* Types. *)

\* Waiter w meets the one at position i of the queue it looks in.
Matched(w, after, i, p) ==
    /\ p = queue[OtherSide(w)][i] /\ p \in Liners /\ p \in Entries(queue[OtherSide(w)])
    /\ Ops[w[1]] \in {"get", "put"} \/ MayMatch(w[1], p)
    /\ queue' = [queue EXCEPT ![OtherSide(w)] = Sub(@, (1..Len(@)) \ {i})]
    /\ got' = IF Event(w).kind = "get" THEN [got EXCEPT ![w] = p] ELSE [got EXCEPT ![p] = w]
    /\ agenda' = <<<<"resume", p>>>> \o after

LEMMA MatchFacts ==
    ASSUME Shape, NEW w \in Waiters, Event(w).kind # "nack", NEW after, Match(w, after)
    PROVE  \E i \in 1..Len(queue[OtherSide(w)]) : \E p \in Liners : Matched(w, after, i, p)
<1> DEFINE q == OtherSide(w)
           i == CHOOSE i \in Partners(w, q) : \A j \in Partners(w, q) : i <= j
           p == queue[q][i]
<1>1. /\ Partners(w, q) # {}
      /\ queue' = [queue EXCEPT ![q] = Sub(@, (1..Len(@)) \ {i})]
      /\ got' = IF Event(w).kind = "get" THEN [got EXCEPT ![w] = p] ELSE [got EXCEPT ![p] = w]
      /\ agenda' = <<<<"resume", p>>>> \o after
  BY DEF Match
<1>2. q \in Sides /\ queue[q] \in Seq(Liners)
  BY EventFacts DEF Shape, QueuesShape
<1>3. Partners(w, q) \in SUBSET (1..Len(queue[q])) /\ Len(queue[q]) \in Nat
  BY <1>2 DEF Partners
<1>4. \E j \in Partners(w, q) : \A k \in Partners(w, q) : j <= k
  BY <1>1, <1>3, FirstPosition
<1>5. i \in Partners(w, q)
  BY <1>4
<1> HIDE DEF i
<1>6. /\ i \in 1..Len(queue[q])
      /\ Ops[w[1]] \in {"get", "put"} \/ MayMatch(w[1], queue[q][i])
  BY <1>5 DEF Partners
<1>7. p \in Liners /\ p \in Entries(queue[q])
  BY <1>2, <1>6 DEF Entries
<1>8. Matched(w, after, i, p)
  BY <1>1, <1>6, <1>7 DEF Matched
<1> HIDE DEF p
<1> QED
  BY <1>6, <1>7, <1>8

LEMMA ConsShape ==
    ASSUME NEW s, AgendaShape(s), NEW job, JobShape(job)
    PROVE  AgendaShape(<<job>> \o s)
<1>1. s \in Seq(Tasks \X Subjects) /\ job \in Tasks \X Subjects
  BY DEF AgendaShape, JobShape
<1>2. <<job>> \o s \in Seq(Tasks \X Subjects) /\ Entries(<<job>> \o s) = {job} \cup Entries(s)
  BY <1>1, ConsEntries
<1> QED
  BY <1>2 DEF AgendaShape

LEMMA EmptyShape ==
    AgendaShape(<<>>)
<1>1. <<>> \in Seq(Tasks \X Subjects)
  OBVIOUS
<1>2. Entries(<<>>) = {}
  BY DEF Entries
<1> QED
  BY <1>1, <1>2 DEF AgendaShape

LEMMA JobShapes ==
    /\ \A w \in Liners : JobShape(<<"resume", w>>)
    /\ \A w \in Subjects : Ops[w[1]] = "sync" => JobShape(<<"select", w>>)
    /\ \A w \in Waiters : Ops[w[1]] = "sync" =>
          JobShape(<<"lose", w>>) /\ JobShape(<<"post", w>>) /\ JobShape(<<"retry", w>>)
<1>1. \A w \in Waiters : w \in Subjects
  BY SubjectFacts
<1>2. \A w \in Liners : JobShape(<<"resume", w>>)
  BY <1>1 DEF JobShape, Tasks, Liners
<1>3. \A w \in Subjects : Ops[w[1]] = "sync" => JobShape(<<"select", w>>)
  BY DEF JobShape, Tasks
<1>4. \A w \in Waiters : Ops[w[1]] = "sync" =>
          JobShape(<<"lose", w>>) /\ JobShape(<<"post", w>>) /\ JobShape(<<"retry", w>>)
  BY <1>1 DEF JobShape, Tasks
<1> QED
  BY <1>2, <1>3, <1>4

LEMMA EachShape ==
    ASSUME NEW t \in Threads, Ops[t] = "sync", NEW K \in SUBSET Syncers(t), NEW job \in {"lose", "retry"}
    PROVE  AgendaShape(Each(job, t, K))
<1>1. K \in SUBSET (1..Len(Args[t])) /\ job \in Tasks
  BY WaiterFacts DEF Tasks
<1>2. /\ Each(job, t, K) \in Seq(Tasks \X Subjects)
      /\ Entries(Each(job, t, K)) = {<<job, <<t, k>>>> : k \in K}
  BY <1>1, EachEntries
<1>3. \A k \in K : JobShape(<<job, <<t, k>>>>)
  <2> TAKE k \in K
  <2>1. <<t, k>> \in Waiters /\ <<t, k>>[1] = t
    BY WaiterFacts
  <2> QED
    BY <2>1, JobShapes
<1> QED
  BY <1>2, <1>3 DEF AgendaShape

LEMMA ConcatShape ==
    ASSUME NEW p, NEW s, AgendaShape(p), AgendaShape(s)
    PROVE  AgendaShape(p \o s)
<1>1. p \in Seq(Tasks \X Subjects) /\ s \in Seq(Tasks \X Subjects)
  BY DEF AgendaShape
<1>2. p \o s \in Seq(Tasks \X Subjects) /\ Entries(p \o s) = Entries(p) \cup Entries(s)
  BY <1>1, ConcatEntries
<1> QED
  BY <1>2 DEF AgendaShape

LEMMA MatchedShape ==
    ASSUME Shape, NEW w \in Waiters, Event(w).kind # "nack", NEW after, AgendaShape(after),
           Match(w, after), UNCHANGED <<queuedSema, nackQueue, nackPosted>>
    PROVE  QueuesShape' /\ AgendaShape(agenda')
<1>1. PICK i \in 1..Len(queue[OtherSide(w)]) : \E p \in Liners : Matched(w, after, i, p)
  BY MatchFacts
<1>2. PICK p \in Liners : Matched(w, after, i, p)
  BY <1>1
<1>3. OtherSide(w) \in Sides /\ queue \in [Sides -> Seq(Liners)] /\ queue[OtherSide(w)] \in Seq(Liners)
  BY EventFacts DEF Shape, QueuesShape
<1>4. Sub(queue[OtherSide(w)], (1..Len(queue[OtherSide(w)])) \ {i}) \in Seq(Liners)
  BY <1>3, RemoveType
<1>5. queue' \in [Sides -> Seq(Liners)]
  BY <1>2, <1>3, <1>4 DEF Matched
<1>6. got' \in [Waiters -> Waiters \cup {Nobody}]
  BY <1>2 DEF Matched, Shape, QueuesShape, Liners
<1>7. QueuesShape'
  BY <1>5, <1>6 DEF Shape, QueuesShape
<1>8. agenda' = <<<<"resume", p>>>> \o after
  BY <1>2 DEF Matched
<1> QED
  BY <1>7, <1>8, ConsShape, JobShapes

LEMMA EnqueueShape ==
    ASSUME Shape, NEW w \in Liners, Event(w).kind # "nack", Enqueue(w)
    PROVE  queue' \in [Sides -> Seq(Liners)]
<1>1. Side(w) \in Sides /\ queue \in [Sides -> Seq(Liners)]
  BY EventFacts DEF Shape, QueuesShape, Liners
<1>2. Append(queue[Side(w)], w) \in Seq(Liners)
  BY <1>1
<1> QED
  BY <1>1, <1>2 DEF Enqueue

LEMMA LeaveShape ==
    ASSUME Shape, NEW W, queue' = LeaveQueues(W), nackQueue' = LeaveNackQueues(W)
    PROVE  queue' \in [Sides -> Seq(Liners)] /\ nackQueue' \in [Waiters -> Seq(SyncWaiters)]
<1>1. \A q \in Sides : Without(queue[q], W) \in Seq(Liners)
  <2> TAKE q \in Sides
  <2>1. queue[q] \in Seq(Liners)
    BY DEF Shape, QueuesShape
  <2> QED
    BY <2>1, WithoutEntries
<1>2. \A n \in Waiters : Without(nackQueue[n], W) \in Seq(SyncWaiters)
  <2> TAKE n \in Waiters
  <2>1. nackQueue[n] \in Seq(SyncWaiters)
    BY DEF Shape, QueuesShape
  <2> QED
    BY <2>1, WithoutEntries
<1> QED
  BY <1>1, <1>2 DEF LeaveQueues, LeaveNackQueues

LEMMA StepShape ==
    ASSUME Shape, NEW t \in Threads, StepOf(t)
    PROVE  QueuesShape' /\ ThreadsShape' /\ KindsShape' /\ AgendaShape(agenda')
<1>0. /\ QueuesShape /\ ThreadsShape /\ KindsShape /\ AgendaShape(agenda)
      /\ Ops[t] # "sync" => <<t, 0>> \in Waiters /\ Event(<<t, 0>>).kind # "nack"
      /\ Ops[t] \in {"get", "put", "sync", "commit"}
  BY PlainFacts, ChannelAssumption DEF Shape
<1>1. CASE PlainMatch(t)
  <2>1. QueuesShape' /\ AgendaShape(agenda')
    BY <1>0, <1>1, EmptyShape, MatchedShape DEF PlainMatch
  <2>2. ThreadsShape'
    BY <1>0, <1>1 DEF PlainMatch, ThreadsShape
  <2>3. KindsShape'
    BY <1>0, <1>1 DEF PlainMatch, ThreadsShape, KindsShape
  <2> QED
    BY <2>1, <2>2, <2>3
<1>2. CASE PlainQueue(t)
  <2>1. QueuesShape' /\ AgendaShape(agenda')
    <3>1. <<t, 0>> \in Liners
      BY <1>0, <1>2 DEF PlainQueue, Liners
    <3> QED
      BY <1>0, <1>2, <3>1, EnqueueShape DEF PlainQueue, QueuesShape
  <2>2. ThreadsShape'
    BY <1>0, <1>2 DEF PlainQueue, ThreadsShape
  <2>3. KindsShape'
    BY <1>0, <1>2 DEF PlainQueue, ThreadsShape, KindsShape
  <2> QED
    BY <2>1, <2>2, <2>3
<1>3. CASE CommitWait(t)
  <2>0. OtherSide(<<t, 0>>) \in Sides
    BY <1>0, <1>3, EventFacts DEF CommitWait
  <2>1. QueuesShape' /\ AgendaShape(agenda')
    BY <1>0, <1>3, <2>0 DEF CommitWait, QueuesShape
  <2>2. ThreadsShape'
    BY <1>0, <1>3 DEF CommitWait, ThreadsShape
  <2>3. KindsShape'
    <3>1. \A u \in Threads : pc'[u] = IF u = t THEN "waiting" ELSE pc[u]
      BY <1>0, <1>3 DEF CommitWait, ThreadsShape
    <3>2. \A q \in Sides : queuedSema'[q] = IF q = OtherSide(<<t, 0>>) THEN queuedSema[q] \cup {t} ELSE queuedSema[q]
      BY <1>0, <1>3, <2>0 DEF CommitWait, QueuesShape
    <3>3. \A q \in Sides : queuedSema[q] \subseteq Threads
      BY <1>0 DEF QueuesShape
    <3>4. \A q \in Sides : \A u \in queuedSema'[q] :
             Ops[u] = "commit" /\ pc'[u] = "waiting" /\ q = OtherSide(<<u, 0>>)
      <4> SUFFICES ASSUME NEW q \in Sides, NEW u \in queuedSema'[q]
                   PROVE  Ops[u] = "commit" /\ pc'[u] = "waiting" /\ q = OtherSide(<<u, 0>>)
        OBVIOUS
      <4>1. CASE u = t /\ q = OtherSide(<<t, 0>>)
        BY <1>3, <3>1, <4>1 DEF CommitWait
      <4>2. CASE u \in queuedSema[q]
        BY <1>0, <3>1, <3>3, <4>2 DEF KindsShape
      <4> QED
        BY <3>2, <4>1, <4>2
    <3>5. UNCHANGED <<selected, interrupted>> /\ Ops[t] = "commit"
      BY <1>3 DEF CommitWait
    <3> QED
      BY <1>0, <3>1, <3>4, <3>5 DEF KindsShape
  <2> QED
    BY <2>1, <2>2, <2>3
<1>4. CASE PollBlock(t)
  <2>1. QueuesShape' /\ AgendaShape(agenda')
    BY <1>0, <1>4 DEF PollBlock, QueuesShape
  <2>2. ThreadsShape'
    BY <1>0, <1>4 DEF PollBlock, ThreadsShape
  <2>3. KindsShape'
    BY <1>0, <1>4 DEF PollBlock, ThreadsShape, KindsShape
  <2> QED
    BY <2>1, <2>2, <2>3
<1>5. CASE Finish(t)
  <2>1. QueuesShape' /\ AgendaShape(agenda')
    BY <1>0, <1>5 DEF Finish, QueuesShape
  <2>2. ThreadsShape'
    BY <1>0, <1>5 DEF Finish, ThreadsShape
  <2>3. KindsShape'
    BY <1>0, <1>5 DEF Finish, ThreadsShape, KindsShape
  <2> QED
    BY <2>1, <2>2, <2>3
<1>6. CASE InterruptPlain(t)
  <2>1. QueuesShape' /\ AgendaShape(agenda')
    BY <1>0, <1>6, LeaveShape DEF InterruptPlain, QueuesShape
  <2>2. ThreadsShape'
    BY <1>0, <1>6 DEF InterruptPlain, ThreadsShape
  <2>3. KindsShape'
    BY <1>0, <1>6 DEF InterruptPlain, ThreadsShape, KindsShape
  <2> QED
    BY <2>1, <2>2, <2>3
<1>7. CASE InterruptSync(t)
  <2>1. QueuesShape' /\ AgendaShape(agenda')
    BY <1>0, <1>7, LeaveShape DEF InterruptSync, QueuesShape
  <2>2. ThreadsShape'
    BY <1>0, <1>7 DEF InterruptSync, ThreadsShape
  <2>3. KindsShape'
    BY <1>0, <1>7 DEF InterruptSync, ThreadsShape, KindsShape
  <2> QED
    BY <2>1, <2>2, <2>3
<1>8. CASE Retry(t)
  <2>1. QueuesShape'
    BY <1>0, <1>8 DEF Retry, QueuesShape
  <2>2. ThreadsShape'
    BY <1>0, <1>8 DEF Retry, ThreadsShape
  <2>3. KindsShape'
    BY <1>0, <1>8 DEF Retry, KindsShape
  <2>4. Ops[t] = "sync" /\ interrupted[t] \in SUBSET Syncers(t)
    BY <1>0, <1>8 DEF Retry, ThreadsShape, KindsShape
  <2>5. AgendaShape(Each("retry", t, interrupted[t]))
    BY <2>4, EachShape
  <2> QED
    BY <1>8, <2>1, <2>2, <2>3, <2>5 DEF Retry
<1>9. CASE Kill(t)
  <2>1. QueuesShape'
    BY <1>0, <1>9, LeaveShape DEF Kill, QueuesShape
  <2>2. ThreadsShape'
    BY <1>0, <1>9 DEF Kill, ThreadsShape
  <2>3. KindsShape'
    BY <1>0, <1>9 DEF Kill, ThreadsShape, KindsShape
  <2>4. ASSUME Ops[t] = "sync" PROVE AgendaShape(<<<<"select", <<t, NoneSyncer>>>>>>)
    <3>1. <<t, NoneSyncer>> \in Subjects /\ <<t, NoneSyncer>>[1] = t
      BY SubjectFacts
    <3>2. JobShape(<<"select", <<t, NoneSyncer>>>>)
      BY <2>4, <3>1, JobShapes
    <3>3. AgendaShape(<<<<"select", <<t, NoneSyncer>>>>>> \o <<>>)
      BY <3>2, EmptyShape, ConsShape
    <3> QED
      BY <3>3, EmptyRest
  <2> QED
    BY <1>9, <2>1, <2>2, <2>3, <2>4, EmptyShape DEF Kill
<1> QED
  BY <1>1, <1>2, <1>3, <1>4, <1>5, <1>6, <1>7, <1>8, <1>9 DEF StepOf

LEMMA GuardShape ==
    ASSUME Shape, NEW w \in Waiters, PollGuard(w)
    PROVE  QueuesShape' /\ ThreadsShape' /\ KindsShape' /\ AgendaShape(agenda')
<1>0. QueuesShape /\ ThreadsShape /\ KindsShape /\ AgendaShape(agenda)
  BY DEF Shape
<1>1. QueuesShape' /\ KindsShape' /\ AgendaShape(agenda')
  BY <1>0 DEF PollGuard, QueuesShape, KindsShape
<1>2. w[1] \in Threads /\ w[2] \in Syncers(w[1])
  BY WaiterFacts
<1>3. ThreadsShape'
  BY <1>0, <1>2 DEF PollGuard, ThreadsShape
<1> QED
  BY <1>1, <1>3

\* What is left after the syncer that is tried.
LEMMA TryShapes ==
    ASSUME Shape, NEW w \in Waiters, NEW rest, Try(w, rest)
    PROVE  /\ AgendaShape(rest) /\ Ops[w[1]] = "sync"
           /\ w[1] \in Threads /\ w[2] \in Syncers(w[1]) /\ w \in Subjects
<1>1. AgendaShape(rest)
  <2>1. CASE rest = <<>>
    BY <2>1, EmptyShape
  <2>2. CASE agenda # <<>> /\ Head(agenda) = <<"retry", w>> /\ rest = Tail(agenda)
    BY <2>2, HeadRetry
  <2> QED
    BY <2>1, <2>2 DEF Try
<1> QED
  BY <1>1, WaiterFacts, SubjectFacts DEF Try

LEMMA QueuedShape ==
    ASSUME Shape, NEW w \in Waiters, NEW rest, Try(w, rest), stage' = stage \/ Queued(w)
    PROVE  /\ stage' = [t \in Threads |-> stage'[t]]
           /\ interrupted' = [t \in Threads |-> interrupted'[t]]
           /\ selected' = selected /\ decided' = decided
           /\ \A t \in Threads :
                 /\ stage'[t] \in [Syncers(t) -> {"guard", "plain", "async"}]
                 /\ interrupted'[t] \subseteq interrupted[t]
<1>0. ThreadsShape
  BY DEF Shape
<1>1. w[1] \in Threads /\ w[2] \in Syncers(w[1])
  BY WaiterFacts
<1>2. /\ stage' = [t \in Threads |-> stage'[t]]
      /\ \A t \in Threads : stage'[t] \in [Syncers(t) -> {"guard", "plain", "async"}]
  <2>1. CASE stage' = stage
    BY <1>0, <2>1 DEF ThreadsShape
  <2>2. CASE stage' = [stage EXCEPT ![w[1]] = [@ EXCEPT ![w[2]] = "async"]]
    BY <1>0, <1>1, <2>2 DEF ThreadsShape
  <2> QED
    BY <2>1, <2>2 DEF Queued
<1>3. /\ interrupted' = [t \in Threads |-> interrupted'[t]]
      /\ selected' = selected /\ decided' = decided
      /\ \A t \in Threads : interrupted'[t] \subseteq interrupted[t]
  BY <1>0, <1>1 DEF Try, ThreadsShape
<1> QED
  BY <1>2, <1>3

LEMMA TryShape ==
    ASSUME Shape, NEW w \in Waiters, NEW rest, TryOf(w, rest)
    PROVE  QueuesShape' /\ ThreadsShape' /\ KindsShape' /\ AgendaShape(agenda')
<1>0. QueuesShape /\ ThreadsShape /\ KindsShape /\ AgendaShape(agenda) /\ Try(w, rest)
  BY DEF Shape, TryOf, TryMatch, TryQueue, TryNacked, TryWait
<1>a. stage' = stage \/ Queued(w)
  BY DEF TryOf, TryMatch, TryQueue, TryNacked, TryWait
<1>b. /\ stage' = [t \in Threads |-> stage'[t]]
      /\ interrupted' = [t \in Threads |-> interrupted'[t]]
      /\ selected' = selected /\ decided' = decided
      /\ \A t \in Threads :
                 /\ stage'[t] \in [Syncers(t) -> {"guard", "plain", "async"}]
                 /\ interrupted'[t] \subseteq interrupted[t]
  BY <1>0, <1>a, QueuedShape
<1>c. /\ AgendaShape(rest) /\ Ops[w[1]] = "sync"
      /\ w[1] \in Threads /\ w[2] \in Syncers(w[1]) /\ w \in Subjects
  BY <1>0, TryShapes
<1>d. AgendaShape(<<<<"select", w>>>> \o rest)
  BY <1>c, ConsShape, JobShapes
<1>e. UNCHANGED nackPosted
  BY <1>0 DEF Try
<1>1. CASE TryMatch(w, rest)
  <2>1. QueuesShape' /\ AgendaShape(agenda')
    BY <1>1, <1>d, <1>e, MatchedShape DEF TryMatch
  <2>2. ThreadsShape'
    BY <1>0, <1>1, <1>b DEF TryMatch, ThreadsShape
  <2>3. KindsShape'
    BY <1>0, <1>1, <1>b DEF TryMatch, KindsShape
  <2> QED
    BY <2>1, <2>2, <2>3
<1>2. CASE TryQueue(w, rest)
  <2>0. Side(w) \in Sides
    BY <1>2, EventFacts DEF TryQueue
  <2>1. QueuesShape'
    <3>1. w \in Liners
      BY <1>c DEF Liners
    <3> QED
      BY <1>0, <1>2, <1>e, <2>0, <3>1, EnqueueShape DEF TryQueue, QueuesShape, PostQueued
  <2>2. pc' \in [Threads -> {"start", "poll", "blocked", "waiting", "done", "dead"}]
    BY <1>0, <1>2 DEF TryQueue, PostQueued, ThreadsShape
  <2>3. ThreadsShape'
    BY <1>0, <1>b, <2>2 DEF ThreadsShape
  <2>4. KindsShape'
    <3>1. \A t \in queuedSema[Side(w)] : Ops[t] = "commit"
      BY <1>0, <2>0 DEF KindsShape
    <3>2. \A t \in Threads : pc'[t] = IF t \in queuedSema[Side(w)] THEN "start" ELSE pc[t]
      BY <1>2 DEF TryQueue, PostQueued
    <3>3. \A q \in Sides : queuedSema'[q] = IF q = Side(w) THEN {} ELSE queuedSema[q]
      BY <1>0, <1>2, <2>0 DEF TryQueue, PostQueued, QueuesShape
    <3>4. \A t \in Threads :
          /\ Ops[t] = "sync" => pc'[t] \in {"poll", "blocked", "done", "dead"}
          /\ Ops[t] \in {"get", "put"} => pc'[t] \in {"start", "blocked", "done", "dead"}
          /\ Ops[t] = "commit" => pc'[t] \in {"start", "waiting", "done"}
          /\ Ops[t] # "sync" => selected'[t] = 0 /\ interrupted'[t] = {}
      BY <1>0, <1>b, <3>1, <3>2 DEF KindsShape
    <3>5. ASSUME NEW q \in Sides, NEW t \in queuedSema'[q] PROVE Ops[t] = "commit" /\ pc'[t] = "waiting" /\ q = OtherSide(<<t, 0>>)
      <4>1. q # Side(w) /\ t \in queuedSema[q] /\ t \in Threads
        BY <1>0, <3>3, <3>5 DEF QueuesShape
      <4>2. Ops[t] = "commit" /\ pc[t] = "waiting" /\ q = OtherSide(<<t, 0>>)
        BY <1>0, <4>1 DEF KindsShape
      <4>3. t \notin queuedSema[Side(w)]
        BY <1>0, <2>0, <4>1, <4>2 DEF KindsShape
      <4> QED
        BY <4>1, <4>2, <4>3, <3>2
    <3> QED
      BY <3>4, <3>5 DEF KindsShape
  <2> QED
    BY <1>2, <1>c, <2>1, <2>3, <2>4 DEF TryQueue
<1>3. CASE TryNacked(w, rest)
  <2>1. QueuesShape'
    BY <1>0, <1>3, <1>e DEF TryNacked, QueuesShape
  <2>2. ThreadsShape'
    BY <1>0, <1>3, <1>b DEF TryNacked, ThreadsShape
  <2>3. KindsShape'
    BY <1>0, <1>3, <1>b DEF TryNacked, KindsShape
  <2> QED
    BY <1>3, <1>d, <2>1, <2>2, <2>3 DEF TryNacked
<1>4. CASE TryWait(w, rest)
  <2>0. Event(w).of \in Waiters
    BY <1>4, EventFacts DEF TryWait
  <2>1. Append(nackQueue[Event(w).of], w) \in Seq(SyncWaiters)
    <3>1. w \in SyncWaiters /\ nackQueue[Event(w).of] \in Seq(SyncWaiters)
      BY <1>0, <1>c, <2>0 DEF QueuesShape, SyncWaiters
    <3> QED
      BY <3>1
  <2>2. QueuesShape'
    BY <1>0, <1>4, <1>e, <2>0, <2>1 DEF TryWait, QueuesShape
  <2>3. ThreadsShape'
    BY <1>0, <1>4, <1>b DEF TryWait, ThreadsShape
  <2>4. KindsShape'
    BY <1>0, <1>4, <1>b DEF TryWait, KindsShape
  <2> QED
    BY <1>4, <1>c, <2>2, <2>3, <2>4 DEF TryWait
<1> QED
  BY <1>1, <1>2, <1>3, <1>4 DEF TryOf

LEMMA TaskShape ==
    ASSUME Shape, NEW w \in Subjects, TaskOf(w)
    PROVE  QueuesShape' /\ ThreadsShape' /\ KindsShape' /\ AgendaShape(agenda')
<1>0. QueuesShape /\ ThreadsShape /\ KindsShape /\ AgendaShape(agenda)
  BY DEF Shape
<1>1. CASE ResumeThread(w)
  <2>1. w \in Waiters /\ w \in Liners /\ AgendaShape(Tail(agenda))
    BY <1>1, HeadResume DEF ResumeThread
  <2>2. w[1] \in Threads /\ Ops[w[1]] \in {"get", "put"}
    BY <1>1, <2>1, WaiterFacts, ChannelAssumption DEF ResumeThread, Liners
  <2>3. QueuesShape'
    BY <1>0, <1>1 DEF ResumeThread, QueuesShape
  <2>4. ThreadsShape'
    BY <1>0, <1>1, <2>2 DEF ResumeThread, ThreadsShape
  <2>5. KindsShape'
    <3>1. \A t \in Threads : pc'[t] = IF t = w[1] THEN "done" ELSE pc[t]
      BY <1>0, <1>1, <2>2 DEF ResumeThread, ThreadsShape
    <3>2. \A q \in Sides : w[1] \notin queuedSema[q]
      BY <1>0, <2>2 DEF KindsShape
    <3> QED
      BY <1>0, <1>1, <2>2, <3>1, <3>2 DEF ResumeThread, KindsShape, QueuesShape
  <2> QED
    BY <1>1, <2>1, <2>3, <2>4, <2>5 DEF ResumeThread
<1>2. CASE ResumeSyncer(w)
  <2>1. w \in Waiters /\ AgendaShape(Tail(agenda))
    BY <1>2, HeadResume DEF ResumeSyncer
  <2>2. Ops[w[1]] = "sync"
    BY <1>2, <2>1, WaiterFacts DEF ResumeSyncer
  <2>3. QueuesShape' /\ ThreadsShape' /\ KindsShape'
    BY <1>0, <1>2 DEF ResumeSyncer, QueuesShape, ThreadsShape, KindsShape
  <2> QED
    BY <1>2, <2>1, <2>2, <2>3, ConsShape, JobShapes DEF ResumeSyncer
<1>3. CASE SelectTask(w)
  <2>1. Ops[w[1]] = "sync" /\ AgendaShape(Tail(agenda))
    BY <1>3, HeadSelect DEF SelectTask
  <2>2. w[1] \in Threads /\ w[2] \in Syncers(w[1]) \cup {NoneSyncer}
    BY WaiterFacts, SubjectFacts
  <2>3. QueuesShape'
    BY <1>0, <1>3 DEF SelectTask, QueuesShape
  <2>4. ThreadsShape'
    <3>1. decided' \in [Threads -> Nat]
      BY <1>0, <1>3, <2>2 DEF SelectTask, ThreadsShape
    <3>2. selected' = [selected EXCEPT ![w[1]] = w[2]] /\ selected = [t \in Threads |-> selected[t]]
      BY <1>0, <1>3 DEF SelectTask, ThreadsShape
    <3>3. selected' = [t \in Threads |-> selected'[t]]
      BY <3>2
    <3>4. \A t \in Threads : selected'[t] \in Syncers(t) \cup {0, NoneSyncer}
      BY <1>0, <2>2, <3>2 DEF ThreadsShape
    <3>5. UNCHANGED <<pc, stage, interrupted>>
      BY <1>3 DEF SelectTask
    <3> QED
      BY <1>0, <3>1, <3>3, <3>4, <3>5 DEF ThreadsShape
  <2>5. KindsShape'
    BY <1>0, <1>3, <2>1, <2>2 DEF SelectTask, KindsShape, ThreadsShape
  <2>6. AgendaShape(Each("lose", w[1], Syncers(w[1]) \ {w[2]}))
    BY <2>1, <2>2, EachShape
  <2> QED
    BY <1>3, <2>1, <2>3, <2>4, <2>5, <2>6, ConcatShape DEF SelectTask
<1>4. CASE LoseTask(w)
  <2>1. w \in Waiters /\ Ops[w[1]] = "sync" /\ AgendaShape(Tail(agenda))
    BY <1>4, HeadLose DEF LoseTask
  <2>2. QueuesShape'
    BY <1>0, <1>4, LeaveShape DEF LoseTask, QueuesShape
  <2>3. ThreadsShape' /\ KindsShape'
    BY <1>0, <1>4 DEF LoseTask, ThreadsShape, KindsShape
  <2>4. AgendaShape(<<<<"post", w>>>> \o Tail(agenda))
    BY <2>1, ConsShape, JobShapes
  <2> QED
    BY <1>4, <2>1, <2>2, <2>3, <2>4 DEF LoseTask
<1>5. CASE PostOne(w)
  <2>1. w \in Waiters
    BY <1>5, HeadPost DEF PostOne
  <2>2. nackQueue[w] \in Seq(SyncWaiters) /\ nackQueue[w] # <<>>
    BY <1>0, <1>5, <2>1 DEF QueuesShape, PostOne
  <2>3. Tail(nackQueue[w]) \in Seq(SyncWaiters) /\ Head(nackQueue[w]) \in SyncWaiters
    BY <2>2
  <2>4. QueuesShape'
    BY <1>0, <1>5, <2>1, <2>3 DEF PostOne, QueuesShape
  <2>5. ThreadsShape' /\ KindsShape'
    BY <1>0, <1>5 DEF PostOne, ThreadsShape, KindsShape
  <2>6. PICK u \in SyncWaiters : u = Head(nackQueue[w])
    BY <2>3
  <2>7. JobShape(<<"select", u>>)
    BY JobShapes, SubjectFacts DEF SyncWaiters
  <2>8. AgendaShape(<<<<"select", u>>>> \o agenda)
    BY <1>0, <2>7, ConsShape
  <2> QED
    BY <1>5, <2>4, <2>5, <2>6, <2>8 DEF PostOne
<1>6. CASE PostLast(w)
  <2>1. w \in Waiters /\ AgendaShape(Tail(agenda))
    BY <1>6, HeadPost DEF PostLast
  <2>2. QueuesShape'
    BY <1>0, <1>6, <2>1 DEF PostLast, QueuesShape
  <2>3. ThreadsShape' /\ KindsShape'
    BY <1>0, <1>6 DEF PostLast, ThreadsShape, KindsShape
  <2> QED
    BY <1>6, <2>1, <2>2, <2>3 DEF PostLast
<1>7. CASE RetrySkip(w)
  <2>1. AgendaShape(Tail(agenda))
    BY <1>7, HeadRetry DEF RetrySkip
  <2>2. QueuesShape' /\ ThreadsShape' /\ KindsShape'
    BY <1>0, <1>7 DEF RetrySkip, QueuesShape, ThreadsShape, KindsShape
  <2> QED
    BY <1>7, <2>1, <2>2 DEF RetrySkip
<1> QED
  BY <1>1, <1>2, <1>3, <1>4, <1>5, <1>6, <1>7 DEF TaskOf

LEMMA ShapeInit ==
    ASSUME Init
    PROVE  Shape
<1>1. QueuesShape
  BY DEF Init, QueuesShape
<1>2. AtShape
  BY WaiterFacts DEF Init, AtShape
<1>3. ThreadsShape /\ KindsShape
  BY ChannelAssumption DEF Init, ThreadsShape, KindsShape
<1>4. AgendaShape(agenda)
  BY EmptyShape DEF Init
<1> QED
  BY <1>1, <1>2, <1>3, <1>4 DEF Shape

LEMMA ShapeNext ==
    ASSUME Shape, [Next]_vars
    PROVE  Shape'
<1>1. CASE Next
  <2>1. AnyStep /\ AtShape'
    BY <1>1, StepCases
  <2>2. QueuesShape' /\ ThreadsShape' /\ KindsShape' /\ AgendaShape(agenda')
    BY <2>1, StepShape, GuardShape, TryShape, TaskShape DEF AnyStep
  <2> QED
    BY <2>1, <2>2 DEF Shape
<1>2. CASE UNCHANGED vars
  BY <1>2 DEF vars, Shape, QueuesShape, AtShape, ThreadsShape, KindsShape
<1> QED
  BY <1>1, <1>2

-----------------------------------------------------------------------------
(* Nobody waits in vain. *)

LEMMA MatchedEntries ==
    ASSUME Shape, NEW w \in Waiters, Event(w).kind # "nack", NEW after, Match(w, after)
    PROVE  \A q \in Sides : Entries(queue'[q]) \subseteq Entries(queue[q])
<1>1. PICK i \in 1..Len(queue[OtherSide(w)]) : \E p \in Liners : Matched(w, after, i, p)
  BY MatchFacts
<1>2. PICK p \in Liners : Matched(w, after, i, p)
  BY <1>1
<1>3. OtherSide(w) \in Sides /\ queue \in [Sides -> Seq(Liners)] /\ queue[OtherSide(w)] \in Seq(Liners)
  BY EventFacts DEF Shape, QueuesShape
<1>4. Entries(Sub(queue[OtherSide(w)], (1..Len(queue[OtherSide(w)])) \ {i})) \subseteq Entries(queue[OtherSide(w)])
  BY <1>3, RemoveType
<1>5. \A q \in Sides : queue'[q] = IF q = OtherSide(w)
                                     THEN Sub(queue[OtherSide(w)], (1..Len(queue[OtherSide(w)])) \ {i})
                                     ELSE queue[q]
  BY <1>2, <1>3 DEF Matched
<1> QED
  BY <1>4, <1>5

LEMMA EnqueueEntries ==
    ASSUME Shape, NEW w \in Liners, Event(w).kind # "nack", Enqueue(w)
    PROVE  \A q \in Sides :
              /\ Entries(queue'[q]) = IF q = Side(w) THEN Entries(queue[q]) \cup {w} ELSE Entries(queue[q])
              /\ NoTwice(queue[q]) /\ w \notin Entries(queue[q]) => NoTwice(queue'[q])
<1> TAKE q \in Sides
<1>1. queue \in [Sides -> Seq(Liners)] /\ queue[q] \in Seq(Liners)
  BY DEF Shape, QueuesShape
<1>2. queue'[q] = IF q = Side(w) THEN Append(queue[q], w) ELSE queue[q]
  BY <1>1 DEF Enqueue
<1>3. /\ Entries(Append(queue[q], w)) = Entries(queue[q]) \cup {w}
      /\ NoTwice(queue[q]) /\ w \notin Entries(queue[q]) => NoTwice(Append(queue[q], w))
  BY <1>1, AppendEntries
<1> QED
  BY <1>2, <1>3

LEMMA LeaveEntries ==
    ASSUME Shape, NEW W, queue' = LeaveQueues(W), nackQueue' = LeaveNackQueues(W)
    PROVE  /\ \A q \in Sides : /\ Entries(queue'[q]) = Entries(queue[q]) \ W
                               /\ NoTwice(queue[q]) => NoTwice(queue'[q])
           /\ \A n \in Waiters : /\ Entries(nackQueue'[n]) = Entries(nackQueue[n]) \ W
                                 /\ NoTwice(nackQueue[n]) => NoTwice(nackQueue'[n])
<1>1. ASSUME NEW q \in Sides
      PROVE  /\ Entries(queue'[q]) = Entries(queue[q]) \ W
             /\ NoTwice(queue[q]) => NoTwice(queue'[q])
  <2>1. queue[q] \in Seq(Liners) /\ queue'[q] = Without(queue[q], W)
    BY DEF Shape, QueuesShape, LeaveQueues
  <2> QED
    BY <2>1, WithoutEntries
<1>2. ASSUME NEW n \in Waiters
      PROVE  /\ Entries(nackQueue'[n]) = Entries(nackQueue[n]) \ W
             /\ NoTwice(nackQueue[n]) => NoTwice(nackQueue'[n])
  <2>1. nackQueue[n] \in Seq(SyncWaiters) /\ nackQueue'[n] = Without(nackQueue[n], W)
    BY DEF Shape, QueuesShape, LeaveNackQueues
  <2> QED
    BY <2>1, WithoutEntries
<1> QED
  BY <1>1, <1>2

LEMMA SemaShrink ==
    ASSUME Shape, SemaOK, UNCHANGED queuedSema,
           \A t \in Threads : pc'[t] = "waiting" => pc[t] = "waiting",
           \A q \in Sides : Entries(queue'[q]) \subseteq Entries(queue[q])
    PROVE  SemaOK'
<1>1. ASSUME NEW t \in Threads, pc'[t] = "waiting"
      PROVE  t \in queuedSema'[OtherSide(<<t, 0>>)] /\ Entries(queue'[OtherSide(<<t, 0>>)]) = {}
  <2>1. pc[t] = "waiting"
    BY <1>1
  <2>2. Ops[t] = "commit"
    BY <2>1, ChannelAssumption DEF Shape, KindsShape
  <2>3. OtherSide(<<t, 0>>) \in Sides
    BY <2>2, PlainFacts, EventFacts
  <2> QED
    BY <2>1, <2>3 DEF SemaOK
<1>2. ASSUME NEW c \in Channels,
             NEW x \in Entries(queue'[<<c, "get">>]), NEW y \in Entries(queue'[<<c, "put">>])
      PROVE  x[1] = y[1]
  <2>1. <<c, "get">> \in Sides /\ <<c, "put">> \in Sides
    BY DEF Sides
  <2>2. x \in Entries(queue[<<c, "get">>]) /\ y \in Entries(queue[<<c, "put">>])
    BY <1>2, <2>1
  <2> QED
    BY <2>2 DEF SemaOK
<1> QED
  BY <1>1, <1>2 DEF SemaOK

\* A waiter that joins its queue after it found only its own thread on the other
\* side.
LEMMA SemaEnqueue ==
    ASSUME Shape, SemaOK, NEW w \in Liners, Event(w).kind # "nack", Enqueue(w),
           \A p \in Entries(queue[OtherSide(w)]) : p[1] = w[1]
    PROVE  \A c \in Channels : \A x \in Entries(queue'[<<c, "get">>]), y \in Entries(queue'[<<c, "put">>]) :
              x[1] = y[1]
<1> SUFFICES ASSUME NEW c \in Channels,
                    NEW x \in Entries(queue'[<<c, "get">>]), NEW y \in Entries(queue'[<<c, "put">>])
             PROVE  x[1] = y[1]
  OBVIOUS
<1>1. <<c, "get">> \in Sides /\ <<c, "put">> \in Sides /\ <<c, "get">> # <<c, "put">>
  BY DEF Sides
<1>2. w \in Waiters /\ Event(w).kind \in {"get", "put"}
  BY EventFacts DEF Liners
<1>3. CASE x \in Entries(queue[<<c, "get">>]) /\ y \in Entries(queue[<<c, "put">>])
  BY <1>3 DEF SemaOK
<1>4. CASE x = w /\ Side(w) = <<c, "get">> /\ y \in Entries(queue[<<c, "put">>])
  <2>1. OtherSide(w) = <<c, "put">>
    BY <1>4 DEF Side, OtherSide
  <2> QED
    BY <1>4, <2>1
<1>5. CASE y = w /\ Side(w) = <<c, "put">> /\ x \in Entries(queue[<<c, "get">>])
  <2>1. OtherSide(w) = <<c, "get">>
    BY <1>5 DEF Side, OtherSide
  <2> QED
    BY <1>5, <2>1
<1>6. /\ x \in Entries(queue[<<c, "get">>]) \/ (x = w /\ Side(w) = <<c, "get">>)
      /\ y \in Entries(queue[<<c, "put">>]) \/ (y = w /\ Side(w) = <<c, "put">>)
  BY <1>1, EnqueueEntries
<1> QED
  BY <1>1, <1>3, <1>4, <1>5, <1>6

LEMMA SemaPlainQueue ==
    ASSUME CommitsMeetSyncs, Shape, SemaOK, NEW t \in Threads, PlainQueue(t)
    PROVE  SemaOK'
<1> DEFINE w == <<t, 0>>
<1>1. /\ Ops[t] \in {"get", "put"} /\ queue[OtherSide(w)] = <<>> /\ Enqueue(w)
      /\ pc' = [pc EXCEPT ![t] = "blocked"] /\ UNCHANGED queuedSema
  BY DEF PlainQueue
<1>2. w \in Waiters /\ w \in Liners /\ Event(w).kind # "nack" /\ w[1] = t
  BY <1>1, PlainFacts DEF Liners
<1> HIDE DEF w
<1>3. Entries(queue[OtherSide(w)]) = {}
  BY <1>1 DEF Entries
<1>4. \A c \in Channels : \A x \in Entries(queue'[<<c, "get">>]), y \in Entries(queue'[<<c, "put">>]) :
              x[1] = y[1]
  BY <1>1, <1>2, <1>3, SemaEnqueue
<1>5. ASSUME NEW u \in Threads, pc'[u] = "waiting"
      PROVE  u \in queuedSema'[OtherSide(<<u, 0>>)] /\ Entries(queue'[OtherSide(<<u, 0>>)]) = {}
  <2>1. pc[u] = "waiting"
    BY <1>1, <1>5 DEF Shape, ThreadsShape
  <2>2. Ops[u] = "commit"
    BY <2>1, ChannelAssumption DEF Shape, KindsShape
  <2>3. OtherSide(<<u, 0>>) \in Sides
    BY <2>2, PlainFacts, EventFacts
  <2>4. Side(w) # OtherSide(<<u, 0>>)
    BY <1>1, <2>2 DEF CommitsMeetSyncs, w
  <2>5. Entries(queue'[OtherSide(<<u, 0>>)]) = Entries(queue[OtherSide(<<u, 0>>)])
    BY <1>1, <1>2, <2>3, <2>4, EnqueueEntries
  <2> QED
    BY <1>1, <2>1, <2>5 DEF SemaOK
<1> QED
  BY <1>4, <1>5 DEF SemaOK

\* A queue in which a waiter that is not a plain one finds no partner holds only
\* syncers of its own thread.
LEMMA NoPartners ==
    ASSUME Shape, NEW w \in Waiters, Event(w).kind # "nack", Partners(w, OtherSide(w)) = {}
    PROVE  \A p \in Entries(queue[OtherSide(w)]) : p[1] = w[1] /\ p[2] # 0
<1> SUFFICES ASSUME NEW p \in Entries(queue[OtherSide(w)])
             PROVE  p[1] = w[1] /\ p[2] # 0
  OBVIOUS
<1>1. PICK i \in 1..Len(queue[OtherSide(w)]) : p = queue[OtherSide(w)][i]
  BY DEF Entries
<1>2. ~MayMatch(w[1], queue[OtherSide(w)][i])
  BY DEF Partners
<1> QED
  BY <1>1, <1>2 DEF MayMatch

LEMMA SemaCommitWait ==
    ASSUME Shape, SemaOK, NEW t \in Threads, CommitWait(t)
    PROVE  SemaOK'
<1> DEFINE w == <<t, 0>>
<1>1. /\ Ops[t] = "commit" /\ Partners(w, OtherSide(w)) = {}
      /\ queuedSema' = [queuedSema EXCEPT ![OtherSide(w)] = @ \cup {t}]
      /\ pc' = [pc EXCEPT ![t] = "waiting"] /\ UNCHANGED queue
  BY DEF CommitWait
<1>2. w \in Waiters /\ Event(w).kind # "nack" /\ w[1] = t
  BY <1>1, PlainFacts
<1>3. OtherSide(w) \in Sides
  BY <1>2, EventFacts
<1>4. Entries(queue[OtherSide(w)]) = {}
  <2> SUFFICES ASSUME NEW p \in Entries(queue[OtherSide(w)]) PROVE FALSE
    OBVIOUS
  <2>1. p[1] = t /\ p[2] # 0
    BY <1>1, <1>2, NoPartners
  <2>2. queue[OtherSide(w)] \in Seq(Liners)
    BY <1>3 DEF Shape, QueuesShape
  <2>3. p \in Liners
    BY <2>2, EntriesType
  <2> QED
    BY <1>1, <2>1, <2>3 DEF Liners
<1>5. ASSUME NEW u \in Threads, pc'[u] = "waiting"
      PROVE  u \in queuedSema'[OtherSide(<<u, 0>>)] /\ Entries(queue'[OtherSide(<<u, 0>>)]) = {}
  <2>0. queuedSema \in [Sides -> SUBSET Threads]
    BY DEF Shape, QueuesShape
  <2>1. CASE u = t
    BY <1>1, <1>3, <1>4, <2>0, <2>1
  <2>2. CASE u # t
    <3>1. pc[u] = "waiting"
      BY <1>1, <1>5, <2>2 DEF Shape, ThreadsShape
    <3>2. Ops[u] = "commit"
      BY <3>1, ChannelAssumption DEF Shape, KindsShape
    <3>3. OtherSide(<<u, 0>>) \in Sides
      BY <3>2, PlainFacts, EventFacts
    <3>4. queuedSema[OtherSide(<<u, 0>>)] \subseteq queuedSema'[OtherSide(<<u, 0>>)]
      BY <1>1, <1>3, <2>0, <3>3
    <3> QED
      BY <1>1, <3>1, <3>4 DEF SemaOK
  <2> QED
    BY <2>1, <2>2
<1> QED
  BY <1>1, <1>5 DEF SemaOK

LEMMA SemaTryQueue ==
    ASSUME Shape, SemaOK, NEW w \in Waiters, NEW rest, TryQueue(w, rest)
    PROVE  SemaOK'
<1>1. /\ Ops[w[1]] = "sync" /\ Partners(w, OtherSide(w)) = {} /\ Enqueue(w) /\ Event(w).kind # "nack"
      /\ queuedSema' = [queuedSema EXCEPT ![Side(w)] = {}]
      /\ pc' = [t \in Threads |-> IF t \in queuedSema[Side(w)] THEN "start" ELSE pc[t]]
  BY DEF TryQueue, Try, PostQueued
<1>2. w \in Liners /\ Side(w) \in Sides
  BY <1>1, EventFacts DEF Liners
<1>3. \A c \in Channels : \A x \in Entries(queue'[<<c, "get">>]), y \in Entries(queue'[<<c, "put">>]) :
              x[1] = y[1]
  BY <1>1, <1>2, NoPartners, SemaEnqueue
<1>4. ASSUME NEW u \in Threads, pc'[u] = "waiting"
      PROVE  u \in queuedSema'[OtherSide(<<u, 0>>)] /\ Entries(queue'[OtherSide(<<u, 0>>)]) = {}
  <2>1. pc[u] = "waiting" /\ u \notin queuedSema[Side(w)]
    BY <1>1, <1>4
  <2>2. Ops[u] = "commit"
    BY <2>1, ChannelAssumption DEF Shape, KindsShape
  <2>3. OtherSide(<<u, 0>>) \in Sides
    BY <2>2, PlainFacts, EventFacts
  <2>4. u \in queuedSema[OtherSide(<<u, 0>>)] /\ Entries(queue[OtherSide(<<u, 0>>)]) = {}
    BY <2>1 DEF SemaOK
  <2>5. OtherSide(<<u, 0>>) # Side(w)
    BY <2>1, <2>4
  <2>6. queuedSema'[OtherSide(<<u, 0>>)] = queuedSema[OtherSide(<<u, 0>>)]
    BY <1>1, <1>2, <2>3, <2>5 DEF Shape, QueuesShape
  <2>7. Entries(queue'[OtherSide(<<u, 0>>)]) = Entries(queue[OtherSide(<<u, 0>>)])
    BY <1>1, <1>2, <2>3, <2>5, EnqueueEntries
  <2> QED
    BY <2>4, <2>6, <2>7
<1> QED
  BY <1>3, <1>4 DEF SemaOK

LEMMA SemaNext ==
    ASSUME CommitsMeetSyncs, Shape, SemaOK, [Next]_vars
    PROVE  SemaOK'
<1>a. ThreadsShape /\ KindsShape
  BY DEF Shape
<1>1. CASE UNCHANGED vars
  BY <1>1 DEF vars, SemaOK
<1>2. ASSUME NEW t \in Threads, StepOf(t) PROVE SemaOK'
  <2>1. CASE PlainMatch(t)
    <3>1. <<t, 0>> \in Waiters /\ Event(<<t, 0>>).kind # "nack"
      BY <2>1, PlainFacts DEF PlainMatch
    <3>2. \A q \in Sides : Entries(queue'[q]) \subseteq Entries(queue[q])
      BY <2>1, <3>1, MatchedEntries DEF PlainMatch
    <3>3. /\ UNCHANGED queuedSema
          /\ \A u \in Threads : pc'[u] = "waiting" => pc[u] = "waiting"
      BY <1>a, <2>1 DEF PlainMatch, ThreadsShape
    <3> QED
      BY <3>2, <3>3, SemaShrink
  <2>2. CASE PlainQueue(t)
    BY <2>2, SemaPlainQueue
  <2>3. CASE CommitWait(t)
    BY <2>3, SemaCommitWait
  <2>4. CASE PollBlock(t) \/ Finish(t) \/ Retry(t)
    <3>1. /\ UNCHANGED <<queuedSema, queue>>
          /\ \A u \in Threads : pc'[u] = "waiting" => pc[u] = "waiting"
      BY <1>a, <2>4 DEF PollBlock, Finish, Retry, ThreadsShape
    <3> QED
      BY <3>1, SemaShrink
  <2>5. CASE InterruptPlain(t) \/ InterruptSync(t) \/ Kill(t)
    <3>1. /\ UNCHANGED queuedSema
          /\ \A u \in Threads : pc'[u] = "waiting" => pc[u] = "waiting"
          /\ queue' = LeaveQueues(Own(t)) /\ nackQueue' = LeaveNackQueues(Own(t))
      BY <1>a, <2>5 DEF InterruptPlain, InterruptSync, Kill, ThreadsShape
    <3>2. \A q \in Sides : Entries(queue'[q]) \subseteq Entries(queue[q])
      BY <3>1, LeaveEntries
    <3> QED
      BY <3>1, <3>2, SemaShrink
  <2> QED
    BY <1>2, <2>1, <2>2, <2>3, <2>4, <2>5 DEF StepOf
<1>3. ASSUME NEW w \in Waiters, PollGuard(w) PROVE SemaOK'
  BY <1>3 DEF PollGuard, SemaOK
<1>4. ASSUME NEW w \in Waiters, NEW rest, TryOf(w, rest) PROVE SemaOK'
  <2>1. CASE TryMatch(w, rest)
    <3>1. \A q \in Sides : Entries(queue'[q]) \subseteq Entries(queue[q])
      BY <2>1, MatchedEntries DEF TryMatch
    <3>2. UNCHANGED <<queuedSema, pc>>
      BY <2>1 DEF TryMatch
    <3> QED
      BY <3>1, <3>2, SemaShrink
  <2>2. CASE TryQueue(w, rest)
    BY <2>2, SemaTryQueue
  <2>3. CASE TryNacked(w, rest) \/ TryWait(w, rest)
    BY <2>3 DEF TryNacked, TryWait, SemaOK
  <2> QED
    BY <1>4, <2>1, <2>2, <2>3 DEF TryOf
<1>5. ASSUME NEW w \in Subjects, TaskOf(w) PROVE SemaOK'
  <2>1. CASE LoseTask(w)
    <3>1. \A q \in Sides : Entries(queue'[q]) \subseteq Entries(queue[q])
      BY <2>1, LeaveEntries DEF LoseTask
    <3>2. UNCHANGED <<queuedSema, pc>>
      BY <2>1 DEF LoseTask
    <3> QED
      BY <3>1, <3>2, SemaShrink
  <2>2. CASE ResumeThread(w)
    <3>1. /\ UNCHANGED <<queuedSema, queue>>
          /\ \A u \in Threads : pc'[u] = "waiting" => pc[u] = "waiting"
      BY <1>a, <2>2 DEF ResumeThread, ThreadsShape
    <3> QED
      BY <3>1, SemaShrink
  <2>3. CASE ResumeSyncer(w) \/ SelectTask(w) \/ PostOne(w) \/ PostLast(w) \/ RetrySkip(w)
    BY <2>3 DEF ResumeSyncer, SelectTask, PostOne, PostLast, RetrySkip, SemaOK
  <2> QED
    BY <1>5, <2>1, <2>2, <2>3 DEF TaskOf
<1>6. CASE Next
  BY <1>2, <1>3, <1>4, <1>5, <1>6, StepCases DEF AnyStep
<1> QED
  BY <1>1, <1>6

\* A commit manager that waits finds no partner, and a getter and a putter that
\* are in the queues of a channel are of one thread.
LEMMA SemaImplies ==
    ASSUME Shape, SemaOK
    PROVE  NobodyWaitsInVain
<1>1. ASSUME NEW c \in Channels,
             NEW i \in 1..Len(queue[<<c, "get">>]), NEW j \in 1..Len(queue[<<c, "put">>])
      PROVE  queue[<<c, "get">>][i][1] = queue[<<c, "put">>][j][1]
  <2>1. /\ queue[<<c, "get">>][i] \in Entries(queue[<<c, "get">>])
        /\ queue[<<c, "put">>][j] \in Entries(queue[<<c, "put">>])
    BY DEF Entries
  <2> QED
    BY <2>1 DEF SemaOK
<1>2. ASSUME NEW t \in Threads, pc[t] = "waiting"
      PROVE  Partners(<<t, 0>>, OtherSide(<<t, 0>>)) = {}
  <2>1. Entries(queue[OtherSide(<<t, 0>>)]) = {}
    BY <1>2 DEF SemaOK
  <2>2. \A i \in 1..Len(queue[OtherSide(<<t, 0>>)]) : FALSE
    BY <2>1 DEF Entries
  <2> QED
    BY <2>2 DEF Partners
<1> QED
  BY <1>1, <1>2 DEF NobodyWaitsInVain, NobodyMissed, CommitNotMissed

\* Nobody waits in vain: a getter and a putter of two threads are never both in
\* the queues of a channel, and a commit manager sleeps only while there is no
\* partner for it, for any threads and operations, provided that no plain
\* channel-get or channel-put blocks where a commit manager looks (those do not
\* post the semaphore it waits for).
THEOREM ChannelsMeet ==
    CommitsMeetSyncs => (Spec => []NobodyWaitsInVain)
<1> SUFFICES ASSUME CommitsMeetSyncs PROVE Spec => []NobodyWaitsInVain
  OBVIOUS
<1>1. Init => Shape /\ SemaOK
  <2> SUFFICES ASSUME Init PROVE Shape /\ SemaOK
    OBVIOUS
  <2>1. Shape
    BY ShapeInit
  <2>2. \A q \in Sides : Entries(queue[q]) = {}
    BY DEF Init, Entries
  <2>3. \A t \in Threads : pc[t] # "waiting"
    BY DEF Init
  <2>4. \A c \in Channels : <<c, "get">> \in Sides
    BY DEF Sides
  <2> QED
    BY <2>1, <2>2, <2>3, <2>4 DEF SemaOK
<1>2. Shape /\ SemaOK /\ [Next]_vars => (Shape /\ SemaOK)'
  BY ShapeNext, SemaNext
<1>3. Shape /\ SemaOK => NobodyWaitsInVain
  BY SemaImplies
<1> QED
  BY <1>1, <1>2, <1>3, PTL DEF Spec

-----------------------------------------------------------------------------
(* Values go from one put to one get. *)

LEMMA LinedDef ==
    /\ Lined \subseteq Waiters /\ Lined' \subseteq Waiters
    /\ \A e \in Waiters : e \in Lined <=> \/ \E q \in Sides : e \in Entries(queue[q])
                                         \/ \E n \in Waiters : e \in Entries(nackQueue[n])
    /\ \A e \in Waiters : e \in Lined' <=> \/ \E q \in Sides : e \in Entries(queue'[q])
                                          \/ \E n \in Waiters : e \in Entries(nackQueue'[n])
<1>1. /\ Lined \subseteq Waiters
      /\ \A e \in Waiters : e \in Lined <=> \/ \E q \in Sides : e \in Entries(queue[q])
                                         \/ \E n \in Waiters : e \in Entries(nackQueue[n])
  BY DEF Lined
<1>2. /\ Lined' \subseteq Waiters
      /\ \A e \in Waiters : e \in Lined' <=> \/ \E q \in Sides : e \in Entries(queue'[q])
                                          \/ \E n \in Waiters : e \in Entries(nackQueue'[n])
  BY DEF Lined
<1> QED
  BY <1>1, <1>2

LEMMA LinedType ==
    ASSUME Shape
    PROVE  Lined \subseteq Liners /\ Lined \subseteq Waiters
<1> SUFFICES ASSUME NEW e \in Lined PROVE e \in Liners
  BY DEF Liners
<1>0. e \in Waiters
  BY LinedDef
<1>1. ASSUME NEW q \in Sides, e \in Entries(queue[q]) PROVE e \in Liners
  <2>1. queue[q] \in Seq(Liners)
    BY DEF Shape, QueuesShape
  <2> QED
    BY <1>1, <2>1, EntriesType
<1>2. ASSUME NEW n \in Waiters, e \in Entries(nackQueue[n]) PROVE e \in Liners
  <2>1. nackQueue[n] \in Seq(SyncWaiters)
    BY DEF Shape, QueuesShape
  <2>2. e \in SyncWaiters
    BY <1>2, <2>1, EntriesType
  <2> QED
    BY <2>2 DEF SyncWaiters, Liners
<1> QED
  BY <1>0, <1>1, <1>2, LinedDef

LEMMA SameLined ==
    ASSUME LinesOK, UNCHANGED <<queue, nackQueue>>
    PROVE  LinesOK' /\ Lined' = Lined
BY DEF LinesOK, Lined

\* A waiter whose partner comes leaves its queue, the only one it is in.
LEMMA TakeLined ==
    ASSUME Shape, LinesOK, NEW w \in Waiters, Event(w).kind # "nack", NEW after,
           NEW i \in 1..Len(queue[OtherSide(w)]), NEW p \in Liners, Matched(w, after, i, p),
           UNCHANGED nackQueue
    PROVE  /\ LinesOK' /\ Lined' = Lined \ {p}
           /\ p \in Lined /\ Event(p).kind # "nack" /\ Side(p) = OtherSide(w)
<1> DEFINE o == OtherSide(w)
           r == Sub(queue[o], (1..Len(queue[o])) \ {i})
<1>1. o \in Sides /\ queue \in [Sides -> Seq(Liners)] /\ queue[o] \in Seq(Liners) /\ NoTwice(queue[o])
  BY EventFacts DEF Shape, QueuesShape, LinesOK
<1>2. p = queue[o][i] /\ p \in Entries(queue[o]) /\ queue' = [queue EXCEPT ![o] = r]
  BY DEF Matched
<1>3. Entries(r) = Entries(queue[o]) \ {p} /\ NoTwice(r)
  BY <1>1, <1>2, RemoveEntries
<1> HIDE DEF r, o
<1>4. \A q \in Sides : queue'[q] = IF q = o THEN r ELSE queue[q]
  BY <1>1, <1>2
<1>5. Event(p).kind # "nack" /\ Side(p) = o
  BY <1>1, <1>2 DEF LinesOK
<1>6. \A q \in Sides : /\ Entries(queue'[q]) = Entries(queue[q]) \ {p}
                       /\ NoTwice(queue'[q])
  <2> TAKE q \in Sides
  <2>1. CASE q = o
    BY <1>3, <1>4, <2>1
  <2>2. CASE q # o
    <3>1. p \notin Entries(queue[q])
      BY <1>5, <2>2 DEF LinesOK
    <3>2. NoTwice(queue[q])
      BY DEF LinesOK
    <3> QED
      BY <1>4, <2>2, <3>1, <3>2
  <2> QED
    BY <2>1, <2>2
<1>7. \A n \in Waiters : p \notin Entries(nackQueue[n])
  BY <1>5 DEF LinesOK
<1>8. LinesOK'
  BY <1>6 DEF LinesOK
<1>9. Lined' = Lined \ {p}
  BY <1>6, <1>7, LinedDef
<1>10. p \in Lined
  BY <1>1, <1>2, LinedDef DEF Liners
<1> QED
  BY <1>5, <1>8, <1>9, <1>10 DEF o

LEMMA JoinLined ==
    ASSUME Shape, LinesOK, NEW w \in Liners, Event(w).kind # "nack", Enqueue(w), w \notin Lined,
           UNCHANGED nackQueue
    PROVE  LinesOK' /\ Lined' = Lined \cup {w}
<1>1. w \in Waiters /\ Side(w) \in Sides
  BY EventFacts DEF Liners
<1>2. \A q \in Sides :
         /\ Entries(queue'[q]) = IF q = Side(w) THEN Entries(queue[q]) \cup {w} ELSE Entries(queue[q])
         /\ NoTwice(queue[q]) /\ w \notin Entries(queue[q]) => NoTwice(queue'[q])
  BY EnqueueEntries
<1>3. \A q \in Sides : w \notin Entries(queue[q])
  BY <1>1, LinedDef
<1>4. LinesOK'
  <2>1. ASSUME NEW q \in Sides
        PROVE  /\ \A x \in Entries(queue'[q]) : Event(x).kind # "nack" /\ Side(x) = q
               /\ NoTwice(queue'[q])
    <3>1. /\ \A x \in Entries(queue[q]) : Event(x).kind # "nack" /\ Side(x) = q
          /\ NoTwice(queue[q])
      BY DEF LinesOK
    <3> QED
      BY <1>2, <1>3, <3>1
  <2> QED
    BY <2>1 DEF LinesOK
<1>5. Lined' = Lined \cup {w}
  BY <1>1, <1>2, LinedDef
<1> QED
  BY <1>4, <1>5

LEMMA JoinNack ==
    ASSUME Shape, LinesOK, NEW w \in SyncWaiters, Event(w).kind = "nack", w \notin Lined,
           nackQueue' = [nackQueue EXCEPT ![Event(w).of] = Append(@, w)], UNCHANGED queue
    PROVE  LinesOK' /\ Lined' = Lined \cup {w}
<1> DEFINE o == Event(w).of
<1>1. w \in Waiters /\ o \in Waiters
  BY EventFacts DEF SyncWaiters
<1>2. nackQueue \in [Waiters -> Seq(SyncWaiters)] /\ nackQueue[o] \in Seq(SyncWaiters)
  BY <1>1 DEF Shape, QueuesShape
<1>3. /\ Entries(Append(nackQueue[o], w)) = Entries(nackQueue[o]) \cup {w}
      /\ NoTwice(nackQueue[o]) /\ w \notin Entries(nackQueue[o]) => NoTwice(Append(nackQueue[o], w))
  BY <1>2, AppendEntries
<1>4. \A n \in Waiters : nackQueue'[n] = IF n = o THEN Append(nackQueue[o], w) ELSE nackQueue[n]
  BY <1>1, <1>2
<1> HIDE DEF o
<1>5. \A n \in Waiters :
         /\ n = o => Entries(nackQueue'[n]) = Entries(nackQueue[n]) \cup {w}
         /\ n # o => Entries(nackQueue'[n]) = Entries(nackQueue[n])
         /\ NoTwice(nackQueue[n]) /\ w \notin Entries(nackQueue[n]) => NoTwice(nackQueue'[n])
  <2> TAKE n \in Waiters
  <2>1. CASE n = o
    <3>1. nackQueue'[n] = Append(nackQueue[o], w)
      BY <1>4, <2>1
    <3> QED
      BY <1>3, <2>1, <3>1
  <2>2. CASE n # o
    <3>1. nackQueue'[n] = nackQueue[n]
      BY <1>4, <2>2
    <3> QED
      BY <2>2, <3>1
  <2> QED
    BY <2>1, <2>2
<1>6. \A n \in Waiters : w \notin Entries(nackQueue[n])
  BY <1>1, LinedDef
<1>7. LinesOK'
  <2>1. ASSUME NEW n \in Waiters
        PROVE  /\ \A x \in Entries(nackQueue'[n]) : Event(x).kind = "nack" /\ Event(x).of = n
               /\ NoTwice(nackQueue'[n])
    <3>1. /\ \A x \in Entries(nackQueue[n]) : Event(x).kind = "nack" /\ Event(x).of = n
          /\ NoTwice(nackQueue[n])
      BY DEF LinesOK
    <3>2. NoTwice(nackQueue'[n])
      BY <1>5, <1>6, <3>1
    <3>3. n = o => Event(w).kind = "nack" /\ Event(w).of = n
      BY DEF o
    <3>4. ASSUME NEW x \in Entries(nackQueue'[n]) PROVE Event(x).kind = "nack" /\ Event(x).of = n
      <4>1. x \in Entries(nackQueue[n]) \/ (n = o /\ x = w)
        BY <1>5, <3>4
      <4> QED
        BY <3>1, <3>3, <4>1
    <3> QED
      BY <3>2, <3>4
  <2> QED
    BY <2>1 DEF LinesOK
<1>8. Lined' = Lined \cup {w}
  <2>1. ASSUME NEW e \in Waiters PROVE e \in Lined' <=> e \in Lined \/ e = w
    <3>1. ASSUME NEW n \in Waiters PROVE e \in Entries(nackQueue'[n]) <=> e \in Entries(nackQueue[n]) \/ (n = o /\ e = w)
      BY <1>5
    <3> QED
      BY <1>1, <3>1, LinedDef
  <2> QED
    BY <1>1, <2>1, LinedDef
<1> QED
  BY <1>7, <1>8

LEMMA TakeNack ==
    ASSUME Shape, LinesOK, NEW n \in Waiters, nackQueue[n] # <<>>,
           nackQueue' = [nackQueue EXCEPT ![n] = Tail(@)], UNCHANGED queue,
           NEW u, u = Head(nackQueue[n])
    PROVE  /\ LinesOK' /\ Lined' = Lined \ {u}
           /\ u \in Lined /\ u \in SyncWaiters /\ Event(u).kind = "nack" /\ Event(u).of = n
<1>1. nackQueue \in [Waiters -> Seq(SyncWaiters)] /\ nackQueue[n] \in Seq(SyncWaiters) /\ NoTwice(nackQueue[n])
  BY DEF Shape, QueuesShape, LinesOK
<1>2. /\ u \in SyncWaiters
      /\ Entries(nackQueue[n]) = {u} \cup Entries(Tail(nackQueue[n]))
      /\ NoTwice(Tail(nackQueue[n])) /\ u \notin Entries(Tail(nackQueue[n]))
  BY <1>1, TailEntries
<1>3. Event(u).kind = "nack" /\ Event(u).of = n
  BY <1>2 DEF LinesOK
<1>4. \A m \in Waiters : nackQueue'[m] = IF m = n THEN Tail(nackQueue[n]) ELSE nackQueue[m]
  BY <1>1
<1>5. \A m \in Waiters : /\ Entries(nackQueue'[m]) = Entries(nackQueue[m]) \ {u}
                         /\ NoTwice(nackQueue'[m])
  <2> TAKE m \in Waiters
  <2>1. CASE m = n
    BY <1>2, <1>4, <2>1
  <2>2. CASE m # n
    <3>1. u \notin Entries(nackQueue[m]) /\ NoTwice(nackQueue[m])
      BY <1>3, <2>2 DEF LinesOK
    <3> QED
      BY <1>4, <2>2, <3>1
  <2> QED
    BY <2>1, <2>2
<1>6. \A q \in Sides : u \notin Entries(queue[q])
  BY <1>3 DEF LinesOK
<1>7. LinesOK'
  BY <1>5 DEF LinesOK
<1>8. Lined' = Lined \ {u}
  <2>1. ASSUME NEW e \in Waiters PROVE e \in Lined' <=> e \in Lined /\ e # u
    <3>1. ASSUME NEW m \in Waiters PROVE e \in Entries(nackQueue'[m]) <=> e \in Entries(nackQueue[m]) /\ e # u
      BY <1>5
    <3> QED
      BY <1>6, <3>1, LinedDef
  <2> QED
    BY <2>1, LinedDef
<1>9. u \in Lined
  BY <1>2, LinedDef DEF SyncWaiters
<1> QED
  BY <1>2, <1>3, <1>7, <1>8, <1>9

LEMMA LeaveLined ==
    ASSUME Shape, LinesOK, NEW W, queue' = LeaveQueues(W), nackQueue' = LeaveNackQueues(W)
    PROVE  LinesOK' /\ Lined' = Lined \ W
<1>1. /\ \A q \in Sides : /\ Entries(queue'[q]) = Entries(queue[q]) \ W
                          /\ NoTwice(queue[q]) => NoTwice(queue'[q])
      /\ \A n \in Waiters : /\ Entries(nackQueue'[n]) = Entries(nackQueue[n]) \ W
                            /\ NoTwice(nackQueue[n]) => NoTwice(nackQueue'[n])
  BY LeaveEntries
<1>2. LinesOK'
  BY <1>1 DEF LinesOK
<1>3. Lined' = Lined \ W
  BY <1>1, LinedDef
<1> QED
  BY <1>2, <1>3

\* A getter and a putter that had no partner become partners.
LEMMA PairUp ==
    ASSUME Shape, BoxesOK, NEW g \in Waiters, NEW u \in Waiters,
           Event(g).kind = "get", Event(u).kind = "put", Event(u).ch = Event(g).ch, u[1] # g[1],
           g \notin Paired, u \notin Paired, got' = [got EXCEPT ![g] = u]
    PROVE  BoxesOK' /\ Paired' = Paired \cup {g, u}
<1>1. \A x \in Waiters : got'[x] = IF x = g THEN u ELSE got[x]
  BY DEF Shape, QueuesShape
<1>2. \A x \in Waiters : got[x] # u /\ (got[g] = Nobody)
  BY DEF Paired
<1>3. u # Nobody /\ \A x \in Waiters : x # Nobody
  BY WaiterFacts
<1>4. BoxesOK'
  <2> SUFFICES ASSUME NEW x \in Waiters, got'[x] # Nobody
               PROVE  /\ Event(x).kind = "get" /\ got'[x] \in Waiters /\ Event(got'[x]).kind = "put"
                      /\ Event(got'[x]).ch = Event(x).ch /\ got'[x][1] # x[1]
                      /\ \A h \in Waiters : got'[h] = got'[x] => h = x
    BY DEF BoxesOK
  <2>1. CASE x = g
    BY <1>1, <1>2, <2>1
  <2>2. CASE x # g
    BY <1>1, <1>2, <2>2 DEF BoxesOK
  <2> QED
    BY <2>1, <2>2
<1>5. \A x \in Waiters : x \in Paired' <=> got'[x] # Nobody \/ \E y \in Waiters : got'[y] = x
  BY DEF Paired
<1>6. \A x \in Waiters : x \in Paired <=> got[x] # Nobody \/ \E y \in Waiters : got[y] = x
  BY DEF Paired
<1>7. \A x \in Waiters : x \in Paired' <=> x \in Paired \/ x = g \/ x = u
  BY <1>1, <1>2, <1>3, <1>5, <1>6
<1>8. Paired \subseteq Waiters /\ Paired' \subseteq Waiters
  BY DEF Paired
<1> QED
  BY <1>4, <1>7, <1>8

LEMMA MatchedPairs ==
    ASSUME Shape, BoxesOK, NEW w \in Waiters, NEW p \in Waiters,
           Event(w).kind # "nack", Event(p).kind # "nack", Side(p) = OtherSide(w), p[1] # w[1],
           w \notin Paired, p \notin Paired,
           got' = IF Event(w).kind = "get" THEN [got EXCEPT ![w] = p] ELSE [got EXCEPT ![p] = w]
    PROVE  BoxesOK' /\ Paired' = Paired \cup {w, p}
<1>1. /\ Event(p).ch = Event(w).ch
      /\ Event(w).kind = "get" => Event(p).kind = "put"
      /\ Event(w).kind # "get" => Event(w).kind = "put" /\ Event(p).kind = "get"
  BY SideFacts
<1>2. CASE Event(w).kind = "get"
  BY <1>1, <1>2, PairUp
<1>3. CASE Event(w).kind # "get"
  BY <1>1, <1>3, PairUp
<1> QED
  BY <1>2, <1>3

\* The inductive invariant.
ChannelsOK ==
    /\ LinesOK /\ JobsOK /\ LinedOK /\ ThreadsOK /\ NacksOK /\ BoxesOK /\ PairsOK
    /\ InOrder(agenda)

LEMMA IdleFacts ==
    ASSUME Shape, ChannelsOK, agenda = <<>>
    PROVE  /\ Jobs = {}
           /\ \A w \in Lined : w[2] # 0 => selected[w[1]] = 0
           /\ \A w \in Paired : w \in Waiters /\ Completed(w)
           /\ \A w \in Waiters :
                 Event(w).guard /\ stage[w[1]][w[2]] # "guard" /\ selected[w[1]] \notin {0, w[2]}
                    => w \in nackPosted
<1>1. Jobs = {}
  BY DEF Jobs, Entries
<1> QED
  BY <1>1 DEF ChannelsOK, LinedOK, PairsOK, NacksOK, Paired

LEMMA NoJobs ==
    ASSUME agenda' = <<>>
    PROVE  Jobs' = {} /\ JobsOK' /\ InOrder(agenda')
<1>1. Jobs' = {}
  BY DEF Jobs, Entries
<1> QED
  BY <1>1, OneInOrder DEF JobsOK

LEMMA OneJob ==
    ASSUME NEW x, agenda' = <<x>>
    PROVE  Jobs' = {x} /\ InOrder(agenda')
BY OneEntry, OneInOrder DEF Jobs

LEMMA SamePaired ==
    ASSUME BoxesOK, UNCHANGED got
    PROVE  BoxesOK' /\ Paired' = Paired
BY DEF BoxesOK, Paired

LEMMA PlainMatchInv ==
    ASSUME Shape, ChannelsOK, NEW t \in Threads, PlainMatch(t)
    PROVE  ChannelsOK'
<1> DEFINE w == <<t, 0>>
<1>1. /\ agenda = <<>> /\ pc[t] = "start" /\ Ops[t] # "sync" /\ Match(w, <<>>)
      /\ pc' = [pc EXCEPT ![t] = "done"]
      /\ UNCHANGED <<queuedSema, nackQueue, nackPosted, stage, interrupted, selected, decided>>
  BY DEF PlainMatch, Idle
<1>2. w \in Waiters /\ Event(w).kind # "nack" /\ w[1] = t /\ w[2] = 0
  BY <1>1, PlainFacts
<1>a. \A x \in Waiters : x[1] = t => x = w
  BY <1>1, WaiterFacts
<1>b. LinesOK /\ LinedOK /\ ThreadsOK /\ NacksOK /\ BoxesOK /\ PairsOK
  BY DEF ChannelsOK
<1>c. /\ Jobs = {}
      /\ \A x \in Lined : x[2] # 0 => selected[x[1]] = 0
      /\ \A x \in Paired : x \in Waiters /\ Completed(x)
      /\ \A x \in Waiters :
           Event(x).guard /\ stage[x[1]][x[2]] # "guard" /\ selected[x[1]] \notin {0, x[2]}
                    => x \in nackPosted
  BY <1>1, IdleFacts
<1> HIDE DEF w
<1>3. PICK i \in 1..Len(queue[OtherSide(w)]) : \E p \in Liners : Matched(w, <<>>, i, p)
  BY <1>1, <1>2, MatchFacts
<1>4. PICK p \in Liners : Matched(w, <<>>, i, p)
  BY <1>3
<1>5. /\ LinesOK' /\ Lined' = Lined \ {p} /\ p \in Lined
      /\ Event(p).kind # "nack" /\ Side(p) = OtherSide(w)
  BY <1>1, <1>2, <1>4, <1>b, TakeLined
<1>6. p \in Waiters /\ p # w /\ p[1] # t /\ Lined \subseteq Waiters
  BY <1>2, <1>5, <1>a, SideFacts, LinedType DEF Liners
<1>7. w \notin Lined /\ w \notin Paired /\ p \notin Paired
  <2>1. w \notin Lined
    BY <1>1, <1>2, <1>b DEF LinedOK
  <2>2. w \notin Paired
    BY <1>1, <1>2, <1>c DEF Completed
  <2>3. p \notin Paired
    BY <1>5, <1>b DEF LinedOK
  <2> QED
    BY <2>1, <2>2, <2>3
<1>8. BoxesOK' /\ Paired' = Paired \cup {w, p}
  <2>1. got' = IF Event(w).kind = "get" THEN [got EXCEPT ![w] = p] ELSE [got EXCEPT ![p] = w]
    BY <1>4 DEF Matched
  <2> QED
    BY <1>2, <1>5, <1>6, <1>7, <1>b, <2>1, MatchedPairs
<1>9. Jobs' = {<<"resume", p>>} /\ InOrder(agenda')
  <2>1. agenda' = <<<<"resume", p>>>>
    BY <1>4, EmptyRest DEF Matched
  <2> QED
    BY <2>1, OneJob
<1>10. \A x \in Threads : pc'[x] = IF x = t THEN "done" ELSE pc[x]
  BY <1>1 DEF Shape, ThreadsShape
<1>11. \A x \in Waiters : x[1] \in Threads
  BY WaiterFacts
<1>12. JobsOK'
  <2>1. ResumeOK(p)'
    BY <1>1, <1>5, <1>6, <1>8, <1>10, <1>11, <1>b, <1>c DEF ResumeOK, LinedOK
  <2>2. \A x \in Subjects : /\ <<"select", x>> \notin Jobs' /\ <<"lose", x>> \notin Jobs'
                            /\ <<"post", x>> \notin Jobs' /\ <<"retry", x>> \notin Jobs'
                            /\ <<"resume", x>> \in Jobs' => x = p
    BY <1>9
  <2> QED
    BY <2>1, <2>2 DEF JobsOK
<1>13. LinedOK'
  <2> SUFFICES ASSUME NEW x \in Lined, x # p
               PROVE  /\ x \notin Paired'
                      /\ x[2] = 0 => Ops[x[1]] # "commit" /\ pc'[x[1]] = "blocked"
                      /\ x[2] # 0 =>
                            /\ stage'[x[1]][x[2]] = "async" /\ x[2] \notin interrupted'[x[1]]
                            /\ pc'[x[1]] \in {"poll", "blocked"}
                            /\ selected'[x[1]] = 0 \/ <<"lose", x>> \in Jobs'
    BY <1>5 DEF LinedOK
  <2>1. x \in Waiters /\ x # w /\ x[1] # t /\ x \notin Paired'
    BY <1>6, <1>7, <1>8, <1>a, <1>b DEF LinedOK
  <2> QED
    BY <1>1, <1>10, <1>11, <1>b, <1>c, <2>1 DEF LinedOK
<1>14. ThreadsOK' /\ NacksOK'
  BY <1>1, <1>b, <1>c DEF ThreadsOK, NacksOK
<1>15. PairsOK'
  <2> SUFFICES ASSUME NEW x \in Waiters
               PROVE  /\ x \in Paired' => Completed(x)' \/ <<"resume", x>> \in Jobs' \/ <<"select", x>> \in Jobs'
                      /\ Event(x).kind # "nack" /\ Completed(x)' => x \in Paired'
    BY DEF PairsOK
  <2>1. x # w => (Completed(x)' <=> Completed(x))
    BY <1>1, <1>10, <1>11, <1>a DEF Completed
  <2>2. Completed(w)'
    BY <1>2, <1>10 DEF Completed
  <2> QED
    BY <1>8, <1>9, <1>b, <1>c, <2>1, <2>2 DEF PairsOK
<1> QED
  BY <1>5, <1>8, <1>9, <1>12, <1>13, <1>14, <1>15 DEF ChannelsOK

\* Steps outside an atomic section that match nobody.
LEMMA CalmRest ==
    ASSUME Shape, ChannelsOK, agenda = <<>>, LinesOK', Lined' \subseteq Lined,
           UNCHANGED <<got, nackPosted, selected, decided>>,
           \A x \in Lined' : /\ pc'[x[1]] = pc[x[1]] \/ (x[2] # 0 /\ pc'[x[1]] = "blocked")
                             /\ x[2] # 0 => /\ stage'[x[1]][x[2]] = stage[x[1]][x[2]]
                                            /\ x[2] \notin interrupted'[x[1]],
           \A t \in Threads : Ops[t] # "sync" => (pc'[t] = "done" <=> pc[t] = "done"),
           \A w \in Waiters : stage'[w[1]][w[2]] # stage[w[1]][w[2]] => selected[w[1]] = 0,
           \A t \in Threads : \A k \in interrupted'[t] : stage'[t][k] = "async"
    PROVE  LinedOK' /\ ThreadsOK' /\ NacksOK' /\ BoxesOK' /\ PairsOK'
<1>1. LinesOK /\ LinedOK /\ ThreadsOK /\ NacksOK /\ BoxesOK /\ PairsOK
  BY DEF ChannelsOK
<1>2. /\ Jobs = {}
      /\ \A x \in Lined : x[2] # 0 => selected[x[1]] = 0
      /\ \A x \in Paired : x \in Waiters /\ Completed(x)
      /\ \A x \in Waiters :
           Event(x).guard /\ stage[x[1]][x[2]] # "guard" /\ selected[x[1]] \notin {0, x[2]}
                    => x \in nackPosted
  BY IdleFacts
<1>4. BoxesOK' /\ Paired' = Paired
  BY <1>1, SamePaired
<1>5. LinedOK'
  <2> SUFFICES ASSUME NEW x \in Lined'
               PROVE  /\ x \notin Paired'
                      /\ x[2] = 0 => Ops[x[1]] # "commit" /\ pc'[x[1]] = "blocked"
                      /\ x[2] # 0 =>
                            /\ stage'[x[1]][x[2]] = "async" /\ x[2] \notin interrupted'[x[1]]
                            /\ pc'[x[1]] \in {"poll", "blocked"}
                            /\ selected'[x[1]] = 0 \/ <<"lose", x>> \in Jobs'
    BY DEF LinedOK
  <2>1. x \in Lined
    OBVIOUS
  <2> QED
    BY <1>1, <1>2, <1>4, <2>1 DEF LinedOK
<1>6. ThreadsOK'
  BY <1>1 DEF ThreadsOK
<1>7. NacksOK'
  <2> SUFFICES ASSUME NEW w \in Waiters
               PROVE  /\ w \in nackPosted' => selected'[w[1]] \notin {0, w[2]}
                      /\ (Event(w).guard /\ stage'[w[1]][w[2]] # "guard" /\ selected'[w[1]] \notin {0, w[2]}
                            => w \in nackPosted')
    BY DEF NacksOK
  <2> QED
    BY <1>1, <1>2 DEF NacksOK
<1>8. PairsOK'
  <2> SUFFICES ASSUME NEW x \in Waiters
               PROVE  /\ x \in Paired' => Completed(x)' \/ <<"resume", x>> \in Jobs' \/ <<"select", x>> \in Jobs'
                      /\ Event(x).kind # "nack" /\ Completed(x)' => x \in Paired'
    BY DEF PairsOK
  <2>1. x[1] \in Threads /\ (x[2] = 0 <=> Ops[x[1]] # "sync")
    BY WaiterFacts
  <2>2. Completed(x)' <=> Completed(x)
    BY <2>1 DEF Completed
  <2> QED
    BY <1>1, <1>2, <1>4, <2>2 DEF PairsOK
<1> QED
  BY <1>4, <1>5, <1>6, <1>7, <1>8

LEMMA CalmInv ==
    ASSUME Shape, ChannelsOK, agenda = <<>>, agenda' = <<>>, LinesOK', Lined' \subseteq Lined,
           UNCHANGED <<got, nackPosted, selected, decided>>,
           \A x \in Lined' : /\ pc'[x[1]] = pc[x[1]] \/ (x[2] # 0 /\ pc'[x[1]] = "blocked")
                             /\ x[2] # 0 => /\ stage'[x[1]][x[2]] = stage[x[1]][x[2]]
                                            /\ x[2] \notin interrupted'[x[1]],
           \A t \in Threads : Ops[t] # "sync" => (pc'[t] = "done" <=> pc[t] = "done"),
           \A w \in Waiters : stage'[w[1]][w[2]] # stage[w[1]][w[2]] => selected[w[1]] = 0,
           \A t \in Threads : \A k \in interrupted'[t] : stage'[t][k] = "async"
    PROVE  ChannelsOK'
<1>1. Jobs' = {} /\ JobsOK' /\ InOrder(agenda')
  BY NoJobs
<1>2. LinedOK' /\ ThreadsOK' /\ NacksOK' /\ BoxesOK' /\ PairsOK'
  BY CalmRest
<1> QED
  BY <1>1, <1>2 DEF ChannelsOK

LEMMA CommitWaitInv ==
    ASSUME Shape, ChannelsOK, NEW t \in Threads, CommitWait(t)
    PROVE  ChannelsOK'
<1>1. /\ agenda = <<>> /\ agenda' = <<>> /\ pc[t] = "start" /\ Ops[t] = "commit"
      /\ UNCHANGED <<queue, nackQueue, nackPosted, stage, interrupted, selected, decided, got>>
      /\ \A x \in Threads : pc'[x] = IF x = t THEN "waiting" ELSE pc[x]
  BY DEF CommitWait, Idle, Shape, ThreadsShape
<1>2. LinesOK /\ LinedOK /\ ThreadsOK
  BY DEF ChannelsOK
<1>3. LinesOK' /\ Lined' = Lined
  BY <1>1, <1>2, SameLined
<1>4. \A x \in Lined : x[1] \in Threads /\ x[1] # t
  BY <1>1, LinedType, WaiterFacts DEF Liners
<1>5. \A x \in Lined' : /\ pc'[x[1]] = pc[x[1]]
                        /\ x[2] # 0 => /\ stage'[x[1]][x[2]] = stage[x[1]][x[2]]
                                       /\ x[2] \notin interrupted'[x[1]]
  BY <1>1, <1>2, <1>3, <1>4 DEF LinedOK
<1>6. \A u \in Threads : \A k \in interrupted'[u] : stage'[u][k] = "async"
  BY <1>1, <1>2 DEF ThreadsOK
<1> QED
  BY <1>1, <1>3, <1>5, <1>6, CalmInv

LEMMA PollBlockInv ==
    ASSUME Shape, ChannelsOK, NEW t \in Threads, PollBlock(t)
    PROVE  ChannelsOK'
<1>1. /\ agenda = <<>> /\ agenda' = <<>> /\ pc[t] = "poll" /\ Ops[t] = "sync"
      /\ UNCHANGED <<queue, nackQueue, nackPosted, stage, interrupted, selected, decided, got>>
      /\ \A x \in Threads : pc'[x] = IF x = t THEN "blocked" ELSE pc[x]
  BY DEF PollBlock, Idle, Shape, ThreadsShape
<1>2. LinesOK /\ LinedOK /\ ThreadsOK
  BY DEF ChannelsOK
<1>3. LinesOK' /\ Lined' = Lined
  BY <1>1, <1>2, SameLined
<1>4. \A x \in Lined : x[1] \in Threads /\ (x[1] = t => x[2] # 0)
  BY <1>1, LinedType, WaiterFacts
<1>5. \A x \in Lined' : /\ pc'[x[1]] = pc[x[1]] \/ (x[2] # 0 /\ pc'[x[1]] = "blocked")
                        /\ x[2] # 0 => /\ stage'[x[1]][x[2]] = stage[x[1]][x[2]]
                                       /\ x[2] \notin interrupted'[x[1]]
  BY <1>1, <1>2, <1>3, <1>4 DEF LinedOK
<1>6. \A u \in Threads : \A k \in interrupted'[u] : stage'[u][k] = "async"
  BY <1>1, <1>2 DEF ThreadsOK
<1> QED
  BY <1>1, <1>3, <1>5, <1>6, CalmInv

LEMMA PollGuardInv ==
    ASSUME Shape, ChannelsOK, NEW w \in Waiters, PollGuard(w)
    PROVE  ChannelsOK'
<1>0. w[1] \in Threads /\ w[2] \in Syncers(w[1]) /\ w = <<w[1], w[2]>>
  BY WaiterFacts
<1>1. /\ agenda = <<>> /\ agenda' = <<>> /\ selected[w[1]] = 0 /\ stage[w[1]][w[2]] = "guard"
      /\ UNCHANGED <<queue, nackQueue, nackPosted, pc, interrupted, selected, decided, got>>
  BY DEF PollGuard, Idle
<1>2. \A t \in Threads : \A k \in Syncers(t) :
         stage'[t][k] = IF t = w[1] /\ k = w[2] THEN "plain" ELSE stage[t][k]
  BY <1>0 DEF PollGuard, Shape, ThreadsShape
<1>3. LinesOK /\ LinedOK /\ ThreadsOK
  BY DEF ChannelsOK
<1>4. LinesOK' /\ Lined' = Lined
  BY <1>1, <1>3, SameLined
<1>5. \A x \in Lined : x \in Waiters
  BY LinedType
<1>6. \A x \in Lined' : x[2] # 0 => /\ stage'[x[1]][x[2]] = stage[x[1]][x[2]]
                                    /\ x[2] \notin interrupted'[x[1]]
  <2> SUFFICES ASSUME NEW x \in Lined, x[2] # 0
               PROVE  stage'[x[1]][x[2]] = stage[x[1]][x[2]] /\ x[2] \notin interrupted'[x[1]]
    BY <1>4
  <2>1. stage[x[1]][x[2]] = "async" /\ x[2] \notin interrupted[x[1]]
    BY <1>3 DEF LinedOK
  <2>2. x[1] \in Threads /\ x[2] \in Syncers(x[1])
    BY <1>5, WaiterFacts
  <2> QED
    BY <1>1, <1>2, <2>1, <2>2
<1>7. \A x \in Waiters : stage'[x[1]][x[2]] # stage[x[1]][x[2]] => selected[x[1]] = 0
  BY <1>1, <1>2, WaiterFacts
<1>8. \A u \in Threads : \A k \in interrupted'[u] : stage'[u][k] = "async"
  <2> SUFFICES ASSUME NEW u \in Threads, NEW k \in interrupted[u] PROVE stage'[u][k] = "async"
    BY <1>1
  <2>1. k \in Syncers(u) /\ stage[u][k] = "async"
    BY <1>3 DEF ThreadsOK, Shape, ThreadsShape
  <2> QED
    BY <1>1, <1>2, <2>1
<1> QED
  BY <1>1, <1>4, <1>6, <1>7, <1>8, CalmInv

LEMMA FinishInv ==
    ASSUME Shape, ChannelsOK, NEW t \in Threads, Finish(t)
    PROVE  ChannelsOK'
<1>1. /\ agenda = <<>> /\ agenda' = <<>> /\ selected[t] # 0
      /\ UNCHANGED <<queue, nackQueue, nackPosted, stage, interrupted, selected, decided, got>>
      /\ \A x \in Threads : pc'[x] = IF x = t THEN "done" ELSE pc[x]
  BY DEF Finish, Idle, Shape, ThreadsShape
<1>2. LinesOK /\ LinedOK /\ ThreadsOK
  BY DEF ChannelsOK
<1>3. LinesOK' /\ Lined' = Lined
  BY <1>1, <1>2, SameLined
<1>4. Ops[t] = "sync"
  BY <1>1 DEF Shape, KindsShape
<1>5. \A x \in Lined : x[1] \in Threads /\ x[1] # t
  <2> TAKE x \in Lined
  <2>1. x[1] \in Threads /\ (x[2] = 0 <=> Ops[x[1]] # "sync")
    BY LinedType, WaiterFacts
  <2>2. x[2] # 0 => selected[x[1]] = 0
    BY <1>1, IdleFacts
  <2> QED
    BY <1>1, <1>4, <2>1, <2>2
<1>6. \A x \in Lined' : /\ pc'[x[1]] = pc[x[1]]
                        /\ x[2] # 0 => /\ stage'[x[1]][x[2]] = stage[x[1]][x[2]]
                                       /\ x[2] \notin interrupted'[x[1]]
  BY <1>1, <1>2, <1>3, <1>5 DEF LinedOK
<1>7. \A u \in Threads : \A k \in interrupted'[u] : stage'[u][k] = "async"
  BY <1>1, <1>2 DEF ThreadsOK
<1> QED
  BY <1>1, <1>3, <1>4, <1>6, <1>7, CalmInv

LEMMA OwnWaiters ==
    ASSUME NEW t \in Threads
    PROVE  \A x \in Waiters : x \in Own(t) <=> x[1] = t
<1> TAKE x \in Waiters
<1>1. x = <<x[1], x[2]>> /\ x[2] \in Syncers(x[1])
  BY WaiterFacts
<1>2. x[1] = t => <<x[1], x[2]>> \in Own(t)
  BY <1>1 DEF Own
<1>3. x \in Own(t) => x[1] = t
  BY DEF Own
<1> QED
  BY <1>1, <1>2, <1>3

LEMMA InterruptPlainInv ==
    ASSUME Shape, ChannelsOK, NEW t \in Threads, InterruptPlain(t)
    PROVE  ChannelsOK'
<1>1. /\ agenda = <<>> /\ agenda' = <<>> /\ Ops[t] \in {"get", "put"} /\ pc[t] = "blocked"
      /\ queue' = LeaveQueues(Own(t)) /\ nackQueue' = LeaveNackQueues(Own(t))
      /\ UNCHANGED <<nackPosted, stage, interrupted, selected, decided, got>>
      /\ \A x \in Threads : pc'[x] = IF x = t THEN "start" ELSE pc[x]
  BY DEF InterruptPlain, Idle, Shape, ThreadsShape
<1>2. LinesOK /\ LinedOK /\ ThreadsOK
  BY DEF ChannelsOK
<1>3. LinesOK' /\ Lined' = Lined \ Own(t)
  BY <1>1, <1>2, LeaveLined
<1>4. \A x \in Lined' : x \in Lined /\ x[1] \in Threads /\ x[1] # t
  BY <1>3, LinedType, WaiterFacts, OwnWaiters
<1>5. \A x \in Lined' : /\ pc'[x[1]] = pc[x[1]]
                        /\ x[2] # 0 => /\ stage'[x[1]][x[2]] = stage[x[1]][x[2]]
                                       /\ x[2] \notin interrupted'[x[1]]
  BY <1>1, <1>2, <1>4 DEF LinedOK
<1>6. \A u \in Threads : \A k \in interrupted'[u] : stage'[u][k] = "async"
  BY <1>1, <1>2 DEF ThreadsOK
<1> QED
  BY <1>1, <1>3, <1>4, <1>5, <1>6, CalmInv

LEMMA InterruptSyncInv ==
    ASSUME Shape, ChannelsOK, NEW t \in Threads, InterruptSync(t)
    PROVE  ChannelsOK'
<1>1. /\ agenda = <<>> /\ agenda' = <<>> /\ Ops[t] = "sync"
      /\ queue' = LeaveQueues(Own(t)) /\ nackQueue' = LeaveNackQueues(Own(t))
      /\ UNCHANGED <<nackPosted, pc, stage, selected, decided, got>>
      /\ \A x \in Threads : interrupted'[x] = IF x = t THEN {k \in Syncers(t) : stage[t][k] = "async"}
                                                       ELSE interrupted[x]
  BY DEF InterruptSync, Idle, Shape, ThreadsShape
<1>2. LinesOK /\ LinedOK /\ ThreadsOK
  BY DEF ChannelsOK
<1>3. LinesOK' /\ Lined' = Lined \ Own(t)
  BY <1>1, <1>2, LeaveLined
<1>4. \A x \in Lined' : x \in Lined /\ x[1] \in Threads /\ x[1] # t
  BY <1>3, LinedType, WaiterFacts, OwnWaiters
<1>5. \A x \in Lined' : /\ pc'[x[1]] = pc[x[1]]
                        /\ x[2] # 0 => /\ stage'[x[1]][x[2]] = stage[x[1]][x[2]]
                                       /\ x[2] \notin interrupted'[x[1]]
  BY <1>1, <1>2, <1>4 DEF LinedOK
<1>6. \A u \in Threads : \A k \in interrupted'[u] : stage'[u][k] = "async"
  <2> TAKE u \in Threads
  <2>1. CASE u = t
    <3>1. interrupted'[u] = {k \in Syncers(t) : stage[t][k] = "async"}
      BY <1>1, <2>1
    <3> QED
      BY <1>1, <2>1, <3>1
  <2>2. CASE u # t
    <3>1. interrupted'[u] = interrupted[u]
      BY <1>1, <2>2
    <3> QED
      BY <1>1, <1>2, <3>1 DEF ThreadsOK
  <2> QED
    BY <2>1, <2>2
<1> QED
  BY <1>1, <1>3, <1>4, <1>5, <1>6, CalmInv

LEMMA PlainQueueInv ==
    ASSUME Shape, ChannelsOK, NEW t \in Threads, PlainQueue(t)
    PROVE  ChannelsOK'
<1> DEFINE w == <<t, 0>>
<1>1. /\ agenda = <<>> /\ agenda' = <<>> /\ Ops[t] \in {"get", "put"} /\ pc[t] = "start" /\ Enqueue(w)
      /\ UNCHANGED <<nackQueue, nackPosted, stage, interrupted, selected, decided, got>>
      /\ \A x \in Threads : pc'[x] = IF x = t THEN "blocked" ELSE pc[x]
  BY DEF PlainQueue, Idle, Shape, ThreadsShape
<1>2. w \in Waiters /\ w \in Liners /\ Event(w).kind # "nack" /\ w[1] = t /\ w[2] = 0
  BY <1>1, PlainFacts DEF Liners
<1>3. LinesOK /\ LinedOK /\ ThreadsOK /\ NacksOK /\ BoxesOK /\ PairsOK
  BY DEF ChannelsOK
<1>4. /\ Jobs = {}
      /\ \A x \in Lined : x[2] # 0 => selected[x[1]] = 0
      /\ \A x \in Paired : x \in Waiters /\ Completed(x)
  BY <1>1, IdleFacts
<1> HIDE DEF w
<1>5. w \notin Lined
  BY <1>1, <1>2, <1>3 DEF LinedOK
<1>6. LinesOK' /\ Lined' = Lined \cup {w}
  BY <1>1, <1>2, <1>3, <1>5, JoinLined
<1>7. Jobs' = {} /\ JobsOK' /\ InOrder(agenda')
  BY <1>1, NoJobs
<1>8. BoxesOK' /\ Paired' = Paired
  BY <1>1, <1>3, SamePaired
<1>9. LinedOK'
  <2>1. w \notin Paired
    BY <1>1, <1>2, <1>4 DEF Completed
  <2>2. \A x \in Lined : x[1] \in Threads /\ x[1] # t
    <3> TAKE x \in Lined
    <3>1. x[1] \in Threads /\ (x[2] = 0 <=> Ops[x[1]] # "sync")
      BY LinedType, WaiterFacts
    <3> QED
      BY <1>1, <1>3, <3>1 DEF LinedOK
  <2> SUFFICES ASSUME NEW x \in Lined \cup {w}
               PROVE  /\ x \notin Paired'
                      /\ x[2] = 0 => Ops[x[1]] # "commit" /\ pc'[x[1]] = "blocked"
                      /\ x[2] # 0 =>
                            /\ stage'[x[1]][x[2]] = "async" /\ x[2] \notin interrupted'[x[1]]
                            /\ pc'[x[1]] \in {"poll", "blocked"}
                            /\ selected'[x[1]] = 0 \/ <<"lose", x>> \in Jobs'
    BY <1>6 DEF LinedOK
  <2>3. CASE x = w
    BY <1>1, <1>2, <1>8, <2>1, <2>3
  <2>4. CASE x \in Lined
    BY <1>1, <1>3, <1>4, <1>8, <2>2, <2>4 DEF LinedOK
  <2> QED
    BY <2>3, <2>4
<1>10. ThreadsOK' /\ NacksOK'
  BY <1>1, <1>3, <1>4, <1>7 DEF ThreadsOK, NacksOK
<1>11. PairsOK'
  <2> SUFFICES ASSUME NEW x \in Waiters
               PROVE  /\ x \in Paired' => Completed(x)' \/ <<"resume", x>> \in Jobs' \/ <<"select", x>> \in Jobs'
                      /\ Event(x).kind # "nack" /\ Completed(x)' => x \in Paired'
    BY DEF PairsOK
  <2>1. x[1] \in Threads
    BY WaiterFacts
  <2>2. Completed(x)' <=> Completed(x)
    BY <1>1, <2>1 DEF Completed
  <2> QED
    BY <1>3, <1>4, <1>8, <2>2 DEF PairsOK
<1> QED
  BY <1>6, <1>7, <1>8, <1>9, <1>10, <1>11 DEF ChannelsOK

LEMMA RetryInv ==
    ASSUME Shape, ChannelsOK, NEW t \in Threads, Retry(t)
    PROVE  ChannelsOK'
<1>1. /\ agenda = <<>> /\ agenda' = Each("retry", t, interrupted[t])
      /\ pc[t] \in {"poll", "blocked"} /\ interrupted[t] # {}
      /\ UNCHANGED <<queue, nackQueue, nackPosted, pc, stage, interrupted, selected, decided, got>>
  BY DEF Retry, Idle
<1>2. LinesOK /\ LinedOK /\ ThreadsOK
  BY DEF ChannelsOK
<1>3. LinesOK' /\ Lined' = Lined
  BY <1>1, <1>2, SameLined
<1>4. Ops[t] = "sync" /\ interrupted[t] \in SUBSET Syncers(t)
  BY <1>1 DEF Shape, KindsShape, ThreadsShape
<1>5. \A x \in Lined' : x[2] # 0 => /\ stage'[x[1]][x[2]] = stage[x[1]][x[2]]
                                    /\ x[2] \notin interrupted'[x[1]]
  BY <1>1, <1>2, <1>3 DEF LinedOK
<1>6. \A u \in Threads : \A k \in interrupted'[u] : stage'[u][k] = "async"
  BY <1>1, <1>2 DEF ThreadsOK
<1>7. LinedOK' /\ ThreadsOK' /\ NacksOK' /\ BoxesOK' /\ PairsOK'
  BY <1>1, <1>3, <1>5, <1>6, CalmRest
<1>8. /\ agenda' \in Seq(Tasks \X Subjects)
      /\ Jobs' = {<<"retry", <<t, k>>>> : k \in interrupted[t]}
      /\ NoTwice(agenda')
  <2>1. interrupted[t] \in SUBSET (1..Len(Args[t])) /\ "retry" \in Tasks
    BY <1>4, WaiterFacts DEF Tasks
  <2> QED
    BY <1>1, <1>4, <2>1, EachEntries DEF Jobs
<1>9. InOrder(agenda')
  <2>1. \A x, y \in Entries(agenda') : x # y => Clear(x, y)
    <3> SUFFICES ASSUME NEW x \in Jobs', NEW y \in Jobs', x # y PROVE Clear(x, y)
      BY DEF Jobs
    <3>1. x[1] = "retry" /\ y[1] = "retry"
      BY <1>8
    <3> QED
      BY <3>1 DEF Clear
  <2> QED
    BY <1>8, <2>1, AllInOrder
<1>10. JobsOK'
  <2> SUFFICES ASSUME NEW x \in Subjects
               PROVE  /\ <<"resume", x>> \in Jobs' => ResumeOK(x)'
                      /\ <<"select", x>> \in Jobs' => SelectOK(x)'
                      /\ <<"lose", x>> \in Jobs' => LoseOK(x)'
                      /\ <<"post", x>> \in Jobs' => PostOK(x)'
                      /\ <<"retry", x>> \in Jobs' => RetryOK(x)'
    BY DEF JobsOK
  <2>1. /\ <<"resume", x>> \notin Jobs' /\ <<"select", x>> \notin Jobs'
        /\ <<"lose", x>> \notin Jobs' /\ <<"post", x>> \notin Jobs'
    BY <1>8
  <2>2. ASSUME <<"retry", x>> \in Jobs' PROVE RetryOK(x)'
    <3>1. PICK k \in interrupted[t] : x = <<t, k>>
      BY <1>8, <2>2
    <3>2. x[1] = t /\ x[2] = k
      BY <3>1
    <3> QED
      BY <1>1, <1>2, <3>2 DEF RetryOK, ThreadsOK
  <2> QED
    BY <2>1, <2>2
<1> QED
  BY <1>3, <1>7, <1>9, <1>10 DEF ChannelsOK

LEMMA KillInv ==
    ASSUME Shape, ChannelsOK, NEW t \in Threads, Kill(t)
    PROVE  ChannelsOK'
<1>1. /\ agenda = <<>> /\ pc[t] \in {"start", "poll", "blocked"}
      /\ queue' = LeaveQueues(Own(t)) /\ nackQueue' = LeaveNackQueues(Own(t))
      /\ UNCHANGED <<nackPosted, stage, interrupted, selected, decided, got>>
      /\ \A x \in Threads : pc'[x] = IF x = t THEN "dead" ELSE pc[x]
      /\ agenda' = IF Ops[t] = "sync" /\ selected[t] = 0
                   THEN <<<<"select", <<t, NoneSyncer>>>>>> ELSE <<>>
  BY DEF Kill, Idle, Shape, ThreadsShape
<1>2. LinesOK /\ LinedOK /\ ThreadsOK
  BY DEF ChannelsOK
<1>3. LinesOK' /\ Lined' = Lined \ Own(t)
  BY <1>1, <1>2, LeaveLined
<1>4. \A x \in Lined' : x \in Lined /\ x[1] \in Threads /\ x[1] # t
  BY <1>3, LinedType, WaiterFacts, OwnWaiters
<1>5. \A x \in Lined' : /\ pc'[x[1]] = pc[x[1]]
                        /\ x[2] # 0 => /\ stage'[x[1]][x[2]] = stage[x[1]][x[2]]
                                       /\ x[2] \notin interrupted'[x[1]]
  BY <1>1, <1>2, <1>4 DEF LinedOK
<1>6. \A u \in Threads : \A k \in interrupted'[u] : stage'[u][k] = "async"
  BY <1>1, <1>2 DEF ThreadsOK
<1>7. LinedOK' /\ ThreadsOK' /\ NacksOK' /\ BoxesOK' /\ PairsOK'
  BY <1>1, <1>3, <1>4, <1>5, <1>6, CalmRest
<1>8. JobsOK' /\ InOrder(agenda')
  <2>1. CASE agenda' = <<>>
    BY <2>1, NoJobs
  <2>2. CASE Ops[t] = "sync" /\ selected[t] = 0 /\ agenda' = <<<<"select", <<t, NoneSyncer>>>>>>
    <3> DEFINE w == <<t, NoneSyncer>>
    <3>1. w \in Subjects /\ w \notin Waiters /\ w[1] = t /\ w[2] # 0
      BY SubjectFacts DEF NoneSyncer
    <3> HIDE DEF w
    <3>2. Jobs' = {<<"select", w>>} /\ InOrder(agenda')
      BY <2>2, OneJob DEF w
    <3>3. w \notin Lined'
      BY <1>3, <3>1, LinedType
    <3>4. SelectOK(w)'
      BY <1>1, <2>2, <3>1, <3>3 DEF SelectOK
    <3>5. \A x \in Subjects : /\ <<"resume", x>> \notin Jobs' /\ <<"lose", x>> \notin Jobs'
                              /\ <<"post", x>> \notin Jobs' /\ <<"retry", x>> \notin Jobs'
                              /\ <<"select", x>> \in Jobs' => x = w
      BY <3>2
    <3> QED
      BY <3>2, <3>4, <3>5 DEF JobsOK
  <2> QED
    BY <1>1, <2>1, <2>2
<1> QED
  BY <1>3, <1>7, <1>8 DEF ChannelsOK

-----------------------------------------------------------------------------
(* The tasks of an atomic section. *)

LEMMA JobTypes ==
    ASSUME Shape
    PROVE  /\ \A x : <<"resume", x>> \in Jobs => x \in Liners /\ x \in Subjects
           /\ \A x : <<"select", x>> \in Jobs => x \in Subjects /\ Ops[x[1]] = "sync"
           /\ \A x : <<"lose", x>> \in Jobs => x \in Waiters /\ x \in Subjects /\ Ops[x[1]] = "sync"
           /\ \A x : <<"post", x>> \in Jobs => x \in Waiters /\ x \in Subjects /\ Ops[x[1]] = "sync"
           /\ \A x : <<"retry", x>> \in Jobs => x \in Waiters /\ x \in Subjects /\ Ops[x[1]] = "sync"
           /\ \A y \in Jobs : y \in Tasks \X Subjects
<1>1. \A y \in Jobs : JobShape(y)
  BY DEF Shape, AgendaShape, Jobs
<1>2. \A y \in Jobs : y \in Tasks \X Subjects
  BY <1>1 DEF JobShape
<1>3. ASSUME NEW j, NEW x, <<j, x>> \in Jobs
      PROVE  /\ j = "resume" => x \in Liners
             /\ j # "select" => x \in Waiters
             /\ j # "resume" => Ops[x[1]] = "sync"
             /\ x \in Subjects
  <2>1. <<j, x>>[1] = j /\ <<j, x>>[2] = x
    OBVIOUS
  <2>2. JobShape(<<j, x>>)
    BY <1>1, <1>3
  <2>3. <<j, x>> \in Tasks \X Subjects
    BY <1>2, <1>3
  <2>4. x \in Subjects
    BY <2>3
  <2> QED
    BY <2>1, <2>2, <2>4 DEF JobShape
<1> QED
  BY <1>2, <1>3

LEMMA ApartFacts ==
    ASSUME NacksApart
    PROVE  /\ \A w \in Subjects, u \in Waiters : Loses(w, u) =>
                 <<w, u[1]>> \in Leads /\ \A t \in Threads : <<u, t>> \in Leads => <<w, t>> \in Leads
           /\ \A w \in Subjects : <<w, w[1]>> \notin Leads
           /\ \A w, p \in Waiters :
                 /\ Event(w).kind # "nack" /\ Event(p).kind # "nack"
                 /\ Side(p) = OtherSide(w) /\ w[1] # p[1]
                 => <<p, w[1]>> \notin Leads
<1>1. Apart(Leads)
  BY DEF NacksApart, Leads
<1> QED
  BY <1>1 DEF Apart, Subjects

\* What is left after the first task.
LEMMA RestFacts ==
    ASSUME Shape, ChannelsOK, agenda # <<>>
    PROVE  /\ Tail(agenda) \in Seq(Tasks \X Subjects)
           /\ Jobs = {Head(agenda)} \cup Entries(Tail(agenda))
           /\ InOrder(Tail(agenda))
           /\ \A y \in Entries(Tail(agenda)) : Clear(Head(agenda), y)
           /\ \A y \in Entries(Tail(agenda)) : y[1] # "resume"
<1>1. agenda \in Seq(Tasks \X Subjects) /\ InOrder(agenda)
  BY DEF Shape, AgendaShape, ChannelsOK
<1>2. /\ Tail(agenda) \in Seq(Tasks \X Subjects)
      /\ Jobs = {Head(agenda)} \cup Entries(Tail(agenda))
  BY <1>1, TailEntries DEF Jobs
<1>3. InOrder(Tail(agenda)) /\ \A y \in Entries(Tail(agenda)) : Clear(Head(agenda), y)
  BY <1>1, TailInOrder
<1> QED
  BY <1>2, <1>3 DEF Clear

LEMMA ResumeThreadInv ==
    ASSUME Shape, ChannelsOK, NEW w \in Subjects, ResumeThread(w)
    PROVE  ChannelsOK'
<1>1. /\ agenda # <<>> /\ Head(agenda) = <<"resume", w>> /\ w[2] = 0 /\ agenda' = Tail(agenda)
      /\ UNCHANGED <<queue, nackQueue, nackPosted, stage, interrupted, selected, decided, got>>
  BY DEF ResumeThread
<1>2. LinesOK /\ JobsOK /\ LinedOK /\ ThreadsOK /\ NacksOK /\ BoxesOK /\ PairsOK
  BY DEF ChannelsOK
<1>3. w \in Waiters /\ w[1] \in Threads /\ Ops[w[1]] # "sync" /\ (\A x \in Waiters : x[1] = w[1] => x = w)
  <2>1. w \in Waiters
    BY <1>1, HeadResume
  <2>2. w[1] \in Threads /\ Ops[w[1]] # "sync" /\ w = <<w[1], w[2]>>
    BY <1>1, <2>1, WaiterFacts
  <2>3. ASSUME NEW x \in Waiters, x[1] = w[1] PROVE x = w
    <3>1. x = <<x[1], x[2]>> /\ x[2] = 0
      BY <2>2, <2>3, WaiterFacts
    <3> QED
      BY <1>1, <2>2, <2>3, <3>1
  <2> QED
    BY <2>1, <2>2, <2>3
<1>4. /\ Jobs = {<<"resume", w>>} \cup Jobs'
      /\ InOrder(agenda') /\ \A x : <<"resume", x>> \notin Jobs'
  BY <1>1, RestFacts DEF Jobs
<1>5. ResumeOK(w)
  BY <1>2, <1>4 DEF JobsOK
<1>6. \A x \in Threads : pc'[x] = IF x = w[1] THEN "done" ELSE pc[x]
  BY DEF ResumeThread, Shape, ThreadsShape
<1>7. LinesOK' /\ Lined' = Lined /\ BoxesOK' /\ Paired' = Paired
  BY <1>1, <1>2, SameLined, SamePaired
<1>8. JobsOK'
  <2> SUFFICES ASSUME NEW x \in Subjects
               PROVE  /\ <<"resume", x>> \in Jobs' => ResumeOK(x)'
                      /\ <<"select", x>> \in Jobs' => SelectOK(x)'
                      /\ <<"lose", x>> \in Jobs' => LoseOK(x)'
                      /\ <<"post", x>> \in Jobs' => PostOK(x)'
                      /\ <<"retry", x>> \in Jobs' => RetryOK(x)'
    BY DEF JobsOK
  <2>1. <<"select", x>> \in Jobs' => SelectOK(x)'
    BY <1>1, <1>2, <1>4, <1>7 DEF JobsOK, SelectOK
  <2>2. <<"lose", x>> \in Jobs' => LoseOK(x)'
    BY <1>1, <1>2, <1>4 DEF JobsOK, LoseOK
  <2>3. <<"post", x>> \in Jobs' => PostOK(x)'
    BY <1>1, <1>2, <1>4 DEF JobsOK, PostOK, LoseOK
  <2>4. ASSUME <<"retry", x>> \in Jobs' PROVE RetryOK(x)'
    <3>1. RetryOK(x) /\ Ops[x[1]] = "sync" /\ x \in Waiters
      BY <1>2, <1>4, <2>4, JobTypes DEF JobsOK
    <3>2. pc'[x[1]] = pc[x[1]]
      BY <1>3, <1>6, <3>1, WaiterFacts
    <3> QED
      BY <1>1, <3>1, <3>2 DEF RetryOK
  <2> QED
    BY <1>4, <2>1, <2>2, <2>3, <2>4
<1>9. LinedOK'
  <2> SUFFICES ASSUME NEW x \in Lined
               PROVE  /\ x \notin Paired'
                      /\ x[2] = 0 => Ops[x[1]] # "commit" /\ pc'[x[1]] = "blocked"
                      /\ x[2] # 0 =>
                            /\ stage'[x[1]][x[2]] = "async" /\ x[2] \notin interrupted'[x[1]]
                            /\ pc'[x[1]] \in {"poll", "blocked"}
                            /\ selected'[x[1]] = 0 \/ <<"lose", x>> \in Jobs'
    BY <1>7 DEF LinedOK
  <2>1. x \in Waiters /\ x # w /\ x[1] # w[1] /\ x[1] \in Threads
    BY <1>3, <1>5, LinedType, WaiterFacts DEF ResumeOK
  <2>2. <<"lose", x>> \in Jobs => <<"lose", x>> \in Jobs'
    BY <1>4
  <2> QED
    BY <1>1, <1>2, <1>6, <1>7, <2>1, <2>2 DEF LinedOK
<1>10. ThreadsOK'
  BY <1>1, <1>2 DEF ThreadsOK
<1>11. NacksOK'
  <2>1. \A x : /\ <<"lose", x>> \in Jobs => <<"lose", x>> \in Jobs'
               /\ <<"post", x>> \in Jobs => <<"post", x>> \in Jobs'
    BY <1>4
  <2> QED
    BY <1>1, <1>2, <2>1 DEF NacksOK
<1>12. PairsOK'
  <2> SUFFICES ASSUME NEW x \in Waiters
               PROVE  /\ x \in Paired' => Completed(x)' \/ <<"resume", x>> \in Jobs' \/ <<"select", x>> \in Jobs'
                      /\ Event(x).kind # "nack" /\ Completed(x)' => x \in Paired'
    BY DEF PairsOK
  <2>1. CASE x = w
    BY <1>1, <1>3, <1>5, <1>6, <1>7, <2>1 DEF Completed, ResumeOK
  <2>2. CASE x # w
    <3>1. x[1] # w[1] /\ x[1] \in Threads
      BY <1>3, <2>2, WaiterFacts
    <3>2. Completed(x)' <=> Completed(x)
      BY <1>1, <1>6, <3>1 DEF Completed
    <3>3. /\ <<"resume", x>> \in Jobs => <<"resume", x>> \in Jobs'
          /\ <<"select", x>> \in Jobs => <<"select", x>> \in Jobs'
      BY <1>4, <2>2
    <3> QED
      BY <1>2, <1>7, <3>2, <3>3 DEF PairsOK
  <2> QED
    BY <2>1, <2>2
<1> QED
  BY <1>4, <1>7, <1>8, <1>9, <1>10, <1>11, <1>12 DEF ChannelsOK

\* A task is put before what is left.
LEMMA ConsJobs ==
    ASSUME NEW x \in Tasks \X Subjects, NEW s \in Seq(Tasks \X Subjects), agenda' = <<x>> \o s,
           InOrder(s), \A y \in Entries(s) : Clear(x, y)
    PROVE  Jobs' = {x} \cup Entries(s) /\ InOrder(agenda')
<1>1. Entries(<<x>> \o s) = {x} \cup Entries(s)
  BY ConsEntries
<1>2. InOrder(<<x>> \o s)
  BY ConsInOrder
<1> QED
  BY <1>1, <1>2 DEF Jobs

LEMMA ConsSelect ==
    ASSUME NEW w \in Subjects, NEW s \in Seq(Tasks \X Subjects), agenda' = <<<<"select", w>>>> \o s,
           InOrder(s), \A y \in Entries(s) : Clear(<<"select", w>>, y)
    PROVE  Jobs' = {<<"select", w>>} \cup Entries(s) /\ InOrder(agenda')
<1>0. <<"select", w>> \in Tasks \X Subjects
  BY DEF Tasks
<1>1. PICK x \in Tasks \X Subjects : x = <<"select", w>>
  BY <1>0, Zenon
<1>2. agenda' = <<x>> \o s /\ \A y \in Entries(s) : Clear(x, y)
  BY <1>1
<1>3. Jobs' = {x} \cup Entries(s) /\ InOrder(agenda')
  BY <1>2, ConsJobs
<1> QED
  BY <1>1, <1>3

\* Steps that only change the agenda.
LEMMA SameRest ==
    ASSUME ChannelsOK, UNCHANGED <<queue, nackQueue, nackPosted, pc, stage, interrupted, selected, decided, got>>,
           \A x : /\ <<"lose", x>> \in Jobs => <<"lose", x>> \in Jobs'
                  /\ <<"post", x>> \in Jobs => <<"post", x>> \in Jobs'
                  /\ <<"resume", x>> \in Jobs => <<"resume", x>> \in Jobs' \/ <<"select", x>> \in Jobs'
                  /\ <<"select", x>> \in Jobs => <<"select", x>> \in Jobs'
    PROVE  /\ LinesOK' /\ LinedOK' /\ ThreadsOK' /\ NacksOK' /\ BoxesOK' /\ PairsOK'
           /\ Lined' = Lined /\ Paired' = Paired
           /\ \A x \in Subjects : /\ <<"resume", x>> \in Jobs => ResumeOK(x)'
                                  /\ <<"select", x>> \in Jobs => SelectOK(x)'
                                  /\ <<"lose", x>> \in Jobs => LoseOK(x)'
                                  /\ <<"post", x>> \in Jobs => PostOK(x)'
                                  /\ <<"retry", x>> \in Jobs => RetryOK(x)'
<1>1. LinesOK /\ JobsOK /\ LinedOK /\ ThreadsOK /\ NacksOK /\ BoxesOK /\ PairsOK
  BY DEF ChannelsOK
<1>2. LinesOK' /\ Lined' = Lined /\ BoxesOK' /\ Paired' = Paired
  BY <1>1, SameLined, SamePaired
<1>3. LinedOK'
  BY <1>1, <1>2 DEF LinedOK
<1>4. ThreadsOK' /\ NacksOK'
  BY <1>1 DEF ThreadsOK, NacksOK
<1>5. \A x : Completed(x)' <=> Completed(x)
  BY DEF Completed
<1>6. PairsOK'
  BY <1>1, <1>2, <1>5 DEF PairsOK
<1>7. ASSUME NEW x \in Subjects
      PROVE  /\ <<"resume", x>> \in Jobs => ResumeOK(x)'
             /\ <<"select", x>> \in Jobs => SelectOK(x)'
             /\ <<"lose", x>> \in Jobs => LoseOK(x)'
             /\ <<"post", x>> \in Jobs => PostOK(x)'
             /\ <<"retry", x>> \in Jobs => RetryOK(x)'
  <2>1. <<"resume", x>> \in Jobs => ResumeOK(x)'
    BY <1>1, <1>2 DEF JobsOK, ResumeOK
  <2>2. <<"select", x>> \in Jobs => SelectOK(x)'
    BY <1>1, <1>2 DEF JobsOK, SelectOK
  <2>3. <<"lose", x>> \in Jobs => LoseOK(x)'
    BY <1>1 DEF JobsOK, LoseOK
  <2>4. <<"post", x>> \in Jobs => PostOK(x)'
    BY <1>1 DEF JobsOK, PostOK, LoseOK
  <2>5. <<"retry", x>> \in Jobs => RetryOK(x)'
    BY <1>1 DEF JobsOK, RetryOK
  <2> QED
    BY <2>1, <2>2, <2>3, <2>4, <2>5
<1> QED
  BY <1>2, <1>3, <1>4, <1>6, <1>7

LEMMA ResumeSyncerInv ==
    ASSUME Shape, ChannelsOK, NEW w \in Subjects, ResumeSyncer(w)
    PROVE  ChannelsOK'
<1>1. /\ agenda # <<>> /\ Head(agenda) = <<"resume", w>> /\ w[2] # 0
      /\ agenda' = <<<<"select", w>>>> \o Tail(agenda)
      /\ UNCHANGED <<queue, nackQueue, nackPosted, pc, stage, interrupted, selected, decided, got>>
  BY DEF ResumeSyncer
<1>2. /\ Tail(agenda) \in Seq(Tasks \X Subjects)
      /\ Jobs = {<<"resume", w>>} \cup Entries(Tail(agenda))
      /\ InOrder(Tail(agenda))
      /\ \A y \in Entries(Tail(agenda)) : Clear(<<"resume", w>>, y)
      /\ \A y \in Entries(Tail(agenda)) : y[1] # "resume"
  BY <1>1, RestFacts
<1>3. \A y \in Entries(Tail(agenda)) : Clear(<<"select", w>>, y)
  BY <1>2 DEF Clear, Selects
<1>4. Jobs' = {<<"select", w>>} \cup Entries(Tail(agenda)) /\ InOrder(agenda')
  BY <1>1, <1>2, <1>3, ConsSelect
<1>6. \A x : /\ <<"lose", x>> \in Jobs => <<"lose", x>> \in Jobs'
             /\ <<"post", x>> \in Jobs => <<"post", x>> \in Jobs'
             /\ <<"resume", x>> \in Jobs => <<"resume", x>> \in Jobs' \/ <<"select", x>> \in Jobs'
             /\ <<"select", x>> \in Jobs => <<"select", x>> \in Jobs'
  BY <1>2, <1>4
<1>7. /\ LinesOK' /\ LinedOK' /\ ThreadsOK' /\ NacksOK' /\ BoxesOK' /\ PairsOK'
      /\ Lined' = Lined /\ Paired' = Paired
      /\ \A x \in Subjects : /\ <<"resume", x>> \in Jobs => ResumeOK(x)'
                             /\ <<"select", x>> \in Jobs => SelectOK(x)'
                             /\ <<"lose", x>> \in Jobs => LoseOK(x)'
                             /\ <<"post", x>> \in Jobs => PostOK(x)'
                             /\ <<"retry", x>> \in Jobs => RetryOK(x)'
  BY <1>1, <1>6, SameRest
<1>8. SelectOK(w)'
  <2>1. ResumeOK(w)
    BY <1>2 DEF ChannelsOK, JobsOK
  <2> QED
    BY <1>1, <1>7, <2>1 DEF ResumeOK, SelectOK
<1>9. \A x \in Subjects :
         /\ <<"resume", x>> \in Jobs' => <<"resume", x>> \in Jobs
         /\ <<"select", x>> \in Jobs' => <<"select", x>> \in Jobs \/ x = w
         /\ <<"lose", x>> \in Jobs' => <<"lose", x>> \in Jobs
         /\ <<"post", x>> \in Jobs' => <<"post", x>> \in Jobs
         /\ <<"retry", x>> \in Jobs' => <<"retry", x>> \in Jobs
  BY <1>2, <1>4
<1>10. JobsOK'
  BY <1>7, <1>8, <1>9 DEF JobsOK
<1> QED
  BY <1>4, <1>7, <1>10 DEF ChannelsOK

LEMMA RetrySkipInv ==
    ASSUME Shape, ChannelsOK, NEW w \in Subjects, RetrySkip(w)
    PROVE  ChannelsOK'
<1>1. /\ agenda # <<>> /\ Head(agenda) = <<"retry", w>> /\ agenda' = Tail(agenda)
      /\ UNCHANGED <<queue, nackQueue, nackPosted, pc, stage, interrupted, selected, decided, got>>
  BY DEF RetrySkip
<1>2. Jobs = {<<"retry", w>>} \cup Jobs' /\ InOrder(agenda')
  BY <1>1, RestFacts DEF Jobs
<1>6. \A x : /\ <<"lose", x>> \in Jobs => <<"lose", x>> \in Jobs'
             /\ <<"post", x>> \in Jobs => <<"post", x>> \in Jobs'
             /\ <<"resume", x>> \in Jobs => <<"resume", x>> \in Jobs' \/ <<"select", x>> \in Jobs'
             /\ <<"select", x>> \in Jobs => <<"select", x>> \in Jobs'
  BY <1>2
<1>7. /\ LinesOK' /\ LinedOK' /\ ThreadsOK' /\ NacksOK' /\ BoxesOK' /\ PairsOK'
      /\ \A x \in Subjects : /\ <<"resume", x>> \in Jobs => ResumeOK(x)'
                             /\ <<"select", x>> \in Jobs => SelectOK(x)'
                             /\ <<"lose", x>> \in Jobs => LoseOK(x)'
                             /\ <<"post", x>> \in Jobs => PostOK(x)'
                             /\ <<"retry", x>> \in Jobs => RetryOK(x)'
  BY <1>1, <1>6, SameRest
<1>8. JobsOK'
  BY <1>2, <1>7 DEF JobsOK
<1> QED
  BY <1>2, <1>7, <1>8 DEF ChannelsOK

LEMMA PostLastInv ==
    ASSUME Shape, ChannelsOK, NEW w \in Subjects, PostLast(w)
    PROVE  ChannelsOK'
<1>1. /\ agenda # <<>> /\ Head(agenda) = <<"post", w>> /\ agenda' = Tail(agenda)
      /\ nackPosted' = nackPosted \cup {w}
      /\ UNCHANGED <<queue, nackQueue, pc, stage, interrupted, selected, decided, got>>
  BY DEF PostLast
<1>2. Jobs = {<<"post", w>>} \cup Jobs' /\ InOrder(agenda')
  BY <1>1, RestFacts DEF Jobs
<1>3. LinesOK /\ JobsOK /\ LinedOK /\ ThreadsOK /\ NacksOK /\ BoxesOK /\ PairsOK
  BY DEF ChannelsOK
<1>4. PostOK(w)
  BY <1>2, <1>3 DEF JobsOK
<1>5. LinesOK' /\ Lined' = Lined /\ BoxesOK' /\ Paired' = Paired
  BY <1>1, <1>3, SameLined, SamePaired
<1>6. \A x : /\ <<"lose", x>> \in Jobs => <<"lose", x>> \in Jobs'
             /\ <<"post", x>> \in Jobs => <<"post", x>> \in Jobs' \/ x = w
             /\ <<"resume", x>> \in Jobs => <<"resume", x>> \in Jobs'
             /\ <<"select", x>> \in Jobs => <<"select", x>> \in Jobs'
  BY <1>2
<1>7. LinedOK' /\ ThreadsOK'
  BY <1>1, <1>3, <1>5, <1>6 DEF LinedOK, ThreadsOK
<1>8. NacksOK'
  <2> SUFFICES ASSUME NEW x \in Waiters
               PROVE  /\ x \in nackPosted' => selected'[x[1]] \notin {0, x[2]}
                      /\ (Event(x).guard /\ stage'[x[1]][x[2]] # "guard" /\ selected'[x[1]] \notin {0, x[2]}
                            => x \in nackPosted' \/ <<"lose", x>> \in Jobs' \/ <<"post", x>> \in Jobs')
    BY DEF NacksOK
  <2> QED
    BY <1>1, <1>3, <1>4, <1>6 DEF NacksOK, PostOK, LoseOK
<1>9. PairsOK'
  <2>1. \A x : Completed(x)' <=> Completed(x)
    BY <1>1 DEF Completed
  <2> QED
    BY <1>3, <1>5, <1>6, <2>1 DEF PairsOK
<1>10. JobsOK'
  <2> SUFFICES ASSUME NEW x \in Subjects
               PROVE  /\ <<"resume", x>> \in Jobs' => ResumeOK(x)'
                      /\ <<"select", x>> \in Jobs' => SelectOK(x)'
                      /\ <<"lose", x>> \in Jobs' => LoseOK(x)'
                      /\ <<"post", x>> \in Jobs' => PostOK(x)'
                      /\ <<"retry", x>> \in Jobs' => RetryOK(x)'
    BY DEF JobsOK
  <2>1. <<"resume", x>> \in Jobs' => ResumeOK(x)'
    BY <1>1, <1>2, <1>3, <1>5 DEF JobsOK, ResumeOK
  <2>2. <<"select", x>> \in Jobs' => SelectOK(x)'
    BY <1>1, <1>2, <1>3, <1>5 DEF JobsOK, SelectOK
  <2>3. <<"lose", x>> \in Jobs' => LoseOK(x)'
    BY <1>1, <1>2, <1>3 DEF JobsOK, LoseOK
  <2>4. <<"post", x>> \in Jobs' => PostOK(x)'
    BY <1>1, <1>2, <1>3 DEF JobsOK, PostOK, LoseOK
  <2>5. <<"retry", x>> \in Jobs' => RetryOK(x)'
    BY <1>1, <1>2, <1>3 DEF JobsOK, RetryOK
  <2> QED
    BY <2>1, <2>2, <2>3, <2>4, <2>5
<1> QED
  BY <1>2, <1>5, <1>7, <1>8, <1>9, <1>10 DEF ChannelsOK

LEMMA LoseTaskInv ==
    ASSUME Shape, ChannelsOK, NEW w \in Subjects, LoseTask(w)
    PROVE  ChannelsOK'
<1> DEFINE Posts == Event(w).guard /\ stage[w[1]][w[2]] # "guard"
<1>1. /\ agenda # <<>> /\ Head(agenda) = <<"lose", w>>
      /\ queue' = LeaveQueues({w}) /\ nackQueue' = LeaveNackQueues({w})
      /\ agenda' = IF Posts THEN <<<<"post", w>>>> \o Tail(agenda) ELSE Tail(agenda)
      /\ UNCHANGED <<nackPosted, pc, stage, interrupted, selected, decided, got>>
  BY DEF LoseTask
<1> HIDE DEF Posts
<1>2. LinesOK /\ JobsOK /\ LinedOK /\ ThreadsOK /\ NacksOK /\ BoxesOK /\ PairsOK
  BY DEF ChannelsOK
<1>3. /\ Tail(agenda) \in Seq(Tasks \X Subjects)
      /\ Jobs = {<<"lose", w>>} \cup Entries(Tail(agenda))
      /\ InOrder(Tail(agenda))
      /\ \A y \in Entries(Tail(agenda)) : Clear(<<"lose", w>>, y)
  BY <1>1, RestFacts
<1>4. /\ InOrder(agenda')
      /\ Jobs' = (IF Posts THEN {<<"post", w>>} ELSE {}) \cup Entries(Tail(agenda))
  <2>1. CASE Posts
    <3>0. <<"post", w>> \in Tasks \X Subjects
      BY DEF Tasks
    <3>1. PICK x \in Tasks \X Subjects : x = <<"post", w>>
      BY <3>0, Zenon
    <3>2. agenda' = <<x>> \o Tail(agenda)
      BY <1>1, <2>1, <3>1
    <3>3. \A y \in Entries(Tail(agenda)) : Clear(x, y)
      BY <1>3, <3>1 DEF Clear, Selects
    <3>4. Jobs' = {x} \cup Entries(Tail(agenda)) /\ InOrder(agenda')
      BY <1>3, <3>2, <3>3, ConsJobs
    <3> QED
      BY <2>1, <3>1, <3>4
  <2>2. CASE ~Posts
    BY <1>1, <1>3, <2>2 DEF Jobs
  <2> QED
    BY <2>1, <2>2
<1>5. \A x : /\ <<"resume", x>> \in Jobs' <=> <<"resume", x>> \in Jobs
             /\ <<"select", x>> \in Jobs' <=> <<"select", x>> \in Jobs
             /\ <<"retry", x>> \in Jobs' <=> <<"retry", x>> \in Jobs
             /\ <<"lose", x>> \in Jobs' => <<"lose", x>> \in Jobs
             /\ <<"lose", x>> \in Jobs => <<"lose", x>> \in Jobs' \/ x = w
             /\ <<"post", x>> \in Jobs => <<"post", x>> \in Jobs'
             /\ <<"post", x>> \in Jobs' => <<"post", x>> \in Jobs \/ (x = w /\ Posts)
  BY <1>3, <1>4
<1>6. Posts => <<"post", w>> \in Jobs'
  BY <1>4
<1>7. LinesOK' /\ Lined' = Lined \ {w} /\ BoxesOK' /\ Paired' = Paired
  BY <1>1, <1>2, LeaveLined, SamePaired
<1>8. LoseOK(w)
  BY <1>2, <1>3 DEF JobsOK
<1>9. JobsOK'
  <2> SUFFICES ASSUME NEW x \in Subjects
               PROVE  /\ <<"resume", x>> \in Jobs' => ResumeOK(x)'
                      /\ <<"select", x>> \in Jobs' => SelectOK(x)'
                      /\ <<"lose", x>> \in Jobs' => LoseOK(x)'
                      /\ <<"post", x>> \in Jobs' => PostOK(x)'
                      /\ <<"retry", x>> \in Jobs' => RetryOK(x)'
    BY DEF JobsOK
  <2>1. <<"resume", x>> \in Jobs' => ResumeOK(x)'
    BY <1>1, <1>2, <1>5, <1>7 DEF JobsOK, ResumeOK
  <2>2. <<"select", x>> \in Jobs' => SelectOK(x)'
    BY <1>1, <1>2, <1>5, <1>7 DEF JobsOK, SelectOK
  <2>3. <<"lose", x>> \in Jobs' => LoseOK(x)'
    BY <1>1, <1>2, <1>5 DEF JobsOK, LoseOK
  <2>4. <<"post", x>> \in Jobs' => PostOK(x)'
    <3>1. x = w /\ Posts => PostOK(x)
      BY <1>8 DEF PostOK, Posts
    <3>2. <<"post", x>> \in Jobs' => PostOK(x)
      BY <1>2, <1>5, <3>1 DEF JobsOK
    <3> QED
      BY <1>1, <3>2 DEF PostOK, LoseOK
  <2>5. <<"retry", x>> \in Jobs' => RetryOK(x)'
    BY <1>1, <1>2, <1>5 DEF JobsOK, RetryOK
  <2> QED
    BY <2>1, <2>2, <2>3, <2>4, <2>5
<1>10. LinedOK'
  BY <1>1, <1>2, <1>5, <1>7 DEF LinedOK
<1>11. ThreadsOK'
  BY <1>1, <1>2 DEF ThreadsOK
<1>12. NacksOK'
  <2> SUFFICES ASSUME NEW x \in Waiters
               PROVE  /\ x \in nackPosted' => selected'[x[1]] \notin {0, x[2]}
                      /\ (Event(x).guard /\ stage'[x[1]][x[2]] # "guard" /\ selected'[x[1]] \notin {0, x[2]}
                            => x \in nackPosted' \/ <<"lose", x>> \in Jobs' \/ <<"post", x>> \in Jobs')
    BY DEF NacksOK
  <2>1. x = w /\ Event(x).guard /\ stage[x[1]][x[2]] # "guard" => <<"post", x>> \in Jobs'
    BY <1>6 DEF Posts
  <2> QED
    BY <1>1, <1>2, <1>5, <2>1 DEF NacksOK
<1>13. PairsOK'
  <2>1. \A x : Completed(x)' <=> Completed(x)
    BY <1>1 DEF Completed
  <2> QED
    BY <1>2, <1>5, <1>7, <2>1 DEF PairsOK
<1> QED
  BY <1>4, <1>7, <1>9, <1>10, <1>11, <1>12, <1>13 DEF ChannelsOK

\* A post selects the first waiter of the nack, whose sync is not decided: no
\* task that is left may make the waiter leave.
LEMMA PostOneInv ==
    ASSUME Shape, ChannelsOK, NEW w \in Subjects, PostOne(w)
    PROVE  ChannelsOK'
<1>1. /\ agenda # <<>> /\ Head(agenda) = <<"post", w>> /\ nackQueue[w] # <<>>
      /\ nackQueue' = [nackQueue EXCEPT ![w] = Tail(@)]
      /\ agenda' = <<<<"select", Head(nackQueue[w])>>>> \o agenda
      /\ UNCHANGED <<queue, nackPosted, pc, stage, interrupted, selected, decided, got>>
  BY DEF PostOne
<1>2. LinesOK /\ JobsOK /\ LinedOK /\ ThreadsOK /\ NacksOK /\ BoxesOK /\ PairsOK
  BY DEF ChannelsOK
<1>3. w \in Waiters
  BY <1>1, HeadPost
<1>4. PICK u : u = Head(nackQueue[w])
  OBVIOUS
<1>5. /\ LinesOK' /\ Lined' = Lined \ {u}
      /\ u \in Lined /\ u \in SyncWaiters /\ Event(u).kind = "nack" /\ Event(u).of = w
  BY <1>1, <1>2, <1>3, <1>4, TakeNack
<1>6. u \in Waiters /\ u \in Subjects /\ u[1] \in Threads /\ u[2] # 0
  BY <1>5, WaiterFacts, SubjectFacts DEF SyncWaiters
<1>7. /\ Jobs = {<<"post", w>>} \cup Entries(Tail(agenda))
      /\ \A y \in Entries(Tail(agenda)) : Clear(<<"post", w>>, y)
      /\ \A y \in Entries(Tail(agenda)) : y[1] # "resume"
  BY <1>1, RestFacts
<1>8. Reach(u) \subseteq Selects(<<"post", w>>) /\ u[1] \in Reach(u)
  BY <1>5, <1>6 DEF Selects, Reach
<1>9. selected[u[1]] = 0
  <2>1. selected[u[1]] = 0 \/ <<"lose", u>> \in Jobs
    BY <1>2, <1>5, <1>6 DEF LinedOK
  <2>2. ASSUME <<"lose", u>> \in Jobs PROVE FALSE
    <3>1. <<"lose", u>> \in Entries(Tail(agenda))
      BY <1>7, <2>2
    <3>2. Clear(<<"post", w>>, <<"lose", u>>)
      BY <1>7, <3>1
    <3> QED
      BY <1>8, <3>2 DEF Clear
  <2> QED
    BY <2>1, <2>2
<1>10. /\ agenda \in Seq(Tasks \X Subjects) /\ InOrder(agenda)
       /\ agenda' = <<<<"select", u>>>> \o agenda
  BY <1>1, <1>4 DEF Shape, AgendaShape, ChannelsOK
<1>11. \A y \in Entries(agenda) : Clear(<<"select", u>>, y)
  <2> SUFFICES ASSUME NEW y \in Jobs PROVE Clear(<<"select", u>>, y)
    BY DEF Jobs
  <2>1. CASE y = <<"post", w>>
    BY <2>1 DEF Clear
  <2>2. CASE y \in Entries(Tail(agenda))
    <3>1. Clear(<<"post", w>>, y)
      BY <1>7, <2>2
    <3>2. Selects(<<"select", u>>) \subseteq Reach(u)
      BY DEF Selects
    <3>3. y[1] # "resume" /\ (y[1] \in {"select", "lose"} => y[2][1] \notin Selects(<<"post", w>>))
      BY <3>1 DEF Clear
    <3> QED
      BY <1>8, <3>2, <3>3 DEF Clear
  <2> QED
    BY <1>7, <2>1, <2>2
<1>12. Jobs' = {<<"select", u>>} \cup Jobs /\ InOrder(agenda')
  BY <1>6, <1>10, <1>11, ConsSelect DEF Jobs
<1>13. \A x : /\ <<"resume", x>> \in Jobs' <=> <<"resume", x>> \in Jobs
              /\ <<"retry", x>> \in Jobs' <=> <<"retry", x>> \in Jobs
              /\ <<"lose", x>> \in Jobs' <=> <<"lose", x>> \in Jobs
              /\ <<"post", x>> \in Jobs' <=> <<"post", x>> \in Jobs
              /\ <<"select", x>> \in Jobs => <<"select", x>> \in Jobs'
              /\ <<"select", x>> \in Jobs' => <<"select", x>> \in Jobs \/ x = u
  BY <1>12
<1>14. BoxesOK' /\ Paired' = Paired
  BY <1>1, <1>2, SamePaired
<1>15. JobsOK'
  <2> SUFFICES ASSUME NEW x \in Subjects
               PROVE  /\ <<"resume", x>> \in Jobs' => ResumeOK(x)'
                      /\ <<"select", x>> \in Jobs' => SelectOK(x)'
                      /\ <<"lose", x>> \in Jobs' => LoseOK(x)'
                      /\ <<"post", x>> \in Jobs' => PostOK(x)'
                      /\ <<"retry", x>> \in Jobs' => RetryOK(x)'
    BY DEF JobsOK
  <2>1. <<"resume", x>> \in Jobs' => ResumeOK(x)'
    BY <1>1, <1>2, <1>5, <1>13, <1>14 DEF JobsOK, ResumeOK
  <2>2. <<"select", x>> \in Jobs' => SelectOK(x)'
    <3>1. <<"select", x>> \in Jobs => SelectOK(x)'
      BY <1>1, <1>2, <1>5, <1>14 DEF JobsOK, SelectOK
    <3>2. SelectOK(u)'
      BY <1>1, <1>5, <1>6, <1>9 DEF SelectOK
    <3> QED
      BY <1>13, <3>1, <3>2
  <2>3. <<"lose", x>> \in Jobs' => LoseOK(x)'
    BY <1>1, <1>2, <1>13 DEF JobsOK, LoseOK
  <2>4. <<"post", x>> \in Jobs' => PostOK(x)'
    BY <1>1, <1>2, <1>13 DEF JobsOK, PostOK, LoseOK
  <2>5. <<"retry", x>> \in Jobs' => RetryOK(x)'
    BY <1>1, <1>2, <1>13 DEF JobsOK, RetryOK
  <2> QED
    BY <2>1, <2>2, <2>3, <2>4, <2>5
<1>16. LinedOK' /\ ThreadsOK'
  BY <1>1, <1>2, <1>5, <1>13, <1>14 DEF LinedOK, ThreadsOK
<1>17. NacksOK'
  BY <1>1, <1>2, <1>13 DEF NacksOK
<1>18. PairsOK'
  <2>1. \A x : Completed(x)' <=> Completed(x)
    BY <1>1 DEF Completed
  <2> QED
    BY <1>2, <1>13, <1>14, <2>1 DEF PairsOK
<1> QED
  BY <1>5, <1>12, <1>14, <1>15, <1>16, <1>17, <1>18 DEF ChannelsOK

\* syncing-done!: nothing that is left selects or undoes an event of this sync,
\* and the nacks it posts decide other syncs.
LEMMA SelectTaskInv ==
    ASSUME Shape, ChannelsOK, NacksApart, NEW w \in Subjects, SelectTask(w)
    PROVE  ChannelsOK'
<1> DEFINE t == w[1]
           K == Syncers(t) \ {w[2]}
           s == Each("lose", t, K)
<1>1. /\ agenda # <<>> /\ Head(agenda) = <<"select", w>>
      /\ selected' = [selected EXCEPT ![t] = w[2]]
      /\ decided' = [decided EXCEPT ![t] = @ + 1]
      /\ agenda' = s \o Tail(agenda)
      /\ UNCHANGED <<queue, nackQueue, nackPosted, pc, stage, interrupted, got>>
  BY DEF SelectTask
<1>2. LinesOK /\ JobsOK /\ LinedOK /\ ThreadsOK /\ NacksOK /\ BoxesOK /\ PairsOK
  BY DEF ChannelsOK
<1>3. w = <<t, w[2]>> /\ t \in Threads /\ Ops[t] = "sync"
  BY <1>1, SubjectFacts, HeadSelect
<1>4. /\ Tail(agenda) \in Seq(Tasks \X Subjects)
      /\ Jobs = {<<"select", w>>} \cup Entries(Tail(agenda))
      /\ InOrder(Tail(agenda))
      /\ \A y \in Entries(Tail(agenda)) : Clear(<<"select", w>>, y)
      /\ \A y \in Entries(Tail(agenda)) : y[1] # "resume"
  BY <1>1, RestFacts
<1>5. /\ selected[t] = 0 /\ w \notin Lined /\ w[2] # 0
      /\ (w \in Waiters /\ Event(w).kind # "nack") => w \in Paired
  BY <1>2, <1>4 DEF JobsOK, SelectOK
<1>6. /\ s \in Seq(Tasks \X Subjects)
      /\ Entries(s) = {<<"lose", <<t, k>>>> : k \in K}
      /\ NoTwice(s)
  <2>1. K \in SUBSET (1..Len(Args[t])) /\ "lose" \in Tasks
    BY <1>3, WaiterFacts DEF Tasks
  <2> QED
    BY <1>3, <2>1, EachEntries
<1>7. \A x \in Threads : /\ selected'[x] = IF x = t THEN w[2] ELSE selected[x]
                         /\ decided'[x] = IF x = t THEN decided[t] + 1 ELSE decided[x]
  BY <1>1, <1>3 DEF Shape, ThreadsShape
<1> HIDE DEF s
<1>8. ASSUME NEW k \in K, NEW z \in Selects(<<"lose", <<t, k>>>>)
      PROVE  z \in Reach(w) /\ z # t
  <2>1. PICK u \in Waiters : Event(u).kind = "nack" /\ Event(u).of = <<t, k>> /\ z \in Reach(u)
    BY <1>8 DEF Selects
  <2>2. Loses(w, u)
    BY <2>1 DEF Loses
  <2>3. <<w, u[1]>> \in Leads /\ \A x \in Threads : <<u, x>> \in Leads => <<w, x>> \in Leads
    BY <2>2, ApartFacts
  <2>4. z \in Threads /\ <<w, z>> \in Leads
    BY <2>1, <2>3, WaiterFacts DEF Reach
  <2>5. <<w, t>> \notin Leads
    BY ApartFacts
  <2> QED
    BY <2>4, <2>5 DEF Reach
<1>9. \A y \in Entries(Tail(agenda)) : y[1] \in {"select", "lose"} => y[2][1] \notin Reach(w)
  <2>1. Selects(<<"select", w>>) = Reach(w)
    BY <1>5 DEF Selects
  <2> QED
    BY <1>4, <2>1 DEF Clear
<1>10. InOrder(agenda') /\ Jobs' = Entries(s) \cup Entries(Tail(agenda))
  <2>1. \A x, y \in Entries(s) : x # y => Clear(x, y)
    <3> SUFFICES ASSUME NEW k \in K, NEW l \in K PROVE Clear(<<"lose", <<t, k>>>>, <<"lose", <<t, l>>>>)
      BY <1>6
    <3> QED
      BY <1>8 DEF Clear
  <2>2. InOrder(s)
    BY <1>6, <2>1, AllInOrder
  <2>3. \A x \in Entries(s), y \in Entries(Tail(agenda)) : Clear(x, y)
    <3> SUFFICES ASSUME NEW k \in K, NEW y \in Entries(Tail(agenda)) PROVE Clear(<<"lose", <<t, k>>>>, y)
      BY <1>6
    <3> QED
      BY <1>4, <1>8, <1>9 DEF Clear
  <2>4. InOrder(s \o Tail(agenda))
    BY <1>4, <1>6, <2>2, <2>3, ConcatInOrder
  <2>5. Entries(s \o Tail(agenda)) = Entries(s) \cup Entries(Tail(agenda))
    <3>1. PICK r \in Seq(Tasks \X Subjects) : r = Tail(agenda)
      BY <1>4, Zenon
    <3>2. s \in Seq(Tasks \X Subjects)
      BY <1>6
    <3>3. Entries(s \o r) = Entries(s) \cup Entries(r)
      BY <3>2, ConcatEntries
    <3> QED
      BY <3>1, <3>3
  <2> QED
    BY <1>1, <2>4, <2>5 DEF Jobs
<1>11. \A x : /\ <<"resume", x>> \notin Jobs' /\ <<"resume", x>> \notin Jobs
              /\ <<"select", x>> \in Jobs' => <<"select", x>> \in Jobs /\ x[1] # t
              /\ <<"select", x>> \in Jobs => (<<"select", x>> \in Jobs' /\ x[1] # t) \/ x = w
              /\ <<"lose", x>> \in Jobs => <<"lose", x>> \in Jobs'
              /\ <<"lose", x>> \in Jobs' => <<"lose", x>> \in Jobs \/ \E k \in K : x = <<t, k>>
              /\ <<"post", x>> \in Jobs' <=> <<"post", x>> \in Jobs
              /\ <<"retry", x>> \in Jobs' <=> <<"retry", x>> \in Jobs
  <2> TAKE x
  <2>1. /\ \A j : <<j, x>> \in Entries(s) => j = "lose" /\ \E k \in K : x = <<t, k>>
        /\ t \in Reach(w)
    BY <1>6 DEF Reach
  <2>2. \A j : <<j, x>> \in Entries(Tail(agenda)) =>
           j # "resume" /\ (j \in {"select", "lose"} => x[1] # t)
    BY <1>4, <1>9, <2>1
  <2> QED
    BY <1>4, <1>10, <2>1, <2>2
<1>12. \A k \in K : <<"lose", <<t, k>>>> \in Jobs'
  BY <1>6, <1>10
<1>13. LinesOK' /\ Lined' = Lined /\ BoxesOK' /\ Paired' = Paired
  BY <1>1, <1>2, SameLined, SamePaired
<1>14. \A x \in Waiters : x[1] = t /\ x # w => x[2] \in K /\ x = <<t, x[2]>>
  BY <1>3, WaiterFacts
<1>15. JobsOK'
  <2> SUFFICES ASSUME NEW x \in Subjects
               PROVE  /\ <<"resume", x>> \in Jobs' => ResumeOK(x)'
                      /\ <<"select", x>> \in Jobs' => SelectOK(x)'
                      /\ <<"lose", x>> \in Jobs' => LoseOK(x)'
                      /\ <<"post", x>> \in Jobs' => PostOK(x)'
                      /\ <<"retry", x>> \in Jobs' => RetryOK(x)'
    BY DEF JobsOK
  <2>0. x[1] \in Threads
    BY SubjectFacts
  <2>1. <<"resume", x>> \notin Jobs'
    BY <1>11
  <2>2. <<"select", x>> \in Jobs' => SelectOK(x)'
    BY <1>2, <1>7, <1>11, <1>13, <2>0 DEF JobsOK, SelectOK
  <2>3. <<"lose", x>> \in Jobs' => LoseOK(x)'
    <3>1. <<"lose", x>> \in Jobs => LoseOK(x)'
      BY <1>2, <1>5, <1>7, <2>0 DEF JobsOK, LoseOK
    <3>2. (\E k \in K : x = <<t, k>>) => LoseOK(x)'
      BY <1>5, <1>7, <2>0 DEF LoseOK
    <3> QED
      BY <1>11, <3>1, <3>2
  <2>4. <<"post", x>> \in Jobs' => PostOK(x)'
    <3>1. <<"post", x>> \in Jobs' => PostOK(x)
      BY <1>2, <1>11 DEF JobsOK
    <3>2. selected[x[1]] # 0 => selected'[x[1]] = selected[x[1]]
      BY <1>5, <1>7, <2>0
    <3> QED
      BY <1>1, <3>1, <3>2 DEF PostOK, LoseOK
  <2>5. <<"retry", x>> \in Jobs' => RetryOK(x)'
    BY <1>1, <1>2, <1>5, <1>7, <1>11, <2>0 DEF JobsOK, RetryOK
  <2> QED
    BY <2>1, <2>2, <2>3, <2>4, <2>5
<1>16. LinedOK'
  <2> SUFFICES ASSUME NEW x \in Lined
               PROVE  /\ x \notin Paired'
                      /\ x[2] = 0 => Ops[x[1]] # "commit" /\ pc'[x[1]] = "blocked"
                      /\ x[2] # 0 =>
                            /\ stage'[x[1]][x[2]] = "async" /\ x[2] \notin interrupted'[x[1]]
                            /\ pc'[x[1]] \in {"poll", "blocked"}
                            /\ selected'[x[1]] = 0 \/ <<"lose", x>> \in Jobs'
    BY <1>13 DEF LinedOK
  <2>1. x \in Waiters /\ x[1] \in Threads
    BY LinedType, WaiterFacts
  <2>2. CASE x[1] = t
    <3>1. <<"lose", x>> \in Jobs'
      BY <1>5, <1>12, <1>14, <2>1, <2>2
    <3> QED
      BY <1>1, <1>2, <1>13, <3>1 DEF LinedOK
  <2>3. CASE x[1] # t
    BY <1>1, <1>2, <1>7, <1>11, <1>13, <2>1, <2>3 DEF LinedOK
  <2> QED
    BY <2>2, <2>3
<1>17. ThreadsOK'
  BY <1>1, <1>2, <1>5, <1>7 DEF ThreadsOK
<1>18. NacksOK'
  <2> SUFFICES ASSUME NEW x \in Waiters
               PROVE  /\ x \in nackPosted' => selected'[x[1]] \notin {0, x[2]}
                      /\ (Event(x).guard /\ stage'[x[1]][x[2]] # "guard" /\ selected'[x[1]] \notin {0, x[2]}
                            => x \in nackPosted' \/ <<"lose", x>> \in Jobs' \/ <<"post", x>> \in Jobs')
    BY DEF NacksOK
  <2>1. x[1] \in Threads
    BY WaiterFacts
  <2>2. CASE x[1] = t
    <3>1. x \notin nackPosted
      BY <1>2, <1>5, <2>2 DEF NacksOK
    <3>2. selected'[t] # x[2] => <<"lose", x>> \in Jobs'
      <4>1. selected'[t] # x[2] => x # w
        BY <1>3, <1>7
      <4> QED
        BY <1>12, <1>14, <2>2, <4>1
    <3> QED
      BY <1>1, <2>2, <3>1, <3>2
  <2>3. CASE x[1] # t
    BY <1>1, <1>2, <1>7, <1>11, <2>1, <2>3 DEF NacksOK
  <2> QED
    BY <2>2, <2>3
<1>19. PairsOK'
  <2> SUFFICES ASSUME NEW x \in Waiters
               PROVE  /\ x \in Paired' => Completed(x)' \/ <<"resume", x>> \in Jobs' \/ <<"select", x>> \in Jobs'
                      /\ Event(x).kind # "nack" /\ Completed(x)' => x \in Paired'
    BY DEF PairsOK
  <2>1. x[1] \in Threads /\ (x[1] = t => x[2] # 0)
    BY <1>3, WaiterFacts
  <2>2. CASE x = w
    <3>1. Completed(x)'
      BY <1>3, <1>5, <1>7, <2>2 DEF Completed
    <3> QED
      BY <1>5, <1>13, <2>2, <3>1
  <2>3. CASE x # w /\ x[1] = t
    <3>1. ~Completed(x)' /\ ~Completed(x)
      <4>1. x[2] # w[2] /\ x[2] # 0
        BY <1>14, <2>1, <2>3
      <4> QED
        BY <1>3, <1>5, <1>7, <2>3, <4>1 DEF Completed
    <3>2. <<"resume", x>> \notin Jobs /\ <<"select", x>> \notin Jobs
      BY <1>11, <2>3
    <3> QED
      BY <1>2, <1>13, <3>1, <3>2 DEF PairsOK
  <2>4. CASE x # w /\ x[1] # t
    <3>1. Completed(x)' <=> Completed(x)
      BY <1>1, <1>7, <2>1, <2>4 DEF Completed
    <3> QED
      BY <1>2, <1>11, <1>13, <2>4, <3>1 DEF PairsOK
  <2> QED
    BY <2>2, <2>3, <2>4
<1> QED
  BY <1>10, <1>13, <1>15, <1>16, <1>17, <1>18, <1>19 DEF ChannelsOK

-----------------------------------------------------------------------------
(* A sync tries one of its events: in a poll, or when it is retried. *)

LEMMA TryRestFacts ==
    ASSUME Shape, ChannelsOK, NEW w \in Waiters, NEW rest, Try(w, rest)
    PROVE  /\ rest \in Seq(Tasks \X Subjects) /\ InOrder(rest)
           /\ \A y \in Entries(rest) : y[1] = "retry" /\ y # <<"retry", w>> /\ y \in Jobs
           /\ \A y \in Jobs : y[1] = "retry"
           /\ stage[w[1]][w[2]] \in {"plain", "async"} /\ pc[w[1]] \in {"poll", "blocked"}
           /\ agenda # <<>> => stage[w[1]][w[2]] = "async"
           /\ w \notin Lined
<1>1. w[1] \in Threads /\ w[2] # 0 /\ selected[w[1]] = 0
  BY WaiterFacts DEF Try
<1>2. JobsOK /\ LinedOK
  BY DEF ChannelsOK
<1>3. CASE /\ agenda = <<>> /\ rest = <<>>
           /\ stage[w[1]][w[2]] = "plain" /\ pc[w[1]] = "poll" /\ interrupted[w[1]] = {}
  <2>1. Entries(rest) = {} /\ Jobs = {} /\ InOrder(rest)
    <3>1. Entries(<<>>) = {}
      BY DEF Entries
    <3>2. InOrder(<<>>)
      BY OneInOrder
    <3> QED
      BY <1>3, <3>1, <3>2 DEF Jobs
  <2>2. rest \in Seq(Tasks \X Subjects)
    BY <1>3
  <2>3. w \notin Lined
    BY <1>1, <1>2, <1>3 DEF LinedOK
  <2> QED
    BY <1>3, <2>1, <2>2, <2>3
<1>4. CASE agenda # <<>> /\ Head(agenda) = <<"retry", w>> /\ rest = Tail(agenda)
  <2>1. /\ rest \in Seq(Tasks \X Subjects)
        /\ Jobs = {<<"retry", w>>} \cup Entries(rest)
        /\ InOrder(rest)
        /\ \A y \in Entries(rest) : Clear(<<"retry", w>>, y)
    BY <1>4, RestFacts
  <2>2. \A y \in Entries(rest) : y[1] = "retry" /\ y # <<"retry", w>>
    BY <2>1 DEF Clear
  <2>3. RetryOK(w)
    BY <1>2, <2>1, SubjectFacts DEF JobsOK
  <2>4. w \notin Lined
    BY <1>1, <1>2, <2>3 DEF LinedOK, RetryOK
  <2> QED
    BY <2>1, <2>2, <2>3, <2>4 DEF RetryOK
<1> QED
  BY <1>3, <1>4 DEF Try

LEMMA TryFacts ==
    ASSUME Shape, ChannelsOK, NEW w \in Waiters, NEW rest, Try(w, rest)
    PROVE  /\ w[1] \in Threads /\ w[2] # 0 /\ selected[w[1]] = 0 /\ Ops[w[1]] = "sync"
           /\ w \notin Paired
           /\ \A x : /\ <<"resume", x>> \notin Jobs /\ <<"select", x>> \notin Jobs
                     /\ <<"lose", x>> \notin Jobs /\ <<"post", x>> \notin Jobs
           /\ \A x : /\ <<"resume", x>> \notin Entries(rest) /\ <<"select", x>> \notin Entries(rest)
                     /\ <<"lose", x>> \notin Entries(rest) /\ <<"post", x>> \notin Entries(rest)
           /\ \A x \in Subjects : <<"retry", x>> \in Entries(rest) =>
                 /\ RetryOK(x) /\ x \in Waiters /\ Ops[x[1]] = "sync"
                 /\ selected[x[1]] = 0 => x[2] \in interrupted'[x[1]]
           /\ \A x \in Lined : x[2] # 0 => selected[x[1]] = 0
           /\ \A x \in Paired : x \in Waiters /\ Completed(x)
           /\ \A x \in Waiters :
                 Event(x).guard /\ stage[x[1]][x[2]] # "guard" /\ selected[x[1]] \notin {0, x[2]}
                    => x \in nackPosted
           /\ \A t \in Threads : interrupted'[t] \subseteq interrupted[t]
           /\ w[2] \notin interrupted'[w[1]]
           /\ UNCHANGED <<nackPosted, selected, decided>>
<1>1. w[1] \in Threads /\ w[2] # 0 /\ selected[w[1]] = 0 /\ Ops[w[1]] = "sync" /\ w = <<w[1], w[2]>>
  BY WaiterFacts DEF Try
<1>2. JobsOK /\ LinedOK /\ NacksOK /\ PairsOK
  BY DEF ChannelsOK
<1>3. /\ \A y \in Entries(rest) : y[1] = "retry" /\ y # <<"retry", w>> /\ y \in Jobs
      /\ \A y \in Jobs : y[1] = "retry"
  BY TryRestFacts
<1>4. \A x : /\ <<"resume", x>> \notin Jobs /\ <<"select", x>> \notin Jobs
             /\ <<"lose", x>> \notin Jobs /\ <<"post", x>> \notin Jobs
  BY <1>3
<1>5. \A t \in Threads : interrupted'[t] = IF t = w[1] THEN interrupted[t] \ {w[2]} ELSE interrupted[t]
  BY <1>1 DEF Try, Shape, ThreadsShape
<1>6. \A x \in Paired : x \in Waiters /\ Completed(x)
  BY <1>2, <1>4 DEF PairsOK, Paired
<1>7. w \notin Paired
  BY <1>1, <1>6 DEF Completed
<1>8. ASSUME NEW x \in Subjects, <<"retry", x>> \in Entries(rest)
      PROVE  /\ RetryOK(x) /\ x \in Waiters /\ Ops[x[1]] = "sync"
             /\ selected[x[1]] = 0 => x[2] \in interrupted'[x[1]]
  <2>1. <<"retry", x>> \in Jobs /\ x # w
    BY <1>3, <1>8
  <2>2. RetryOK(x)
    BY <1>2, <2>1 DEF JobsOK
  <2>3. x \in Waiters /\ Ops[x[1]] = "sync" /\ x = <<x[1], x[2]>> /\ x[1] \in Threads
    BY <2>1, JobTypes, SubjectFacts
  <2>4. x[1] # w[1] \/ x[2] # w[2]
    BY <1>1, <2>1, <2>3
  <2> QED
    BY <1>5, <2>2, <2>3, <2>4 DEF RetryOK
<1>9. /\ \A x \in Lined : x[2] # 0 => selected[x[1]] = 0
      /\ \A x \in Waiters :
             Event(x).guard /\ stage[x[1]][x[2]] # "guard" /\ selected[x[1]] \notin {0, x[2]}
                => x \in nackPosted
  BY <1>2, <1>4 DEF LinedOK, NacksOK
<1>10. UNCHANGED <<nackPosted, selected, decided>>
  BY DEF Try
<1> QED
  BY <1>1, <1>3, <1>4, <1>5, <1>6, <1>7, <1>8, <1>9, <1>10

\* What a try leaves alone, when it finds no partner.
LEMMA TryRest ==
    ASSUME Shape, ChannelsOK, NEW w \in Waiters, NEW rest, Try(w, rest), UNCHANGED got,
           LinesOK', Lined' \subseteq Lined \cup {w},
           \A x \in Lined : x \in Lined',
           \A t \in Threads : /\ Ops[t] # "commit" => pc'[t] = pc[t]
                              /\ pc'[t] = "done" <=> pc[t] = "done",
           \A x \in Waiters : /\ stage'[x[1]][x[2]] # "guard" <=> stage[x[1]][x[2]] # "guard"
                              /\ stage[x[1]][x[2]] = "async" => stage'[x[1]][x[2]] = "async",
           w \in Lined' => stage'[w[1]][w[2]] = "async",
           \/ Jobs' = Entries(rest)
           \/ Jobs' = {<<"select", w>>} \cup Entries(rest) /\ w \notin Lined' /\ Event(w).kind = "nack",
           InOrder(agenda')
    PROVE  ChannelsOK'
<1>1. JobsOK /\ LinedOK /\ ThreadsOK /\ NacksOK /\ BoxesOK /\ PairsOK
  BY DEF ChannelsOK
<1>2. BoxesOK' /\ Paired' = Paired
  BY <1>1, SamePaired
<1>3. /\ w[1] \in Threads /\ w[2] # 0 /\ selected[w[1]] = 0 /\ Ops[w[1]] = "sync"
      /\ w \notin Paired
      /\ \A x \in Subjects : <<"retry", x>> \in Entries(rest) =>
                 /\ RetryOK(x) /\ x \in Waiters /\ Ops[x[1]] = "sync"
                 /\ selected[x[1]] = 0 => x[2] \in interrupted'[x[1]]
      /\ \A x \in Lined : x[2] # 0 => selected[x[1]] = 0
      /\ \A x \in Paired : x \in Waiters /\ Completed(x)
      /\ \A x \in Waiters :
                 Event(x).guard /\ stage[x[1]][x[2]] # "guard" /\ selected[x[1]] \notin {0, x[2]}
                    => x \in nackPosted
      /\ \A t \in Threads : interrupted'[t] \subseteq interrupted[t]
      /\ w[2] \notin interrupted'[w[1]]
      /\ UNCHANGED <<nackPosted, selected, decided>>
  BY TryFacts
<1>4. \A x : /\ <<"resume", x>> \notin Entries(rest) /\ <<"select", x>> \notin Entries(rest)
             /\ <<"lose", x>> \notin Entries(rest) /\ <<"post", x>> \notin Entries(rest)
  BY TryFacts
<1>5. pc[w[1]] \in {"poll", "blocked"}
  BY TryRestFacts
<1>6. \A x : /\ <<"resume", x>> \notin Jobs' /\ <<"lose", x>> \notin Jobs' /\ <<"post", x>> \notin Jobs'
             /\ <<"select", x>> \in Jobs' => x = w /\ w \notin Lined' /\ Event(w).kind = "nack"
             /\ <<"retry", x>> \in Jobs' => <<"retry", x>> \in Entries(rest)
  <2> TAKE x
  <2>1. CASE Jobs' = Entries(rest)
    BY <1>4, <2>1
  <2>2. CASE Jobs' = {<<"select", w>>} \cup Entries(rest) /\ w \notin Lined' /\ Event(w).kind = "nack"
    <3>1. \A j : <<j, x>> \in Jobs' <=> (j = "select" /\ x = w) \/ <<j, x>> \in Entries(rest)
      BY <2>2
    <3> QED
      BY <1>4, <2>2, <3>1
  <2> QED
    BY <2>1, <2>2
<1>7. JobsOK'
  <2> SUFFICES ASSUME NEW x \in Subjects
               PROVE  /\ <<"resume", x>> \in Jobs' => ResumeOK(x)'
                      /\ <<"select", x>> \in Jobs' => SelectOK(x)'
                      /\ <<"lose", x>> \in Jobs' => LoseOK(x)'
                      /\ <<"post", x>> \in Jobs' => PostOK(x)'
                      /\ <<"retry", x>> \in Jobs' => RetryOK(x)'
    BY DEF JobsOK
  <2>1. <<"select", x>> \in Jobs' => SelectOK(x)'
    BY <1>3, <1>6 DEF SelectOK
  <2>2. ASSUME <<"retry", x>> \in Jobs' PROVE RetryOK(x)'
    <3>1. /\ RetryOK(x) /\ x \in Waiters /\ Ops[x[1]] = "sync"
          /\ selected[x[1]] = 0 => x[2] \in interrupted'[x[1]]
      BY <1>3, <1>6, <2>2
    <3>2. pc'[x[1]] = pc[x[1]] /\ stage'[x[1]][x[2]] = "async"
      BY <3>1, WaiterFacts DEF RetryOK
    <3> QED
      BY <1>3, <3>1, <3>2 DEF RetryOK
  <2> QED
    BY <1>6, <2>1, <2>2
<1>8. LinedOK'
  <2> SUFFICES ASSUME NEW x \in Lined'
               PROVE  /\ x \notin Paired'
                      /\ x[2] = 0 => Ops[x[1]] # "commit" /\ pc'[x[1]] = "blocked"
                      /\ x[2] # 0 =>
                            /\ stage'[x[1]][x[2]] = "async" /\ x[2] \notin interrupted'[x[1]]
                            /\ pc'[x[1]] \in {"poll", "blocked"}
                            /\ selected'[x[1]] = 0 \/ <<"lose", x>> \in Jobs'
    BY DEF LinedOK
  <2>1. CASE x = w
    BY <1>2, <1>3, <1>5, <2>1
  <2>2. CASE x \in Lined
    <3>1. x \in Waiters /\ x[1] \in Threads /\ Ops[x[1]] # "commit"
      BY <2>2, LinedType, WaiterFacts DEF Liners
    <3>2. pc'[x[1]] = pc[x[1]]
      BY <3>1
    <3>3. /\ x \notin Paired
          /\ x[2] = 0 => pc[x[1]] = "blocked"
          /\ x[2] # 0 => /\ stage[x[1]][x[2]] = "async" /\ x[2] \notin interrupted[x[1]]
                         /\ pc[x[1]] \in {"poll", "blocked"}
      BY <1>1, <2>2 DEF LinedOK
    <3> QED
      BY <1>2, <1>3, <2>2, <3>1, <3>2, <3>3
  <2> QED
    BY <2>1, <2>2
<1>9. ThreadsOK'
  <2> SUFFICES ASSUME NEW t \in Threads
               PROVE  /\ decided'[t] = IF selected'[t] = 0 THEN 0 ELSE 1
                      /\ \A k \in interrupted'[t] : stage'[t][k] = "async"
    BY DEF ThreadsOK
  <2>1. decided'[t] = IF selected'[t] = 0 THEN 0 ELSE 1
    BY <1>1, <1>3 DEF ThreadsOK
  <2>2. ASSUME NEW k \in interrupted'[t] PROVE stage'[t][k] = "async"
    <3>1. k \in interrupted[t] /\ k \in Syncers(t)
      BY <1>3, <2>2 DEF Shape, ThreadsShape
    <3>2. stage[t][k] = "async" /\ <<t, k>> \in Waiters
      BY <1>1, <3>1, WaiterFacts DEF ThreadsOK
    <3>3. PICK x \in Waiters : x[1] = t /\ x[2] = k
      BY <3>2
    <3> QED
      BY <3>2, <3>3
  <2> QED
    BY <2>1, <2>2
<1>10. NacksOK'
  BY <1>1, <1>3 DEF NacksOK
<1>11. PairsOK'
  <2>1. \A x \in Waiters : Completed(x)' <=> Completed(x)
    BY <1>3, WaiterFacts DEF Completed
  <2> QED
    BY <1>1, <1>2, <1>3, <2>1 DEF PairsOK
<1> QED
  BY <1>2, <1>7, <1>8, <1>9, <1>10, <1>11 DEF ChannelsOK

LEMMA QueuedStage ==
    ASSUME Shape, ChannelsOK, NEW w \in Waiters, NEW rest, Try(w, rest), Queued(w)
    PROVE  /\ \A x \in Waiters : /\ stage'[x[1]][x[2]] # "guard" <=> stage[x[1]][x[2]] # "guard"
                                 /\ stage[x[1]][x[2]] = "async" => stage'[x[1]][x[2]] = "async"
           /\ stage'[w[1]][w[2]] = "async"
<1>1. /\ stage[w[1]][w[2]] \in {"plain", "async"}
      /\ agenda # <<>> => stage[w[1]][w[2]] = "async"
  BY TryRestFacts
<1>2. w[1] \in Threads /\ w[2] \in Syncers(w[1])
  BY WaiterFacts
<1>3. CASE agenda # <<>> /\ stage' = stage
  BY <1>1, <1>3
<1>4. CASE stage' = [stage EXCEPT ![w[1]] = [@ EXCEPT ![w[2]] = "async"]]
  <2>1. /\ stage = [t \in Threads |-> stage[t]]
        /\ \A t \in Threads : stage[t] \in [Syncers(t) -> {"guard", "plain", "async"}]
    BY DEF Shape, ThreadsShape
  <2>2. \A t \in Threads : stage'[t] = IF t = w[1] THEN [stage[t] EXCEPT ![w[2]] = "async"] ELSE stage[t]
    BY <1>2, <1>4, <2>1
  <2>3. \A k \in Syncers(w[1]) : stage'[w[1]][k] = IF k = w[2] THEN "async" ELSE stage[w[1]][k]
    BY <1>2, <2>1, <2>2
  <2>4. ASSUME NEW x \in Waiters
        PROVE  /\ stage'[x[1]][x[2]] # "guard" <=> stage[x[1]][x[2]] # "guard"
               /\ stage[x[1]][x[2]] = "async" => stage'[x[1]][x[2]] = "async"
    <3>1. x[1] \in Threads /\ x[2] \in Syncers(x[1])
      BY WaiterFacts
    <3>2. CASE x[1] = w[1]
      BY <1>1, <2>3, <3>1, <3>2
    <3>3. CASE x[1] # w[1]
      BY <2>2, <3>1, <3>3
    <3> QED
      BY <3>2, <3>3
  <2> QED
    BY <1>2, <2>3, <2>4
<1> QED
  BY <1>3, <1>4 DEF Queued

LEMMA TryQueueInv ==
    ASSUME Shape, ChannelsOK, NEW w \in Waiters, NEW rest, TryQueue(w, rest)
    PROVE  ChannelsOK'
<1>1. /\ Try(w, rest) /\ Event(w).kind # "nack" /\ Enqueue(w) /\ PostQueued(Side(w)) /\ Queued(w)
      /\ agenda' = rest /\ UNCHANGED <<nackQueue, got>>
  BY DEF TryQueue
<1>2. InOrder(rest) /\ w \notin Lined
  BY <1>1, TryRestFacts
<1>3. w \in Liners /\ LinesOK /\ Side(w) \in Sides
  BY <1>1, EventFacts DEF Try, Liners, ChannelsOK
<1>4. LinesOK' /\ Lined' = Lined \cup {w}
  BY <1>1, <1>2, <1>3, JoinLined
<1>5. ASSUME NEW t \in Threads
      PROVE  /\ Ops[t] # "commit" => pc'[t] = pc[t]
             /\ pc'[t] = "done" <=> pc[t] = "done"
  <2>1. pc'[t] = IF t \in queuedSema[Side(w)] THEN "start" ELSE pc[t]
    BY <1>1 DEF PostQueued
  <2>2. t \in queuedSema[Side(w)] => Ops[t] = "commit" /\ pc[t] = "waiting"
    BY <1>3 DEF Shape, KindsShape
  <2> QED
    BY <2>1, <2>2
<1>6. /\ \A x \in Waiters : /\ stage'[x[1]][x[2]] # "guard" <=> stage[x[1]][x[2]] # "guard"
                            /\ stage[x[1]][x[2]] = "async" => stage'[x[1]][x[2]] = "async"
      /\ stage'[w[1]][w[2]] = "async"
  BY <1>1, QueuedStage
<1>7. Jobs' = Entries(rest) /\ InOrder(agenda')
  BY <1>1, <1>2 DEF Jobs
<1> QED
  BY <1>1, <1>4, <1>5, <1>6, <1>7, TryRest

LEMMA TryWaitInv ==
    ASSUME Shape, ChannelsOK, NEW w \in Waiters, NEW rest, TryWait(w, rest)
    PROVE  ChannelsOK'
<1>1. /\ Try(w, rest) /\ Event(w).kind = "nack" /\ Queued(w)
      /\ nackQueue' = [nackQueue EXCEPT ![Event(w).of] = Append(@, w)]
      /\ agenda' = rest /\ UNCHANGED <<queue, pc, got>>
  BY DEF TryWait
<1>2. InOrder(rest) /\ w \notin Lined
  BY <1>1, TryRestFacts
<1>3. w \in SyncWaiters /\ LinesOK
  BY <1>1 DEF Try, SyncWaiters, ChannelsOK
<1>4. LinesOK' /\ Lined' = Lined \cup {w}
  BY <1>1, <1>2, <1>3, JoinNack
<1>6. /\ \A x \in Waiters : /\ stage'[x[1]][x[2]] # "guard" <=> stage[x[1]][x[2]] # "guard"
                            /\ stage[x[1]][x[2]] = "async" => stage'[x[1]][x[2]] = "async"
      /\ stage'[w[1]][w[2]] = "async"
  BY <1>1, QueuedStage
<1>7. Jobs' = Entries(rest) /\ InOrder(agenda')
  BY <1>1, <1>2 DEF Jobs
<1> QED
  BY <1>1, <1>4, <1>6, <1>7, TryRest

LEMMA TryNackedInv ==
    ASSUME Shape, ChannelsOK, NEW w \in Waiters, NEW rest, TryNacked(w, rest)
    PROVE  ChannelsOK'
<1>1. /\ Try(w, rest) /\ Event(w).kind = "nack"
      /\ agenda' = <<<<"select", w>>>> \o rest /\ UNCHANGED <<queue, nackQueue, pc, stage, got>>
  BY DEF TryNacked
<1>2. /\ rest \in Seq(Tasks \X Subjects) /\ InOrder(rest)
      /\ \A y \in Entries(rest) : y[1] = "retry"
      /\ w \notin Lined
  BY <1>1, TryRestFacts
<1>3. LinesOK' /\ Lined' = Lined
  BY <1>1, SameLined DEF ChannelsOK
<1>4. \A y \in Entries(rest) : Clear(<<"select", w>>, y)
  BY <1>2 DEF Clear
<1>5. Jobs' = {<<"select", w>>} \cup Entries(rest) /\ InOrder(agenda')
  BY <1>1, <1>2, <1>4, SubjectFacts, ConsSelect
<1> QED
  BY <1>1, <1>2, <1>3, <1>5, TryRest

\* A sync finds a partner: the partner is resumed first, and whatever that
\* decides, the sync itself is not decided by it.
LEMMA TryMatchInv ==
    ASSUME Shape, ChannelsOK, NacksApart, NEW w \in Waiters, NEW rest, TryMatch(w, rest)
    PROVE  ChannelsOK'
<1>1. /\ Try(w, rest) /\ Event(w).kind # "nack" /\ Match(w, <<<<"select", w>>>> \o rest)
      /\ UNCHANGED <<nackQueue, pc, stage>>
  BY DEF TryMatch
<1>2. LinesOK /\ JobsOK /\ LinedOK /\ ThreadsOK /\ NacksOK /\ BoxesOK /\ PairsOK
  BY DEF ChannelsOK
<1>3. /\ w[1] \in Threads /\ w[2] # 0 /\ selected[w[1]] = 0 /\ Ops[w[1]] = "sync"
      /\ w \notin Paired
      /\ \A x \in Subjects : <<"retry", x>> \in Entries(rest) =>
                 /\ RetryOK(x) /\ x \in Waiters /\ Ops[x[1]] = "sync"
                 /\ selected[x[1]] = 0 => x[2] \in interrupted'[x[1]]
      /\ \A x \in Lined : x[2] # 0 => selected[x[1]] = 0
      /\ \A x \in Paired : x \in Waiters /\ Completed(x)
      /\ \A x \in Waiters :
                 Event(x).guard /\ stage[x[1]][x[2]] # "guard" /\ selected[x[1]] \notin {0, x[2]}
                    => x \in nackPosted
      /\ \A t \in Threads : interrupted'[t] \subseteq interrupted[t]
      /\ UNCHANGED <<nackPosted, selected, decided>>
  BY <1>1, TryFacts
<1>4. /\ rest \in Seq(Tasks \X Subjects) /\ InOrder(rest)
      /\ \A y \in Entries(rest) : y[1] = "retry"
      /\ w \notin Lined
  BY <1>1, TryRestFacts
<1>5. PICK after : after = <<<<"select", w>>>> \o rest
  OBVIOUS
<1>6. Match(w, after)
  BY <1>1, <1>5
<1>7. PICK i \in 1..Len(queue[OtherSide(w)]) : \E p \in Liners : Matched(w, after, i, p)
  BY <1>1, <1>6, MatchFacts
<1>8. PICK p \in Liners : Matched(w, after, i, p)
  BY <1>7
<1>9. /\ LinesOK' /\ Lined' = Lined \ {p} /\ p \in Lined
      /\ Event(p).kind # "nack" /\ Side(p) = OtherSide(w)
  BY <1>1, <1>2, <1>8, TakeLined
<1>10. p \in Waiters /\ p \in Subjects /\ p[1] \in Threads /\ p[1] # w[1] /\ w \in Subjects
  <2>1. p \in Waiters /\ p \in Subjects /\ p[1] \in Threads /\ (p[2] = 0 <=> Ops[p[1]] # "sync")
    BY WaiterFacts, SubjectFacts DEF Liners
  <2>2. MayMatch(w[1], p)
    BY <1>3, <1>8 DEF Matched
  <2> QED
    BY <1>3, <2>1, <2>2, SubjectFacts DEF MayMatch
<1>11. BoxesOK' /\ Paired' = Paired \cup {w, p}
  <2>1. got' = IF Event(w).kind = "get" THEN [got EXCEPT ![w] = p] ELSE [got EXCEPT ![p] = w]
    BY <1>8 DEF Matched
  <2>2. p \notin Paired
    BY <1>2, <1>9 DEF LinedOK
  <2> QED
    BY <1>1, <1>2, <1>3, <1>9, <1>10, <2>1, <2>2, MatchedPairs
<1>12. Jobs' = {<<"resume", p>>, <<"select", w>>} \cup Entries(rest) /\ InOrder(agenda')
  <2>1. <<"resume", p>> \in Tasks \X Subjects /\ <<"select", w>> \in Tasks \X Subjects
    BY <1>10 DEF Tasks
  <2>2. PICK x \in Tasks \X Subjects : x = <<"resume", p>>
    BY <2>1, Zenon
  <2>3. PICK y \in Tasks \X Subjects : y = <<"select", w>>
    BY <2>1, Zenon
  <2>4. after = <<y>> \o rest /\ agenda' = <<x>> \o after
    BY <1>5, <1>8, <2>2, <2>3 DEF Matched
  <2>5. \A z \in Entries(rest) : Clear(y, z)
    BY <1>4, <2>3 DEF Clear
  <2>6. after \in Seq(Tasks \X Subjects) /\ Entries(after) = {y} \cup Entries(rest)
    BY <1>4, <2>4, ConsEntries
  <2>7. InOrder(after)
    BY <1>4, <2>4, <2>5, ConsInOrder
  <2>8. Clear(x, y)
    <3>1. <<p, w[1]>> \notin Leads
      BY <1>1, <1>9, <1>10, ApartFacts
    <3>2. w[1] \notin Reach(p)
      BY <1>10, <3>1 DEF Reach
    <3>3. Selects(<<"resume", p>>) \subseteq Reach(p)
      BY DEF Selects
    <3> QED
      BY <2>2, <2>3, <3>2, <3>3 DEF Clear
  <2>9. \A z \in Entries(rest) : Clear(x, z)
    BY <1>4, <2>2 DEF Clear
  <2>10. \A z \in Entries(after) : Clear(x, z)
    BY <2>6, <2>8, <2>9
  <2>11. Jobs' = {x} \cup Entries(after) /\ InOrder(agenda')
    BY <2>4, <2>6, <2>7, <2>10, ConsJobs
  <2> QED
    BY <2>2, <2>3, <2>6, <2>11
<1>13. /\ \A x : /\ <<"resume", x>> \in Jobs' <=> x = p
                 /\ <<"select", x>> \in Jobs' <=> x = w
                 /\ <<"lose", x>> \notin Jobs' /\ <<"post", x>> \notin Jobs'
                 /\ <<"retry", x>> \in Jobs' => <<"retry", x>> \in Entries(rest)
  BY <1>4, <1>12
<1>14. JobsOK'
  <2> SUFFICES ASSUME NEW x \in Subjects
               PROVE  /\ <<"resume", x>> \in Jobs' => ResumeOK(x)'
                      /\ <<"select", x>> \in Jobs' => SelectOK(x)'
                      /\ <<"lose", x>> \in Jobs' => LoseOK(x)'
                      /\ <<"post", x>> \in Jobs' => PostOK(x)'
                      /\ <<"retry", x>> \in Jobs' => RetryOK(x)'
    BY DEF JobsOK
  <2>1. ResumeOK(p)'
    BY <1>1, <1>2, <1>3, <1>9, <1>11 DEF ResumeOK, LinedOK
  <2>2. SelectOK(w)'
    BY <1>3, <1>4, <1>9, <1>11 DEF SelectOK
  <2>3. <<"retry", x>> \in Jobs' => RetryOK(x)'
    BY <1>1, <1>3, <1>13 DEF RetryOK
  <2> QED
    BY <1>13, <2>1, <2>2, <2>3
<1>15. LinedOK'
  <2> SUFFICES ASSUME NEW x \in Lined, x # p
               PROVE  /\ x \notin Paired'
                      /\ x[2] = 0 => Ops[x[1]] # "commit" /\ pc'[x[1]] = "blocked"
                      /\ x[2] # 0 =>
                            /\ stage'[x[1]][x[2]] = "async" /\ x[2] \notin interrupted'[x[1]]
                            /\ pc'[x[1]] \in {"poll", "blocked"}
                            /\ selected'[x[1]] = 0 \/ <<"lose", x>> \in Jobs'
    BY <1>9 DEF LinedOK
  <2>1. x[1] \in Threads /\ x # w
    BY <1>4, LinedType, WaiterFacts
  <2>2. x \notin Paired'
    BY <1>2, <1>11, <2>1 DEF LinedOK
  <2> QED
    BY <1>1, <1>2, <1>3, <2>1, <2>2 DEF LinedOK
<1>16. ThreadsOK' /\ NacksOK'
  BY <1>1, <1>2, <1>3 DEF ThreadsOK, NacksOK
<1>17. PairsOK'
  <2>1. \A x : Completed(x)' <=> Completed(x)
    BY <1>1, <1>3 DEF Completed
  <2> QED
    BY <1>2, <1>3, <1>11, <1>13, <2>1 DEF PairsOK
<1> QED
  BY <1>9, <1>11, <1>12, <1>14, <1>15, <1>16, <1>17 DEF ChannelsOK

-----------------------------------------------------------------------------
(* The theorems. *)

LEMMA InvInit ==
    ASSUME Init
    PROVE  ChannelsOK
<1>1. Entries(<<>>) = {} /\ NoTwice(<<>>)
  BY DEF Entries, NoTwice
<1>2. /\ \A q \in Sides : Entries(queue[q]) = {} /\ NoTwice(queue[q])
      /\ \A n \in Waiters : Entries(nackQueue[n]) = {} /\ NoTwice(nackQueue[n])
  BY <1>1 DEF Init
<1>3. LinesOK
  BY <1>2 DEF LinesOK
<1>4. Lined = {}
  BY <1>2, LinedDef
<1>5. Jobs = {}
  BY <1>1 DEF Init, Jobs
<1>6. Paired = {}
  BY WaiterFacts DEF Init, Paired
<1>7. JobsOK
  BY <1>5 DEF JobsOK
<1>8. LinedOK
  BY <1>4 DEF LinedOK
<1>9. ThreadsOK
  BY DEF Init, ThreadsOK
<1>10. NacksOK
  BY WaiterFacts DEF Init, NacksOK
<1>11. BoxesOK
  BY DEF Init, BoxesOK
<1>12. PairsOK
  <2>1. ASSUME NEW w \in Waiters PROVE ~Completed(w)
    <3>1. w[1] \in Threads
      BY WaiterFacts
    <3>2. pc[w[1]] # "done" /\ selected[w[1]] = 0
      BY <3>1 DEF Init
    <3> QED
      BY <3>2 DEF Completed
  <2> QED
    BY <1>6, <2>1 DEF PairsOK
<1>13. InOrder(agenda)
  BY OneInOrder DEF Init
<1> QED
  BY <1>3, <1>7, <1>8, <1>9, <1>10, <1>11, <1>12, <1>13 DEF ChannelsOK

LEMMA StutterInv ==
    ASSUME ChannelsOK, UNCHANGED vars
    PROVE  ChannelsOK'
<1>1. /\ UNCHANGED <<queue, nackQueue, nackPosted, pc, stage, interrupted, selected, decided, got>>
      /\ agenda' = agenda
  BY DEF vars
<1>2. Jobs' = Jobs
  BY <1>1 DEF Jobs
<1>3. \A x : /\ <<"lose", x>> \in Jobs => <<"lose", x>> \in Jobs'
             /\ <<"post", x>> \in Jobs => <<"post", x>> \in Jobs'
             /\ <<"resume", x>> \in Jobs => <<"resume", x>> \in Jobs' \/ <<"select", x>> \in Jobs'
             /\ <<"select", x>> \in Jobs => <<"select", x>> \in Jobs'
  BY <1>2
<1>4. /\ LinesOK' /\ LinedOK' /\ ThreadsOK' /\ NacksOK' /\ BoxesOK' /\ PairsOK'
      /\ \A x \in Subjects : /\ <<"resume", x>> \in Jobs => ResumeOK(x)'
                             /\ <<"select", x>> \in Jobs => SelectOK(x)'
                             /\ <<"lose", x>> \in Jobs => LoseOK(x)'
                             /\ <<"post", x>> \in Jobs => PostOK(x)'
                             /\ <<"retry", x>> \in Jobs => RetryOK(x)'
  BY <1>1, <1>3, SameRest
<1>5. JobsOK'
  BY <1>2, <1>4 DEF JobsOK
<1>6. InOrder(agenda')
  BY <1>1 DEF ChannelsOK
<1> QED
  BY <1>4, <1>5, <1>6 DEF ChannelsOK

LEMMA InvNext ==
    ASSUME Shape, ChannelsOK, NacksApart, [Next]_vars
    PROVE  ChannelsOK'
<1>1. CASE UNCHANGED vars
  BY <1>1, StutterInv
<1>2. ASSUME NEW t \in Threads, StepOf(t) PROVE ChannelsOK'
  BY <1>2, PlainMatchInv, PlainQueueInv, CommitWaitInv, PollBlockInv, FinishInv,
     InterruptPlainInv, InterruptSyncInv, RetryInv, KillInv DEF StepOf
<1>3. ASSUME NEW w \in Waiters, PollGuard(w) PROVE ChannelsOK'
  BY <1>3, PollGuardInv
<1>4. ASSUME NEW w \in Waiters, NEW rest \in {<<>>, Tail(agenda)}, TryOf(w, rest) PROVE ChannelsOK'
  BY <1>4, TryMatchInv, TryQueueInv, TryNackedInv, TryWaitInv DEF TryOf
<1>5. ASSUME NEW w \in Subjects, TaskOf(w) PROVE ChannelsOK'
  BY <1>5, ResumeThreadInv, ResumeSyncerInv, SelectTaskInv, LoseTaskInv, PostOneInv, PostLastInv,
     RetrySkipInv DEF TaskOf
<1>6. CASE Next
  BY <1>2, <1>3, <1>4, <1>5, <1>6, StepCases DEF AnyStep
<1> QED
  BY <1>1, <1>6

LEMMA InvTypes ==
    ASSUME Shape, ChannelsOK
    PROVE  TypeOK
<1>1. /\ queue \in [Sides -> Seq(Waiters)] /\ queuedSema \in [Sides -> SUBSET Threads]
      /\ nackQueue \in [Waiters -> Seq(Waiters)] /\ nackPosted \subseteq Waiters
      /\ got \in [Waiters -> Waiters \cup {Nobody}]
  <2>1. Liners \subseteq Waiters /\ SyncWaiters \subseteq Waiters
    BY DEF Liners, SyncWaiters
  <2>2. Seq(Liners) \subseteq Seq(Waiters) /\ Seq(SyncWaiters) \subseteq Seq(Waiters)
    BY <2>1
  <2> QED
    BY <2>2 DEF Shape, QueuesShape
<1>2. /\ pc \in [Threads -> {"start", "poll", "blocked", "waiting", "done", "dead"}]
      /\ \A t \in Threads :
            /\ at[t] \in 1..(Len(Args[t]) + 1)
            /\ stage[t] \in [Syncers(t) -> {"guard", "plain", "async"}]
            /\ interrupted[t] \subseteq Syncers(t)
            /\ selected[t] \in Syncers(t) \cup {0, NoneSyncer}
  BY DEF Shape, AtShape, ThreadsShape
<1>3. decided \in [Threads -> 0..2]
  <2>1. decided \in [Threads -> Nat] /\ \A t \in Threads : decided[t] \in 0..2
    BY DEF Shape, ThreadsShape, ChannelsOK, ThreadsOK
  <2> QED
    BY <2>1
<1>4. ASSUME NEW i \in 1..Len(agenda) PROVE agenda[i][1] \in Tasks
  <2>1. agenda \in Seq(Tasks \X Subjects)
    BY DEF Shape, AgendaShape
  <2>2. agenda[i] \in Tasks \X Subjects
    BY <2>1
  <2> QED
    BY <2>2
<1> QED
  BY <1>1, <1>2, <1>3, <1>4 DEF TypeOK

\* Outside an atomic section, who has a partner has completed with it.
LEMMA InvRendezvous ==
    ASSUME Shape, ChannelsOK
    PROVE  Rendezvous
<1> SUFFICES ASSUME agenda = <<>>, NEW w \in Waiters, Event(w).kind # "nack", Completed(w)
             PROVE  IF Event(w).kind = "get"
                      THEN got[w] # Nobody /\ Completed(got[w]) /\ Event(got[w]).ch = Event(w).ch
                      ELSE Cardinality({g \in Waiters : got[g] = w /\ Completed(g)}) = 1
  BY DEF Rendezvous, Idle
<1>1. BoxesOK /\ PairsOK
  BY DEF ChannelsOK
<1>2. \A x \in Paired : x \in Waiters /\ Completed(x)
  BY IdleFacts
<1>3. w \in Paired /\ w # Nobody
  BY <1>1, WaiterFacts DEF PairsOK
<1>4. \A x \in Waiters : got[x] # Nobody => x \in Paired /\ got[x] \in Paired
  BY <1>1 DEF BoxesOK, Paired
<1>5. CASE Event(w).kind = "get"
  <2>1. \A x \in Waiters : got[x] # w
    BY <1>1, <1>3, <1>5 DEF BoxesOK
  <2>2. got[w] # Nobody
    BY <1>3, <2>1 DEF Paired
  <2>3. Event(got[w]).ch = Event(w).ch
    BY <1>1, <2>2 DEF BoxesOK
  <2> QED
    BY <1>2, <1>4, <1>5, <2>2, <2>3
<1>6. CASE Event(w).kind # "get"
  <2>1. got[w] = Nobody
    BY <1>1, <1>6 DEF BoxesOK
  <2>2. PICK g \in Waiters : got[g] = w
    BY <1>3, <2>1 DEF Paired
  <2>3. Completed(g)
    BY <1>2, <1>3, <1>4, <2>2
  <2>4. \A h \in Waiters : got[h] = w => h = g
    BY <1>1, <1>3, <2>2 DEF BoxesOK
  <2>5. {h \in Waiters : got[h] = w /\ Completed(h)} = {g}
    BY <2>2, <2>3, <2>4
  <2> QED
    BY <1>6, <2>5, FS_Singleton
<1> QED
  BY <1>5, <1>6

LEMMA InvSafe ==
    ASSUME Shape, ChannelsOK
    PROVE  ChannelInv /\ NackExactly
<1>1. NoSelfMatch
  BY DEF NoSelfMatch, ChannelsOK, BoxesOK
<1>2. DecidedOnce
  BY DEF DecidedOnce, ChannelsOK, ThreadsOK
<1>3. NackExactly
  <2> SUFFICES ASSUME agenda = <<>>, NEW w \in Waiters, Event(w).guard, stage[w[1]][w[2]] # "guard"
               PROVE  w \in nackPosted <=> selected[w[1]] \notin {0, w[2]}
    BY DEF NackExactly, Idle
  <2> QED
    BY IdleFacts DEF ChannelsOK, NacksOK
<1> QED
  BY <1>1, <1>2, <1>3, InvTypes, InvRendezvous DEF ChannelInv

LEMMA ChannelsAlwaysOK ==
    NacksApart => (Spec => [](ChannelInv /\ NackExactly))
<1> SUFFICES ASSUME NacksApart PROVE Spec => [](ChannelInv /\ NackExactly)
  OBVIOUS
<1>1. Init => Shape /\ ChannelsOK
  BY ShapeInit, InvInit
<1>2. Shape /\ ChannelsOK /\ [Next]_vars => (Shape /\ ChannelsOK)'
  BY ShapeNext, InvNext
<1>3. Shape /\ ChannelsOK => ChannelInv /\ NackExactly
  BY InvSafe
<1> QED
  BY <1>1, <1>2, <1>3, PTL DEF Spec

\* Values go from one put to one get of another thread and each sync is decided
\* once, for any threads, channels, operations, interrupts and kills, provided
\* that no sync waits, even through others, for the nack of an event of its own
\* or of one that loses when it finds a partner.
THEOREM ChannelsSafe ==
    NacksApart => (Spec => []ChannelInv)
BY ChannelsAlwaysOK, PTL

\* Outside atomic sections, exactly the nacks of the registered events that lost
\* have been posted, under the same condition.
THEOREM ChannelNacksExact ==
    NacksApart => (Spec => []NackExactly)
BY ChannelsAlwaysOK, PTL

-----------------------------------------------------------------------------
(* Thread groups. *)

Linked(n) ==
    \/ task = "remove" /\ arg = n
    \/ ~(task = "add" /\ arg = n) /\ Active(n)

Kid(n, g) == n \in Nodes \ {Root} /\ Parent[n] = g /\ Linked(n)

\* Ranks of different children differ; r decreases along next, without gaps.
RanksDiffer(r) ==
    \A g \in Groups : \A m, n \in Nodes : Kid(m, g) /\ Kid(n, g) /\ m # n => r[m] # r[n]

StartOK(r) ==
    \A g \in Groups :
        /\ chainStart[g] # Nil => Kid(chainStart[g], g)
        /\ \A n \in Nodes : Kid(n, g) =>
              chainStart[g] # Nil /\ (n = chainStart[g] \/ r[n] < r[chainStart[g]])

EndOK(r) ==
    \A g \in Groups :
        /\ chainEnd[g] # Nil => Kid(chainEnd[g], g)
        /\ \A n \in Nodes : Kid(n, g) =>
              chainEnd[g] # Nil /\ (n = chainEnd[g] \/ r[n] > r[chainEnd[g]])

NextOK(r) ==
    \A g \in Groups : \A n \in Nodes : Kid(n, g) =>
        /\ next[n] = Nil => n = chainEnd[g]
        /\ next[n] # Nil =>
              /\ Kid(next[n], g)
              /\ prev[next[n]] = n
              /\ r[next[n]] < r[n]
              /\ \A m \in Nodes : Kid(m, g) /\ r[m] < r[n] => m = next[n] \/ r[m] < r[next[n]]

PrevOK ==
    \A g \in Groups : \A n \in Nodes : Kid(n, g) =>
        /\ prev[n] = Nil => n = chainStart[g]
        /\ prev[n] # Nil => Kid(prev[n], g) /\ next[prev[n]] = n

ChainOK == \A g \in Groups : chain[g] # Nil => Kid(chain[g], g)

InRankOrder(r) ==
    /\ r \in [Nodes -> Int]
    /\ RanksDiffer(r) /\ StartOK(r) /\ EndOK(r) /\ NextOK(r) /\ PrevOK /\ ChainOK

\* What an operation under way has still to do.
TaskOK ==
    /\ task = "add" => Active(arg)
    /\ task = "remove" => ~Active(arg)
    /\ task = "select" => arg = Root \/ Active(arg)
    /\ task # "lost"

GroupTypes ==
    /\ prev \in [Nodes -> Nodes \cup {Nil}]
    /\ next \in [Nodes -> Nodes \cup {Nil}]
    /\ chainStart \in [Groups -> Nodes \cup {Nil}]
    /\ chain \in [Groups -> Nodes \cup {Nil}]
    /\ chainEnd \in [Groups -> Nodes \cup {Nil}]
    /\ status \in [Members -> {"new", "scheduled", "descheduled", "dead"}]
    /\ current \in Members \cup {Nil}
    /\ task \in {"none", "add", "remove", "select", "lost"}
    /\ task = "none" => arg = Nil
    /\ task \in {"add", "remove"} => arg \in Nodes \ {Root}
    /\ task \in {"select", "lost"} => arg \in Groups

LinkedThreads == {t \in Members : Linked(t)}
Counted == count = Cardinality(LinkedThreads)

GroupsOK == GroupTypes /\ TaskOK /\ Counted /\ \E r : InRankOrder(r)
-----------------------------------------------------------------------------
(* What the pointers and the tasks are. *)

LEMMA GroupsInit == GroupInit => GroupsOK
<1> SUFFICES ASSUME GroupInit PROVE GroupsOK
  OBVIOUS
<1> USE GroupAssumption
<1>1. GroupTypes
  BY DEF GroupInit, GroupTypes
<1>2. TaskOK
  BY DEF GroupInit, TaskOK
<1>3. \A n \in Nodes : ~Linked(n)
  BY DEF GroupInit, Linked, Active, Nodes
<1>4. Counted
  <2>1. LinkedThreads = {}
    BY <1>3 DEF LinkedThreads, Nodes
  <2> QED
    BY <2>1, FS_EmptySet DEF Counted, GroupInit
<1>5. InRankOrder([n \in Nodes |-> 0])
  BY <1>3 DEF InRankOrder, RanksDiffer, StartOK, EndOK, NextOK, PrevOK, ChainOK, Kid, GroupInit
<1> QED
  BY <1>1, <1>2, <1>4, <1>5 DEF GroupsOK

LEMMA GroupTypesStep == GroupsOK /\ [GroupNext]_groupVars => GroupTypes'
<1> SUFFICES ASSUME GroupsOK, [GroupNext]_groupVars PROVE GroupTypes'
  OBVIOUS
<1> USE GroupAssumption DEF GroupsOK
<1>1. ASSUME NEW t \in Members, Create(t) \/ Reschedule(t) \/ Deschedule(t) \/ Dead(t)
      PROVE  GroupTypes'
  BY <1>1 DEF Create, Reschedule, Deschedule, Dead, SetStatus, Continue, Finished, Others, lists,
              GroupTypes, Nodes
<1>2. CASE Add
  BY <1>2 DEF Add, Continue, Finished, GroupTypes, Nodes
<1>3. CASE Remove
  <2>1. arg \in Nodes \ {Root} /\ Parent[arg] \in Groups /\ Parent[arg] \in Nodes
    BY <1>3 DEF Remove, GroupTypes, Nodes
  <2> QED
    BY <1>3, <2>1 DEF Remove, Rest, Continue, Finished, GroupTypes
<1>4. CASE Select
  <2>1. arg \in Groups
    BY <1>4 DEF Select, GroupTypes
  <2> QED
    BY <1>4, <2>1 DEF Select, Continue, Finished, GroupTypes, Nodes, lists
<1>5. CASE StartSelect \/ SwapOut
  BY <1>5 DEF StartSelect, SwapOut, Continue, GroupTypes, lists
<1>6. CASE UNCHANGED groupVars
  BY <1>6 DEF groupVars, lists, GroupTypes
<1> QED
  BY <1>1, <1>2, <1>3, <1>4, <1>5, <1>6 DEF GroupNext, Work
-----------------------------------------------------------------------------
(* Which nodes are linked. *)

\* A thread operation has not touched the lists yet.
LEMMA ThreadStepLinks ==
    ASSUME GroupsOK, NEW t \in Members,
           Create(t) \/ Reschedule(t) \/ Deschedule(t) \/ Dead(t)
    PROVE  /\ \A n \in Nodes \ {Root} : Linked(n)' <=> Linked(n)
           /\ TaskOK'
<1> USE GroupAssumption DEF GroupsOK, GroupTypes, TaskOK, Linked, Active, SetStatus, Continue, Finished,
        Others, lists
<1>1. CASE Create(t) \/ Reschedule(t)
  BY <1>1 DEF Create, Reschedule, Nodes
<1>2. CASE Deschedule(t) \/ Dead(t)
  BY <1>2 DEF Deschedule, Dead, Nodes
<1> QED
  BY <1>1, <1>2

\* thread-group-add! links its node and no other.
LEMMA AddLinks ==
    ASSUME GroupsOK, Add
    PROVE  /\ ~Linked(arg)
           /\ \A n \in Nodes \ {Root} : Linked(n)' <=> n = arg \/ Linked(n)
           /\ TaskOK'
<1> USE GroupAssumption DEF GroupsOK
<1>1. PICK g \in Groups : /\ g = Parent[arg] /\ g # arg
                          /\ g \in Nodes /\ g \notin Members /\ arg \in Nodes \ {Root}
  BY DEF GroupTypes, Add, Nodes
<1>2. ~Linked(arg) /\ Active(arg)
  BY DEF Add, TaskOK, Linked
<1>3. \A n \in Nodes \ {g} : Active(n)' <=> Active(n)
  BY <1>1 DEF Add, Active, GroupTypes, Nodes
<1>4. /\ Active(g)'
      /\ Active(g) <=> chainStart[g] # Nil
  BY <1>1 DEF Add, Active, GroupTypes, Nodes
<1>5. TaskOK'
  BY <1>1, <1>4 DEF Add, TaskOK, Continue, Finished
<1>6. \A n \in Nodes \ {Root} : Linked(n)' <=> n = arg \/ Linked(n)
  BY <1>1, <1>2, <1>3, <1>4 DEF Add, Linked, Continue, Finished
<1> QED
  BY <1>2, <1>5, <1>6

\* thread-group-remove! unlinks its node and no other.
LEMMA RemoveLinks ==
    ASSUME GroupsOK, Remove
    PROVE  /\ Linked(arg)
           /\ \A n \in Nodes \ {Root} : Linked(n)' <=> n # arg /\ Linked(n)
           /\ TaskOK'
<1> USE GroupAssumption DEF GroupsOK
<1>1. PICK g \in Groups : /\ g = Parent[arg] /\ g # arg
                          /\ g \in Nodes /\ g \notin Members /\ arg \in Nodes \ {Root}
  BY DEF GroupTypes, Remove, Nodes
<1>2. Linked(arg) /\ ~Active(arg)
  BY DEF Remove, TaskOK, Linked
<1>3. \A n \in Nodes \ {g} : Active(n)' <=> Active(n)
  BY <1>1 DEF Remove, Active, GroupTypes, Nodes
<1>4. chainStart[g] # Nil /\ chainEnd[g] # Nil
  BY <1>1, <1>2 DEF InRankOrder, StartOK, EndOK, Kid
<1>5. Active(g) /\ (Active(g)' <=> chainStart'[g] # Nil)
  BY <1>1, <1>4 DEF Active
<1>6. chainStart'[g] = Nil <=> chainEnd'[g] = Nil
  <2>1. /\ chainStart'[g] = IF prev[arg] = Nil THEN next[arg] ELSE chainStart[g]
        /\ chainEnd'[g] = IF next[arg] = Nil THEN prev[arg] ELSE chainEnd[g]
    BY <1>1 DEF Remove, GroupTypes
  <2> QED
    BY <1>4, <2>1
<1>7. TaskOK'
  BY <1>1, <1>5, <1>6 DEF Remove, TaskOK, Continue, Finished
<1>8. \A n \in Nodes \ {Root} : Linked(n)' <=> n # arg /\ Linked(n)
  BY <1>1, <1>2, <1>3, <1>5, <1>6 DEF Remove, Linked, Continue, Finished
<1> QED
  BY <1>2, <1>7, <1>8

\* The scheduler changes no list, and finds no empty group.
LEMMA SchedulerLinks ==
    ASSUME GroupsOK, Select \/ StartSelect \/ SwapOut \/ UNCHANGED groupVars
    PROVE  /\ \A n \in Nodes \ {Root} : Linked(n)' <=> Linked(n)
           /\ TaskOK'
<1> USE GroupAssumption DEF GroupsOK, Linked, Active
<1>1. CASE Select
  <2> DEFINE n == IF chain[arg] = Nil THEN chainStart[arg] ELSE chain[arg]
  <2>1. arg \in Groups /\ task = "select" /\ (arg = Root \/ chainStart[arg] # Nil)
    BY <1>1 DEF Select, GroupTypes, TaskOK
  <2>2. n # Nil => n \in Nodes \ {Root} /\ Active(n)
    BY <2>1 DEF InRankOrder, StartOK, ChainOK, Kid
  <2> QED
    BY <1>1, <2>1, <2>2 DEF Select, TaskOK, Continue, Finished, lists, Nodes
<1>2. CASE StartSelect
  BY <1>2 DEF StartSelect, TaskOK, Continue, lists
<1>3. CASE SwapOut
  BY <1>3 DEF SwapOut, TaskOK, lists
<1>4. CASE UNCHANGED groupVars
  BY <1>4 DEF groupVars, lists, TaskOK
<1> QED
  BY <1>1, <1>2, <1>3, <1>4
-----------------------------------------------------------------------------
(* The count. *)

LEMMA CountStep == GroupsOK /\ [GroupNext]_groupVars => Counted'
<1> SUFFICES ASSUME GroupsOK, [GroupNext]_groupVars PROVE Counted'
  OBVIOUS
<1> USE GroupAssumption
<1>0. /\ Members \subseteq Nodes \ {Root}
      /\ LinkedThreads \subseteq Members
      /\ IsFiniteSet(LinkedThreads)
      /\ count = Cardinality(LinkedThreads)
      /\ count \in Nat
  <2>1. Members \subseteq Nodes \ {Root} /\ LinkedThreads \subseteq Members
    BY DEF Nodes, LinkedThreads
  <2> QED
    BY <2>1, FS_Subset, FS_CardinalityType DEF GroupsOK, Counted
<1>1. ASSUME NEW t \in Members, Create(t) \/ Reschedule(t) \/ Deschedule(t) \/ Dead(t)
      PROVE  Counted'
  <2>1. LinkedThreads' = LinkedThreads
    BY <1>0, <1>1, ThreadStepLinks DEF LinkedThreads
  <2>2. count' = count
    BY <1>1 DEF Create, Reschedule, Deschedule, Dead, Others
  <2> QED
    BY <1>0, <2>1, <2>2 DEF Counted
<1>2. CASE Add
  <2>0. ~Linked(arg) /\ \A n \in Nodes \ {Root} : Linked(n)' <=> n = arg \/ Linked(n)
    BY <1>2, AddLinks
  <2>1. CASE arg \in Members
    <3>1. LinkedThreads' = LinkedThreads \cup {arg} /\ arg \notin LinkedThreads
      BY <1>0, <2>0, <2>1 DEF LinkedThreads
    <3>2. count' = count + 1
      BY <1>2, <2>1 DEF Add, Weight
    <3> QED
      BY <1>0, <3>1, <3>2, FS_AddElement DEF Counted
  <2>2. CASE arg \notin Members
    <3>1. LinkedThreads' = LinkedThreads
      BY <1>0, <2>0, <2>2 DEF LinkedThreads
    <3>2. count' = count
      BY <1>0, <1>2, <2>2 DEF Add, Weight
    <3> QED
      BY <1>0, <3>1, <3>2 DEF Counted
  <2> QED
    BY <2>1, <2>2
<1>3. CASE Remove
  <2>0. Linked(arg) /\ \A n \in Nodes \ {Root} : Linked(n)' <=> n # arg /\ Linked(n)
    BY <1>3, RemoveLinks
  <2>1. CASE arg \in Members
    <3>1. LinkedThreads' = LinkedThreads \ {arg} /\ arg \in LinkedThreads
      BY <1>0, <2>0, <2>1 DEF LinkedThreads
    <3>2. count' = count - 1
      BY <1>3, <2>1 DEF Remove, Weight
    <3> QED
      BY <1>0, <3>1, <3>2, FS_RemoveElement DEF Counted
  <2>2. CASE arg \notin Members
    <3>1. LinkedThreads' = LinkedThreads
      BY <1>0, <2>0, <2>2 DEF LinkedThreads
    <3>2. count' = count
      BY <1>0, <1>3, <2>2 DEF Remove, Weight
    <3> QED
      BY <1>0, <3>1, <3>2 DEF Counted
  <2> QED
    BY <2>1, <2>2
<1>4. CASE Select \/ StartSelect \/ SwapOut \/ UNCHANGED groupVars
  <2>1. LinkedThreads' = LinkedThreads
    BY <1>0, <1>4, SchedulerLinks DEF LinkedThreads
  <2>2. count' = count
    BY <1>4 DEF Select, StartSelect, SwapOut, groupVars
  <2> QED
    BY <1>0, <2>1, <2>2 DEF Counted
<1> QED
  BY <1>1, <1>2, <1>3, <1>4 DEF GroupNext, Work
-----------------------------------------------------------------------------
(* The lists. *)

\* Steps that change neither the links nor which nodes are linked.
LEMMA SameLists ==
    ASSUME NEW r, InRankOrder(r), UNCHANGED lists,
           \A n \in Nodes \ {Root} : Linked(n)' <=> Linked(n),
           ChainOK'
    PROVE  InRankOrder(r)'
<1>1. \A n, g : Kid(n, g)' <=> Kid(n, g)
  BY DEF Kid
<1> QED
  BY <1>1 DEF InRankOrder, RanksDiffer, StartOK, EndOK, NextOK, PrevOK, lists

LEMMA AddOrdered ==
    ASSUME GroupsOK, Add, NEW r, InRankOrder(r)
    PROVE  \E q : InRankOrder(q)'
<1> USE GroupAssumption
<1>1. PICK n \in Nodes \ {Root}, g \in Groups : n = arg /\ g = Parent[n]
  BY DEF GroupsOK, GroupTypes, Add
<1> DEFINE s == chainStart[g]
<1>2. /\ ~Linked(n)
      /\ \A m \in Nodes \ {Root} : Linked(m)' <=> m = n \/ Linked(m)
  BY <1>1, AddLinks
<1>3. /\ ~Kid(n, g)
      /\ \A m, h : Kid(m, h)' <=> Kid(m, h) \/ (m = n /\ h = g)
  BY <1>1, <1>2 DEF Kid
<1>4. /\ next' = [next EXCEPT ![n] = s]
      /\ prev' = [m \in Nodes |-> IF m = n THEN Nil ELSE IF m = s THEN n ELSE prev[m]]
      /\ chainStart' = [chainStart EXCEPT ![g] = n]
      /\ chainEnd' = IF s = Nil THEN [chainEnd EXCEPT ![g] = n] ELSE chainEnd
      /\ chain' = chain
  BY <1>1 DEF Add
<1>5. /\ next \in [Nodes -> Nodes \cup {Nil}] /\ prev \in [Nodes -> Nodes \cup {Nil}]
      /\ chainStart \in [Groups -> Nodes \cup {Nil}]
      /\ chainEnd \in [Groups -> Nodes \cup {Nil}]
      /\ chain \in [Groups -> Nodes \cup {Nil}]
      /\ r \in [Nodes -> Int]
  BY DEF GroupsOK, GroupTypes, InRankOrder
<1>6. /\ s # Nil => Kid(s, g) /\ s \in Nodes
      /\ \A m \in Nodes : Kid(m, g) => s # Nil /\ r[m] <= r[s]
      /\ \A m \in Nodes, h \in Groups : Kid(m, h) => m # n /\ (h # g => m # s)
  BY <1>2, <1>5 DEF InRankOrder, StartOK, Kid
<1>7. PICK q \in [Nodes -> Int] :
          /\ \A m \in Nodes : m # n => q[m] = r[m]
          /\ s # Nil => q[n] = r[s] + 1
          /\ \A m \in Nodes : Kid(m, g) => q[m] < q[n]
  <2> DEFINE q == [r EXCEPT ![n] = IF s = Nil THEN 0 ELSE r[s] + 1]
  <2>1. /\ q \in [Nodes -> Int]
        /\ \A m \in Nodes : m # n => q[m] = r[m]
        /\ s # Nil => q[n] = r[s] + 1
        /\ \A m \in Nodes : Kid(m, g) => q[m] < q[n]
    BY <1>5, <1>6
  <2> QED
    BY <2>1
<1>8. RanksDiffer(q)'
  BY <1>3, <1>6, <1>7 DEF InRankOrder, RanksDiffer
<1>9. StartOK(q)'
  BY <1>3, <1>4, <1>5, <1>6, <1>7 DEF InRankOrder, StartOK
<1>10. EndOK(q)'
  BY <1>3, <1>4, <1>5, <1>6, <1>7 DEF InRankOrder, EndOK
<1>11. NextOK(q)'
  BY <1>3, <1>4, <1>5, <1>6, <1>7 DEF InRankOrder, StartOK, NextOK
<1>12. PrevOK'
  BY <1>3, <1>4, <1>5, <1>6 DEF InRankOrder, PrevOK
<1>13. ChainOK'
  BY <1>3, <1>4 DEF InRankOrder, ChainOK
<1> QED
  BY <1>7, <1>8, <1>9, <1>10, <1>11, <1>12, <1>13 DEF InRankOrder

LEMMA RemoveOrdered ==
    ASSUME GroupsOK, Remove, NEW r, InRankOrder(r)
    PROVE  InRankOrder(r)'
<1> USE GroupAssumption
<1>1. PICK n \in Nodes \ {Root}, g \in Groups : n = arg /\ g = Parent[n]
  BY DEF GroupsOK, GroupTypes, Remove
<1> DEFINE p == prev[n]
           q == next[n]
<1>2. /\ Linked(n)
      /\ \A m \in Nodes \ {Root} : Linked(m)' <=> m # n /\ Linked(m)
  BY <1>1, RemoveLinks
<1>3. /\ Kid(n, g)
      /\ \A m, h : Kid(m, h)' <=> Kid(m, h) /\ m # n
  BY <1>1, <1>2 DEF Kid
<1>4. /\ prev' = [m \in Nodes |-> IF m = n THEN Nil ELSE IF m = q THEN p ELSE prev[m]]
      /\ next' = [m \in Nodes |-> IF m = n THEN Nil ELSE IF m = p THEN q ELSE next[m]]
      /\ chainEnd' = IF q = Nil THEN [chainEnd EXCEPT ![g] = p] ELSE chainEnd
      /\ chainStart' = IF p = Nil THEN [chainStart EXCEPT ![g] = q] ELSE chainStart
      /\ chain' = [chain EXCEPT ![g] = IF @ = n THEN q ELSE @]
  BY <1>1 DEF Remove, Rest
<1>5. /\ next \in [Nodes -> Nodes \cup {Nil}] /\ prev \in [Nodes -> Nodes \cup {Nil}]
      /\ chainStart \in [Groups -> Nodes \cup {Nil}]
      /\ chainEnd \in [Groups -> Nodes \cup {Nil}]
      /\ chain \in [Groups -> Nodes \cup {Nil}]
      /\ r \in [Nodes -> Int]
  BY DEF GroupsOK, GroupTypes, InRankOrder
<1>6. \A m, h : Kid(m, h) => m \in Nodes /\ (h # g => m # n)
  BY <1>1 DEF Kid
<1>7. /\ p # Nil => Kid(p, g) /\ next[p] = n /\ p # n /\ r[p] > r[n]
      /\ p = Nil => n = chainStart[g]
      /\ q # Nil => Kid(q, g) /\ prev[q] = n /\ q # n /\ r[q] < r[n]
      /\ q = Nil => n = chainEnd[g]
  BY <1>3, <1>5, <1>6 DEF InRankOrder, NextOK, PrevOK
<1>8. RanksDiffer(r)'
  BY <1>3 DEF InRankOrder, RanksDiffer
<1>9. StartOK(r)'
  BY <1>3, <1>4, <1>5, <1>6, <1>7 DEF InRankOrder, StartOK, EndOK, NextOK
<1>10. EndOK(r)'
  BY <1>3, <1>4, <1>5, <1>6, <1>7 DEF InRankOrder, StartOK, EndOK, NextOK, RanksDiffer
<1>11. NextOK(r)'
  BY <1>3, <1>4, <1>5, <1>6, <1>7 DEF InRankOrder, NextOK, PrevOK
<1>12. PrevOK'
  BY <1>3, <1>4, <1>5, <1>6, <1>7 DEF InRankOrder, PrevOK, NextOK
<1>13. ChainOK'
  BY <1>3, <1>4, <1>5, <1>6, <1>7 DEF InRankOrder, ChainOK
<1> QED
  BY <1>5, <1>8, <1>9, <1>10, <1>11, <1>12, <1>13 DEF InRankOrder

LEMMA OrderStep == GroupsOK /\ [GroupNext]_groupVars => \E r : InRankOrder(r)'
<1> SUFFICES ASSUME GroupsOK, [GroupNext]_groupVars PROVE \E r : InRankOrder(r)'
  OBVIOUS
<1>0. PICK r : InRankOrder(r)
  BY DEF GroupsOK
<1>1. ASSUME NEW t \in Members, Create(t) \/ Reschedule(t) \/ Deschedule(t) \/ Dead(t)
      PROVE  InRankOrder(r)'
  <2>1. UNCHANGED <<lists, chain>>
    BY <1>1 DEF Create, Reschedule, Deschedule, Dead, Others
  <2>2. \A n \in Nodes \ {Root} : Linked(n)' <=> Linked(n)
    BY <1>1, ThreadStepLinks
  <2>3. ChainOK'
    BY <1>0, <2>1, <2>2 DEF InRankOrder, ChainOK, Kid
  <2> QED
    BY <1>0, <2>1, <2>2, <2>3, SameLists
<1>2. CASE Add
  BY <1>0, <1>2, AddOrdered
<1>3. CASE Remove
  BY <1>0, <1>3, RemoveOrdered
<1>4. CASE Select \/ StartSelect \/ SwapOut \/ UNCHANGED groupVars
  <2>1. UNCHANGED lists
    BY <1>4 DEF Select, StartSelect, SwapOut, groupVars
  <2>2. \A n \in Nodes \ {Root} : Linked(n)' <=> Linked(n)
    BY <1>4, SchedulerLinks
  <2>3. ChainOK'
    <3>1. \A n, g : Kid(n, g)' <=> Kid(n, g)
      BY <2>2 DEF Kid
    <3>2. CASE Select /\ chain' # chain
      <4> USE GroupAssumption
      <4>1. PICK g \in Groups : g = arg
        BY <3>2 DEF Select, GroupsOK, GroupTypes
      <4>2. PICK n \in Nodes : Kid(n, g) /\ chain' = [chain EXCEPT ![g] = next[n]]
        BY <1>0, <3>2, <4>1 DEF Select, InRankOrder, StartOK, ChainOK, Kid
      <4>3. chain \in [Groups -> Nodes \cup {Nil}]
        BY DEF GroupsOK, GroupTypes
      <4> QED
        BY <1>0, <3>1, <4>2, <4>3 DEF InRankOrder, NextOK, ChainOK
    <3>3. CASE chain' = chain
      BY <1>0, <3>1, <3>3 DEF InRankOrder, ChainOK
    <3> QED
      BY <1>4, <3>2, <3>3 DEF StartSelect, SwapOut, groupVars
  <2> QED
    BY <1>0, <2>1, <2>2, <2>3, SameLists
<1> QED
  BY <1>1, <1>2, <1>3, <1>4 DEF GroupNext, Work

LEMMA GroupsNext == GroupsOK /\ [GroupNext]_groupVars => GroupsOK'
<1> SUFFICES ASSUME GroupsOK, [GroupNext]_groupVars PROVE GroupsOK'
  OBVIOUS
<1>1. TaskOK'
  BY ThreadStepLinks, AddLinks, RemoveLinks, SchedulerLinks DEF GroupNext, Work
<1>2. (\E r : InRankOrder(r))'
  BY OrderStep
<1> QED
  BY <1>1, <1>2, GroupTypesStep, CountStep DEF GroupsOK

LEMMA GroupsAlwaysOK == GroupSpec => []GroupsOK
<1> QED
  BY GroupsInit, GroupsNext, PTL DEF GroupSpec
-----------------------------------------------------------------------------
(* A list, followed from its start, comes to every linked node once. *)

Kids(g) == {n \in Nodes : Kid(n, g)}

\* The nodes from the start of the list down to n.
Down(K, r, n) == {m \in K : r[m] >= r[n]}
Place(K, r, n) == Cardinality(Down(K, r, n))

LEMMA PlaceBijective ==
    ASSUME NEW K, IsFiniteSet(K), NEW r, \A n \in K : r[n] \in Int,
           \A m, n \in K : m # n => r[m] # r[n]
    PROVE  /\ Cardinality(K) \in Nat
           /\ \A n \in K : Place(K, r, n) \in 1..Cardinality(K)
           /\ \A m, n \in K : Place(K, r, m) = Place(K, r, n) => m = n
           /\ \A i \in 1..Cardinality(K) : \E n \in K : Place(K, r, n) = i
<1>1. Cardinality(K) \in Nat
  BY FS_CardinalityType
<1>2. \A n \in K : /\ IsFiniteSet(Down(K, r, n)) /\ Place(K, r, n) \in Nat
                   /\ Place(K, r, n) <= Cardinality(K)
  <2> TAKE n \in K
  <2>1. Down(K, r, n) \in SUBSET K
    BY DEF Down
  <2> QED
    BY <2>1, FS_Subset, FS_CardinalityType DEF Place
<1>3. \A n \in K : Place(K, r, n) \in 1..Cardinality(K)
  <2> TAKE n \in K
  <2>1. Down(K, r, n) # {}
    BY DEF Down
  <2>2. Place(K, r, n) # 0
    BY <1>2, <2>1, FS_EmptySet DEF Place
  <2> QED
    BY <1>1, <1>2, <2>2
<1>4. ASSUME NEW m \in K, NEW n \in K, r[n] < r[m] PROVE Place(K, r, m) < Place(K, r, n)
  <2>1. Down(K, r, m) \in SUBSET Down(K, r, n)
    BY <1>4 DEF Down
  <2>2. n \in Down(K, r, n) /\ n \notin Down(K, r, m)
    BY <1>4 DEF Down
  <2>3. /\ Cardinality(Down(K, r, m)) <= Cardinality(Down(K, r, n))
        /\ Cardinality(Down(K, r, n)) # Cardinality(Down(K, r, m))
    BY <1>2, <2>1, <2>2, FS_Subset
  <2> QED
    BY <1>2, <2>3 DEF Place
<1>5. ASSUME NEW m \in K, NEW n \in K, m # n PROVE Place(K, r, m) # Place(K, r, n)
  <2>1. r[m] < r[n] \/ r[n] < r[m]
    BY <1>5
  <2> QED
    BY <1>2, <1>4, <2>1
<1>6. \A i \in 1..Cardinality(K) : \E n \in K : Place(K, r, n) = i
  <2> DEFINE f == [n \in K |-> Place(K, r, n)]
  <2>1. f \in Injection(K, 1..Cardinality(K))
    BY <1>3, <1>5 DEF Injection, IsInjective
  <2>2. IsFiniteSet(1..Cardinality(K)) /\ Cardinality(1..Cardinality(K)) = Cardinality(K)
    <3>1. 1 \in Int /\ Cardinality(K) \in Int
      BY <1>1
    <3>2. /\ IsFiniteSet(1..Cardinality(K))
          /\ Cardinality(1..Cardinality(K)) =
                IF 1 > Cardinality(K) THEN 0 ELSE Cardinality(K) - 1 + 1
      BY <3>1, FS_Interval
    <3> QED
      BY <1>1, <3>2
  <2>3. f \in Surjection(K, 1..Cardinality(K))
    BY <2>1, <2>2, FS_Injection
  <2> QED
    BY <2>3 DEF Surjection
<1> QED
  BY <1>1, <1>3, <1>5, <1>6

\* The start of a list is at place 1, its end at the last one, and next leads
\* from a place to the following one.
LEMMA PlacesFollow ==
    ASSUME GroupsOK, NEW r, InRankOrder(r), NEW g \in Groups, NEW K, K = Kids(g)
    PROVE  /\ IsFiniteSet(K) /\ K \subseteq Nodes /\ Nil \notin K
           /\ \A n \in K : r[n] \in Int
           /\ \A m, n \in K : m # n => r[m] # r[n]
           /\ K # {} => /\ chainStart[g] \in K /\ Place(K, r, chainStart[g]) = 1
                        /\ chainEnd[g] \in K /\ Place(K, r, chainEnd[g]) = Cardinality(K)
           /\ K = {} => chainStart[g] = Nil /\ chainEnd[g] = Nil
           /\ \A n \in K : next[n] # Nil => next[n] \in K /\ Place(K, r, next[n]) = Place(K, r, n) + 1
           /\ \A n \in K : next[n] = Nil => n = chainEnd[g]
<1>1. \A n : n \in K <=> Kid(n, g)
  BY DEF Kids, Kid
<1>2. K \subseteq Nodes /\ Nil \notin K
  BY <1>1, GroupAssumption DEF Kid
<1>3. IsFiniteSet(K)
  <2>1. IsFiniteSet(Nodes)
    BY GroupAssumption, FS_Union DEF Nodes
  <2> QED
    BY <1>2, <2>1, FS_Subset
<1>4. /\ \A n \in K : r[n] \in Int
      /\ \A m, n \in K : m # n => r[m] # r[n]
  BY <1>1, <1>2 DEF InRankOrder, RanksDiffer
<1>5. ASSUME K # {} PROVE chainStart[g] \in K /\ Place(K, r, chainStart[g]) = 1
  <2>1. chainStart[g] # Nil /\ chainStart[g] \in K
    BY <1>1, <1>2, <1>5 DEF InRankOrder, StartOK
  <2>2. \A n \in K : n = chainStart[g] \/ r[n] < r[chainStart[g]]
    BY <1>1, <1>2 DEF InRankOrder, StartOK
  <2>3. Down(K, r, chainStart[g]) = {chainStart[g]}
    BY <1>4, <2>1, <2>2 DEF Down
  <2> QED
    BY <2>1, <2>3, FS_Singleton DEF Place
<1>6. ASSUME K # {} PROVE chainEnd[g] \in K /\ Place(K, r, chainEnd[g]) = Cardinality(K)
  <2>1. chainEnd[g] # Nil /\ chainEnd[g] \in K
    BY <1>1, <1>2, <1>6 DEF InRankOrder, EndOK
  <2>2. \A n \in K : n = chainEnd[g] \/ r[n] > r[chainEnd[g]]
    BY <1>1, <1>2 DEF InRankOrder, EndOK
  <2>3. Down(K, r, chainEnd[g]) = K
    BY <1>4, <2>1, <2>2 DEF Down
  <2> QED
    BY <2>1, <2>3 DEF Place
<1>7. K = {} => chainStart[g] = Nil /\ chainEnd[g] = Nil
  BY <1>1 DEF InRankOrder, StartOK, EndOK
<1>8. ASSUME NEW n \in K, next[n] # Nil
      PROVE  next[n] \in K /\ Place(K, r, next[n]) = Place(K, r, n) + 1
  <2>1. /\ next[n] \in K /\ r[next[n]] < r[n]
        /\ \A m \in K : r[m] < r[n] => m = next[n] \/ r[m] < r[next[n]]
    BY <1>1, <1>2, <1>8 DEF InRankOrder, NextOK
  <2>2. Down(K, r, next[n]) = Down(K, r, n) \cup {next[n]} /\ next[n] \notin Down(K, r, n)
    BY <1>4, <2>1 DEF Down
  <2>3. IsFiniteSet(Down(K, r, n))
    <3>1. Down(K, r, n) \in SUBSET K
      BY DEF Down
    <3> QED
      BY <1>3, <3>1, FS_Subset
  <2>4. Cardinality(Down(K, r, n) \cup {next[n]}) = Cardinality(Down(K, r, n)) + 1
    BY <2>2, <2>3, FS_AddElement
  <2> QED
    BY <2>1, <2>2, <2>4 DEF Place
<1>9. \A n \in K : next[n] = Nil => n = chainEnd[g]
  BY <1>1, <1>2 DEF InRankOrder, NextOK
<1> QED
  BY <1>2, <1>3, <1>4, <1>5, <1>6, <1>7, <1>8, <1>9

\* How the list of a group goes on, as List says.
Follow(g, f) ==
    [i \in 1..Length |->
        IF i = 1 THEN chainStart[g] ELSE IF f[i - 1] = Nil THEN Nil ELSE next[f[i - 1]]]

\* Two lists that go on alike are the same.
LEMMA FollowOnce ==
    ASSUME Length \in Nat, NEW g, NEW f, f = Follow(g, f), NEW h, h = Follow(g, h)
    PROVE  \A i \in 1..Length : f[i] = h[i]
<1> DEFINE D == {i \in 1..Length : f[i] # h[i]}
<1> SUFFICES ASSUME D # {} PROVE FALSE
  OBVIOUS
<1>1. D \in SUBSET (1..Length)
  OBVIOUS
<1>2. \E i \in D : \A j \in D : i <= j
  BY <1>1, FirstPosition
<1>3. PICK i \in D : \A j \in D : i <= j
  BY <1>2
<1>4. \A j \in 1..Length :
         /\ f[j] = IF j = 1 THEN chainStart[g] ELSE IF f[j - 1] = Nil THEN Nil ELSE next[f[j - 1]]
         /\ h[j] = IF j = 1 THEN chainStart[g] ELSE IF h[j - 1] = Nil THEN Nil ELSE next[h[j - 1]]
  BY DEF Follow
<1>5. i # 1
  BY <1>3, <1>4
<1>6. i - 1 \in 1..Length /\ i - 1 \notin D
  BY <1>3, <1>5
<1>7. f[i - 1] = h[i - 1]
  BY <1>6
<1> QED
  BY <1>3, <1>4, <1>7

LEMMA ListFollows ==
    ASSUME NEW g, NEW f, f = Follow(g, f)
    PROVE  List(g) = Follow(g, List(g))
BY DEF List, Follow

\* The i-th node of the list of a group is the one at place i.
LEMMA ListPlaces ==
    ASSUME GroupsOK, NEW r, InRankOrder(r), NEW g \in Groups, NEW K, K = Kids(g)
    PROVE  /\ Length \in Nat /\ Cardinality(K) \in Nat /\ Cardinality(K) < Length
           /\ \A i \in 1..Length :
                 /\ i <= Cardinality(K) => List(g)[i] \in K /\ Place(K, r, List(g)[i]) = i
                 /\ i > Cardinality(K) => List(g)[i] = Nil
                 /\ List(g)[i] = IF i = 1 THEN chainStart[g]
                                 ELSE IF List(g)[i - 1] = Nil THEN Nil ELSE next[List(g)[i - 1]]
<1>1. /\ IsFiniteSet(K) /\ K \subseteq Nodes /\ Nil \notin K
      /\ \A n \in K : r[n] \in Int
      /\ \A m, n \in K : m # n => r[m] # r[n]
  BY PlacesFollow
<1>2. /\ K # {} => /\ chainStart[g] \in K /\ Place(K, r, chainStart[g]) = 1
                   /\ chainEnd[g] \in K /\ Place(K, r, chainEnd[g]) = Cardinality(K)
      /\ K = {} => chainStart[g] = Nil /\ chainEnd[g] = Nil
      /\ \A n \in K : next[n] # Nil => next[n] \in K /\ Place(K, r, next[n]) = Place(K, r, n) + 1
      /\ \A n \in K : next[n] = Nil => n = chainEnd[g]
  BY PlacesFollow
<1>3. /\ Cardinality(K) \in Nat
      /\ \A n \in K : Place(K, r, n) \in 1..Cardinality(K)
      /\ \A m, n \in K : Place(K, r, m) = Place(K, r, n) => m = n
      /\ \A i \in 1..Cardinality(K) : \E n \in K : Place(K, r, n) = i
  BY <1>1, PlaceBijective
<1>4. Length \in Nat /\ Cardinality(K) < Length
  <2>1. IsFiniteSet(Nodes)
    BY GroupAssumption, FS_Union DEF Nodes
  <2>2. Cardinality(Nodes) \in Nat /\ Cardinality(K) <= Cardinality(Nodes)
    BY <1>1, <2>1, FS_Subset, FS_CardinalityType
  <2> QED
    BY <1>3, <2>2 DEF Length
<1> DEFINE c == Cardinality(K)
           At(i) == CHOOSE n \in K : Place(K, r, n) = i
           f == [i \in 1..Length |-> IF i <= c THEN At(i) ELSE Nil]
<1>5. \A i \in 1..c : At(i) \in K /\ Place(K, r, At(i)) = i
  BY <1>3
<1>6. \A i \in 1..Length : f[i] = IF i <= c THEN At(i) ELSE Nil
  OBVIOUS
<1>a. f = [i \in 1..Length |-> f[i]]
  OBVIOUS
<1>b. c \in Nat /\ c = Cardinality(K)
  BY <1>3
<1> HIDE DEF At, f, c
<1>7. \A i \in 1..Length : /\ i <= c => f[i] \in K /\ Place(K, r, f[i]) = i
                           /\ i > c => f[i] = Nil
  BY <1>4, <1>5, <1>6, <1>b
<1>8. ASSUME NEW i \in 1..Length
      PROVE  f[i] = IF i = 1 THEN chainStart[g] ELSE IF f[i - 1] = Nil THEN Nil ELSE next[f[i - 1]]
  <2>1. CASE i = 1
    <3>1. CASE K = {}
      <4>1. c = 0
        BY <1>1, <1>b, <3>1, FS_EmptySet
      <4> QED
        BY <1>2, <1>7, <2>1, <3>1, <4>1
    <3>2. CASE K # {}
      <4>1. 1 <= c
        BY <1>2, <1>3, <1>b, <3>2
      <4>2. f[1] \in K /\ Place(K, r, f[1]) = 1
        BY <1>7, <2>1, <4>1
      <4> QED
        BY <1>2, <1>3, <2>1, <3>2, <4>2
    <3> QED
      BY <3>1, <3>2
  <2>2. CASE i # 1
    <3>1. i - 1 \in 1..Length
      BY <1>4, <2>2
    <3>2. CASE i - 1 > c
      BY <1>7, <1>b, <2>2, <3>1, <3>2
    <3>3. CASE i - 1 <= c
      <4>1. f[i - 1] \in K /\ Place(K, r, f[i - 1]) = i - 1
        BY <1>7, <3>1, <3>3
      <4>2. CASE next[f[i - 1]] = Nil
        <5>1. f[i - 1] = chainEnd[g] /\ i - 1 = c
          BY <1>2, <1>b, <4>1, <4>2
        <5>2. f[i] = Nil
          BY <1>7, <1>b, <5>1
        <5> QED
          BY <1>1, <2>2, <4>1, <4>2, <5>2
      <4>3. CASE next[f[i - 1]] # Nil
        <5>1. next[f[i - 1]] \in K /\ Place(K, r, next[f[i - 1]]) = i
          BY <1>2, <4>1, <4>3
        <5>2. i <= c
          BY <1>3, <1>b, <5>1
        <5>3. f[i] = next[f[i - 1]]
          BY <1>3, <1>7, <5>1, <5>2
        <5> QED
          BY <1>1, <2>2, <4>1, <5>3
      <4> QED
        BY <4>2, <4>3
    <3> QED
      BY <1>b, <3>1, <3>2, <3>3
  <2> QED
    BY <2>1, <2>2
<1>9. f = Follow(g, f)
  BY <1>8, <1>a DEF Follow
<1>10. List(g) = Follow(g, List(g))
  BY <1>9, ListFollows
<1> DEFINE l == List(g)
<1>11. l = Follow(g, l)
  BY <1>10
<1> HIDE DEF l
<1>12. \A i \in 1..Length : l[i] = f[i]
  BY <1>4, <1>9, <1>11, FollowOnce
<1>13. \A i \in 1..Length :
         l[i] = IF i = 1 THEN chainStart[g] ELSE IF l[i - 1] = Nil THEN Nil ELSE next[l[i - 1]]
  BY <1>11 DEF Follow
<1>14. \A i \in 1..Length : /\ i <= Cardinality(K) => l[i] \in K /\ Place(K, r, l[i]) = i
                            /\ i > Cardinality(K) => l[i] = Nil
  BY <1>7, <1>12, <1>b
<1> QED
  BY <1>3, <1>4, <1>13, <1>14 DEF l

\* What ChildrenExactly says of the list l of group g, whose nodes are members.
ListFits(g, l, members) ==
    /\ members = {n \in Nodes \ {Root} : Parent[n] = g /\ Active(n)}
    /\ Cardinality({i \in 1..Length : l[i] # Nil}) = Cardinality(members)
    /\ \A i \in 1..Length : l[i] # Nil => prev[l[i]] = IF i = 1 THEN Nil ELSE l[i - 1]
    /\ chainEnd[g] = IF members = {} THEN Nil ELSE l[Cardinality(members)]
    /\ chain[g] \in members \cup {Nil}

\* In a state the inductive invariant describes, the lists are exact.
LEMMA ListsExact ==
    ASSUME GroupsOK
    PROVE  ChildrenExactly
<1>0. PICK r : InRankOrder(r)
  BY DEF GroupsOK
<1> SUFFICES ASSUME task \in {"none", "select"}, NEW g \in Groups
             PROVE  ListFits(g, List(g), {List(g)[i] : i \in 1..Length} \ {Nil})
  BY Zenon DEF ChildrenExactly, ListFits
<1> SUFFICES ASSUME NEW l, l = List(g), NEW M, M = {l[i] : i \in 1..Length} \ {Nil}
             PROVE  ListFits(g, l, M)
  OBVIOUS
<1>1. PICK K : K = Kids(g)
  OBVIOUS
<1>2. /\ Length \in Nat /\ Cardinality(K) \in Nat /\ Cardinality(K) < Length
      /\ \A i \in 1..Length :
             /\ i <= Cardinality(K) => l[i] \in K /\ Place(K, r, l[i]) = i
             /\ i > Cardinality(K) => l[i] = Nil
             /\ l[i] = IF i = 1 THEN chainStart[g] ELSE IF l[i - 1] = Nil THEN Nil ELSE next[l[i - 1]]
  BY <1>0, <1>1, ListPlaces
<1>3. /\ IsFiniteSet(K) /\ K \subseteq Nodes /\ Nil \notin K
      /\ \A n \in K : r[n] \in Int
      /\ \A m, n \in K : m # n => r[m] # r[n]
  BY <1>0, <1>1, PlacesFollow
<1>4. /\ K # {} => chainEnd[g] \in K /\ Place(K, r, chainEnd[g]) = Cardinality(K)
      /\ K = {} => chainEnd[g] = Nil
  BY <1>0, <1>1, PlacesFollow
<1>5. /\ \A n \in K : Place(K, r, n) \in 1..Cardinality(K)
      /\ \A m, n \in K : Place(K, r, m) = Place(K, r, n) => m = n
  BY <1>3, PlaceBijective
<1>6. \A n : n \in K <=> Kid(n, g)
  BY <1>1 DEF Kids, Kid
<1>7. K = {n \in Nodes \ {Root} : Parent[n] = g /\ Active(n)}
  BY <1>6 DEF Kid, Linked
<1>8. M = K
  <2>1. ASSUME NEW n \in M PROVE n \in K
    <3>1. PICK i \in 1..Length : n = l[i] /\ l[i] # Nil
      BY <2>1
    <3> QED
      BY <1>2, <3>1
  <2>2. ASSUME NEW n \in K PROVE n \in M
    <3>1. PICK i \in 1..Cardinality(K) : i = Place(K, r, n)
      BY <1>5
    <3>2. i \in 1..Length /\ i <= Cardinality(K)
      BY <1>2, <3>1
    <3>3. l[i] = n
      BY <1>2, <1>5, <3>1, <3>2
    <3> QED
      BY <1>3, <3>2, <3>3
  <2> QED
    BY <2>1, <2>2
<1>9. Cardinality({i \in 1..Length : l[i] # Nil}) = Cardinality(K)
  <2>1. {i \in 1..Length : l[i] # Nil} = 1..Cardinality(K)
    <3>1. ASSUME NEW i \in 1..Length PROVE l[i] # Nil <=> i <= Cardinality(K)
      BY <1>2, <1>3
    <3>2. \A i \in 1..Cardinality(K) : i \in 1..Length /\ i <= Cardinality(K)
      BY <1>2
    <3> QED
      BY <1>2, <3>1, <3>2
  <2>2. 1 \in Int /\ Cardinality(K) \in Int
    BY <1>2
  <2>3. Cardinality(1..Cardinality(K)) = IF 1 > Cardinality(K) THEN 0 ELSE Cardinality(K) - 1 + 1
    BY <2>2, FS_Interval
  <2>4. Cardinality(1..Cardinality(K)) = Cardinality(K)
    BY <1>2, <2>3
  <2> QED
    BY <2>1, <2>4
<1>10. ASSUME NEW i \in 1..Length, l[i] # Nil
       PROVE  prev[l[i]] = IF i = 1 THEN Nil ELSE l[i - 1]
  <2>1. i <= Cardinality(K) /\ l[i] \in K /\ Kid(l[i], g) /\ l[i] \in Nodes
    BY <1>2, <1>3, <1>6, <1>10
  <2>2. CASE i = 1
    <3>1. l[i] = chainStart[g]
      BY <1>2, <2>2
    <3>2. ASSUME prev[l[i]] # Nil PROVE FALSE
      <4>1. Kid(prev[l[i]], g) /\ next[prev[l[i]]] = l[i]
        BY <1>0, <2>1, <3>2 DEF InRankOrder, PrevOK
      <4>2. prev[l[i]] \in K /\ prev[l[i]] \in Nodes
        BY <1>3, <1>6, <4>1
      <4>3. r[l[i]] < r[prev[l[i]]]
        BY <1>0, <1>3, <2>1, <4>1, <4>2 DEF InRankOrder, NextOK
      <4>4. prev[l[i]] = l[i] \/ r[prev[l[i]]] < r[l[i]]
        BY <1>0, <3>1, <4>1, <4>2 DEF InRankOrder, StartOK
      <4> QED
        BY <1>3, <2>1, <4>2, <4>3, <4>4
    <3> QED
      BY <2>2, <3>2
  <2>3. CASE i # 1
    <3>1. i - 1 \in 1..Length /\ i - 1 <= Cardinality(K)
      BY <1>2, <2>1, <2>3
    <3>2. l[i - 1] \in K
      BY <1>2, <3>1
    <3>3. l[i] = next[l[i - 1]]
      BY <1>2, <1>3, <2>3, <3>2
    <3>4. Kid(l[i - 1], g) /\ l[i - 1] \in Nodes /\ next[l[i - 1]] # Nil
      BY <1>3, <1>6, <1>10, <3>2, <3>3
    <3>5. prev[next[l[i - 1]]] = l[i - 1]
      BY <1>0, <3>4 DEF InRankOrder, NextOK
    <3> QED
      BY <2>3, <3>3, <3>5
  <2> QED
    BY <2>2, <2>3
<1>11. chainEnd[g] = IF M = {} THEN Nil ELSE l[Cardinality(M)]
  <2>1. CASE K = {}
    BY <1>4, <1>8, <2>1
  <2>2. CASE K # {}
    <3>1. chainEnd[g] \in K /\ Place(K, r, chainEnd[g]) = Cardinality(K)
      BY <1>4, <2>2
    <3>2. Cardinality(K) \in 1..Length
      BY <1>2, <1>5, <3>1
    <3>3. l[Cardinality(K)] \in K /\ Place(K, r, l[Cardinality(K)]) = Cardinality(K)
      BY <1>2, <3>2
    <3> QED
      BY <1>5, <1>8, <2>2, <3>1, <3>3
  <2> QED
    BY <2>1, <2>2
<1>12. chain[g] \in M \cup {Nil}
  BY <1>0, <1>6, <1>8 DEF InRankOrder, ChainOK
<1> QED
  BY <1>7, <1>8, <1>9, <1>10, <1>11, <1>12 DEF ListFits

-----------------------------------------------------------------------------
(* What follows for every group. *)

LEMMA CountTyped ==
    ASSUME GroupsOK
    PROVE  GroupTypeOK
<1>1. LinkedThreads \subseteq Members
  BY DEF LinkedThreads
<1>2. count \in Nat
  BY <1>1, GroupAssumption, FS_Subset, FS_CardinalityType DEF GroupsOK, Counted
<1> QED
  BY <1>2 DEF GroupsOK, GroupTypes, GroupTypeOK

\* The lists are exact: between operations the list of every group, followed
\* from its start, holds its scheduled threads and its non-empty subgroups, each
\* once, and prev, chain-end and the rest of the round agree with it; and
\* select-thread! never finds a subgroup empty, so that it never comes to the
\* continuation that exchanges the loop's arguments.
THEOREM GroupsSafe == GroupSpec => []GroupInv
<1>1. GroupsOK => GroupInv
  BY CountTyped, ListsExact DEF GroupInv, GroupsOK, TaskOK, SelectFindsThread
<1> QED
  BY <1>1, GroupsAlwaysOK, PTL

\* num-threads-in-groups is the number of scheduled threads.
THEOREM CountCorrect == GroupSpec => []CountExact
<1>1. GroupsOK => CountExact
  <2> SUFFICES ASSUME GroupsOK, task \in {"none", "select"}
               PROVE  count = Cardinality({t \in Members : status[t] = "scheduled"})
    BY DEF CountExact
  <2>1. LinkedThreads = {t \in Members : status[t] = "scheduled"}
    BY DEF LinkedThreads, Linked, Active
  <2> QED
    BY <2>1 DEF GroupsOK, Counted
<1> QED
  BY <1>1, GroupsAlwaysOK, PTL

\* The scheduler swaps in a thread only while it is scheduled: no pointer leads
\* to a thread that was descheduled or died.
THEOREM OnlyScheduledRun == GroupSpec => RunsScheduled
<1>1. GroupsOK /\ [GroupNext]_groupVars => [current' \notin {current, Nil} => status[current'] = "scheduled"]_groupVars
  <2> SUFFICES ASSUME GroupsOK, GroupNext, current' \notin {current, Nil}
               PROVE  status[current'] = "scheduled"
    OBVIOUS
  <2>1. Select
    BY DEF GroupNext, Work, Add, Remove, StartSelect, SwapOut, Create, Reschedule, Deschedule, Dead,
           Others
  <2>2. PICK r : InRankOrder(r)
    BY DEF GroupsOK
  <2>3. PICK g \in Groups : g = arg /\ task = "select"
    BY <2>1 DEF Select, GroupsOK, GroupTypes
  <2>4. current' \in Members /\ Kid(current', g)
    BY <2>1, <2>2, <2>3 DEF Select, InRankOrder, StartOK, ChainOK
  <2> QED
    BY <2>3, <2>4 DEF Kid, Linked, Active
<1> QED
  BY <1>1, GroupsAlwaysOK, PTL DEF GroupSpec, RunsScheduled
============================================================================
