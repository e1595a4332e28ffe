-------------------------- MODULE SubprocessProofs --------------------------
(***************************************************************************)
(* Proofs about Subprocess, for any number of places, process ids and      *)
(* forks: until the kernel uses an id while a process value that is not    *)
(* done has it, every status is kept for the process value that it belongs *)
(* to and both counts are exact (StatusInv), and a signal is sent only to  *)
(* the child it is meant for (KillsOwnChild).                              *)
(*                                                                         *)
(* IInv adds which process values have which ids, which place works on     *)
(* which value, who holds child_wait_lock, what is true of a process       *)
(* between the waitpid that reaps it and add_child_status, and what a      *)
(* record says of its process.  The inductive invariant is reused \/ IInv: *)
(* only Fork can break IInv, and then it sets reused.                      *)
(***************************************************************************)
EXTENDS Subprocess, FiniteSetTheorems, SequenceTheorems, TLAPS

Labels == {"idle", "fork", "setpgid", "register", "ended", "poll", "add", "get", "asleep",
           "kill", "send"}
WorkerLabels == {"sigwait", "groups", "lock", "scan", "add"}
WithProcess == Labels \ {"idle", "fork", "ended"}

ChildStatus ==
    [present : {TRUE}, done : BOOLEAN, status : {0} \cup Procs, in_group : BOOLEAN,
     signal_fd : Places \cup {Nobody}]

\* The parts of the state whose type the runs do not ask for.
Shape ==
    /\ pc \in [Places -> Labels] /\ wpc \in WorkerLabels
    /\ unused_status \in Nat \ {0}
    /\ child_statuses \in [Pids -> {None} \cup ChildStatus]
    /\ unused_pid_statuses \in Seq(Pids)

\* A process value that is not done has an id of its own.
PidsRight ==
    /\ \A v \in Procs : owner[v] # Nobody => pid[v] \in Pids /\ v <= forks
    /\ \A u, v \in Procs : owner[u] # Nobody /\ owner[v] # Nobody /\ pid[u] = pid[v] => u = v
    /\ \A v \in Procs : result[v] # 0 => owner[v] = Nobody /\ v <= forks

\* The kernel has a process for each id in use, and a process value that is not
\* done has the id that its process has.
ProcRight ==
    \A c \in Pids :
        /\ os[c] = "free" <=> proc[c] = 0
        /\ proc[c] # 0 => proc[c] <= forks
        /\ proc[c] # 0 /\ owner[proc[c]] # Nobody => pid[proc[c]] = c

\* An operation on a process is by the place that owns it.
OwnProcess == \A p \in Places : pc[p] \in WithProcess => cur[p] \in Procs /\ owner[cur[p]] = p

\* child_wait_lock is held by the worker while it waits for processes, and by a
\* place while it kills one.
LockHeld ==
    /\ child_wait_lock = "worker" <=> wpc \in {"scan", "add"}
    /\ \A p \in Places : child_wait_lock = p <=> pc[p] \in {"kill", "send"}

\* A process that was reaped and whose status is not yet recorded is wanted, the
\* status in hand is its own, and only one thread has reaped it.
ReapedOnce ==
    /\ wpc = "add" => /\ wpid \in Pids /\ wstatus \in Procs
                      /\ os[wpid] = "free" /\ owner[wstatus] # Nobody /\ pid[wstatus] = wpid
                      /\ \A p \in Places : pc[p] = "add" => cur[p] # wstatus
    /\ \A p \in Places : pc[p] = "add" => os[pid[cur[p]]] = "free" /\ status[p] = cur[p]

\* A record that is not done signals the owner of its process; one that is done
\* has the status of this process.
RecordRight ==
    \A v \in Procs : owner[v] # Nobody =>
        LET st == child_statuses[pid[v]]
        IN  /\ st.present /\ ~st.done => st.signal_fd = owner[v]
            /\ st.present /\ st.done => st.status = v

\* Nothing is listed twice, and nothing that is listed is wanted.
UnusedRight ==
    /\ \A i, j \in 1..Len(unused_pid_statuses) :
           unused_pid_statuses[i] = unused_pid_statuses[j] => i = j
    /\ \A c \in Unused : ~Wanted(c)

\* A signal is sent only to the process it is meant for.
KillRight == \A p \in Places : pc[p] = "send" => proc[pid[cur[p]]] = cur[p]

IInv ==
    /\ TypeOK /\ Shape
    /\ PidsRight /\ ProcRight
    /\ OwnProcess /\ LockHeld /\ ReapedOnce /\ RecordRight /\ UnusedRight
    /\ WantedKept /\ UnwantedListed /\ StatusRight
    /\ RefcountExact /\ PendingExact
    /\ KillRight
-----------------------------------------------------------------------------
(* Counting. *)

\* A set that gains or loses one element, or none.
LEMMA CountUp ==
    ASSUME NEW A, NEW B, NEW x, IsFiniteSet(A), x \notin A, B = A \cup {x}
    PROVE  IsFiniteSet(B) /\ Cardinality(B) = Cardinality(A) + 1
  BY FS_AddElement

LEMMA CountDown ==
    ASSUME NEW A, NEW B, NEW x, IsFiniteSet(A), x \in A, B = A \ {x}
    PROVE  IsFiniteSet(B) /\ Cardinality(B) = Cardinality(A) - 1
  BY FS_RemoveElement

Owned == {v \in Procs : owner[v] # Nobody}
Unsettled == {p \in Places : pc[p] \in {"fork", "ended"}}

LEMMA PendingSets ==
    /\ IsFiniteSet(Owned) /\ Cardinality(Owned) \in Nat
    /\ IsFiniteSet(Unsettled) /\ Cardinality(Unsettled) \in Nat
    /\ IsFiniteSet(Owned') /\ Cardinality(Owned') \in Nat
    /\ IsFiniteSet(Unsettled') /\ Cardinality(Unsettled') \in Nat
    /\ PendingExact <=> pending_children = Cardinality(Owned) + Cardinality(Unsettled)
    /\ PendingExact' <=> pending_children' = Cardinality(Owned') + Cardinality(Unsettled')
<1>1. /\ Owned \in SUBSET Procs /\ Owned' \in SUBSET Procs /\ IsFiniteSet(Procs)
      /\ Unsettled \in SUBSET Places /\ Unsettled' \in SUBSET Places
  BY SubprocessAssumption, FS_Interval DEF Owned, Unsettled, Procs
<1>2. IsFiniteSet(Owned) /\ IsFiniteSet(Owned') /\ IsFiniteSet(Unsettled) /\ IsFiniteSet(Unsettled')
  BY <1>1, SubprocessAssumption, FS_Subset
<1>3. /\ Cardinality(Owned) \in Nat /\ Cardinality(Owned') \in Nat
      /\ Cardinality(Unsettled) \in Nat /\ Cardinality(Unsettled') \in Nat
  BY <1>2, FS_CardinalityType
<1> QED
  BY <1>2, <1>3 DEF PendingExact, Owned, Unsettled

\* What refcount counts: the records for which a SIGCHLD wakes p.
Wakes(st, p) == st.present /\ st.signal_fd = p /\ st.in_group /\ ~st.done
Waking(f, p) == {c \in Pids : Wakes(f[c], p)}

LEMMA WakingFinite ==
    ASSUME NEW f, NEW p
    PROVE  IsFiniteSet(Waking(f, p)) /\ Cardinality(Waking(f, p)) \in Nat
<1>1. Waking(f, p) \in SUBSET Pids
  BY DEF Waking
<1>2. IsFiniteSet(Waking(f, p))
  BY <1>1, SubprocessAssumption, FS_Subset
<1> QED
  BY <1>2, FS_CardinalityType

LEMMA RefcountSets ==
    /\ RefcountExact <=> \A p \in Places : refcount[p] = Cardinality(Waking(child_statuses, p))
    /\ RefcountExact' <=> \A p \in Places : refcount'[p] = Cardinality(Waking(child_statuses', p))
  BY DEF RefcountExact, Waking, Wakes

\* The record of one process changes, and refcount with it.
LEMMA RefcountStep ==
    ASSUME NEW c \in Pids, RefcountExact, refcount \in [Places -> Nat],
           \A d \in Pids \ {c} : child_statuses'[d] = child_statuses[d],
           \/ /\ \A p \in Places : Wakes(child_statuses[c], p) <=> Wakes(child_statuses'[c], p)
              /\ refcount' = refcount
           \/ \E q \in Places :
                /\ ~Wakes(child_statuses[c], q) /\ Wakes(child_statuses'[c], q)
                /\ \A p \in Places \ {q} : ~Wakes(child_statuses[c], p) /\ ~Wakes(child_statuses'[c], p)
                /\ refcount' = [refcount EXCEPT ![q] = @ + 1]
           \/ \E q \in Places :
                /\ Wakes(child_statuses[c], q) /\ ~Wakes(child_statuses'[c], q)
                /\ \A p \in Places \ {q} : ~Wakes(child_statuses[c], p) /\ ~Wakes(child_statuses'[c], p)
                /\ refcount' = [refcount EXCEPT ![q] = @ - 1]
    PROVE  RefcountExact' /\ refcount' \in [Places -> Nat]
<1> DEFINE A(p) == Waking(child_statuses, p)
           B(p) == Waking(child_statuses', p)
<1>1. \A p \in Places : refcount[p] = Cardinality(A(p))
  BY RefcountSets
<1>2. ASSUME NEW p \in Places, Wakes(child_statuses[c], p) <=> Wakes(child_statuses'[c], p)
      PROVE  Cardinality(B(p)) = Cardinality(A(p))
  <2>1. B(p) = A(p)
    BY <1>2 DEF Waking
  <2> QED
    BY <2>1
<1>3. ASSUME NEW p \in Places, ~Wakes(child_statuses[c], p), Wakes(child_statuses'[c], p)
      PROVE  Cardinality(B(p)) = Cardinality(A(p)) + 1
  <2>1. B(p) = A(p) \cup {c} /\ c \notin A(p)
    BY <1>3 DEF Waking
  <2>2. IsFiniteSet(A(p))
    BY WakingFinite
  <2> HIDE DEF A, B
  <2> QED
    BY <2>1, <2>2, CountUp
<1>4. ASSUME NEW p \in Places, Wakes(child_statuses[c], p), ~Wakes(child_statuses'[c], p)
      PROVE  Cardinality(B(p)) = Cardinality(A(p)) - 1
  <2>1. B(p) = A(p) \ {c} /\ c \in A(p)
    BY <1>4 DEF Waking
  <2>2. IsFiniteSet(A(p))
    BY WakingFinite
  <2> HIDE DEF A, B
  <2> QED
    BY <2>1, <2>2, CountDown
<1>5. \A p \in Places : Cardinality(A(p)) \in Nat /\ Cardinality(B(p)) \in Nat
  BY WakingFinite
<1>6. /\ \A p \in Places : refcount'[p] = Cardinality(B(p))
      /\ refcount' \in [Places -> Nat]
  <2> HIDE DEF A, B
  <2>1. CASE /\ \A p \in Places : Wakes(child_statuses[c], p) <=> Wakes(child_statuses'[c], p)
             /\ refcount' = refcount
    BY <1>1, <1>2, <2>1
  <2>2. ASSUME NEW q \in Places, ~Wakes(child_statuses[c], q), Wakes(child_statuses'[c], q),
               \A p \in Places \ {q} : ~Wakes(child_statuses[c], p) /\ ~Wakes(child_statuses'[c], p),
               refcount' = [refcount EXCEPT ![q] = @ + 1]
        PROVE  /\ \A p \in Places : refcount'[p] = Cardinality(B(p))
               /\ refcount' \in [Places -> Nat]
    BY <1>1, <1>2, <1>3, <2>2
  <2>3. ASSUME NEW q \in Places, Wakes(child_statuses[c], q), ~Wakes(child_statuses'[c], q),
               \A p \in Places \ {q} : ~Wakes(child_statuses[c], p) /\ ~Wakes(child_statuses'[c], p),
               refcount' = [refcount EXCEPT ![q] = @ - 1]
        PROVE  /\ \A p \in Places : refcount'[p] = Cardinality(B(p))
               /\ refcount' \in [Places -> Nat]
    <3>1. Cardinality(B(q)) = refcount[q] - 1 /\ Cardinality(B(q)) \in Nat
      BY <1>1, <1>4, <1>5, <2>3
    <3> QED
      BY <1>1, <1>2, <2>3, <3>1
  <2> QED
    BY <2>1, <2>2, <2>3
<1> QED
  BY <1>6, RefcountSets

\* A place whose record wakes it has a reference.
LEMMA RefcountPositive ==
    ASSUME NEW c \in Pids, NEW p \in Places, RefcountExact, refcount \in [Places -> Nat],
           Wakes(child_statuses[c], p)
    PROVE  refcount[p] > 0
<1>1. c \in Waking(child_statuses, p) /\ refcount[p] = Cardinality(Waking(child_statuses, p))
  BY RefcountSets DEF Waking
<1>2. Cardinality(Waking(child_statuses, p)) # 0
  BY <1>1, WakingFinite, FS_EmptySet
<1> QED
  BY <1>1, <1>2
-----------------------------------------------------------------------------
(* The list of unused pids. *)

Members(s) == {s[i] : i \in 1..Len(s)}
Distinct(s) == \A i, j \in 1..Len(s) : s[i] = s[j] => i = j

\* A list without repetitions is as long as it has members.
LEMMA DistinctLength ==
    ASSUME NEW S, NEW s \in Seq(S), Distinct(s)
    PROVE  Len(s) = Cardinality(Members(s))
<1> DEFINE f == [i \in 1..Len(s) |-> s[i]]
<1>1. f \in Bijection(1..Len(s), Members(s))
  BY DEF Distinct, Members, Bijection, Injection, Surjection, IsInjective
<1>2. ExistsBijection(1..Len(s), Members(s))
  BY <1>1 DEF ExistsBijection
<1> QED
  BY <1>2, FS_CountingElements

\* Unlinking one entry leaves the others.
LEMMA UnlinkMembers ==
    ASSUME NEW S, NEW s \in Seq(S), NEW i \in 1..Len(s), Distinct(s)
    PROVE  /\ RemoveAt(s, i) \in Seq(S) /\ Distinct(RemoveAt(s, i))
           /\ Members(RemoveAt(s, i)) = Members(s) \ {s[i]}
<1> DEFINE r == RemoveAt(s, i)
<1>1. /\ r \in Seq(S) /\ Len(r) = Len(s) - 1
      /\ \A j \in 1..(Len(s) - 1) : r[j] = IF j < i THEN s[j] ELSE s[j + 1]
  <2> DEFINE a == SubSeq(s, 1, i - 1)
             b == SubSeq(s, i + 1, Len(s))
  <2>1. /\ a \in Seq(S) /\ Len(a) = i - 1 /\ \A j \in 1..(i - 1) : a[j] = s[j]
        /\ b \in Seq(S) /\ Len(b) = Len(s) - i /\ \A j \in 1..(Len(s) - i) : b[j] = s[i + j]
    <3>1. (\A j \in 1..(i - 1) : s[j] \in S) /\ (\A j \in (i + 1)..Len(s) : s[j] \in S)
      OBVIOUS
    <3> QED
      BY <3>1, SubSeqProperties
  <2>2. /\ a \o b \in Seq(S) /\ Len(a \o b) = Len(a) + Len(b)
        /\ \A j \in 1..(Len(a) + Len(b)) : (a \o b)[j] = IF j <= Len(a) THEN a[j] ELSE b[j - Len(a)]
    BY <2>1, ConcatProperties
  <2>3. r = a \o b
    BY DEF RemoveAt
  <2> HIDE DEF a, b, r
  <2>4. ASSUME NEW j \in 1..(Len(s) - 1)
        PROVE  r[j] = IF j < i THEN s[j] ELSE s[j + 1]
    <3>1. CASE j < i
      BY <2>1, <2>2, <2>3, <3>1
    <3>2. CASE ~(j < i)
      <4>1. j - (i - 1) \in 1..(Len(s) - i) /\ r[j] = b[j - (i - 1)]
        BY <2>1, <2>2, <2>3, <3>2
      <4>2. i + (j - (i - 1)) = j + 1
        OBVIOUS
      <4>3. b[j - (i - 1)] = s[i + (j - (i - 1))]
        BY <2>1, <4>1
      <4> QED
        BY <3>2, <4>1, <4>2, <4>3
    <3> QED
      BY <3>1, <3>2
  <2>5. r \in Seq(S) /\ Len(r) = Len(a) + Len(b)
    BY <2>2, <2>3, Zenon
  <2>6. Len(r) = Len(s) - 1
    <3>1. Len(s) \in Nat /\ i \in Int
      OBVIOUS
    <3>2. Len(a) = i - 1 /\ Len(b) = Len(s) - i
      BY <2>1
    <3> QED
      BY <2>5, <3>1, <3>2
  <2> QED
    BY <2>4, <2>5, <2>6
<1> HIDE DEF r
<1>2. Distinct(r)
  BY <1>1 DEF Distinct
<1>3. ASSUME NEW j \in 1..Len(r)
      PROVE  r[j] \in Members(s) \ {s[i]}
  <2>1. CASE j < i
    BY <1>1, <2>1 DEF Members, Distinct
  <2>2. CASE ~(j < i)
    <3>1. j + 1 \in 1..Len(s) /\ r[j] = s[j + 1] /\ j + 1 # i
      BY <1>1, <2>2
    <3> QED
      BY <3>1 DEF Members, Distinct
  <2> QED
    BY <2>1, <2>2
<1>4. ASSUME NEW j \in 1..Len(s), s[j] # s[i]
      PROVE  s[j] \in Members(r)
  <2>1. CASE j < i
    <3>1. j \in 1..Len(r) /\ r[j] = s[j]
      BY <1>1, <2>1
    <3> QED
      BY <3>1 DEF Members
  <2>2. CASE j > i
    <3>1. j - 1 \in 1..Len(r) /\ r[j - 1] = s[j]
      BY <1>1, <2>2
    <3> QED
      BY <3>1 DEF Members
  <2> QED
    BY <1>4, <2>1, <2>2
<1>5. Members(r) = Members(s) \ {s[i]}
  BY <1>3, <1>4 DEF Members
<1> QED
  BY <1>1, <1>2, <1>5 DEF r

\* Putting a new entry in front.
LEMMA PushMembers ==
    ASSUME NEW S, NEW s \in Seq(S), NEW c \in S, c \notin Members(s), Distinct(s)
    PROVE  /\ <<c>> \o s \in Seq(S) /\ Distinct(<<c>> \o s)
           /\ Members(<<c>> \o s) = Members(s) \cup {c}
<1> DEFINE r == <<c>> \o s
<1>1. /\ r \in Seq(S) /\ Len(r) = Len(s) + 1 /\ r[1] = c
      /\ \A j \in 2..(Len(s) + 1) : r[j] = s[j - 1]
  OBVIOUS
<1> HIDE DEF r
<1>2. \A j \in 2..(Len(s) + 1) : j - 1 \in 1..Len(s) /\ r[j] \in Members(s)
  BY <1>1 DEF Members
<1>3. ASSUME NEW j \in 1..Len(r), NEW k \in 1..Len(r), r[j] = r[k] PROVE j = k
  <2>1. CASE j = 1 \/ k = 1
    BY <1>1, <1>2, <1>3, <2>1
  <2>2. CASE j # 1 /\ k # 1
    <3>1. j - 1 \in 1..Len(s) /\ k - 1 \in 1..Len(s) /\ s[j - 1] = s[k - 1]
      BY <1>1, <1>3, <2>2
    <3>2. j - 1 = k - 1
      BY <3>1 DEF Distinct
    <3> QED
      BY <3>2
  <2> QED
    BY <2>1, <2>2
<1>4. \A j \in 1..Len(s) : j + 1 \in 1..Len(r) /\ r[j + 1] = s[j]
  BY <1>1
<1>5. Members(s) \subseteq Members(r)
  BY <1>4 DEF Members
<1>6. c \in Members(r)
  BY <1>1 DEF Members
<1>7. Members(r) \subseteq Members(s) \cup {c}
  BY <1>1, <1>2 DEF Members
<1> QED
  BY <1>1, <1>3, <1>5, <1>6, <1>7 DEF r, Distinct

LEMMA UnusedIsMembers ==
    /\ Unused = Members(unused_pid_statuses) /\ Unused' = Members(unused_pid_statuses')
    /\ UnusedRight <=> /\ Distinct(unused_pid_statuses) /\ \A c \in Unused : ~Wanted(c)
    /\ UnusedRight' <=> /\ Distinct(unused_pid_statuses') /\ \A c \in Unused' : ~Wanted(c)'
  BY DEF Unused, Members, UnusedRight, Distinct
-----------------------------------------------------------------------------
\* In the beginning there are no processes.
LEMMA InitIInv == Init => IInv
<1> SUFFICES ASSUME Init PROVE IInv
  OBVIOUS
<1> USE SubprocessAssumption DEF Init
<1>1. Unused = {} /\ Len(unused_pid_statuses) = 0
  <2>1. Len(unused_pid_statuses) = 0
    OBVIOUS
  <2> QED
    BY <2>1 DEF Unused
<1>2. TypeOK
  <2>1. \A i \in 1..Len(unused_pid_statuses) : unused_pid_statuses[i] \in Pids
    BY <1>1
  <2>2. \A c \in Pids : ~child_statuses[c].present
    BY DEF None
  <2>3. forks \in 0..MaxForks
    <3>1. MaxForks \in Nat
      BY SubprocessAssumption
    <3>2. forks = 0
      OBVIOUS
    <3> QED
      BY <3>1, <3>2
  <2> QED
    BY <2>1, <2>2, <2>3 DEF TypeOK
<1>3. Shape
  BY DEF Shape, Labels, WorkerLabels
<1>4. OwnProcess /\ LockHeld /\ ReapedOnce /\ PidsRight /\ ProcRight
  BY DEF OwnProcess, LockHeld, ReapedOnce, PidsRight, ProcRight, WithProcess, Labels
<1>5. RecordRight /\ WantedKept /\ StatusRight /\ KillRight
  BY DEF RecordRight, Known, WantedKept, StatusRight, KillRight, None
<1>6. UnusedRight /\ UnwantedListed
  BY <1>1, FS_EmptySet DEF UnusedRight, UnwantedListed, None
<1>7. RefcountExact
  <2>1. \A p \in Places : Waking(child_statuses, p) = {}
    BY DEF Waking, Wakes, None
  <2> QED
    BY <2>1, RefcountSets, FS_EmptySet
<1>8. PendingExact
  <2>1. Owned = {} /\ Unsettled = {}
    BY DEF Owned, Unsettled
  <2> QED
    BY <2>1, PendingSets, FS_EmptySet
<1> QED
  BY <1>2, <1>3, <1>4, <1>5, <1>6, <1>7, <1>8 DEF IInv

\* What WantedKept says of one process value.
Kept(v) ==
    /\ os[pid[v]] = "free" => (InHand(v) <=> ~Known(pid[v]))
    /\ os[pid[v]] # "free" => /\ proc[pid[v]] = v
                              /\ IF Registering(v)
                                 THEN ~child_statuses[pid[v]].present
                                 ELSE child_statuses[pid[v]].present /\ ~child_statuses[pid[v]].done

LEMMA WantedKeptByProcess ==
    /\ WantedKept <=> \A v \in Procs : owner[v] # Nobody => Kept(v)
    /\ WantedKept' <=> \A v \in Procs : owner'[v] # Nobody => Kept(v)'
  BY DEF WantedKept, Kept

\* A step that touches neither a process nor its record, nor what its owner and
\* the worker do with it.
LEMMA KeptSame ==
    ASSUME NEW v \in Procs, Kept(v), owner'[v] = owner[v], pid'[v] = pid[v],
           os'[pid[v]] = os[pid[v]], proc'[pid[v]] = proc[pid[v]],
           child_statuses'[pid[v]] = child_statuses[pid[v]],
           InHand(v)' <=> InHand(v), Registering(v)' <=> Registering(v)
    PROVE  Kept(v)'
<1>1. Known(pid[v])' <=> Known(pid[v])
  BY DEF Known
<1> QED
  BY <1>1 DEF Kept

\* A record that is present has all its fields.
LEMMA RecordFields ==
    ASSUME NEW st \in {None} \cup ChildStatus, st.present
    PROVE  /\ st \in ChildStatus /\ st.done \in BOOLEAN /\ st.status \in {0} \cup Procs
           /\ st.in_group \in BOOLEAN /\ st.signal_fd \in Places \cup {Nobody}
<1>1. st # None
  BY DEF None
<1>2. st \in ChildStatus
  BY <1>1
<1> QED
  BY <1>2 DEF ChildStatus

\* What most steps leave alone.
SameProcesses == UNCHANGED <<os, proc, forks, pid, owner, in_group, result>>
SameTables == UNCHANGED <<child_statuses, unused_pid_statuses, refcount, pending_children>>

\* As long as processes and tables are left alone, so is what relates them.
LEMMA SameKept ==
    ASSUME IInv, SameProcesses, SameTables
    PROVE  /\ PidsRight' /\ ProcRight' /\ RecordRight' /\ UnusedRight' /\ UnwantedListed'
           /\ StatusRight' /\ RefcountExact'
<1> USE DEF IInv, SameProcesses, SameTables
<1>1. /\ Unused' = Unused /\ \A c \in Pids : Known(c)' <=> Known(c)
      /\ \A c : Wanted(c)' <=> Wanted(c)
  BY DEF Unused, Known, Wanted
<1>2. PidsRight' /\ ProcRight' /\ RecordRight' /\ StatusRight'
  BY <1>1 DEF PidsRight, ProcRight, RecordRight, StatusRight
<1>3. UnusedRight' /\ UnwantedListed'
  BY <1>1 DEF UnusedRight, UnwantedListed
<1>4. RefcountExact'
  BY DEF RefcountExact
<1> QED
  BY <1>2, <1>3, <1>4

\* A place goes from one operation to another, or on with one, without touching
\* processes or tables.
LEMMA PlaceMoves ==
    ASSUME IInv, NEW p \in Places, NEW l \in Labels \ {"add"}, NEW x \in Procs \cup {Nobody},
           pc[p] # "add",
           pc' = [pc EXCEPT ![p] = l], cur' = [cur EXCEPT ![p] = x],
           SameProcesses, SameTables, UNCHANGED <<worker, sigchld, status, reused>>,
           group' \in [Pids -> {"ours", "other"}], signalled' \subseteq Places,
           child_wait_lock' \in Places \cup {"worker", Nobody},
           l \in WithProcess => x \in Procs /\ owner[x] = p,
           pc[p] \in {"fork", "ended"} <=> l \in {"fork", "ended"},
           pc[p] \in {"setpgid", "register"} <=> l \in {"setpgid", "register"},
           pc[p] \in {"setpgid", "register"} => x = cur[p],
           l = "send" => proc[pid[x]] = x,
           LockHeld'
    PROVE  IInv'
<1> USE SubprocessAssumption
<1>1. TypeOK /\ Shape /\ OwnProcess /\ ReapedOnce /\ WantedKept /\ KillRight /\ PendingExact
  BY DEF IInv
<1>2. /\ PidsRight' /\ ProcRight' /\ RecordRight' /\ UnusedRight' /\ UnwantedListed'
      /\ StatusRight' /\ RefcountExact'
  BY SameKept
<1>3. TypeOK' /\ Shape'
  BY <1>1 DEF TypeOK, Shape, SameProcesses, SameTables, worker
<1>4. /\ \A q \in Places \ {p} : pc'[q] = pc[q] /\ cur'[q] = cur[q]
      /\ pc'[p] = l /\ cur'[p] = x
  BY <1>1 DEF Shape, TypeOK
<1>5. OwnProcess' /\ KillRight'
  BY <1>1, <1>4 DEF OwnProcess, KillRight, SameProcesses
<1>6. ReapedOnce'
  BY <1>1, <1>4 DEF ReapedOnce, SameProcesses, worker
<1>7. PendingExact'
  <2>1. Owned' = Owned /\ Unsettled' = Unsettled
    BY <1>4 DEF Owned, Unsettled, SameProcesses
  <2> QED
    BY <1>1, <2>1, PendingSets DEF SameTables
<1>8. WantedKept'
  <2>1. ASSUME NEW v \in Procs, owner'[v] # Nobody PROVE Kept(v)'
    <3>1. owner[v] \in Places /\ Kept(v) /\ UNCHANGED <<owner, pid, os, proc, child_statuses, wpc, wpid>>
      BY <1>1, <2>1, WantedKeptByProcess DEF TypeOK, SameProcesses, SameTables, worker
    <3>2. (InHand(v)' <=> InHand(v)) /\ (Registering(v)' <=> Registering(v))
      BY <1>4, <3>1 DEF InHand, Registering
    <3> QED
      BY <3>1, <3>2, KeptSame
  <2> QED
    BY <2>1, WantedKeptByProcess
<1> QED
  BY <1>2, <1>3, <1>5, <1>6, <1>7, <1>8 DEF IInv

\* The same for the worker.
LEMMA WorkerMoves ==
    ASSUME IInv, wpc # "add", wpc' \in WorkerLabels \ {"add"}, unused_status' \in Nat \ {0},
           SameProcesses, SameTables, UNCHANGED <<place, group, wpid, wstatus, reused>>,
           sigchld' \in BOOLEAN, signalled' \subseteq Places,
           child_wait_lock' \in Places \cup {"worker", Nobody},
           LockHeld'
    PROVE  IInv'
<1> USE SubprocessAssumption
<1>1. TypeOK /\ Shape /\ OwnProcess /\ ReapedOnce /\ WantedKept /\ KillRight /\ PendingExact
  BY DEF IInv
<1>2. /\ PidsRight' /\ ProcRight' /\ RecordRight' /\ UnusedRight' /\ UnwantedListed'
      /\ StatusRight' /\ RefcountExact'
  BY SameKept
<1>3. TypeOK' /\ Shape'
  BY <1>1 DEF TypeOK, Shape, SameProcesses, SameTables, place
<1>4. OwnProcess' /\ KillRight'
  BY <1>1 DEF OwnProcess, KillRight, SameProcesses, place
<1>5. ReapedOnce'
  BY <1>1 DEF ReapedOnce, SameProcesses, place
<1>6. PendingExact'
  BY <1>1 DEF PendingExact, SameProcesses, SameTables, place
<1>7. WantedKept'
  <2>1. ASSUME NEW v \in Procs, owner'[v] # Nobody PROVE Kept(v)'
    <3>1. Kept(v) /\ UNCHANGED <<owner, pid, os, proc, child_statuses, pc, cur>>
      BY <1>1, <2>1, WantedKeptByProcess DEF SameProcesses, SameTables, place
    <3>2. (InHand(v)' <=> InHand(v)) /\ (Registering(v)' <=> Registering(v))
      BY <3>1 DEF InHand, Registering
    <3> QED
      BY <3>1, <3>2, KeptSame
  <2> QED
    BY <2>1, WantedKeptByProcess
<1> QED
  BY <1>2, <1>3, <1>4, <1>5, <1>6, <1>7 DEF IInv

\* The steps of a place that leave processes and tables alone.
LEMMA PlaceMovesIInv ==
    ASSUME IInv, NEW p \in Places,
           \/ ForkFails(p) \/ Setpgid(p) \/ Poll(p) \/ PollReapsNot(p) \/ PollFails(p)
           \/ Wake(p) \/ Disturb(p) \/ Kill(p) \/ KillFinds(p) \/ KillSends(p)
    PROVE  IInv'
<1> USE SubprocessAssumption DEF SameProcesses, SameTables, kernel, values, tables, Goto, Idle
<1>1. TypeOK /\ Shape /\ OwnProcess /\ LockHeld /\ WantedKept
  BY DEF IInv
<1>2. CASE ForkFails(p)
  <2>1. cur' = [cur EXCEPT ![p] = cur[p]]
    BY <1>1, <1>2 DEF ForkFails, TypeOK
  <2>2. LockHeld'
    BY <1>1, <1>2 DEF ForkFails, LockHeld, WaitFree, Shape, Labels, worker
  <2>3. /\ pc[p] = "fork" /\ pc' = [pc EXCEPT ![p] = "ended"] /\ SameProcesses /\ SameTables
        /\ UNCHANGED <<worker, sigchld, group, signalled, child_wait_lock, status, reused>>
    BY <1>2 DEF ForkFails
  <2> QED
    BY <1>1, <2>1, <2>2, <2>3, PlaceMoves DEF TypeOK, WithProcess, Labels
<1>3. CASE Setpgid(p)
  <2>1. cur' = [cur EXCEPT ![p] = cur[p]]
    BY <1>1, <1>3 DEF Setpgid, TypeOK
  <2>2. LockHeld'
    BY <1>1, <1>3 DEF Setpgid, LockHeld, WaitFree, Shape, Labels, worker
  <2> QED
    BY <1>1, <1>3, <2>1, <2>2, PlaceMoves DEF Setpgid, TypeOK, Shape, OwnProcess, Registering, WithProcess, Labels
<1>4. CASE PollReapsNot(p)
  <2>1. cur' = [cur EXCEPT ![p] = cur[p]]
    BY <1>1, <1>4 DEF PollReapsNot, TypeOK
  <2>2. LockHeld'
    BY <1>1, <1>4 DEF PollReapsNot, LockHeld, WaitFree, Shape, Labels, worker
  <2>3. /\ pc[p] = "poll" /\ pc' = [pc EXCEPT ![p] = "get"] /\ SameProcesses /\ SameTables
        /\ UNCHANGED <<worker, sigchld, group, signalled, child_wait_lock, status, reused>>
    BY <1>4 DEF PollReapsNot
  <2>4. cur[p] \in Procs /\ owner[cur[p]] = p
    BY <1>1, <2>3 DEF OwnProcess, WithProcess, Labels
  <2> QED
    BY <1>1, <2>1, <2>2, <2>3, <2>4, PlaceMoves DEF TypeOK, Registering, WithProcess, Labels
<1>5. CASE PollFails(p)
  <2>1. cur' = [cur EXCEPT ![p] = cur[p]]
    BY <1>1, <1>5 DEF PollFails, TypeOK
  <2>2. LockHeld'
    BY <1>1, <1>5 DEF PollFails, LockHeld, WaitFree, Shape, Labels, worker
  <2> QED
    BY <1>1, <1>5, <2>1, <2>2, PlaceMoves DEF PollFails, TypeOK, Shape, OwnProcess, Registering, WithProcess, Labels
<1>6. CASE Wake(p)
  <2>1. cur' = [cur EXCEPT ![p] = cur[p]]
    BY <1>1, <1>6 DEF Wake, TypeOK
  <2>2. LockHeld'
    BY <1>1, <1>6 DEF Wake, LockHeld, WaitFree, Shape, Labels, worker
  <2> QED
    BY <1>1, <1>6, <2>1, <2>2, PlaceMoves DEF Wake, TypeOK, Shape, OwnProcess, Registering, WithProcess, Labels
<1>7. CASE KillFinds(p)
  <2>1. cur' = [cur EXCEPT ![p] = cur[p]]
    BY <1>1, <1>7 DEF KillFinds, TypeOK
  <2>2. LockHeld'
    BY <1>1, <1>7 DEF KillFinds, LockHeld, WaitFree, Shape, Labels, worker
  <2>3. proc[pid[cur[p]]] = cur[p]
    <3>1. cur[p] \in Procs /\ owner[cur[p]] = p
      BY <1>1, <1>7 DEF KillFinds, OwnProcess, WithProcess, Labels
    <3>2. ~InHand(cur[p]) /\ Kept(cur[p])
      BY <1>1, <1>7, <3>1, WantedKeptByProcess DEF KillFinds, LockHeld, InHand
    <3> QED
      BY <1>7, <3>2 DEF KillFinds, Kept
  <2>4. /\ pc[p] = "kill" /\ pc' = [pc EXCEPT ![p] = "send"] /\ SameProcesses /\ SameTables
        /\ UNCHANGED <<worker, sigchld, group, signalled, child_wait_lock, status, reused>>
    BY <1>7 DEF KillFinds
  <2>5. cur[p] \in Procs /\ owner[cur[p]] = p
    BY <1>1, <2>4 DEF OwnProcess, WithProcess, Labels
  <2> QED
    BY <1>1, <2>1, <2>2, <2>3, <2>4, <2>5, PlaceMoves DEF TypeOK, Registering, WithProcess, Labels
<1>8. CASE Disturb(p)
  <2>1. cur' = [cur EXCEPT ![p] = Nobody]
    BY <1>1, <1>8 DEF Disturb, TypeOK
  <2>2. LockHeld'
    BY <1>1, <1>8 DEF Disturb, LockHeld, WaitFree, Shape, Labels, worker
  <2> QED
    BY <1>1, <1>8, <2>1, <2>2, PlaceMoves DEF Disturb, TypeOK, Shape, OwnProcess, Registering, WithProcess, Labels
<1>9. CASE KillSends(p)
  <2>1. cur' = [cur EXCEPT ![p] = Nobody]
    BY <1>1, <1>9 DEF KillSends, TypeOK
  <2>2. LockHeld'
    BY <1>1, <1>9 DEF KillSends, LockHeld, WaitFree, Shape, Labels, worker
  <2> QED
    BY <1>1, <1>9, <2>1, <2>2, PlaceMoves DEF KillSends, TypeOK, Shape, OwnProcess, Registering, WithProcess, Labels
<1>10. CASE Poll(p)
  <2>1. PICK v \in Procs : owner[v] = p /\ cur' = [cur EXCEPT ![p] = v]
    BY <1>10 DEF Poll
  <2>2. LockHeld'
    BY <1>1, <1>10 DEF Poll, LockHeld, WaitFree, Shape, Labels, worker
  <2> QED
    BY <1>1, <1>10, <2>1, <2>2, PlaceMoves DEF Poll, TypeOK, Shape, OwnProcess, Registering, WithProcess, Labels
<1>11. CASE Kill(p)
  <2>1. PICK v \in Procs : owner[v] = p /\ cur' = [cur EXCEPT ![p] = v]
    BY <1>11 DEF Kill
  <2>2. LockHeld'
    BY <1>1, <1>11 DEF Kill, LockHeld, WaitFree, Shape, Labels, worker
  <2> QED
    BY <1>1, <1>11, <2>1, <2>2, PlaceMoves DEF Kill, TypeOK, Shape, OwnProcess, Registering, WithProcess, Labels
<1> QED
  BY <1>2, <1>3, <1>4, <1>5, <1>6, <1>7, <1>8, <1>9, <1>10, <1>11
\* The steps of the worker that leave processes and tables alone.
LEMMA WorkerMovesIInv ==
    ASSUME IInv, Sigwait \/ GroupSignals \/ WorkerLocks \/ WorkerDone
    PROVE  IInv'
<1> USE SubprocessAssumption DEF SameProcesses, SameTables, kernel, values, tables, WorkerLabels
<1>1. TypeOK /\ Shape /\ LockHeld
  BY DEF IInv
<1>2. LockHeld'
  BY <1>1 DEF Sigwait, GroupSignals, WorkerLocks, WorkerDone, LockHeld, WaitFree, AtEnd, TypeOK, place
<1>3. CASE Sigwait
  BY <1>1, <1>2, <1>3, WorkerMoves DEF Sigwait, TypeOK, Shape
<1>4. CASE GroupSignals
  BY <1>1, <1>2, <1>4, WorkerMoves DEF GroupSignals, TypeOK, Shape
<1>5. CASE WorkerLocks
  BY <1>1, <1>2, <1>5, WorkerMoves DEF WorkerLocks, TypeOK, Shape
<1>6. CASE WorkerDone
  BY <1>1, <1>2, <1>6, WorkerMoves DEF WorkerDone, AtEnd, TypeOK, Shape
<1> QED
  BY <1>3, <1>4, <1>5, <1>6

\* A process exits or changes its group: it is not gone yet.
LEMMA KernelIInv ==
    ASSUME IInv, NEW c \in Pids, Exit(c) \/ Regroup(c)
    PROVE  IInv'
<1> USE SubprocessAssumption
<1>1. TypeOK /\ Shape
  BY DEF IInv
<1>2. /\ UNCHANGED <<proc, forks, pid, owner, in_group, result, child_statuses, unused_pid_statuses,
                     refcount, signalled, pending_children, child_wait_lock, pc, cur, status, wpc,
                     unused_status, wpid, wstatus, reused>>
      /\ \A d \in Pids : os'[d] = "free" <=> os[d] = "free"
      /\ os' \in [Pids -> {"free", "running", "zombie"}] /\ group' \in [Pids -> {"ours", "other"}]
      /\ sigchld' \in BOOLEAN
  BY <1>1 DEF Exit, Regroup, values, tables, place, worker, TypeOK
<1>3. TypeOK' /\ Shape'
  BY <1>1, <1>2 DEF TypeOK, Shape
<1>4. /\ Unused' = Unused /\ \A d \in Pids : Known(d)' <=> Known(d)
      /\ \A d : Wanted(d)' <=> Wanted(d)
  BY <1>2 DEF Unused, Known, Wanted
<1>5. OwnProcess' /\ LockHeld' /\ RefcountExact' /\ PendingExact' /\ KillRight'
  BY <1>2 DEF IInv, OwnProcess, LockHeld, RefcountExact, PendingExact, KillRight
<1>6. ReapedOnce'
  <2>1. \A p \in Places : pc[p] = "add" => pid[cur[p]] \in Pids
    BY DEF IInv, OwnProcess, WithProcess, Labels, PidsRight
  <2> QED
    BY <1>2, <2>1 DEF IInv, ReapedOnce
<1>7. PidsRight' /\ ProcRight' /\ RecordRight' /\ UnusedRight' /\ UnwantedListed' /\ StatusRight'
  BY <1>2, <1>4 DEF IInv, PidsRight, ProcRight, RecordRight, UnusedRight, UnwantedListed, StatusRight
<1>8. WantedKept'
  <2>1. ASSUME NEW v \in Procs, owner'[v] # Nobody PROVE Kept(v)'
    <3>1. Kept(v) /\ pid[v] \in Pids
      BY <1>2, <2>1, WantedKeptByProcess DEF IInv, PidsRight
    <3>2. (InHand(v)' <=> InHand(v)) /\ (Registering(v)' <=> Registering(v))
      BY <1>2 DEF InHand, Registering
    <3>3. Known(pid[v])' <=> Known(pid[v])
      BY <1>4, <1>2, <3>1 DEF Known
    <3> QED
      BY <1>2, <3>1, <3>2, <3>3 DEF Kept
  <2> QED
    BY <2>1, WantedKeptByProcess
<1> QED
  BY <1>3, <1>5, <1>6, <1>7, <1>8 DEF IInv

\* pending_children counts a process before it exists, and until its end has
\* been noted after its value is done.
LEMMA PendingIInv ==
    ASSUME IInv, NEW p \in Places, StartingChild(p) \/ EndedChild(p)
    PROVE  IInv'
<1> USE SubprocessAssumption
<1>1. TypeOK /\ Shape /\ OwnProcess /\ LockHeld /\ ReapedOnce /\ WantedKept /\ KillRight /\ PendingExact
  BY DEF IInv
<1>2. PICK l \in {"fork", "idle"} :
        /\ pc' = [pc EXCEPT ![p] = l]
        /\ l = "fork" => pc[p] = "idle" /\ pending_children' = pending_children + 1
        /\ l = "idle" => pc[p] = "ended" /\ pending_children' = pending_children - 1
  BY DEF StartingChild, EndedChild, Goto, Idle
<1>3. /\ \A q \in Places \ {p} : pc'[q] = pc[q] /\ cur'[q] = cur[q]
      /\ cur' \in [Places -> Procs \cup {Nobody}]
      /\ UNCHANGED <<os, group, proc, forks, sigchld, pid, owner, in_group, result, child_statuses,
                     unused_pid_statuses, refcount, signalled, child_wait_lock, status, worker, reused>>
  BY <1>1, <1>2 DEF StartingChild, EndedChild, Idle, kernel, values, TypeOK, Shape
<1>4. pc'[p] = l /\ pc[p] \in {"idle", "ended"}
  BY <1>1, <1>2 DEF Shape
<1>5. PendingExact' /\ pending_children' \in Nat
  <2>1. Owned' = Owned
    BY <1>3 DEF Owned
  <2>2. CASE l = "fork"
    <3>1. Unsettled' = Unsettled \cup {p} /\ p \notin Unsettled
      BY <1>2, <1>3, <1>4, <2>2 DEF Unsettled
    <3>2. Cardinality(Unsettled') = Cardinality(Unsettled) + 1
      BY <3>1, CountUp, PendingSets
    <3> QED
      BY <1>1, <1>2, <2>1, <2>2, <3>2, PendingSets
  <2>3. CASE l = "idle"
    <3>1. Unsettled' = Unsettled \ {p} /\ p \in Unsettled
      BY <1>2, <1>3, <1>4, <2>3 DEF Unsettled
    <3>2. Cardinality(Unsettled') = Cardinality(Unsettled) - 1
      BY <3>1, CountDown, PendingSets
    <3> QED
      BY <1>1, <1>2, <2>1, <2>3, <3>2, PendingSets
  <2> QED
    BY <2>2, <2>3
<1>6. TypeOK' /\ Shape'
  BY <1>1, <1>2, <1>3, <1>5 DEF TypeOK, Shape, Labels, worker
<1>7. /\ Unused' = Unused /\ \A d \in Pids : Known(d)' <=> Known(d)
      /\ \A d : Wanted(d)' <=> Wanted(d)
  BY <1>3 DEF Unused, Known, Wanted
<1>8. /\ PidsRight' /\ ProcRight' /\ RecordRight' /\ UnusedRight' /\ UnwantedListed'
      /\ StatusRight' /\ RefcountExact'
  BY <1>3, <1>7 DEF IInv, PidsRight, ProcRight, RecordRight, UnusedRight, UnwantedListed, StatusRight,
                    RefcountExact
<1>9. OwnProcess' /\ KillRight' /\ ReapedOnce' /\ LockHeld'
  BY <1>1, <1>3, <1>4 DEF OwnProcess, KillRight, ReapedOnce, LockHeld, WithProcess, worker
<1>10. WantedKept'
  <2>1. ASSUME NEW v \in Procs, owner'[v] # Nobody PROVE Kept(v)'
    <3>1. Kept(v) /\ owner[v] \in Places /\ wpc' = wpc /\ wpid' = wpid
      BY <1>1, <1>3, <2>1, WantedKeptByProcess DEF TypeOK, worker
    <3>2. (InHand(v)' <=> InHand(v)) /\ (Registering(v)' <=> Registering(v))
      BY <1>3, <1>4, <3>1 DEF InHand, Registering
    <3> QED
      BY <1>3, <3>1, <3>2, KeptSame
  <2> QED
    BY <2>1, WantedKeptByProcess
<1> QED
  BY <1>5, <1>6, <1>8, <1>9, <1>10 DEF IInv

\* A new process has an id that no table and no process value mentions, unless
\* it is noted that the id is used too early.
LEMMA ForkIInv ==
    ASSUME IInv, NEW p \in Places, Fork(p), ~reused'
    PROVE  IInv'
<1> USE SubprocessAssumption
<1>1. TypeOK /\ Shape /\ PidsRight /\ ProcRight /\ OwnProcess /\ LockHeld /\ ReapedOnce /\ RecordRight
      /\ UnusedRight /\ WantedKept /\ UnwantedListed /\ StatusRight /\ KillRight /\ PendingExact
  BY DEF IInv
<1>0. PICK v \in Procs : v = forks + 1
  BY <1>1 DEF Fork, TypeOK, Procs
<1>2. PICK c \in Pids, grouped \in BOOLEAN :
        /\ os[c] = "free"
        /\ os' = [os EXCEPT ![c] = "running"]
        /\ group' = [group EXCEPT ![c] = "ours"]
        /\ proc' = [proc EXCEPT ![c] = v]
        /\ pid' = [pid EXCEPT ![v] = c]
        /\ in_group' = [in_group EXCEPT ![v] = grouped]
        /\ reused' = (reused \/ Wanted(c))
        /\ pc' = [pc EXCEPT ![p] = IF grouped THEN "setpgid" ELSE "register"]
  BY <1>0 DEF Fork, Goto
<1>3. /\ pc[p] = "fork" /\ forks < MaxForks /\ forks' = v
      /\ owner' = [owner EXCEPT ![v] = p] /\ cur' = [cur EXCEPT ![p] = v]
      /\ UNCHANGED <<sigchld, result, child_statuses, unused_pid_statuses, refcount, signalled,
                     pending_children, child_wait_lock, status, wpc, unused_status, wpid, wstatus>>
  BY <1>0 DEF Fork, tables, worker
<1>4. /\ forks \in Nat /\ v \in Procs /\ v # 0 /\ forks' \in 0..MaxForks
      /\ \A u \in Procs : u <= forks => u # v /\ u <= v
  BY <1>0, <1>1, <1>3 DEF TypeOK, Procs
<1>5. ~Wanted(c)
  BY <1>2
<1>6. /\ \A d \in Pids \ {c} : os'[d] = os[d] /\ proc'[d] = proc[d]
      /\ \A u \in Procs \ {v} : owner'[u] = owner[u] /\ pid'[u] = pid[u]
      /\ os'[c] = "running" /\ proc'[c] = v /\ owner'[v] = p /\ pid'[v] = c
      /\ \A q \in Places \ {p} : pc'[q] = pc[q] /\ cur'[q] = cur[q]
      /\ pc'[p] \in {"setpgid", "register"} /\ cur'[p] = v
  BY <1>1, <1>2, <1>3, <1>4 DEF TypeOK, Shape
<1>7. /\ owner[v] = Nobody /\ result[v] = 0 /\ \A d \in Pids : proc[d] # v
      /\ \A u \in Procs : owner[u] # Nobody => u # v /\ pid[u] # c /\ pid[u] \in Pids
  <2>1. ~(v <= forks)
    BY <1>0, <1>4
  <2> QED
    BY <1>1, <1>4, <1>5, <2>1 DEF PidsRight, ProcRight, Wanted
<1>8. c \notin Unused /\ ~child_statuses[c].present
  BY <1>1, <1>2, <1>5 DEF UnwantedListed
<1>9. /\ Unused' = Unused /\ \A d \in Pids : Known(d)' <=> Known(d)
      /\ \A d \in Pids \ {c} : Wanted(d)' <=> Wanted(d)
      /\ Wanted(c)'
  <2>1. Wanted(c)'
    BY <1>4, <1>6 DEF Wanted
  <2>2. ASSUME NEW d \in Pids \ {c} PROVE Wanted(d)' <=> Wanted(d)
    BY <1>6, <1>7 DEF Wanted
  <2> QED
    BY <1>3, <2>1, <2>2 DEF Unused, Known
<1>10. TypeOK'
  <2>1. owner' \in [Procs -> Places \cup {Nobody}] /\ pid' \in [Procs -> Pids \cup {Nobody}]
        /\ in_group' \in [Procs -> BOOLEAN] /\ cur' \in [Places -> Procs \cup {Nobody}]
    BY <1>1, <1>2, <1>3, <1>4 DEF TypeOK
  <2>2. os' \in [Pids -> {"free", "running", "zombie"}] /\ group' \in [Pids -> {"ours", "other"}]
        /\ proc' \in [Pids -> {0} \cup Procs]
    BY <1>1, <1>2, <1>4 DEF TypeOK
  <2>3. reused' \in BOOLEAN
    BY <1>2, <1>1, Zenon DEF TypeOK
  <2> QED
    BY <1>1, <1>3, <1>4, <2>1, <2>2, <2>3 DEF TypeOK
<1>11. Shape'
  BY <1>1, <1>2, <1>3 DEF Shape, Labels
<1>12. PidsRight' /\ ProcRight'
  <2>1. \A u \in Procs : owner'[u] # Nobody => pid'[u] \in Pids /\ u <= forks'
    BY <1>0, <1>1, <1>3, <1>4, <1>6 DEF PidsRight, TypeOK
  <2>2. \A u, w \in Procs : owner'[u] # Nobody /\ owner'[w] # Nobody /\ pid'[u] = pid'[w] => u = w
    BY <1>1, <1>6, <1>7 DEF PidsRight
  <2>3. \A u \in Procs : result'[u] # 0 => owner'[u] = Nobody /\ u <= forks'
    BY <1>1, <1>3, <1>4, <1>6, <1>7 DEF PidsRight
  <2>4. \A d \in Pids : os'[d] = "free" <=> proc'[d] = 0
    BY <1>1, <1>4, <1>6 DEF ProcRight
  <2>5. \A d \in Pids : proc'[d] # 0 => proc'[d] <= forks'
    <3>1. v <= v
      BY <1>0, <1>4
    <3>2. \A d \in Pids : proc[d] # 0 => proc[d] \in Procs /\ proc[d] <= v
      BY <1>1, <1>4 DEF ProcRight, TypeOK
    <3> QED
      BY <1>3, <1>6, <3>1, <3>2
  <2>6. \A d \in Pids : proc'[d] # 0 /\ owner'[proc'[d]] # Nobody => pid'[proc'[d]] = d
    <3>1. \A d \in Pids : proc[d] # 0 => proc[d] \in Procs \ {v}
      BY <1>1, <1>7 DEF TypeOK
    <3> QED
      BY <1>1, <1>6, <3>1 DEF ProcRight
  <2> QED
    BY <2>1, <2>2, <2>3, <2>4, <2>5, <2>6 DEF PidsRight, ProcRight
<1>13. OwnProcess'
  BY <1>1, <1>4, <1>6, <1>7 DEF OwnProcess, WithProcess, Labels
<1>14. KillRight'
  <2>1. \A q \in Places : pc'[q] = "send" => pc[q] = "send" /\ cur'[q] = cur[q] /\ cur[q] \in Procs
                            /\ owner[cur[q]] # Nobody
    BY <1>1, <1>6 DEF OwnProcess, WithProcess, Labels
  <2> QED
    BY <1>1, <1>6, <1>7, <2>1 DEF KillRight
<1>15. LockHeld'
  BY <1>1, <1>3, <1>6 DEF LockHeld
<1>16. ReapedOnce'
  <2>1. \A q \in Places : pc'[q] = "add" => /\ pc[q] = "add" /\ cur'[q] = cur[q] /\ cur[q] \in Procs
                                            /\ owner[cur[q]] # Nobody
    BY <1>1, <1>6 DEF OwnProcess, WithProcess, Labels
  <2> QED
    BY <1>1, <1>3, <1>6, <1>7, <2>1 DEF ReapedOnce
<1>17. RecordRight' /\ StatusRight'
  <2>1. RecordRight'
    BY <1>1, <1>3, <1>6, <1>7, <1>8 DEF RecordRight
  <2>2. StatusRight'
    BY <1>1, <1>3, <1>6, <1>7 DEF StatusRight
  <2> QED
    BY <2>1, <2>2
<1>18. UnusedRight' /\ UnwantedListed'
  <2>1. UnusedRight'
    <3>1. \A d \in Unused : d \in Pids
      BY <1>1 DEF Unused, TypeOK
    <3> QED
      BY <1>1, <1>3, <1>8, <1>9, <3>1 DEF UnusedRight
  <2>2. UnwantedListed'
    BY <1>1, <1>3, <1>6, <1>8, <1>9 DEF UnwantedListed
  <2> QED
    BY <2>1, <2>2
<1>19. WantedKept'
  <2>1. ASSUME NEW u \in Procs \ {v}, owner'[u] # Nobody PROVE Kept(u)'
    <3>1. /\ owner'[u] = owner[u] /\ pid'[u] = pid[u] /\ owner[u] \in Places /\ Kept(u)
          /\ pid[u] \in Pids \ {c}
      BY <1>1, <1>6, <1>7, <2>1, WantedKeptByProcess DEF TypeOK
    <3>2. (InHand(u)' <=> InHand(u)) /\ (Registering(u)' <=> Registering(u))
      BY <1>3, <1>6, <2>1, <3>1 DEF InHand, Registering
    <3> QED
      BY <1>3, <1>6, <3>1, <3>2, KeptSame
  <2>2. Kept(v)'
    BY <1>3, <1>6, <1>8 DEF Kept, Registering
  <2> QED
    BY <2>1, <2>2, WantedKeptByProcess
<1>20. RefcountExact'
  BY <1>3 DEF IInv, RefcountExact
<1>21. PendingExact'
  <2>1. Owned' = Owned \cup {v} /\ v \notin Owned
    BY <1>4, <1>6, <1>7 DEF Owned
  <2>2. Unsettled' = Unsettled \ {p} /\ p \in Unsettled
    BY <1>3, <1>6 DEF Unsettled
  <2>3. Cardinality(Owned') = Cardinality(Owned) + 1
    BY <2>1, CountUp, PendingSets
  <2>4. Cardinality(Unsettled') = Cardinality(Unsettled) - 1
    BY <2>2, CountDown, PendingSets
  <2> QED
    BY <1>1, <1>3, <2>3, <2>4, PendingSets
<1> QED
  BY <1>10, <1>11, <1>12, <1>13, <1>14, <1>15, <1>16, <1>17, <1>18, <1>19, <1>20, <1>21 DEF IInv

\* Registering a process, which may have been reaped and recorded before.
LEMMA RegisterIInv ==
    ASSUME IInv, NEW p \in Places, RegisterChild(p)
    PROVE  IInv'
<1> USE SubprocessAssumption
<1>1. TypeOK /\ Shape /\ PidsRight /\ ProcRight /\ OwnProcess /\ LockHeld /\ ReapedOnce /\ RecordRight
      /\ UnusedRight /\ WantedKept /\ UnwantedListed /\ StatusRight /\ KillRight /\ PendingExact
      /\ RefcountExact
  BY DEF IInv
<1>2. PICK v \in Procs, c \in Pids :
        /\ v = cur[p] /\ c = pid[v]
        /\ pc[p] = "register" /\ owner[v] = p /\ owner[v] # Nobody
        /\ pc' = [pc EXCEPT ![p] = "idle"] /\ cur' = [cur EXCEPT ![p] = Nobody]
        /\ UNCHANGED <<os, group, proc, forks, sigchld, pid, owner, in_group, result, unused_pid_statuses,
                       signalled, pending_children, child_wait_lock, status, wpc, unused_status, wpid,
                       wstatus, reused>>
  BY <1>1 DEF RegisterChild, Idle, Goto, kernel, values, worker, OwnProcess, WithProcess, Labels,
              PidsRight
<1>3. /\ child_statuses[c].present => child_statuses' = child_statuses /\ refcount' = refcount
      /\ ~child_statuses[c].present =>
           /\ child_statuses' = [child_statuses EXCEPT ![c] = Record(FALSE, 0, in_group[v], p)]
           /\ refcount' = IF in_group[v] THEN [refcount EXCEPT ![p] = @ + 1] ELSE refcount
  BY <1>2 DEF RegisterChild
<1>4. /\ \A d \in Pids \ {c} : child_statuses'[d] = child_statuses[d]
      /\ child_statuses[c].present => child_statuses'[c] = child_statuses[c]
      /\ ~child_statuses[c].present => child_statuses'[c] = Record(FALSE, 0, in_group[v], p)
      /\ \A q \in Places \ {p} : pc'[q] = pc[q] /\ cur'[q] = cur[q]
      /\ pc'[p] = "idle"
  BY <1>1, <1>2, <1>3 DEF TypeOK, Shape
<1>5. /\ Unused' = Unused /\ \A d \in Pids : Known(d)' <=> Known(d)
      /\ (\A d : Wanted(d)' <=> Wanted(d)) /\ Wanted(c)
  BY <1>2, <1>4 DEF Unused, Known, Record, Wanted
<1>6. Shape'
  <2>1. Record(FALSE, 0, in_group[v], p) \in ChildStatus
    BY <1>1, <1>2 DEF Record, ChildStatus, TypeOK
  <2> QED
    BY <1>1, <1>2, <1>3, <2>1 DEF Shape, Labels
<1>7. RefcountExact' /\ refcount' \in [Places -> Nat]
  <2>1. CASE child_statuses[c].present \/ ~in_group[v]
    <3>1. \A q \in Places : Wakes(child_statuses[c], q) <=> Wakes(child_statuses'[c], q)
      BY <1>4, <2>1 DEF Wakes, Record
    <3>2. refcount' = refcount
      BY <1>3, <2>1
    <3> QED
      BY <1>1, <1>2, <1>4, <3>1, <3>2, RefcountStep DEF TypeOK
  <2>2. CASE ~child_statuses[c].present /\ in_group[v]
    <3>1. /\ ~Wakes(child_statuses[c], p) /\ Wakes(child_statuses'[c], p)
          /\ \A q \in Places \ {p} : ~Wakes(child_statuses[c], q) /\ ~Wakes(child_statuses'[c], q)
      BY <1>4, <2>2 DEF Wakes, Record
    <3>2. refcount' = [refcount EXCEPT ![p] = @ + 1]
      BY <1>3, <2>2
    <3> QED
      BY <1>1, <1>2, <1>4, <3>1, <3>2, RefcountStep DEF TypeOK
  <2> QED
    BY <2>1, <2>2
<1>8. TypeOK'
  <2>1. \A d \in Pids : child_statuses'[d].present => child_statuses'[d].signal_fd \in Places \cup {Nobody}
    BY <1>6, RecordFields DEF Shape
  <2> QED
    BY <1>1, <1>2, <1>7, <2>1 DEF TypeOK
<1>9. OwnProcess' /\ KillRight' /\ LockHeld' /\ PidsRight' /\ ProcRight'
  BY <1>1, <1>2, <1>4 DEF OwnProcess, KillRight, LockHeld, WithProcess, PidsRight, ProcRight
<1>10. ReapedOnce'
  BY <1>1, <1>2, <1>4 DEF ReapedOnce
<1>11. RecordRight' /\ StatusRight'
  <2>1. ASSUME NEW u \in Procs, owner[u] # Nobody, u # v
        PROVE  pid[u] \in Pids \ {c}
    BY <1>1, <1>2, <2>1 DEF PidsRight
  <2>2. RecordRight'
    <3>1. ASSUME NEW u \in Procs, owner[u] # Nobody
          PROVE  LET st == child_statuses'[pid[u]]
                 IN  (st.present /\ ~st.done => st.signal_fd = owner[u])
                     /\ (st.present /\ st.done => st.status = u)
      <4>1. CASE u # v
        BY <1>1, <1>4, <2>1, <3>1, <4>1 DEF RecordRight
      <4>2. CASE u = v /\ child_statuses[c].present
        BY <1>1, <1>2, <1>4, <4>2 DEF RecordRight
      <4>3. CASE u = v /\ ~child_statuses[c].present
        BY <1>2, <1>4, <4>3 DEF Record
      <4> QED
        BY <4>1, <4>2, <4>3
    <3> QED
      BY <1>2, <3>1 DEF RecordRight
  <2>3. StatusRight'
    BY <1>1, <1>2 DEF StatusRight
  <2> QED
    BY <2>2, <2>3
<1>12. UnusedRight' /\ UnwantedListed'
  BY <1>1, <1>2, <1>4, <1>5 DEF UnusedRight, UnwantedListed
<1>13. PendingExact'
  <2>1. Owned' = Owned /\ Unsettled' = Unsettled
    BY <1>2, <1>4 DEF Owned, Unsettled
  <2> QED
    BY <1>1, <1>2, <2>1, PendingSets
<1>14. WantedKept'
  <2>1. ASSUME NEW u \in Procs, owner'[u] # Nobody PROVE Kept(u)'
    <3>1. owner[u] \in Places /\ owner[u] # Nobody /\ Kept(u) /\ pid[u] \in Pids
      BY <1>1, <1>2, <2>1, WantedKeptByProcess DEF TypeOK, PidsRight
    <3>2. InHand(u)' <=> InHand(u)
      BY <1>2, <1>4, <3>1 DEF InHand
    <3>3. CASE u # v
      <4>1. pid[u] # c
        BY <1>1, <1>2, <3>1, <3>3 DEF PidsRight
      <4>2. Registering(u)' <=> Registering(u)
        BY <1>2, <1>4, <3>1, <3>3 DEF Registering
      <4> QED
        BY <1>2, <1>4, <3>1, <3>2, <4>1, <4>2, KeptSame
    <3>4. CASE u = v
      <4>1. Registering(v) /\ ~Registering(v)'
        BY <1>2, <1>4 DEF Registering
      <4>2. Known(c)' <=> Known(c)
        BY <1>2, <1>5
      <4>3. os[c] # "free" => child_statuses'[c].present /\ ~child_statuses'[c].done
        BY <1>2, <1>4, <3>1, <3>4, <4>1 DEF Kept, Record
      <4> QED
        BY <1>2, <3>1, <3>2, <3>4, <4>1, <4>2, <4>3 DEF Kept
    <3> QED
      BY <3>3, <3>4
  <2> QED
    BY <2>1, WantedKeptByProcess
<1> QED
  BY <1>6, <1>7, <1>8, <1>9, <1>10, <1>11, <1>12, <1>13, <1>14 DEF IInv

\* A process that is wanted and not gone has no status yet.
LEMMA AliveUnknown ==
    ASSUME IInv, NEW v \in Procs, owner[v] # Nobody, os[pid[v]] # "free"
    PROVE  ~Known(pid[v]) /\ proc[pid[v]] = v
  BY WantedKeptByProcess DEF IInv, Kept, Known

\* A wanted process is reaped, by its place or by the worker, who has its status
\* in hand until it is recorded.
LEMMA ReapWantedIInv ==
    ASSUME IInv, NEW v \in Procs, NEW c \in Pids, NEW p \in Places,
           os[c] = "zombie", owner[v] = p, pid[v] = c, Reap(c),
           UNCHANGED <<values, tables, child_wait_lock, cur, unused_status, reused>>,
           \/ /\ UNCHANGED <<wpc, wpid, wstatus>>
              /\ pc[p] = "poll" /\ cur[p] = v
              /\ pc' = [pc EXCEPT ![p] = "add"] /\ status' = [status EXCEPT ![p] = proc[c]]
           \/ wpc = "scan" /\ wpc' = "add" /\ wpid' = c /\ wstatus' = proc[c] /\ UNCHANGED <<pc, status>>
    PROVE  IInv'
<1> USE SubprocessAssumption
<1>1. TypeOK /\ Shape /\ PidsRight /\ ProcRight /\ OwnProcess /\ LockHeld /\ ReapedOnce /\ RecordRight
      /\ UnusedRight /\ WantedKept /\ UnwantedListed /\ StatusRight /\ KillRight /\ PendingExact
      /\ RefcountExact
  BY DEF IInv
<1>2. owner[v] # Nobody /\ ~Known(c) /\ proc[c] = v /\ v # 0
  BY AliveUnknown DEF Procs
<1>3. /\ UNCHANGED <<forks, sigchld, pid, owner, in_group, result, child_statuses, unused_pid_statuses,
                     refcount, signalled, pending_children, child_wait_lock, cur, unused_status, reused>>
      /\ os' = [os EXCEPT ![c] = "free"] /\ group' = [group EXCEPT ![c] = "ours"]
      /\ proc' = [proc EXCEPT ![c] = 0]
  BY DEF Reap, values, tables
<1>4. os'[c] = "free" /\ proc'[c] = 0 /\ \A d \in Pids \ {c} : os'[d] = os[d] /\ proc'[d] = proc[d]
  BY <1>1, <1>3 DEF TypeOK
<1>5. /\ \A q \in Places \ {p} : pc'[q] = pc[q] /\ status'[q] = status[q]
      /\ \/ pc'[p] = pc[p] /\ status'[p] = status[p]
         \/ /\ pc[p] = "poll" /\ cur[p] = v /\ pc'[p] = "add" /\ status'[p] = v
            /\ wpc' = wpc /\ wpid' = wpid /\ wstatus' = wstatus
      /\ \/ wpc' = wpc /\ wpid' = wpid /\ wstatus' = wstatus
         \/ /\ wpc = "scan" /\ wpc' = "add" /\ wpid' = c /\ wstatus' = v
            /\ pc' = pc /\ status' = status
      /\ (pc'[p] = "add" /\ cur[p] = v) \/ (wpc' = "add" /\ wpid' = c)
  BY <1>1, <1>2 DEF Shape, TypeOK
<1>6. TypeOK'
  <2>1. /\ os' \in [Pids -> {"free", "running", "zombie"}] /\ group' \in [Pids -> {"ours", "other"}]
        /\ proc' \in [Pids -> {0} \cup Procs]
    BY <1>1, <1>3 DEF TypeOK
  <2>2. CASE UNCHANGED <<wpc, wpid, wstatus>> /\ status' = [status EXCEPT ![p] = proc[c]]
    <3>1. status' \in [Places -> {0} \cup Procs]
      BY <1>1, <1>2, <2>2 DEF TypeOK
    <3> QED
      BY <1>1, <1>3, <2>1, <2>2, <3>1 DEF TypeOK
  <2>3. CASE wpid' = c /\ wstatus' = proc[c] /\ UNCHANGED <<pc, status>>
    BY <1>1, <1>2, <1>3, <2>1, <2>3 DEF TypeOK
  <2> QED
    BY <2>2, <2>3
<1>7. Shape'
  BY <1>1, <1>3 DEF Shape, Labels, WorkerLabels
<1>8. OwnProcess' /\ PidsRight'
  BY <1>1, <1>3, <1>5 DEF OwnProcess, WithProcess, Labels, PidsRight
<1>9. ProcRight'
  BY <1>1, <1>3, <1>4 DEF ProcRight
<1>10. LockHeld'
  BY <1>1, <1>3, <1>5 DEF LockHeld
<1>11. ReapedOnce'
  <2>1. \A q \in Places : pc[q] = "add" => /\ cur[q] \in Procs /\ cur[q] # v
                                           /\ pid[cur[q]] \in Pids \ {c}
    <3>1. \A q \in Places : pc[q] = "add" => cur[q] \in Procs /\ owner[cur[q]] # Nobody
                                             /\ pid[cur[q]] \in Pids /\ os[pid[cur[q]]] = "free"
      BY <1>1 DEF ReapedOnce, OwnProcess, WithProcess, Labels, PidsRight
    <3> QED
      BY <3>1
  <2>2. wpc = "add" => wpid # c /\ wstatus # v
    BY <1>1 DEF ReapedOnce
  <2> QED
    BY <1>1, <1>2, <1>3, <1>4, <1>5, <2>1, <2>2 DEF ReapedOnce
<1>12. KillRight'
  <2>1. ASSUME NEW q \in Places, pc'[q] = "send"
        PROVE  cur[q] \in Procs /\ pid[cur[q]] \in Pids \ {c} /\ pc[q] = "send"
    <3>1. /\ pc[q] = "send" /\ child_wait_lock = q /\ cur[q] \in Procs /\ owner[cur[q]] = q
          /\ owner[cur[q]] # Nobody /\ pid[cur[q]] \in Pids
      BY <1>1, <1>5, <2>1 DEF LockHeld, OwnProcess, WithProcess, Labels, PidsRight
    <3>2. wpc # "scan"
      BY <1>1, <3>1 DEF LockHeld
    <3>3. cur[q] # v
      BY <1>5, <2>1, <3>1, <3>2
    <3> QED
      BY <1>1, <1>2, <3>1, <3>3 DEF PidsRight
  <2> QED
    BY <1>1, <1>3, <1>4, <2>1 DEF KillRight
<1>13. RecordRight' /\ RefcountExact'
  BY <1>1, <1>3 DEF RecordRight, RefcountExact
<1>14. Unused' = Unused /\ (\A d : Wanted(d)' <=> Wanted(d)) /\ Wanted(c)
  BY <1>2, <1>3 DEF Unused, Wanted
<1>15. UnusedRight' /\ UnwantedListed'
  BY <1>1, <1>3, <1>4, <1>14 DEF UnusedRight, UnwantedListed
<1>16. StatusRight'
  BY <1>1, <1>3, <1>4 DEF StatusRight
<1>17. PendingExact'
  <2>1. Owned' = Owned /\ Unsettled' = Unsettled
    BY <1>3, <1>5 DEF Owned, Unsettled
  <2> QED
    BY <1>1, <1>3, <2>1, PendingSets
<1>18. WantedKept'
  <2>1. ASSUME NEW u \in Procs \ {v}, owner'[u] # Nobody PROVE Kept(u)'
    <3>1. owner[u] # Nobody /\ owner[u] \in Places /\ Kept(u) /\ pid[u] \in Pids \ {c}
      BY <1>1, <1>2, <1>3, <2>1, WantedKeptByProcess DEF TypeOK, PidsRight
    <3>2. (InHand(u)' <=> InHand(u)) /\ (Registering(u)' <=> Registering(u))
      BY <1>3, <1>5, <3>1 DEF InHand, Registering
    <3> QED
      BY <1>3, <1>4, <3>1, <3>2, KeptSame
  <2>2. Kept(v)'
    <3>1. ~Known(c)'
      BY <1>2, <1>3 DEF Known
    <3>2. InHand(v)'
      BY <1>3, <1>5 DEF InHand
    <3> QED
      BY <1>3, <1>4, <3>1, <3>2 DEF Kept, Known
  <2> QED
    BY <2>1, <2>2, WantedKeptByProcess
<1> QED
  BY <1>6, <1>7, <1>8, <1>9, <1>10, <1>11, <1>12, <1>13, <1>15, <1>16, <1>17, <1>18 DEF IInv

\* An unwanted process is reaped by the worker and taken off the list.
LEMMA ReapUnusedIInv ==
    ASSUME IInv, NEW i \in 1..Len(unused_pid_statuses), Reap(unused_pid_statuses[i]),
           wpc = "scan", UNCHANGED <<wpc, wpid, wstatus, reused>>, unused_status' \in Nat \ {0},
           unused_pid_statuses' = RemoveAt(unused_pid_statuses, i),
           UNCHANGED <<values, child_statuses, refcount, signalled, pending_children,
                       child_wait_lock, place>>
    PROVE  IInv'
<1> USE SubprocessAssumption
<1>1. TypeOK /\ Shape /\ PidsRight /\ ProcRight /\ OwnProcess /\ LockHeld /\ ReapedOnce /\ RecordRight
      /\ UnusedRight /\ WantedKept /\ UnwantedListed /\ StatusRight /\ KillRight /\ PendingExact
      /\ RefcountExact
  BY DEF IInv
<1>2. PICK c \in Pids : c = unused_pid_statuses[i] /\ c \in Unused /\ ~Wanted(c)
  BY <1>1 DEF Unused, TypeOK, UnusedRight
<1>3. /\ UNCHANGED <<forks, sigchld, pid, owner, in_group, result, child_statuses, refcount, signalled,
                     pending_children, child_wait_lock, pc, cur, status, wpc, wpid, wstatus, reused>>
      /\ os' = [os EXCEPT ![c] = "free"] /\ group' = [group EXCEPT ![c] = "ours"]
      /\ proc' = [proc EXCEPT ![c] = 0]
  BY <1>2 DEF Reap, values, place
<1>4. os'[c] = "free" /\ proc'[c] = 0 /\ \A d \in Pids \ {c} : os'[d] = os[d] /\ proc'[d] = proc[d]
  BY <1>1, <1>2, <1>3 DEF TypeOK
<1>5. unused_pid_statuses' \in Seq(Pids) /\ Distinct(unused_pid_statuses') /\ Unused' = Unused \ {c}
  BY <1>1, <1>2, UnlinkMembers, UnusedIsMembers DEF Shape
<1>6. TypeOK'
  <2>1. \A j \in 1..Len(unused_pid_statuses') : unused_pid_statuses'[j] \in Pids
    BY <1>5
  <2> QED
    BY <1>1, <1>2, <1>3, <2>1 DEF TypeOK
<1>7. Shape'
  BY <1>1, <1>3, <1>5 DEF Shape
<1>8. OwnProcess' /\ LockHeld' /\ RefcountExact' /\ PendingExact' /\ PidsRight'
  BY <1>1, <1>3 DEF OwnProcess, LockHeld, RefcountExact, PendingExact, PidsRight
<1>9. ProcRight'
  BY <1>1, <1>3, <1>4 DEF ProcRight
<1>10. ReapedOnce'
  <2>1. \A q \in Places : pc[q] = "add" => pid[cur[q]] \in Pids
    BY <1>1 DEF OwnProcess, WithProcess, Labels, PidsRight
  <2> QED
    BY <1>1, <1>3, <1>4, <2>1 DEF ReapedOnce
<1>11. KillRight'
  <2>1. \A q \in Places : pc[q] # "send"
    BY <1>1 DEF LockHeld
  <2> QED
    BY <1>3, <2>1 DEF KillRight
<1>12. RecordRight'
  BY <1>1, <1>3 DEF RecordRight
<1>13. \A d : Wanted(d)' <=> Wanted(d)
  BY <1>3 DEF Wanted
<1>14. UnusedRight'
  BY <1>1, <1>5, <1>13, UnusedIsMembers
<1>15. UnwantedListed'
  <2>1. Len(unused_pid_statuses') = Cardinality(Unused')
    BY <1>5, DistinctLength, UnusedIsMembers
  <2> QED
    BY <1>1, <1>3, <1>4, <1>5, <1>13, <2>1 DEF UnwantedListed
<1>16. StatusRight'
  BY <1>1, <1>3, <1>4 DEF StatusRight, Procs
<1>17. WantedKept'
  <2>1. ASSUME NEW u \in Procs, owner'[u] # Nobody PROVE Kept(u)'
    <3>1. owner[u] # Nobody /\ Kept(u) /\ pid[u] \in Pids \ {c}
      BY <1>1, <1>2, <1>3, <2>1, WantedKeptByProcess DEF PidsRight, Wanted
    <3>2. (InHand(u)' <=> InHand(u)) /\ (Registering(u)' <=> Registering(u))
      BY <1>3 DEF InHand, Registering
    <3> QED
      BY <1>3, <1>4, <3>1, <3>2, KeptSame
  <2> QED
    BY <2>1, WantedKeptByProcess
<1> QED
  BY <1>6, <1>7, <1>8, <1>9, <1>10, <1>11, <1>12, <1>14, <1>15, <1>16, <1>17 DEF IInv

\* The status of a reaped process is recorded by whoever has it in hand.
LEMMA AddIInv ==
    ASSUME IInv, NEW v \in Procs, NEW c \in Pids, NEW p \in Places,
           owner[v] = p, pid[v] = c, os[c] = "free", AddChildStatus(c, v),
           UNCHANGED <<kernel, values, unused_pid_statuses, pending_children, child_wait_lock, cur,
                       unused_status, reused>>,
           \/ /\ UNCHANGED <<wpc, wpid, wstatus>>
              /\ pc[p] = "add" /\ cur[p] = v
              /\ pc' = [pc EXCEPT ![p] = "get"] /\ status' = [status EXCEPT ![p] = 0]
           \/ /\ wpc = "add" /\ wpid = c /\ wstatus = v /\ UNCHANGED <<pc, status>>
              /\ wpc' = "scan" /\ wpid' = Nobody /\ wstatus' = 0
    PROVE  IInv'
<1> USE SubprocessAssumption
<1> DEFINE st == child_statuses[c]
<1>1. TypeOK /\ Shape /\ PidsRight /\ ProcRight /\ OwnProcess /\ LockHeld /\ ReapedOnce /\ RecordRight
      /\ UnusedRight /\ WantedKept /\ UnwantedListed /\ StatusRight /\ KillRight /\ PendingExact
      /\ RefcountExact
  BY DEF IInv
<1>2. owner[v] # Nobody /\ st \in {None} \cup ChildStatus
  BY <1>1 DEF TypeOK, Shape
<1>3. UNCHANGED <<os, group, proc, forks, sigchld, pid, owner, in_group, result, unused_pid_statuses,
                  pending_children, child_wait_lock, cur, unused_status, reused>>
  BY DEF kernel, values
<1>4. /\ \A q \in Places \ {p} : pc'[q] = pc[q] /\ status'[q] = status[q]
      /\ \/ pc'[p] = pc[p] /\ status'[p] = status[p]
         \/ /\ pc[p] = "add" /\ cur[p] = v /\ pc'[p] = "get"
            /\ wpc' = wpc /\ wpid' = wpid /\ wstatus' = wstatus
      /\ \/ wpc' = wpc /\ wpid' = wpid /\ wstatus' = wstatus
         \/ /\ wpc = "add" /\ wpid = c /\ wstatus = v /\ wpc' = "scan" /\ wpid' = Nobody
            /\ pc' = pc /\ status' = status
      /\ InHand(v)
  BY <1>1, <1>2 DEF Shape, TypeOK, InHand
<1>5. ~(st.present /\ st.done)
  BY <1>1, <1>2, <1>4, WantedKeptByProcess DEF Kept, Known
<1>6. ~InHand(v)'
  <2>1. ~(wpc' = "add" /\ wpid' = c)
    <3>1. CASE pc[p] = "add" /\ cur[p] = v /\ wpc' = wpc /\ wpid' = wpid
      BY <1>1, <1>2, <3>1 DEF ReapedOnce, PidsRight
    <3>2. CASE wpc' = "scan"
      BY <3>2
    <3> QED
      BY <3>1, <3>2
  <2>2. ~(pc'[p] = "add" /\ cur[p] = v)
    BY <1>1 DEF ReapedOnce, Shape
  <2> QED
    BY <1>3, <2>1, <2>2 DEF InHand
<1>7. /\ \A d \in Pids \ {c} : child_statuses'[d] = child_statuses[d]
      /\ child_statuses' \in [Pids -> {None} \cup ChildStatus]
      /\ child_statuses'[c].present /\ child_statuses'[c].done /\ child_statuses'[c].status = v
  <2>1. CASE st.present
    <3>1. st \in ChildStatus
      BY <1>2, <2>1, RecordFields
    <3>2. child_statuses' = [child_statuses EXCEPT ![c] = [st EXCEPT !.done = TRUE, !.status = v]]
      BY <2>1 DEF AddChildStatus
    <3>3. [st EXCEPT !.done = TRUE, !.status = v] \in ChildStatus
      BY <3>1 DEF ChildStatus
    <3>4. /\ [st EXCEPT !.done = TRUE, !.status = v].done = TRUE
          /\ [st EXCEPT !.done = TRUE, !.status = v].status = v
          /\ [st EXCEPT !.done = TRUE, !.status = v].present = TRUE
      BY <3>1 DEF ChildStatus
    <3> HIDE DEF st
    <3> QED
      BY <1>1, <3>2, <3>3, <3>4 DEF Shape
  <2>2. CASE ~st.present
    <3>1. child_statuses' = [child_statuses EXCEPT ![c] = Record(TRUE, v, FALSE, Nobody)]
      BY <2>2 DEF AddChildStatus
    <3>2. Record(TRUE, v, FALSE, Nobody) \in ChildStatus
      BY DEF Record, ChildStatus
    <3> QED
      BY <1>1, <3>1, <3>2 DEF Shape, Record
  <2> QED
    BY <2>1, <2>2
<1>8. RefcountExact' /\ refcount' \in [Places -> Nat]
  <2>1. \A q \in Places : ~Wakes(child_statuses'[c], q)
    BY <1>7 DEF Wakes
  <2>2. CASE st.present /\ st.in_group
    <3>1. st.signal_fd = p /\ p # Nobody
      BY <1>1, <1>2, <1>5, <2>2 DEF RecordRight
    <3>2. Wakes(st, p) /\ \A q \in Places \ {p} : ~Wakes(st, q)
      BY <1>5, <2>2, <3>1 DEF Wakes
    <3>3. refcount[p] > 0
      BY <1>1, <3>2, RefcountPositive DEF TypeOK
    <3>4. refcount' = [refcount EXCEPT ![p] = @ - 1]
      BY <2>2, <3>1, <3>3 DEF AddChildStatus, RemoveGroupSignalFd
    <3> QED
      BY <1>1, <1>7, <2>1, <3>2, <3>4, RefcountStep DEF TypeOK
  <2>3. CASE ~(st.present /\ st.in_group)
    <3>1. refcount' = refcount
      BY <2>3 DEF AddChildStatus
    <3>2. \A q \in Places : ~Wakes(st, q)
      BY <2>3 DEF Wakes
    <3> QED
      BY <1>1, <1>7, <2>1, <3>1, <3>2, RefcountStep DEF TypeOK
  <2> QED
    BY <2>2, <2>3
<1>9. signalled' \subseteq Places
  <2>1. st.present => st.signal_fd \in Places \cup {Nobody}
    BY <1>2, RecordFields
  <2> QED
    BY <1>1, <2>1 DEF AddChildStatus, TypeOK
<1>10. TypeOK'
  <2>1. \A d \in Pids : child_statuses'[d].present => child_statuses'[d].signal_fd \in Places \cup {Nobody}
    BY <1>7, RecordFields
  <2>2. /\ status' \in [Places -> {0} \cup Procs] /\ wstatus' \in {0} \cup Procs
        /\ wpid' \in Pids \cup {Nobody}
    BY <1>1 DEF TypeOK
  <2> QED
    BY <1>1, <1>3, <1>8, <1>9, <2>1, <2>2 DEF TypeOK
<1>11. Shape'
  BY <1>1, <1>3, <1>7 DEF Shape, Labels, WorkerLabels
<1> HIDE DEF st
<1>12. OwnProcess' /\ KillRight' /\ PidsRight' /\ ProcRight'
  BY <1>1, <1>2, <1>3, <1>4 DEF OwnProcess, KillRight, PidsRight, ProcRight, WithProcess, Labels
<1>13. LockHeld'
  BY <1>1, <1>3, <1>4 DEF LockHeld
<1>14. ReapedOnce'
  BY <1>1, <1>3, <1>4 DEF ReapedOnce
<1>15. RecordRight'
  <2>1. ASSUME NEW u \in Procs, owner[u] # Nobody, u # v PROVE pid[u] \in Pids \ {c}
    BY <1>1, <1>2, <2>1 DEF PidsRight
  <2> QED
    BY <1>1, <1>3, <1>7, <2>1 DEF RecordRight
<1>16. Unused' = Unused /\ (\A d : Wanted(d)' <=> Wanted(d)) /\ Wanted(c)
  BY <1>2, <1>3 DEF Unused, Wanted
<1>17. UnusedRight' /\ UnwantedListed'
  BY <1>1, <1>3, <1>7, <1>16 DEF UnusedRight, UnwantedListed
<1>18. StatusRight'
  BY <1>1, <1>3 DEF StatusRight
<1>19. PendingExact'
  <2>1. Owned' = Owned /\ Unsettled' = Unsettled
    BY <1>3, <1>4 DEF Owned, Unsettled
  <2> QED
    BY <1>1, <1>3, <2>1, PendingSets
<1>20. WantedKept'
  <2>1. ASSUME NEW u \in Procs \ {v}, owner'[u] # Nobody PROVE Kept(u)'
    <3>1. owner[u] # Nobody /\ owner[u] \in Places /\ Kept(u) /\ pid[u] \in Pids \ {c}
      BY <1>1, <1>2, <1>3, <2>1, WantedKeptByProcess DEF TypeOK, PidsRight
    <3>2. (InHand(u)' <=> InHand(u)) /\ (Registering(u)' <=> Registering(u))
      BY <1>3, <1>4, <3>1 DEF InHand, Registering
    <3> QED
      BY <1>3, <1>7, <3>1, <3>2, KeptSame
  <2>2. Kept(v)'
    BY <1>3, <1>6, <1>7 DEF Kept, Known
  <2> QED
    BY <2>1, <2>2, WantedKeptByProcess
<1> QED
  BY <1>8, <1>10, <1>11, <1>12, <1>13, <1>14, <1>15, <1>17, <1>18, <1>19, <1>20 DEF IInv

\* A process value gives up its process: it takes the status of one that is
\* known to be gone, or leaves the process to the worker.
LEMMA GiveUpIInv ==
    ASSUME IInv, NEW p \in Places, NEW v \in Procs, NEW c \in Pids, owner[v] = p, pid[v] = c,
           pc[p] \in {"get", "kill", "idle"}, pc[p] # "idle" => cur[p] = v,
           pc' = [pc EXCEPT ![p] = "ended"],
           child_wait_lock' = IF pc[p] = "kill" THEN Nobody ELSE child_wait_lock,
           Drop(v),
           child_statuses' = [child_statuses EXCEPT ![c] = None],
           ~InHand(v),
           \/ /\ Known(c) /\ UNCHANGED <<unused_pid_statuses, refcount>>
              /\ result' \in {result, [result EXCEPT ![v] = child_statuses[c].status]}
           \/ /\ child_statuses[c].present /\ ~child_statuses[c].done
              /\ unused_pid_statuses' = <<c>> \o unused_pid_statuses
              /\ refcount' = IF child_statuses[c].in_group THEN [refcount EXCEPT ![p] = @ - 1] ELSE refcount
              /\ result' = result,
           UNCHANGED <<kernel, signalled, pending_children, cur, status, worker, reused>>
    PROVE  IInv'
<1> USE SubprocessAssumption
<1> DEFINE st == child_statuses[c]
<1>1. TypeOK /\ Shape /\ PidsRight /\ ProcRight /\ OwnProcess /\ LockHeld /\ ReapedOnce /\ RecordRight
      /\ UnusedRight /\ WantedKept /\ UnwantedListed /\ StatusRight /\ KillRight /\ PendingExact
      /\ RefcountExact
  BY DEF IInv
<1>2. /\ UNCHANGED <<os, group, proc, forks, sigchld, signalled, pending_children, cur, status, wpc,
                     unused_status, wpid, wstatus, reused>>
      /\ owner[v] # Nobody
      /\ owner' = [owner EXCEPT ![v] = Nobody] /\ in_group' = [in_group EXCEPT ![v] = FALSE]
      /\ pid' = [pid EXCEPT ![v] = Nobody]
  BY DEF kernel, worker, Drop
<1>3. /\ owner'[v] = Nobody /\ \A u \in Procs \ {v} : owner'[u] = owner[u] /\ pid'[u] = pid[u]
      /\ child_statuses'[c] = None /\ \A d \in Pids \ {c} : child_statuses'[d] = child_statuses[d]
      /\ pc'[p] = "ended" /\ \A q \in Places \ {p} : pc'[q] = pc[q]
  BY <1>1, <1>2 DEF TypeOK, Shape
<1>4. /\ c \notin Unused /\ Kept(v)
      /\ \A u \in Procs : owner[u] # Nobody /\ u # v => pid[u] \in Pids \ {c}
  BY <1>1, <1>2, WantedKeptByProcess DEF UnusedRight, PidsRight, Wanted
<1>5. /\ unused_pid_statuses' \in Seq(Pids) /\ Distinct(unused_pid_statuses')
      /\ Unused' = IF Known(c) THEN Unused ELSE Unused \cup {c}
      /\ Known(c) <=> os[c] = "free"
  <2>1. Known(c) <=> os[c] = "free"
    BY <1>4 DEF Kept, Known
  <2>2. CASE Known(c)
    BY <1>1, <2>1, <2>2, UnusedIsMembers DEF Shape, Known
  <2>3. CASE ~Known(c)
    <3>1. unused_pid_statuses' = <<c>> \o unused_pid_statuses
      BY <2>3
    <3>2. c \notin Members(unused_pid_statuses) /\ Distinct(unused_pid_statuses)
      BY <1>1, <1>4, UnusedIsMembers
    <3>3. /\ <<c>> \o unused_pid_statuses \in Seq(Pids) /\ Distinct(<<c>> \o unused_pid_statuses)
          /\ Members(<<c>> \o unused_pid_statuses) = Members(unused_pid_statuses) \cup {c}
      BY <1>1, <3>2, PushMembers DEF Shape
    <3>4. Unused' = Unused \cup {c}
      BY <3>1, <3>3, UnusedIsMembers
    <3> QED
      BY <2>1, <2>3, <3>1, <3>3, <3>4
  <2> QED
    BY <2>2, <2>3, <2>1
<1>6. /\ \A u \in Procs \ {v} : result'[u] = result[u]
      /\ result'[v] \in {result[v], v}
      /\ result'[v] # result[v] => os[c] = "free"
      /\ result' \in [Procs -> {0} \cup Procs]
      /\ result[v] = 0
  <2>1. CASE result' = result
    BY <1>1, <1>2, <2>1 DEF TypeOK, PidsRight
  <2>2. CASE Known(c) /\ result' = [result EXCEPT ![v] = st.status]
    <3>1. st.status = v
      BY <1>1, <1>2, <2>2 DEF RecordRight, Known
    <3> QED
      BY <1>1, <1>2, <1>5, <2>2, <3>1 DEF TypeOK, PidsRight
  <2> QED
    BY <2>1, <2>2
<1>7. RefcountExact' /\ refcount' \in [Places -> Nat]
  <2>1. \A q \in Places : ~Wakes(child_statuses'[c], q)
    BY <1>3 DEF Wakes, None
  <2>2. CASE Wakes(st, p)
    <3>1. \A q \in Places \ {p} : ~Wakes(st, q)
      BY <2>2 DEF Wakes
    <3>2. refcount' = [refcount EXCEPT ![p] = @ - 1]
      BY <2>2 DEF Wakes, Known
    <3> QED
      BY <1>1, <1>3, <2>1, <2>2, <3>1, <3>2, RefcountStep DEF TypeOK
  <2>3. CASE ~Wakes(st, p)
    <3>1. \A q \in Places : ~Wakes(st, q)
      BY <1>1, <1>2, <2>3 DEF Wakes, RecordRight
    <3>2. refcount' = refcount
      BY <1>1, <1>2, <2>3 DEF Wakes, RecordRight
    <3> QED
      BY <1>1, <1>3, <2>1, <3>1, <3>2, RefcountStep DEF TypeOK
  <2> QED
    BY <2>2, <2>3
<1>8. child_statuses' \in [Pids -> {None} \cup ChildStatus]
  BY <1>1 DEF Shape
<1>9. TypeOK'
  <2>1. \A d \in Pids : child_statuses'[d].present => child_statuses'[d].signal_fd \in Places \cup {Nobody}
    BY <1>8, RecordFields
  <2>2. \A j \in 1..Len(unused_pid_statuses') : unused_pid_statuses'[j] \in Pids
    BY <1>5
  <2>3. /\ owner' \in [Procs -> Places \cup {Nobody}] /\ pid' \in [Procs -> Pids \cup {Nobody}]
        /\ in_group' \in [Procs -> BOOLEAN] /\ child_wait_lock' \in Places \cup {"worker", Nobody}
    BY <1>1, <1>2 DEF TypeOK
  <2> QED
    BY <1>1, <1>2, <1>6, <1>7, <2>1, <2>2, <2>3 DEF TypeOK
<1>10. Shape'
  BY <1>1, <1>2, <1>5, <1>8 DEF Shape, Labels
<1>11. PidsRight' /\ ProcRight'
  <2>1. PidsRight'
    <3>1. v <= forks
      BY <1>1, <1>2 DEF PidsRight
    <3> QED
      BY <1>1, <1>2, <1>3, <1>6, <3>1 DEF PidsRight
  <2>2. \A d \in Pids : proc[d] # 0 => proc[d] \in Procs
    BY <1>1 DEF TypeOK
  <2> QED
    BY <1>1, <1>2, <1>3, <2>1, <2>2 DEF ProcRight
<1>12. OwnProcess'
  BY <1>1, <1>2, <1>3 DEF OwnProcess, WithProcess, Labels
<1>13. LockHeld'
  BY <1>1, <1>2, <1>3 DEF LockHeld, TypeOK
<1>14. KillRight'
  <2>1. \A q \in Places : pc'[q] = "send" => pc[q] = "send" /\ cur[q] \in Procs /\ cur[q] # v
    BY <1>1, <1>3 DEF OwnProcess, WithProcess, Labels
  <2> QED
    BY <1>1, <1>2, <1>3, <2>1 DEF KillRight
<1>15. ReapedOnce'
  <2>1. \A q \in Places : pc'[q] = "add" => pc[q] = "add" /\ cur[q] \in Procs /\ cur[q] # v
    BY <1>1, <1>3 DEF OwnProcess, WithProcess, Labels
  <2>2. wpc = "add" => wstatus # v
    BY <1>1 DEF ReapedOnce, InHand
  <2> QED
    BY <1>1, <1>2, <1>3, <2>1, <2>2 DEF ReapedOnce
<1>16. RecordRight'
  BY <1>1, <1>3, <1>4 DEF RecordRight
<1>17. /\ ~Wanted(c)' /\ Wanted(c)
       /\ \A d \in Pids \ {c} : Wanted(d)' <=> Wanted(d)
  BY <1>2, <1>3, <1>4 DEF Wanted
<1>18. UnusedRight'
  <2>1. \A d \in Unused : d \in Pids
    BY <1>1 DEF Unused, TypeOK
  <2> QED
    BY <1>1, <1>5, <1>17, <2>1, UnusedIsMembers
<1>19. UnwantedListed'
  <2>1. Len(unused_pid_statuses') = Cardinality(Unused')
    BY <1>5, DistinctLength, UnusedIsMembers
  <2>2. ~child_statuses'[c].present
    BY <1>3 DEF None
  <2> QED
    BY <1>1, <1>2, <1>3, <1>4, <1>5, <1>17, <2>1, <2>2 DEF UnwantedListed
<1>20. StatusRight'
  <2>1. ASSUME os[c] = "free", NEW d \in Pids, proc[d] = v PROVE FALSE
    <3>1. v # 0
      BY DEF Procs
    <3>2. d = c
      BY <1>1, <1>2, <2>1, <3>1 DEF ProcRight
    <3> QED
      BY <1>1, <2>1, <3>1, <3>2 DEF ProcRight
  <2> QED
    BY <1>1, <1>2, <1>6, <2>1 DEF StatusRight
<1>21. PendingExact'
  <2>1. Owned' = Owned \ {v} /\ v \in Owned
    BY <1>2, <1>3 DEF Owned
  <2>2. Unsettled' = Unsettled \cup {p} /\ p \notin Unsettled
    BY <1>3 DEF Unsettled
  <2>3. Cardinality(Owned') = Cardinality(Owned) - 1
    BY <2>1, CountDown, PendingSets
  <2>4. Cardinality(Unsettled') = Cardinality(Unsettled) + 1
    BY <2>2, CountUp, PendingSets
  <2> QED
    BY <1>1, <1>2, <2>3, <2>4, PendingSets
<1>22. WantedKept'
  <2>1. ASSUME NEW u \in Procs, owner'[u] # Nobody PROVE Kept(u)'
    <3>1. /\ u # v /\ owner'[u] = owner[u] /\ pid'[u] = pid[u] /\ owner[u] \in Places
          /\ Kept(u) /\ pid[u] \in Pids \ {c}
      BY <1>1, <1>3, <1>4, <2>1, WantedKeptByProcess DEF TypeOK
    <3>2. (InHand(u)' <=> InHand(u)) /\ (Registering(u)' <=> Registering(u))
      BY <1>2, <1>3, <3>1 DEF InHand, Registering
    <3> QED
      BY <1>2, <1>3, <3>1, <3>2, KeptSame
  <2> QED
    BY <2>1, WantedKeptByProcess
<1> QED
  BY <1>7, <1>9, <1>10, <1>11, <1>12, <1>13, <1>14, <1>15, <1>16, <1>18, <1>19, <1>20, <1>21, <1>22 DEF IInv

\* The actions that these lemmas cover.
LEMMA ReapsIInv ==
    ASSUME IInv, (\E p \in Places : PollReaps(p)) \/ ReapGroup \/ CheckUnused
    PROVE  IInv'
<1> USE SubprocessAssumption
<1>1. TypeOK /\ Shape /\ PidsRight /\ OwnProcess /\ LockHeld /\ UnwantedListed /\ UnusedRight
  BY DEF IInv
<1>2. ASSUME NEW p \in Places, PollReaps(p) PROVE IInv'
  <2>1. PICK v \in Procs, c \in Pids : v = cur[p] /\ c = pid[v] /\ owner[v] = p
    BY <1>1, <1>2 DEF PollReaps, OwnProcess, WithProcess, Labels, PidsRight
  <2>2. /\ os[c] = "zombie" /\ Reap(c) /\ pc[p] = "poll"
        /\ pc' = [pc EXCEPT ![p] = "add"] /\ status' = [status EXCEPT ![p] = proc[c]]
        /\ UNCHANGED <<values, tables, child_wait_lock, cur, unused_status, wpc, wpid, wstatus, reused>>
    BY <1>2, <2>1 DEF PollReaps, Goto, worker
  <2> QED
    BY <2>1, <2>2, ReapWantedIInv
<1>3. CASE ReapGroup
  <2>1. PICK c \in Anyone :
          /\ Reap(c)
          /\ \/ \E i \in 1..Len(unused_pid_statuses) :
                  /\ unused_pid_statuses[i] = c
                  /\ unused_pid_statuses' = RemoveAt(unused_pid_statuses, i)
                  /\ unused_status' = Len(unused_pid_statuses)
                  /\ UNCHANGED <<wpc, wpid, wstatus>>
             \/ /\ c \notin Unused
                /\ wpid' = c /\ wstatus' = proc[c]
                /\ wpc' = "add"
                /\ UNCHANGED <<unused_pid_statuses, unused_status>>
    BY <1>3 DEF ReapGroup
  <2>2. /\ wpc = "scan" /\ c \in Pids /\ os[c] = "zombie"
        /\ UNCHANGED <<values, child_statuses, refcount, signalled, pending_children, child_wait_lock,
                       place, reused>>
    BY <1>3 DEF ReapGroup, AtEnd, Anyone
  <2>3. CASE c \notin Unused /\ wpid' = c /\ wstatus' = proc[c] /\ wpc' = "add"
             /\ UNCHANGED <<unused_pid_statuses, unused_status>>
    <3>1. PICK v \in Procs, p \in Places : owner[v] = p /\ pid[v] = c
      BY <1>1, <2>2, <2>3 DEF UnwantedListed, Wanted, TypeOK
    <3>2. UNCHANGED <<values, tables, child_wait_lock, cur, unused_status, reused, pc, status>>
      BY <2>2, <2>3 DEF tables, place
    <3> QED
      BY <2>1, <2>2, <2>3, <3>1, <3>2, ReapWantedIInv
  <2>4. CASE \E i \in 1..Len(unused_pid_statuses) :
               /\ unused_pid_statuses[i] = c
               /\ unused_pid_statuses' = RemoveAt(unused_pid_statuses, i)
               /\ unused_status' = Len(unused_pid_statuses)
               /\ UNCHANGED <<wpc, wpid, wstatus>>
    <3>1. PICK i \in 1..Len(unused_pid_statuses) :
               /\ unused_pid_statuses[i] = c
               /\ unused_pid_statuses' = RemoveAt(unused_pid_statuses, i)
               /\ unused_status' = Len(unused_pid_statuses)
               /\ UNCHANGED <<wpc, wpid, wstatus>>
      BY <2>4
    <3>2. Len(unused_pid_statuses) \in Nat
      BY <1>1 DEF Shape
    <3>3. unused_status' \in Nat \ {0}
      BY <3>1, <3>2
    <3> QED
      BY <2>1, <2>2, <3>1, <3>3, ReapUnusedIInv
  <2> QED
    BY <2>1, <2>3, <2>4
<1>4. CASE CheckUnused
  <2>1. /\ wpc = "scan" /\ unused_status \in 1..Len(unused_pid_statuses) /\ unused_status \in Nat \ {0}
        /\ unused_pid_statuses[unused_status] \in Pids
    BY <1>1, <1>4 DEF CheckUnused, Shape
  <2>2. os[unused_pid_statuses[unused_status]] # "free"
    <3>1. unused_pid_statuses[unused_status] \in Unused
      BY <2>1 DEF Unused
    <3> QED
      BY <1>1, <2>1, <3>1 DEF UnwantedListed, UnusedRight
  <2>3. CASE os[unused_pid_statuses[unused_status]] = "zombie"
    <3>1. /\ Reap(unused_pid_statuses[unused_status])
          /\ unused_pid_statuses' = RemoveAt(unused_pid_statuses, unused_status)
          /\ UNCHANGED <<values, child_statuses, refcount, signalled, pending_children, child_wait_lock,
                         place, wpc, wpid, wstatus, reused, unused_status>>
      BY <1>4, <2>2, <2>3 DEF CheckUnused
    <3> QED
      BY <2>1, <3>1, ReapUnusedIInv
  <2>4. CASE os[unused_pid_statuses[unused_status]] # "zombie"
    <3>1. /\ UNCHANGED <<kernel, values, tables, child_wait_lock, place, wpc, wpid, wstatus, reused>>
          /\ unused_status' = unused_status + 1
      BY <1>4, <2>2, <2>4 DEF CheckUnused, tables
    <3>2. LockHeld'
      BY <1>1, <3>1 DEF LockHeld, place
    <3>3. SameProcesses /\ SameTables
          /\ UNCHANGED <<place, group, wpid, wstatus, reused, sigchld, signalled, wpc, child_wait_lock>>
      BY <3>1 DEF SameProcesses, SameTables, kernel, values, tables
    <3>4. unused_status' \in Nat \ {0}
      BY <2>1, <3>1
    <3> QED
      BY <1>1, <2>1, <3>2, <3>3, <3>4, WorkerMoves DEF TypeOK, WorkerLabels
  <2> QED
    BY <2>3, <2>4
<1> QED
  BY <1>2, <1>3, <1>4

LEMMA AddsIInv ==
    ASSUME IInv, (\E p \in Places : PollAdds(p)) \/ WorkerAdds
    PROVE  IInv'
<1> USE SubprocessAssumption
<1>1. TypeOK /\ PidsRight /\ OwnProcess /\ ReapedOnce
  BY DEF IInv
<1>2. ASSUME NEW p \in Places, PollAdds(p) PROVE IInv'
  <2>1. PICK v \in Procs, c \in Pids : v = cur[p] /\ c = pid[v] /\ owner[v] = p
    BY <1>1, <1>2 DEF PollAdds, OwnProcess, WithProcess, Labels, PidsRight
  <2>2. /\ os[c] = "free" /\ status[p] = v /\ pc[p] = "add" /\ AddChildStatus(c, status[p])
        /\ pc' = [pc EXCEPT ![p] = "get"] /\ status' = [status EXCEPT ![p] = 0]
        /\ UNCHANGED <<kernel, values, unused_pid_statuses, pending_children, child_wait_lock, cur,
                       unused_status, wpc, wpid, wstatus, reused>>
    BY <1>1, <1>2, <2>1 DEF PollAdds, Goto, worker, ReapedOnce
  <2>3. AddChildStatus(c, v)
    BY <2>2
  <2> QED
    BY <2>1, <2>2, <2>3, AddIInv
<1>3. CASE WorkerAdds
  <2>1. PICK v \in Procs, c \in Pids, p \in Places :
          v = wstatus /\ c = wpid /\ pid[v] = c /\ owner[v] = p /\ os[c] = "free"
    BY <1>1, <1>3 DEF WorkerAdds, ReapedOnce, TypeOK
  <2>2. /\ wpc = "add" /\ AddChildStatus(c, v) /\ wpc' = "scan" /\ wpid' = Nobody /\ wstatus' = 0
        /\ UNCHANGED <<kernel, values, unused_pid_statuses, pending_children, child_wait_lock, cur,
                       unused_status, pc, status, reused>>
    BY <1>3, <2>1 DEF WorkerAdds, place
  <2> QED
    BY <2>1, <2>2, AddIInv
<1> QED
  BY <1>2, <1>3

LEMMA GivesUpIInv ==
    ASSUME IInv, NEW p \in Places, PollTakes(p) \/ KillTakes(p) \/ Forget(p)
    PROVE  IInv'
<1> USE SubprocessAssumption
<1>1. TypeOK /\ Shape /\ PidsRight /\ OwnProcess /\ LockHeld /\ ReapedOnce /\ RecordRight /\ WantedKept
  BY DEF IInv
<1>2. CASE PollTakes(p) \/ KillTakes(p)
  <2>1. PICK v \in Procs, c \in Pids : v = cur[p] /\ c = pid[v] /\ owner[v] = p
    BY <1>1, <1>2 DEF PollTakes, KillTakes, OwnProcess, WithProcess, Labels, PidsRight
  <2>2. /\ Known(c) /\ Take(v) /\ pc[p] \in {"get", "kill"} /\ pc' = [pc EXCEPT ![p] = "ended"]
        /\ child_wait_lock' = IF pc[p] = "kill" THEN Nobody ELSE child_wait_lock
        /\ UNCHANGED <<kernel, cur, status, worker, reused>>
    BY <1>2, <2>1 DEF PollTakes, KillTakes, Goto
  <2>3. /\ Drop(v) /\ child_statuses' = [child_statuses EXCEPT ![c] = None]
        /\ result' = [result EXCEPT ![v] = child_statuses[c].status]
        /\ UNCHANGED <<unused_pid_statuses, refcount, signalled, pending_children>>
    BY <2>1, <2>2 DEF Take
  <2>4. ~InHand(v)
    <3>1. Kept(v)
      BY <1>1, <2>1, WantedKeptByProcess
    <3>2. os[c] = "free"
      BY <2>1, <2>2, <3>1 DEF Kept, Known
    <3> QED
      BY <2>1, <2>2, <3>1, <3>2 DEF Kept
  <2> QED
    BY <2>1, <2>2, <2>3, <2>4, GiveUpIInv
<1>3. CASE Forget(p)
  <2>1. PICK v \in Procs :
        LET c == pid[v]
            st == child_statuses[c]
            alive == st.present /\ ~st.done
        IN
        /\ owner[v] = p
        /\ unused_pid_statuses' = IF alive THEN <<c>> \o unused_pid_statuses ELSE unused_pid_statuses
        /\ IF alive /\ st.signal_fd # Nobody /\ st.in_group
           THEN RemoveGroupSignalFd(st.signal_fd) ELSE UNCHANGED refcount
        /\ child_statuses' = [child_statuses EXCEPT ![c] = None]
        /\ Drop(v)
    BY <1>3 DEF Forget
  <2>2. PICK c \in Pids : c = pid[v]
    BY <1>1, <2>1 DEF PidsRight
  <2>3. /\ pc[p] = "idle" /\ child_wait_lock = Nobody /\ pc' = [pc EXCEPT ![p] = "ended"]
        /\ UNCHANGED <<kernel, result, signalled, pending_children, child_wait_lock, cur, status, worker,
                       reused>>
    BY <1>3 DEF Forget, WaitFree, Goto
  <2>4. ~InHand(v)
    BY <1>1, <2>1, <2>3 DEF InHand, LockHeld
  <2>5. child_statuses[c].present /\ (~child_statuses[c].done => child_statuses[c].signal_fd = p)
    <3>1. Kept(v)
      BY <1>1, <2>1, WantedKeptByProcess
    <3>2. child_statuses[c].present
      BY <2>1, <2>2, <2>3, <2>4, <3>1 DEF Kept, Known, Registering
    <3> QED
      BY <1>1, <2>1, <2>2, <3>2 DEF RecordRight
  <2>6. \/ Known(c) /\ UNCHANGED <<unused_pid_statuses, refcount>>
        \/ /\ child_statuses[c].present /\ ~child_statuses[c].done
           /\ unused_pid_statuses' = <<c>> \o unused_pid_statuses
           /\ refcount' = IF child_statuses[c].in_group THEN [refcount EXCEPT ![p] = @ - 1] ELSE refcount
    <3>1. CASE child_statuses[c].done
      BY <2>1, <2>2, <2>5, <3>1 DEF Known
    <3>2. CASE ~child_statuses[c].done /\ child_statuses[c].in_group
      <4>1. refcount[p] > 0
        BY <2>5, <3>2, RefcountPositive DEF IInv, Wakes, TypeOK
      <4>2. RemoveGroupSignalFd(p)
        BY <2>1, <2>2, <2>5, <3>2
      <4> QED
        BY <2>1, <2>2, <2>5, <3>2, <4>1, <4>2 DEF RemoveGroupSignalFd
    <3>3. CASE ~child_statuses[c].done /\ ~child_statuses[c].in_group
      BY <2>1, <2>2, <2>5, <3>3
    <3> QED
      BY <3>1, <3>2, <3>3
  <2>7. owner[v] = p /\ Drop(v) /\ child_statuses' = [child_statuses EXCEPT ![c] = None]
    BY <2>1, <2>2
  <2> QED
    BY <2>2, <2>3, <2>4, <2>6, <2>7, GiveUpIInv
<1> QED
  BY <1>2, <1>3
-----------------------------------------------------------------------------
(* The theorems. *)

\* Every step but a fork that sets reused.
LEMMA NextIInv ==
    ASSUME IInv, [Next]_vars, ~reused'
    PROVE  IInv'
<1>1. ASSUME NEW c \in Pids, Exit(c) \/ Regroup(c) PROVE IInv'
  BY <1>1, KernelIInv
<1>2. ASSUME NEW p \in Places,
             Continue(p) \/ StartingChild(p) \/ Poll(p) \/ Disturb(p) \/ Kill(p) \/ Forget(p)
      PROVE IInv'
  BY <1>2, PlaceMovesIInv, PendingIInv, ForkIInv, RegisterIInv, ReapsIInv, AddsIInv, GivesUpIInv
  DEF Continue
<1>3. CASE Worker
  BY <1>3, WorkerMovesIInv, ReapsIInv, AddsIInv DEF Worker
<1>4. CASE UNCHANGED vars
  <2>1. UNCHANGED <<os, group, proc, forks, sigchld, pid, owner, in_group, result, child_statuses,
                    unused_pid_statuses, refcount, signalled, pending_children, child_wait_lock, pc, cur,
                    status, wpc, unused_status, wpid, wstatus, reused>>
    BY <1>4 DEF vars, kernel, values, tables, place, worker
  <2>2. SameProcesses /\ SameTables /\ LockHeld'
    BY <2>1 DEF IInv, SameProcesses, SameTables, LockHeld
  <2>3. TypeOK' /\ Shape' /\ OwnProcess' /\ ReapedOnce' /\ PendingExact' /\ KillRight'
    BY <2>1 DEF IInv, TypeOK, Shape, OwnProcess, ReapedOnce, PendingExact, KillRight
  <2>4. WantedKept'
    BY <2>1 DEF IInv, WantedKept, Known, InHand, Registering
  <2> QED
    BY <2>2, <2>3, <2>4, SameKept DEF IInv
<1> QED
  BY <1>1, <1>2, <1>3, <1>4 DEF Next, Astray

\* An id that was used too early stays so.
LEMMA ReusedStays ==
    ASSUME [Next]_vars, reused
    PROVE  reused'
  BY DEF Next, Continue, Worker, Astray, vars, Exit, Regroup, StartingChild, Poll, Disturb, Kill, Forget,
     Fork, ForkFails, Setpgid, RegisterChild, EndedChild, PollReaps, PollReapsNot, PollAdds, PollTakes,
     PollFails, Wake, KillTakes, KillFinds, KillSends, Sigwait, GroupSignals, WorkerLocks, CheckUnused,
     ReapGroup, WorkerAdds, WorkerDone

LEMMA SpecIInv == Spec => [](reused \/ IInv)
<1>1. Init => IInv
  BY InitIInv
<1>2. (reused \/ IInv) /\ [Next]_vars => (reused \/ IInv)'
  BY NextIInv, ReusedStays
<1> QED
  BY <1>1, <1>2, PTL DEF Spec

\* For any number of places, process ids and forks, until the kernel uses the id of
\* a reaped process whose process value is not done: the status of a process that
\* is wanted is kept, whoever reaps it and whether or not it is registered by
\* then; one that is forgotten is listed once until it is reaped; a status is taken
\* by the value of its own process; refcount and pending_children are exact
\* (centralized_get_child_status, thread_signal_worker, add_child_status and
\* centralized_done_with_process_id in rktio_process.c).
THEOREM StatusesKept == Spec => []StatusInv
<1>1. reused \/ IInv => StatusInv
  BY DEF IInv, StatusInv
<1> QED
  BY <1>1, SpecIInv, PTL

\* Until the kernel uses an id that early, do_subprocess_kill signals only the child
\* it is meant for, which has not been reaped: between its look at the status and
\* kill, neither the worker nor another poll of the same process value reaps it.
THEOREM SignalsOwnChild == Spec => []KillsOwnChild
<1>1. reused \/ IInv => KillsOwnChild
  BY DEF IInv, KillRight, KillsOwnChild
<1> QED
  BY <1>1, SpecIInv, PTL
=============================================================================
