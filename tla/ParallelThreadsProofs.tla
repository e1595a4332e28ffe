----------------------- MODULE ParallelThreadsProofs -----------------------
(***************************************************************************)
(* Proofs about ParallelThreads, for any number of parallel threads and of *)
(* workers: one OS thread at a time runs a future, a stopped future is in  *)
(* no queue and runs nowhere, the place's count of active futures is       *)
(* exact, all as long as no timer was late; and no unit of an fsemaphore   *)
(* is lost, late timers or not.                                            *)
(*                                                                         *)
(* The inductive invariant says of each worker what it knows of its future *)
(* at each place of its code, of each future who can be running it, and of *)
(* each Racket thread what a request to stop it has left behind.  A late   *)
(* stop or switch breaks it, so what is inductive is that it holds or a    *)
(* timer was late.  The units have a smaller invariant of their own.       *)
(***************************************************************************)
EXTENDS ParallelThreads, FiniteSetTheorems, SequenceTheorems, TLAPS

Steps == {"loop", "claim", "claimed", "run", "wait", "suspend", "post", "switch",
          "wake", "left", "finish", "ended", "back"}

Line(s, S) == s \in Seq(S) /\ IsInjective(s)
Lines == Line(queue, Threads) /\ Line(waiting, Threads)

\* What a worker knows of the future it works on, and of the fsemaphore.
WorkerOK(w) ==
    /\ wpc[w] # "loop" => cur[w] \in Threads
    /\ wpc[w] = "claimed" => /\ lock[cur[w]] = w /\ state[cur[w]] = "free" /\ at[cur[w]] = "thunk"
                             /\ ~Scheduled(cur[w]) /\ ~stop[cur[w]]
    /\ InCode(w) => state[cur[w]] = "running" /\ at[cur[w]] = w
    /\ wpc[w] = "suspend" => lock[cur[w]] = w /\ state[cur[w]] = "fsema" /\ at[cur[w]] = w

\* What the state of a future says about who can run it.
FutureOK(f) ==
    /\ at[f] \in Workers => cur[at[f]] = f /\ wpc[at[f]] \in {"run", "post", "wait", "switch", "suspend"}
    /\ state[f] = "running" => at[f] \in Workers /\ InCode(at[f])
    /\ Scheduled(f) => state[f] = "free" /\ at[f] = "thunk" /\ ~stop[f]
    /\ f \in Range(waiting) => state[f] = "fsema"
    /\ state[f] = "fsema" => at[f] \in {"thunk"} \cup Workers
    /\ tpc[f] = "racket" => state[f] = "free" /\ at[f] = "racket" /\ sched[f] # "future"
    /\ at[f] = "racket" => tpc[f] \in {"racket", "over"}
    /\ at[f] = "over" => state[f] = "done" \/ tpc[f] = "over"

\* What a request to stop a future leaves behind.
StopOK(f) ==
    /\ whom = f => suspended[f] \/ tpc[f] = "over"
    /\ tpc[f] = "over" => sched[f] = "off"
    /\ stop[f] => suspended[f] \/ tpc[f] = "over"
    /\ whom # f => /\ suspended[f] => stop[f]
                   /\ stop[f] => state[f] # "running" /\ at[f] \notin Workers /\ sched[f] # "on"

PlaceOK ==
    /\ ppc \in {"free", "post"} <=> whom = NoOne
    /\ ppc \in {"asleep", "check"} => stop[whom]

\* Who changes the fsemaphore holds its lock.
FsemaOK ==
    /\ \A w \in Workers : /\ wpc[w] = "wait" => fslock = w /\ c = 0
                          /\ wpc[w] = "post" => fslock = w
    /\ UnitsConserved

IInv ==
    /\ TypeOK /\ Lines /\ PlaceOK /\ ActiveExact /\ FsemaOK
    /\ \A w \in Workers : WorkerOK(w)
    /\ \A f \in Threads : FutureOK(f) /\ StopOK(f)
-----------------------------------------------------------------------------
(* The queues as sequences without repetition. *)

LEMMA RangeIs ==
    ASSUME NEW S, NEW s \in Seq(S), NEW x
    PROVE  x \in Range(s) <=> \E i \in 1..Len(s) : s[i] = x
  BY LenProperties DEF Range

LEMMA LineIs ==
    ASSUME NEW S, NEW s \in Seq(S)
    PROVE  IsInjective(s) <=> \A i, j \in 1..Len(s) : s[i] = s[j] => i = j
  BY LenProperties DEF IsInjective

LEMMA RemoveAtProps ==
    ASSUME NEW S, NEW s \in Seq(S), NEW i \in 1..Len(s)
    PROVE  /\ RemoveAt(s, i) \in Seq(S) /\ Len(RemoveAt(s, i)) = Len(s) - 1
           /\ \A j \in 1..(Len(s) - 1) : RemoveAt(s, i)[j] = IF j < i THEN s[j] ELSE s[j + 1]
<1> DEFINE a == SubSeq(s, 1, i - 1)
           b == SubSeq(s, i + 1, Len(s))
<1>1. Len(s) \in Nat /\ i \in Nat /\ 1 <= i /\ i <= Len(s)
  BY LenProperties
<1>2. a \in Seq(S) /\ Len(a) = i - 1 /\ \A j \in 1..(i - 1) : a[j] = s[j]
  BY <1>1, SubSeqProperties
<1>3. b \in Seq(S) /\ Len(b) = Len(s) - i /\ \A j \in 1..(Len(s) - i) : b[j] = s[i + j]
  BY <1>1, SubSeqProperties
<1>4. RemoveAt(s, i) = a \o b
  BY DEF RemoveAt
<1> HIDE DEF a, b
<1>5. /\ a \o b \in Seq(S) /\ Len(a \o b) = Len(a) + Len(b)
      /\ \A j \in 1..(Len(a) + Len(b)) : (a \o b)[j] = IF j <= Len(a) THEN a[j] ELSE b[j - Len(a)]
  BY <1>2, <1>3, ConcatProperties
<1>6. ASSUME NEW j \in 1..(Len(s) - 1) PROVE (a \o b)[j] = IF j < i THEN s[j] ELSE s[j + 1]
  <2>1. CASE j < i
    <3>1. j \in 1..(i - 1) /\ j \in 1..(Len(a) + Len(b)) /\ j <= Len(a)
      BY <1>1, <1>2, <1>3, <2>1
    <3> QED
      BY <3>1, <2>1, <1>2, <1>5
  <2>2. CASE ~(j < i)
    <3>1. j \in 1..(Len(a) + Len(b)) /\ ~(j <= Len(a)) /\ j - Len(a) \in 1..(Len(s) - i)
          /\ i + (j - Len(a)) = j + 1
      BY <1>1, <1>2, <1>3, <2>2
    <3> QED
      BY <3>1, <2>2, <1>3, <1>5
  <2> QED
    BY <2>1, <2>2
<1> QED
  BY <1>1, <1>2, <1>3, <1>4, <1>5, <1>6

LEMMA Removed ==
    ASSUME NEW S, NEW s, Line(s, S), NEW i \in 1..Len(s)
    PROVE  /\ Line(RemoveAt(s, i), S) /\ Len(RemoveAt(s, i)) = Len(s) - 1
           /\ \A x : x \in Range(RemoveAt(s, i)) <=> x \in Range(s) /\ x # s[i]
<1> DEFINE t == RemoveAt(s, i)
<1>1. s \in Seq(S) /\ Len(s) \in Nat /\ i \in Nat /\ 1 <= i /\ i <= Len(s)
  BY LenProperties DEF Line
<1>2. t \in Seq(S) /\ Len(t) = Len(s) - 1 /\ \A j \in 1..Len(t) : t[j] = IF j < i THEN s[j] ELSE s[j + 1]
  BY <1>1, RemoveAtProps
<1> HIDE DEF t
<1>3. \A j, k \in 1..Len(s) : s[j] = s[k] => j = k
  BY <1>1, LineIs DEF Line
<1>4. \A j, k \in 1..Len(t) : t[j] = t[k] => j = k
  BY <1>1, <1>2, <1>3
<1>5. IsInjective(t)
  BY <1>2, <1>4, LineIs
<1>6. ASSUME NEW x, x \in Range(t) PROVE x \in Range(s) /\ x # s[i]
  <2>1. PICK j \in 1..Len(t) : t[j] = x
    BY <1>2, <1>6, RangeIs
  <2>2. \E k \in 1..Len(s) : s[k] = x /\ k # i
    <3>1. CASE j < i
      <4>1. j \in 1..Len(s) /\ j # i
        BY <1>1, <1>2, <3>1
      <4> QED
        BY <2>1, <3>1, <4>1, <1>2
    <3>2. CASE ~(j < i)
      <4>1. j + 1 \in 1..Len(s) /\ j + 1 # i
        BY <1>1, <1>2, <3>2
      <4> QED
        BY <2>1, <3>2, <4>1, <1>2
    <3> QED
      BY <3>1, <3>2
  <2> QED
    BY <2>2, <1>1, <1>3, RangeIs
<1>7. ASSUME NEW x, x \in Range(s), x # s[i] PROVE x \in Range(t)
  <2>1. PICK k \in 1..Len(s) : s[k] = x
    BY <1>1, <1>7, RangeIs
  <2>2. CASE k < i
    <3>1. k \in 1..Len(t)
      BY <1>1, <1>2, <2>2
    <3>2. t[k] = x
      BY <3>1, <2>1, <2>2, <1>2
    <3> QED
      BY <3>1, <3>2, <1>2, RangeIs
  <2>3. CASE ~(k < i)
    <3>1. k # i
      BY <2>1, <1>7
    <3>2. k - 1 \in 1..Len(t) /\ ~(k - 1 < i) /\ (k - 1) + 1 = k
      BY <1>1, <1>2, <2>3, <3>1
    <3>3. t[k - 1] = x
      BY <3>2, <2>1, <1>2
    <3> QED
      BY <3>2, <3>3, <1>2, RangeIs
  <2> QED
    BY <2>2, <2>3
<1> QED
  BY <1>2, <1>5, <1>6, <1>7 DEF Line, t

LEMMA Appended ==
    ASSUME NEW S, NEW s, Line(s, S), NEW y \in S, y \notin Range(s)
    PROVE  /\ Line(Append(s, y), S) /\ Len(Append(s, y)) = Len(s) + 1
           /\ \A x : x \in Range(Append(s, y)) <=> x \in Range(s) \/ x = y
<1> DEFINE t == Append(s, y)
<1>1. s \in Seq(S) /\ Len(s) \in Nat
  BY LenProperties DEF Line
<1>2. t \in Seq(S) /\ Len(t) = Len(s) + 1 /\ t[Len(s) + 1] = y /\ \A j \in 1..Len(s) : t[j] = s[j]
  BY <1>1, AppendProperties
<1> HIDE DEF t
<1>3. \A j, k \in 1..Len(s) : s[j] = s[k] => j = k
  BY <1>1, LineIs DEF Line
<1>4. \A j \in 1..Len(s) : s[j] # y
  BY <1>1, RangeIs
<1>5. \A j \in 1..Len(t) : j \in 1..Len(s) \/ j = Len(s) + 1
  BY <1>1, <1>2
<1>6. \A j, k \in 1..Len(t) : t[j] = t[k] => j = k
  BY <1>2, <1>3, <1>4, <1>5
<1>7. IsInjective(t)
  BY <1>2, <1>6, LineIs
<1>8. Len(s) + 1 \in 1..Len(t) /\ \A j \in 1..Len(s) : j \in 1..Len(t)
  BY <1>1, <1>2
<1>9. \A x : (\E j \in 1..Len(t) : t[j] = x) <=> (\E j \in 1..Len(s) : s[j] = x) \/ x = y
  BY <1>2, <1>5, <1>8
<1>10. \A x : x \in Range(t) <=> x \in Range(s) \/ x = y
  BY <1>1, <1>2, <1>9, RangeIs
<1> QED
  BY <1>2, <1>7, <1>10 DEF Line, t

LEMMA Prepended ==
    ASSUME NEW S, NEW s, Line(s, S), NEW y \in S, y \notin Range(s)
    PROVE  /\ Line(<<y>> \o s, S) /\ Len(<<y>> \o s) = Len(s) + 1
           /\ \A x : x \in Range(<<y>> \o s) <=> x \in Range(s) \/ x = y
<1> DEFINE t == <<y>> \o s
<1>1. s \in Seq(S) /\ Len(s) \in Nat /\ <<y>> \in Seq(S) /\ Len(<<y>>) = 1 /\ <<y>>[1] = y
  BY LenProperties DEF Line
<1>2. t \in Seq(S) /\ Len(t) = Len(s) + 1
      /\ \A j \in 1..(1 + Len(s)) : t[j] = IF j <= 1 THEN <<y>>[j] ELSE s[j - 1]
  BY <1>1, ConcatProperties
<1>3. 1 \in 1..Len(t) /\ t[1] = y
  BY <1>1, <1>2
<1>4. \A j \in 1..Len(s) : j + 1 \in 1..Len(t) /\ t[j + 1] = s[j]
  BY <1>1, <1>2
<1>5. \A j \in 1..Len(t) : j = 1 \/ (\E k \in 1..Len(s) : j = k + 1 /\ t[j] = s[k])
  <2> SUFFICES ASSUME NEW j \in 1..Len(t), j # 1 PROVE j - 1 \in 1..Len(s) /\ j = (j - 1) + 1 /\ t[j] = s[j - 1]
    OBVIOUS
  <2> QED
    BY <1>1, <1>2
<1> HIDE DEF t
<1>6. \A j, k \in 1..Len(s) : s[j] = s[k] => j = k
  BY <1>1, LineIs DEF Line
<1>7. \A j \in 1..Len(s) : s[j] # y
  BY <1>1, RangeIs
<1>8. \A j, k \in 1..Len(t) : t[j] = t[k] => j = k
  BY <1>3, <1>5, <1>6, <1>7
<1>9. IsInjective(t)
  BY <1>2, <1>8, LineIs
<1>10. \A x : (\E j \in 1..Len(t) : t[j] = x) <=> (\E j \in 1..Len(s) : s[j] = x) \/ x = y
  BY <1>3, <1>4, <1>5
<1>11. \A x : x \in Range(t) <=> x \in Range(s) \/ x = y
  BY <1>1, <1>2, <1>10, RangeIs
<1> QED
  BY <1>2, <1>9, <1>11 DEF Line, t

LEMMA Tailed ==
    ASSUME NEW S, NEW s, Line(s, S), s # << >>
    PROVE  /\ Head(s) \in S /\ Head(s) \in Range(s) /\ Line(Tail(s), S)
           /\ \A x : x \in Range(Tail(s)) <=> x \in Range(s) /\ x # Head(s)
<1> DEFINE t == Tail(s)
           y == Head(s)
<1>1. s \in Seq(S) /\ Len(s) \in Nat /\ Len(s) # 0
  BY LenProperties, EmptySeq DEF Line
<1>2. t \in Seq(S) /\ y \in S /\ Len(t) = Len(s) - 1 /\ \A j \in 1..Len(t) : t[j] = s[j + 1]
  BY <1>1, HeadTailProperties
<1>3. y = s[1] /\ 1 \in 1..Len(s)
  BY <1>1
<1> HIDE DEF t, y
<1>4. \A j \in 1..Len(t) : j + 1 \in 1..Len(s) /\ j + 1 # 1
  BY <1>1, <1>2
<1>5. \A j, k \in 1..Len(s) : s[j] = s[k] => j = k
  BY <1>1, LineIs DEF Line
<1>6. \A j, k \in 1..Len(t) : j + 1 = k + 1 => j = k
  BY <1>1, <1>2
<1>7. \A j, k \in 1..Len(t) : t[j] = t[k] => j = k
  BY <1>2, <1>4, <1>5, <1>6
<1>8. IsInjective(t)
  BY <1>2, <1>7, LineIs
<1>9. \A k \in 1..Len(s) : k = 1 \/ (k - 1 \in 1..Len(t) /\ (k - 1) + 1 = k)
  BY <1>1, <1>2
<1>10. \A x : (\E j \in 1..Len(t) : t[j] = x) <=> (\E j \in 1..Len(s) : s[j] = x) /\ x # y
  <2>1. \A j \in 1..Len(t) : (\E k \in 1..Len(s) : s[k] = t[j]) /\ t[j] # y
    BY <1>2, <1>3, <1>4, <1>5
  <2>2. ASSUME NEW j \in 1..Len(s), s[j] # y PROVE \E k \in 1..Len(t) : t[k] = s[j]
    <3>1. j - 1 \in 1..Len(t) /\ (j - 1) + 1 = j
      BY <1>3, <1>9, <2>2
    <3>2. t[j - 1] = s[j]
      BY <1>2, <3>1
    <3> QED
      BY <3>1, <3>2
  <2> QED
    BY <2>1, <2>2
<1>11. \A x : x \in Range(t) <=> x \in Range(s) /\ x # y
  BY <1>1, <1>2, <1>10, RangeIs
<1>12. y \in Range(s)
  BY <1>1, <1>3, RangeIs
<1> QED
  BY <1>2, <1>8, <1>11, <1>12 DEF Line, t, y
-----------------------------------------------------------------------------
(* Counting the workers that have a future. *)

Busy == {w \in Workers : wpc[w] \in {"claimed", "run", "wait", "suspend", "post", "switch",
                 "wake", "left", "finish", "ended"}}

LEMMA BusyFinite == IsFiniteSet(Busy) /\ Cardinality(Busy) \in Nat
<1>1. IsFiniteSet(Busy)
  BY FS_Subset, PoolAssumption DEF Busy
<1> QED
  BY <1>1, FS_CardinalityType

LEMMA ActiveIs == ActiveExact <=> active = Len(queue) + Cardinality(Busy)
  BY DEF ActiveExact, Busy

\* w gets a future from the queue, or gives one back.
LEMMA BusyStep ==
    ASSUME wpc \in [Workers -> Steps], NEW w \in Workers, NEW l, wpc' = [wpc EXCEPT ![w] = l]
    PROVE  /\ w \in Busy' <=> l \in {"claimed", "run", "wait", "suspend", "post", "switch",
                 "wake", "left", "finish", "ended"}
           /\ (w \in Busy <=> w \in Busy') => Cardinality(Busy') = Cardinality(Busy)
           /\ w \notin Busy /\ w \in Busy' => Cardinality(Busy') = Cardinality(Busy) + 1
           /\ w \in Busy /\ w \notin Busy' => Cardinality(Busy') = Cardinality(Busy) - 1
<1>1. IsFiniteSet(Busy) /\ \A v \in Workers : v # w => (v \in Busy <=> v \in Busy')
  BY BusyFinite DEF Busy
<1>2. Busy \subseteq Workers /\ Busy' \subseteq Workers
  BY DEF Busy
<1>3. w \in Busy' <=> l \in {"claimed", "run", "wait", "suspend", "post", "switch",
                 "wake", "left", "finish", "ended"}
  BY DEF Busy
<1>4. CASE w \in Busy <=> w \in Busy'
  <2>1. Busy' = Busy
    BY <1>1, <1>2, <1>4
  <2> QED
    BY <1>3, <1>4, <2>1
<1>5. CASE w \notin Busy /\ w \in Busy'
  <2>1. Busy' = Busy \cup {w}
    BY <1>1, <1>2, <1>5
  <2> QED
    BY <1>1, <1>3, <1>5, <2>1, FS_AddElement
<1>6. CASE w \in Busy /\ w \notin Busy'
  <2>1. Busy' = Busy \ {w}
    BY <1>1, <1>2, <1>6
  <2> QED
    BY <1>1, <1>3, <1>6, <2>1, FS_RemoveElement
<1> QED
  BY <1>4, <1>5, <1>6

LEMMA IInvParts ==
    ASSUME IInv
    PROVE  /\ state \in [Threads -> {"free", "running", "blocked", "fsema", "done"}]
           /\ at \in [Threads -> {"thunk", "racket", "over"} \cup Workers]
           /\ lock \in [Threads -> Workers \cup {NoOne}] /\ stop \in [Threads -> BOOLEAN]
           /\ wpc \in [Workers -> Steps] /\ cur \in [Workers -> Threads \cup {NoOne}]
           /\ seen \in [Workers -> Int] /\ tpc \in [Threads -> {"touch", "racket", "over"}]
           /\ sched \in [Threads -> {"on", "off", "future"}] /\ suspended \in [Threads -> BOOLEAN]
           /\ Line(queue, Threads) /\ Line(waiting, Threads) /\ Len(queue) \in Nat
           /\ active \in Nat /\ active = Len(queue) + Cardinality(Busy)
           /\ TypeOK /\ PlaceOK /\ FsemaOK
           /\ \A w \in Workers : WorkerOK(w)
           /\ \A f \in Threads : FutureOK(f) /\ StopOK(f)
<1>1. wpc \in [Workers -> Steps]
  BY DEF IInv, TypeOK, Steps
<1>2. Len(queue) \in Nat
  BY LenProperties DEF IInv, Lines, Line
<1>3. active = Len(queue) + Cardinality(Busy)
  BY ActiveIs DEF IInv
<1>4. TypeOK /\ PlaceOK /\ FsemaOK /\ Line(queue, Threads) /\ Line(waiting, Threads)
      /\ (\A w \in Workers : WorkerOK(w)) /\ (\A f \in Threads : FutureOK(f) /\ StopOK(f))
  BY DEF IInv, Lines
<1> QED
  BY <1>1, <1>2, <1>3, <1>4 DEF TypeOK
-----------------------------------------------------------------------------
(* Who has a future to itself. *)

Owns(w, f) == cur[w] = f /\ wpc[w] \in {"claimed", "run", "wait", "suspend", "post", "switch"}

LEMMA OneOwner ==
    ASSUME IInv, NEW v \in Workers, NEW w \in Workers, NEW f \in Threads, Owns(v, f), Owns(w, f)
    PROVE  v = w
<1>1. WorkerOK(v) /\ WorkerOK(w) /\ at[f] \in {"thunk", "racket", "over"} \cup Workers
  BY IInvParts
<1> QED
  BY <1>1, PoolAssumption DEF Owns, WorkerOK, InCode

\* A future that is queued, saved, or running in its Racket thread is nobody's.
LEMMA NoOwner ==
    ASSUME IInv, NEW f \in Threads, NEW v \in Workers, Owns(v, f)
    PROVE  /\ ~Scheduled(f) /\ state[f] \in {"free", "running", "fsema"}
           /\ f \in Range(waiting) => wpc[v] = "suspend"
           /\ state[f] = "free" => wpc[v] = "claimed"
           /\ wpc[v] \in {"claimed", "suspend"} => ~Free(f)
           /\ wpc[v] = "claimed" => at[f] = "thunk" /\ ~stop[f]
           /\ wpc[v] # "claimed" => at[f] = v
<1>1. WorkerOK(v) /\ FutureOK(f) /\ v # NoOne
  BY IInvParts, PoolAssumption
<1> QED
  BY <1>1 DEF Owns, WorkerOK, FutureOK, InCode, Free

\* A step concerns the future f, and no worker but those of W.
LEMMA Frame ==
    ASSUME IInv, NEW W \in SUBSET Workers, NEW f \in Threads,
           \A v \in Workers \ W : cur'[v] = cur[v] /\ ~Owns(v, f),
           \A v \in Workers \ W : wpc'[v] = wpc[v] \/ {wpc[v], wpc'[v]} \subseteq {"run", "post", "wait", "switch"},
           \A w \in W : cur[w] = f,
           \A g \in Threads : g # f =>
               /\ state'[g] = state[g] /\ at'[g] = at[g] /\ lock'[g] = lock[g] /\ stop'[g] = stop[g]
               /\ tpc'[g] = tpc[g] /\ sched'[g] = sched[g] /\ suspended'[g] = suspended[g]
               /\ g \in Range(queue') <=> g \in Range(queue)
               /\ g \in Range(waiting') => g \in Range(waiting)
               /\ whom' = g <=> whom = g
    PROVE  /\ \A v \in Workers \ W : WorkerOK(v)'
           /\ \A g \in Threads : g # f => FutureOK(g)' /\ StopOK(g)'
<1>1. ASSUME NEW v \in Workers \ W PROVE WorkerOK(v)'
  <2>1. WorkerOK(v) /\ v \in Workers
    BY IInvParts
  <2>2. CASE cur[v] = f
    BY <2>1, <2>2 DEF Owns, WorkerOK, InCode
  <2>3. CASE cur[v] # f
    BY <2>1, <2>3 DEF WorkerOK, InCode, Scheduled
  <2> QED
    BY <2>2, <2>3
<1>2. ASSUME NEW g \in Threads, g # f PROVE FutureOK(g)' /\ StopOK(g)'
  <2>1. FutureOK(g) /\ StopOK(g)
    BY IInvParts
  <2>2. at[g] \in Workers => at[g] \in Workers \ W
    BY <1>2, <2>1 DEF FutureOK
  <2>3. FutureOK(g)'
    BY <1>2, <2>1, <2>2 DEF FutureOK, InCode, Scheduled
  <2>4. StopOK(g)'
    BY <1>2, <2>1 DEF StopOK
  <2> QED
    BY <2>3, <2>4
<1> QED
  BY <1>1, <1>2
\* A step of a worker that has no future, before and after it.
LEMMA IdleStep ==
    ASSUME IInv, NEW w \in Workers, NEW l \in {"loop", "claim", "left", "ended", "back"}, NEW h,
           wpc' = [wpc EXCEPT ![w] = l], cur' = [cur EXCEPT ![w] = h],
           wpc[w] \in {"loop", "claim", "wake", "left", "finish", "ended", "back"}, l # "loop" => h \in Threads,
           UNCHANGED <<state, at, lock, stop, queue, waiting, c, fslock, threads, placevar, history>>,
           TypeOK', ActiveExact'
    PROVE  IInv'
<1>1. /\ wpc \in [Workers -> Steps] /\ cur \in [Workers -> Threads \cup {NoOne}] /\ PlaceOK /\ FsemaOK
      /\ Lines /\ at \in [Threads -> {"thunk", "racket", "over"} \cup Workers]
  BY IInvParts DEF IInv
<1>2. /\ tpc' = tpc /\ sched' = sched /\ suspended' = suspended /\ ppc' = ppc /\ whom' = whom
      /\ posted' = posted /\ granted' = granted
  BY DEF threads, placevar, history
<1>3. ASSUME NEW v \in Workers PROVE WorkerOK(v)'
  <2>1. WorkerOK(v)
    BY IInvParts
  <2>2. CASE v = w
    <3>1. wpc'[v] = l /\ cur'[v] = h
      BY <1>1, <2>2
    <3> QED
      BY <3>1 DEF WorkerOK, InCode
  <2>3. CASE v # w
    <3>1. wpc'[v] = wpc[v] /\ cur'[v] = cur[v]
      BY <1>1, <2>3
    <3> QED
      BY <2>1, <3>1 DEF WorkerOK, InCode, Scheduled
  <2> QED
    BY <2>2, <2>3
<1>4. ASSUME NEW f \in Threads PROVE FutureOK(f)' /\ StopOK(f)'
  <2>1. FutureOK(f) /\ StopOK(f)
    BY IInvParts
  <2>2. at[f] # w
    BY <2>1 DEF FutureOK
  <2>3. FutureOK(f)'
    BY <1>1, <1>2, <2>1, <2>2 DEF FutureOK, InCode, Scheduled
  <2> QED
    BY <1>2, <2>1, <2>3 DEF StopOK
<1>5. PlaceOK' /\ Lines'
  BY <1>1, <1>2 DEF PlaceOK, Lines
<1>6. FsemaOK'
  BY <1>1, <1>2 DEF FsemaOK, UnitsConserved
<1> QED
  BY <1>3, <1>4, <1>5, <1>6 DEF IInv

\* A step of a worker that has a future, before or after it.
LEMMA OwnerStep ==
    ASSUME IInv, NEW w \in Workers, NEW f \in Threads, cur[w] = f, cur' = cur,
           \A v \in Workers : v # w => wpc'[v] = wpc[v] /\ ~Owns(v, f),
           \A g \in Threads : g # f =>
               /\ state'[g] = state[g] /\ at'[g] = at[g] /\ lock'[g] = lock[g]
               /\ g \in Range(queue') <=> g \in Range(queue)
               /\ g \in Range(waiting') => g \in Range(waiting),
           stop' = stop, UNCHANGED <<threads, placevar>>,
           stop[f] /\ whom # f => state'[f] # "running" /\ at'[f] \notin Workers,
           TypeOK', Lines', ActiveExact', FsemaOK', WorkerOK(w)', FutureOK(f)'
    PROVE  IInv'
<1>1. tpc' = tpc /\ sched' = sched /\ suspended' = suspended /\ ppc' = ppc /\ whom' = whom
  BY DEF threads, placevar
<1>2. /\ \A v \in Workers \ {w} : WorkerOK(v)'
      /\ \A g \in Threads : g # f => FutureOK(g)' /\ StopOK(g)'
  <2>1. \A v \in Workers \ {w} : wpc'[v] = wpc[v] /\ cur'[v] = cur[v] /\ ~Owns(v, f)
    OBVIOUS
  <2>2. {w} \in SUBSET Workers /\ \A v \in {w} : cur[v] = f
    OBVIOUS
  <2>3. \A g \in Threads : g # f =>
           /\ state'[g] = state[g] /\ at'[g] = at[g] /\ lock'[g] = lock[g] /\ stop'[g] = stop[g]
           /\ tpc'[g] = tpc[g] /\ sched'[g] = sched[g] /\ suspended'[g] = suspended[g]
           /\ g \in Range(queue') <=> g \in Range(queue)
           /\ g \in Range(waiting') => g \in Range(waiting)
           /\ whom' = g <=> whom = g
    BY <1>1
  <2> DEFINE W == {w}
  <2> HIDE DEF W
  <2>4. /\ W \in SUBSET Workers /\ (\A v \in Workers \ W : cur'[v] = cur[v] /\ ~Owns(v, f))
        /\ \A v \in Workers \ W : wpc'[v] = wpc[v] \/ {wpc[v], wpc'[v]} \subseteq {"run", "post", "wait", "switch"}
        /\ \A v \in W : cur[v] = f
    BY <2>1, <2>2 DEF W
  <2>5. /\ \A v \in Workers \ W : WorkerOK(v)'
        /\ \A g \in Threads : g # f => FutureOK(g)' /\ StopOK(g)'
    BY <2>3, <2>4, Frame
  <2> QED
    BY <2>5 DEF W
<1>3. StopOK(f)'
  <2>1. StopOK(f)
    BY IInvParts
  <2> QED
    BY <1>1, <2>1 DEF StopOK
<1>4. PlaceOK'
  <2>1. PlaceOK
    BY DEF IInv
  <2> QED
    BY <1>1, <2>1 DEF PlaceOK
<1>5. (\A v \in Workers : WorkerOK(v)') /\ (\A g \in Threads : FutureOK(g)' /\ StopOK(g)')
  BY <1>2, <1>3
<1> QED
  BY <1>4, <1>5 DEF IInv
-----------------------------------------------------------------------------
(* The workers. *)

LEMMA LoopStep ==
    ASSUME IInv, NEW w \in Workers, Loop(w)
    PROVE  IInv'
<1>1. /\ wpc \in [Workers -> Steps] /\ cur \in [Workers -> Threads \cup {NoOne}] /\ TypeOK
      /\ Line(queue, Threads) /\ active = Len(queue) + Cardinality(Busy)
  BY IInvParts
<1>2. /\ wpc[w] \in {"loop", "back"} /\ state' = state /\ at' = at /\ lock' = lock /\ stop' = stop
      /\ queue' = queue /\ active' = active /\ seen' = seen /\ round' = round
      /\ UNCHANGED <<fsema, threads, placevar, signals, counts, history>>
      /\ capacity' = IF wpc[w] = "back" THEN capacity + 1 ELSE capacity
  BY DEF Loop
<1>3. \E l \in {"loop", "claim"}, h \in Threads \cup {NoOne} :
        /\ wpc' = [wpc EXCEPT ![w] = l] /\ cur' = [cur EXCEPT ![w] = h] /\ (l # "loop" => h \in Threads)
        /\ waiters' \subseteq Workers
  <2>1. CASE queue = << >>
    BY <1>1, <2>1 DEF Loop, TypeOK
  <2>2. CASE queue # << >>
    <3>1. Head(queue) \in Threads
      BY <1>1, <2>2, Tailed
    <3> QED
      BY <1>1, <2>2, <3>1 DEF Loop, TypeOK
  <2> QED
    BY <2>1, <2>2
<1>4. PICK l \in {"loop", "claim"}, h \in Threads \cup {NoOne} :
        /\ wpc' = [wpc EXCEPT ![w] = l] /\ cur' = [cur EXCEPT ![w] = h] /\ (l # "loop" => h \in Threads)
        /\ waiters' \subseteq Workers
  BY <1>3
<1>5. TypeOK'
  BY <1>1, <1>2, <1>4 DEF TypeOK, fsema, threads, placevar, signals, counts, history
<1>6. ActiveExact'
  <2>1. Cardinality(Busy') = Cardinality(Busy)
    BY <1>1, <1>2, <1>4, BusyStep DEF Busy
  <2> QED
    BY <1>1, <1>2, <2>1 DEF ActiveExact, Busy
<1>7. UNCHANGED <<state, at, lock, stop, queue, waiting, c, fslock, threads, placevar, history>>
  BY <1>2 DEF fsema
<1> QED
  BY <1>2, <1>4, <1>5, <1>6, <1>7, IdleStep

LEMMA ClaimStep ==
    ASSUME IInv, NEW w \in Workers, Claim(w)
    PROVE  IInv'
<1>1. /\ state \in [Threads -> {"free", "running", "blocked", "fsema", "done"}]
      /\ at \in [Threads -> {"thunk", "racket", "over"} \cup Workers]
      /\ lock \in [Threads -> Workers \cup {NoOne}] /\ stop \in [Threads -> BOOLEAN]
      /\ wpc \in [Workers -> Steps] /\ cur \in [Workers -> Threads \cup {NoOne}]
  BY IInvParts
<1>2. /\ Line(queue, Threads) /\ Line(waiting, Threads) /\ Len(queue) \in Nat
      /\ active \in Nat /\ active = Len(queue) + Cardinality(Busy)
      /\ TypeOK /\ PlaceOK /\ FsemaOK /\ WorkerOK(w)
  BY IInvParts
<1>3. PICK f \in Threads : f = cur[w] /\ wpc[w] = "claim"
  BY <1>2 DEF Claim, WorkerOK
<1>4. /\ Free(f) /\ state' = state /\ at' = at /\ stop' = stop /\ waiters' = waiters /\ active' = active
      /\ cur' = cur /\ capacity' = capacity /\ round' = round
      /\ UNCHANGED <<fsema, threads, placevar, signals, counts, history>>
  BY <1>3 DEF Claim, Goto
<1>5. CASE Scheduled(f)
  <2>1. /\ Deschedule(f) /\ lock' = [lock EXCEPT ![f] = w] /\ seen' = [seen EXCEPT ![w] = capacity]
        /\ wpc' = [wpc EXCEPT ![w] = "claimed"]
    BY <1>3, <1>5 DEF Claim
  <2>2. PICK i \in 1..Len(queue) : queue[i] = f /\ queue' = RemoveAt(queue, i)
    BY <1>2, <2>1, LenProperties DEF Deschedule, Line
  <2>3. /\ Line(queue', Threads) /\ Len(queue') = Len(queue) - 1
        /\ \A x : x \in Range(queue') <=> x \in Range(queue) /\ x # f
    BY <1>2, <2>2, Removed
  <2>4. ActiveExact'
    <3>1. Cardinality(Busy') = Cardinality(Busy) + 1 /\ Cardinality(Busy) \in Nat
      BY <1>1, <1>3, <2>1, BusyStep, BusyFinite DEF Busy
    <3> QED
      BY <1>2, <1>4, <2>3, <3>1 DEF ActiveExact, Busy
  <2>5. TypeOK'
    BY <1>1, <1>2, <1>4, <2>1, <2>3, <1>3 DEF TypeOK, fsema, threads, placevar, signals, counts, history, Line
  <2>6. FutureOK(f)
    BY IInvParts
  <2>7. WorkerOK(w)' /\ FutureOK(f)'
    BY <1>1, <1>3, <1>4, <1>5, <2>1, <2>3, <2>6, PoolAssumption
       DEF WorkerOK, FutureOK, InCode, Scheduled, fsema, threads
  <2>8. FsemaOK' /\ Lines'
    BY <1>1, <1>2, <1>3, <1>4, <2>1, <2>3 DEF FsemaOK, UnitsConserved, Lines, fsema, history
  <2>9. \A v \in Workers : ~Owns(v, f)
    BY <1>5, NoOwner
  <2>10. \A v \in Workers : v # w => wpc'[v] = wpc[v]
    BY <1>1, <2>1
  <2>11. \A g \in Threads : g # f =>
           /\ state'[g] = state[g] /\ at'[g] = at[g] /\ lock'[g] = lock[g]
           /\ g \in Range(queue') <=> g \in Range(queue)
           /\ g \in Range(waiting') => g \in Range(waiting)
    BY <1>1, <1>4, <2>1, <2>3 DEF fsema
  <2>12. state'[f] # "running" /\ at'[f] \notin Workers
    BY <1>4, <1>5, <2>6, PoolAssumption DEF FutureOK
  <2>13. UNCHANGED <<threads, placevar>>
    BY <1>4
  <2> QED
    BY <1>3, <1>4, <2>4, <2>5, <2>7, <2>8, <2>9, <2>10, <2>11, <2>12, <2>13, OwnerStep
<1>6. CASE ~Scheduled(f)
  <2>1. queue' = queue /\ lock' = lock /\ wpc' = [wpc EXCEPT ![w] = "loop"] /\ seen' = seen
    BY <1>3, <1>6 DEF Claim, Goto
  <2>2. cur' = [cur EXCEPT ![w] = f]
    BY <1>1, <1>3, <1>4
  <2>3. TypeOK'
    BY <1>2, <1>4, <2>1 DEF TypeOK, fsema, threads, placevar, signals, counts, history
  <2>4. ActiveExact'
    <3>1. Cardinality(Busy') = Cardinality(Busy)
      BY <1>1, <1>3, <2>1, BusyStep DEF Busy
    <3> QED
      BY <1>2, <1>4, <2>1, <3>1 DEF ActiveExact, Busy
  <2>5. UNCHANGED <<state, at, lock, stop, queue, waiting, c, fslock, threads, placevar, history>>
    BY <1>4, <2>1 DEF fsema
  <2> QED
    BY <1>3, <2>1, <2>2, <2>3, <2>4, <2>5, IdleStep
<1> QED
  BY <1>5, <1>6
LEMMA ScheduleIs ==
    ASSUME Line(queue, Threads), Len(queue) \in Nat, waiters \subseteq Workers,
           NEW f \in Threads, ~Scheduled(f), NEW front \in BOOLEAN, Schedule(f, front)
    PROVE  /\ Line(queue', Threads) /\ Len(queue') = Len(queue) + 1
           /\ \A x : x \in Range(queue') <=> x \in Range(queue) \/ x = f
           /\ active' = active + 1 /\ waiters' \subseteq Workers
<1>1. /\ queue' = IF front THEN <<f>> \o queue ELSE Append(queue, f)
      /\ active' = active + 1 /\ waiters' \subseteq Workers
  BY DEF Schedule
<1>2. f \notin Range(queue)
  BY DEF Scheduled
<1>3. CASE front
  BY <1>1, <1>2, <1>3, Prepended
<1>4. CASE ~front
  BY <1>1, <1>2, <1>4, Appended
<1> QED
  BY <1>3, <1>4

\* The engine ends: the future is saved or over, and perhaps queued again.
LEMMA EngineStep ==
    ASSUME IInv, NEW w \in Workers, NEW f \in Threads, cur[w] = f, wpc[w] \in {"run", "switch"},
           NEW s \in {"free", "blocked", "done"}, NEW a \in {"thunk", "over"},
           NEW l \in {"wake", "left", "finish"},
           a = "over" => s = "done",
           state' = [state EXCEPT ![f] = s], at' = [at EXCEPT ![f] = a], lock' = lock, stop' = stop,
           wpc' = [wpc EXCEPT ![w] = l], cur' = cur, UNCHANGED <<fsema, threads, placevar, posted, granted>>,
           \/ queue' = queue /\ active' = active
           \/ /\ Line(queue', Threads) /\ Len(queue') = Len(queue) + 1 /\ active' = active + 1
              /\ \A x : x \in Range(queue') <=> x \in Range(queue) \/ x = f
              /\ s = "free" /\ a = "thunk" /\ ~stop[f],
           TypeOK'
    PROVE  IInv'
<1>1. /\ state \in [Threads -> {"free", "running", "blocked", "fsema", "done"}]
      /\ at \in [Threads -> {"thunk", "racket", "over"} \cup Workers]
      /\ wpc \in [Workers -> Steps] /\ WorkerOK(w) /\ FutureOK(f) /\ FsemaOK
      /\ Line(queue, Threads) /\ Line(waiting, Threads) /\ Len(queue) \in Nat
      /\ active = Len(queue) + Cardinality(Busy)
  BY IInvParts
<1>2. Owns(w, f) /\ state[f] = "running" /\ at[f] = w
  BY <1>1 DEF Owns, WorkerOK, InCode
<1>3. waiting' = waiting /\ c' = c /\ fslock' = fslock /\ tpc' = tpc /\ sched' = sched
      /\ posted' = posted /\ granted' = granted
  BY DEF fsema, threads
<1>4. wpc'[w] = l /\ state'[f] = s /\ at'[f] = a /\ a \notin Workers
  BY <1>1, PoolAssumption
<1>5. ActiveExact'
  <2>1. Cardinality(Busy') = Cardinality(Busy) /\ Cardinality(Busy) \in Nat
    BY <1>1, BusyStep, BusyFinite DEF Busy
  <2> QED
    BY <1>1, <2>1 DEF ActiveExact, Busy
<1>6. Lines' /\ \A x : x \in Range(queue') => x \in Range(queue) \/ (x = f /\ s = "free" /\ a = "thunk" /\ ~stop[f])
  BY <1>1, <1>3 DEF Lines
<1>7. FsemaOK'
  BY <1>1, <1>3 DEF FsemaOK, UnitsConserved
<1>8. WorkerOK(w)'
  BY <1>4 DEF WorkerOK, InCode
<1>9. FutureOK(f)'
  BY <1>1, <1>2, <1>3, <1>4, <1>6, PoolAssumption DEF FutureOK, Scheduled
<1>10. \A v \in Workers : v # w => wpc'[v] = wpc[v] /\ ~Owns(v, f)
  BY <1>1, <1>2, OneOwner
<1>11. \A g \in Threads : g # f =>
           /\ state'[g] = state[g] /\ at'[g] = at[g] /\ lock'[g] = lock[g]
           /\ g \in Range(queue') <=> g \in Range(queue)
           /\ g \in Range(waiting') => g \in Range(waiting)
  BY <1>1, <1>3
<1> QED
  BY <1>4, <1>5, <1>6, <1>7, <1>8, <1>9, <1>10, <1>11, OwnerStep

LEMMA RunFacts ==
    ASSUME IInv, NEW w \in Workers, wpc[w] # "loop"
    PROVE  \E f \in Threads : f = cur[w]
  BY IInvParts DEF WorkerOK

LEMMA StopRunStep ==
    ASSUME IInv, NEW w \in Workers, StopRun(w), ~late'
    PROVE  IInv'
<1>1. PICK f \in Threads : f = cur[w]
  BY RunFacts DEF StopRun
<1>2. /\ wpc[w] = "run" /\ Set(f, "free", "thunk") /\ latch' = TRUE /\ SwapsOut(w, "wake")
      /\ UNCHANGED <<lock, stop, queue, waiters, active, callbacks, posted, granted>>
      /\ UNCHANGED <<fsema, threads, placevar, counts>>
  BY <1>1 DEF StopRun
<1>3. TypeOK /\ wpc \in [Workers -> Steps]
  BY IInvParts
<1>4. TypeOK'
  BY <1>2, <1>3 DEF TypeOK, Set, SwapsOut, fsema, threads, placevar, counts
<1>5. UNCHANGED <<fsema, threads, placevar, posted, granted>>
  BY <1>2
<1> QED
  BY <1>1, <1>2, <1>4, <1>5, EngineStep DEF Set, SwapsOut

LEMMA BlockStep ==
    ASSUME IInv, NEW w \in Workers, Block(w)
    PROVE  IInv'
<1>1. PICK f \in Threads : f = cur[w]
  BY RunFacts DEF Block, Running
<1>2. /\ wpc[w] = "run" /\ Set(f, "blocked", "thunk") /\ latch' = TRUE /\ SwapsOut(w, "wake")
      /\ ops < MaxOps /\ ops' = ops + 1
      /\ UNCHANGED <<lock, stop, queue, waiters, active, callbacks, posts, suspends>>
      /\ UNCHANGED <<fsema, threads, placevar, history>>
  BY <1>1 DEF Block, Running
<1>3. TypeOK /\ wpc \in [Workers -> Steps]
  BY IInvParts
<1>4. TypeOK'
  BY <1>2, <1>3, PoolAssumption DEF TypeOK, Set, SwapsOut, fsema, threads, placevar, history
<1>5. UNCHANGED <<fsema, threads, placevar, posted, granted>>
  BY <1>2 DEF history
<1> QED
  BY <1>1, <1>2, <1>4, <1>5, EngineStep DEF Set, SwapsOut

LEMMA FinishStep ==
    ASSUME IInv, NEW w \in Workers, Finish(w)
    PROVE  IInv'
<1>1. PICK f \in Threads : f = cur[w]
  BY RunFacts DEF Finish, Running
<1>2. /\ wpc[w] = "run" /\ Set(f, "done", "over") /\ latch' = (latch \/ NotifyStop(f)) /\ Goto(w, "finish")
      /\ UNCHANGED <<lock, stop, queue, waiters, active, callbacks>>
      /\ UNCHANGED <<fsema, threads, placevar, counts, history>>
  BY <1>1 DEF Finish, Running
<1>3. TypeOK /\ wpc \in [Workers -> Steps]
  BY IInvParts
<1>4. TypeOK'
  BY <1>2, <1>3 DEF TypeOK, Set, Goto, fsema, threads, placevar, counts, history
<1>5. UNCHANGED <<fsema, threads, placevar, posted, granted>>
  BY <1>2 DEF history
<1> QED
  BY <1>1, <1>2, <1>4, <1>5, EngineStep DEF Set, Goto

LEMMA SwitchStep ==
    ASSUME IInv, NEW w \in Workers, Switch(w)
    PROVE  IInv'
<1>1. PICK f \in Threads : f = cur[w]
  BY RunFacts DEF Switch
<1>2. wpc[w] = "switch"
  BY IInvParts DEF Switch, Steps
<1>3. /\ Set(f, "free", "thunk") /\ latch' = (latch \/ NotifyStop(f)) /\ SwapsOut(w, "left")
      /\ IF stop[f] THEN UNCHANGED <<queue, waiters, active>> ELSE Schedule(f, FALSE)
      /\ UNCHANGED <<lock, stop, callbacks>>
      /\ UNCHANGED <<fsema, threads, placevar, counts, history>>
  BY <1>1, <1>2 DEF Switch
<1>4. TypeOK /\ wpc \in [Workers -> Steps] /\ Line(queue, Threads) /\ Len(queue) \in Nat /\ active \in Nat
  BY IInvParts
<1>5. ~Scheduled(f)
  <2>1. Owns(w, f)
    BY <1>1, <1>2 DEF Owns
  <2> QED
    BY <2>1, NoOwner
<1>6. /\ waiters' \subseteq Workers /\ active' \in Nat /\ Line(queue', Threads) /\ Range(queue') \subseteq Threads
      /\ \/ queue' = queue /\ active' = active
         \/ /\ Line(queue', Threads) /\ Len(queue') = Len(queue) + 1 /\ active' = active + 1
            /\ \A x : x \in Range(queue') <=> x \in Range(queue) \/ x = f
            /\ ~stop[f]
  <2>1. CASE stop[f]
    BY <1>3, <1>4, <2>1 DEF TypeOK
  <2>2. CASE ~stop[f]
    <3>1. Schedule(f, FALSE) /\ waiters \subseteq Workers /\ Range(queue) \subseteq Threads
      BY <1>3, <1>4, <2>2 DEF TypeOK
    <3>2. /\ Line(queue', Threads) /\ Len(queue') = Len(queue) + 1
          /\ \A x : x \in Range(queue') <=> x \in Range(queue) \/ x = f
          /\ active' = active + 1 /\ waiters' \subseteq Workers
      BY <1>4, <1>5, <3>1, ScheduleIs
    <3> QED
      BY <1>4, <2>2, <3>1, <3>2
  <2> QED
    BY <2>1, <2>2
<1>7. TypeOK'
  BY <1>3, <1>4, <1>6 DEF TypeOK, Set, SwapsOut, Line, fsema, threads, placevar, counts, history
<1>8. UNCHANGED <<fsema, threads, placevar, posted, granted>>
  BY <1>3 DEF history
<1> QED
  BY <1>1, <1>2, <1>3, <1>6, <1>7, <1>8, EngineStep DEF Set, SwapsOut

LEMMA RunStep ==
    ASSUME IInv, NEW w \in Workers, Run(w)
    PROVE  IInv'
<1>1. PICK f \in Threads : f = cur[w]
  BY RunFacts DEF Run
<1>2. /\ state \in [Threads -> {"free", "running", "blocked", "fsema", "done"}]
      /\ at \in [Threads -> {"thunk", "racket", "over"} \cup Workers]
      /\ lock \in [Threads -> Workers \cup {NoOne}] /\ TypeOK /\ Lines
      /\ wpc \in [Workers -> Steps] /\ WorkerOK(w) /\ FutureOK(f) /\ FsemaOK
      /\ active = Len(queue) + Cardinality(Busy)
  BY IInvParts DEF IInv
<1>3. wpc[w] = "claimed" /\ ~stop[f] /\ ~Scheduled(f) /\ state[f] = "free" /\ at[f] = "thunk" /\ Owns(w, f)
  BY <1>1, <1>2 DEF Run, WorkerOK, Owns
<1>4. /\ capacity' = seen[w] - 1 /\ lock' = [lock EXCEPT ![f] = NoOne] /\ seen' = [seen EXCEPT ![w] = 0]
      /\ Set(f, "running", w) /\ latch' = latch /\ active' = active /\ wpc' = [wpc EXCEPT ![w] = "run"]
      /\ round' = round /\ cur' = cur /\ stop' = stop /\ queue' = queue /\ waiters' = waiters /\ callbacks' = callbacks
      /\ UNCHANGED <<fsema, threads, placevar, counts, history>>
  BY <1>1, <1>3 DEF Run
<1>5. TypeOK'
  BY <1>2, <1>4 DEF TypeOK, Set, fsema, threads, placevar, counts, history
<1>6. state' = [state EXCEPT ![f] = "running"] /\ at' = [at EXCEPT ![f] = w]
  BY <1>4 DEF Set
<1>7. waiting' = waiting /\ c' = c /\ fslock' = fslock /\ tpc' = tpc /\ sched' = sched
      /\ posted' = posted /\ granted' = granted
  BY <1>4 DEF fsema, threads, history
<1>8. ActiveExact'
  <2>1. Cardinality(Busy') = Cardinality(Busy)
    BY <1>2, <1>3, <1>4, BusyStep DEF Busy
  <2> QED
    BY <1>2, <1>4, <2>1 DEF ActiveExact, Busy
<1>9. FsemaOK' /\ Lines'
  BY <1>2, <1>4, <1>7 DEF FsemaOK, UnitsConserved, Lines
<1>10. WorkerOK(w)'
  BY <1>1, <1>2, <1>4, <1>6 DEF WorkerOK, InCode
<1>11. FutureOK(f)'
  BY <1>1, <1>2, <1>3, <1>4, <1>6, <1>7, PoolAssumption DEF FutureOK, Scheduled, InCode
<1>12. \A v \in Workers : v # w => wpc'[v] = wpc[v] /\ ~Owns(v, f)
  BY <1>2, <1>3, <1>4, OneOwner
<1>13. \A g \in Threads : g # f =>
           /\ state'[g] = state[g] /\ at'[g] = at[g] /\ lock'[g] = lock[g]
           /\ g \in Range(queue') <=> g \in Range(queue)
           /\ g \in Range(waiting') => g \in Range(waiting)
  BY <1>2, <1>4, <1>6, <1>7
<1>14. UNCHANGED <<threads, placevar>>
  BY <1>4
<1> QED
  BY <1>1, <1>3, <1>4, <1>5, <1>8, <1>9, <1>10, <1>11, <1>12, <1>13, <1>14, OwnerStep

LEMMA WakeStep ==
    ASSUME IInv, NEW w \in Workers, Wake(w)
    PROVE  IInv'
<1>1. PICK f \in Threads : f = cur[w]
  BY RunFacts DEF Wake
<1>2. TypeOK /\ wpc \in [Workers -> Steps] /\ cur \in [Workers -> Threads \cup {NoOne}]
      /\ active = Len(queue) + Cardinality(Busy)
  BY IInvParts
<1>3. /\ wpc[w] \in {"wake", "finish"} /\ cur' = cur /\ seen' = seen /\ capacity' = capacity /\ round' = round
      /\ UNCHANGED <<futures, fsema, threads, placevar, counts, history>>
      /\ callbacks' \subseteq callbacks \cup {f} /\ latch' \in {latch, TRUE}
  BY <1>1 DEF Wake, Goto, signals
<1>4. PICK l \in {"left", "ended"} : wpc' = [wpc EXCEPT ![w] = l]
  BY DEF Wake, Goto
<1>5. cur' = [cur EXCEPT ![w] = f]
  BY <1>1, <1>2, <1>3
<1>6. TypeOK'
  BY <1>2, <1>3, <1>4 DEF TypeOK, futures, fsema, threads, placevar, counts, history
<1>7. ActiveExact'
  <2>1. Cardinality(Busy') = Cardinality(Busy)
    BY <1>2, <1>3, <1>4, BusyStep DEF Busy
  <2> QED
    BY <1>2, <1>3, <2>1 DEF ActiveExact, Busy, futures
<1>8. UNCHANGED <<state, at, lock, stop, queue, waiting, c, fslock, threads, placevar, history>>
  BY <1>3 DEF fsema, futures
<1> QED
  BY <1>3, <1>4, <1>5, <1>6, <1>7, <1>8, IdleStep

LEMMA LeftStep ==
    ASSUME IInv, NEW w \in Workers, Left(w)
    PROVE  IInv'
<1>1. PICK f \in Threads : f = cur[w]
  BY RunFacts DEF Left
<1>2. TypeOK /\ wpc \in [Workers -> Steps] /\ cur \in [Workers -> Threads \cup {NoOne}]
      /\ active = Len(queue) + Cardinality(Busy) /\ Len(queue) \in Nat
  BY IInvParts
<1>3. /\ wpc[w] \in {"left", "ended"} /\ wpc' = [wpc EXCEPT ![w] = "back"] /\ round' = "round"
      /\ cur' = cur /\ seen' = seen /\ capacity' = capacity
      /\ active' = active - 1 /\ latch' = (latch \/ active = 1)
      /\ state' = state /\ at' = at /\ lock' = lock /\ stop' = stop /\ queue' = queue
      /\ waiters' = waiters /\ callbacks' = callbacks
      /\ UNCHANGED <<fsema, threads, placevar, counts, history>>
  BY DEF Left
<1>4. cur' = [cur EXCEPT ![w] = f]
  BY <1>1, <1>2, <1>3
<1>5. Cardinality(Busy') = Cardinality(Busy) - 1 /\ Cardinality(Busy') \in Nat
  <2>1. IsFiniteSet(Busy')
    BY FS_Subset, PoolAssumption DEF Busy
  <2> QED
    BY <1>2, <1>3, <2>1, BusyStep, FS_CardinalityType DEF Busy
<1>6. active' = Len(queue') + Cardinality(Busy') /\ active' \in Nat
  BY <1>2, <1>3, <1>5, BusyFinite
<1>7. ActiveExact'
  BY <1>6 DEF ActiveExact, Busy
<1>8. TypeOK'
  BY <1>2, <1>3, <1>6 DEF TypeOK, fsema, threads, placevar, counts, history
<1>9. UNCHANGED <<state, at, lock, stop, queue, waiting, c, fslock, threads, placevar, history>>
  BY <1>3 DEF fsema
<1> QED
  BY <1>3, <1>4, <1>7, <1>8, <1>9, IdleStep
-----------------------------------------------------------------------------
(* fsemaphores. *)

\* A step of a future's code, or of the place, that changes the fsemaphore only.
LEMMA CodeStep ==
    ASSUME IInv, UNCHANGED <<state, at, lock, stop, queue, active, waiting, cur, threads, whom>>,
           \A v \in Workers : wpc'[v] = wpc[v] \/ {wpc[v], wpc'[v]} \subseteq {"run", "post", "wait", "switch"},
           TypeOK', FsemaOK', PlaceOK'
    PROVE  IInv'
<1>1. tpc' = tpc /\ sched' = sched /\ suspended' = suspended
  BY DEF threads
<1>2. ASSUME NEW v \in Workers PROVE WorkerOK(v)'
  <2>1. WorkerOK(v)
    BY IInvParts
  <2> QED
    BY <2>1 DEF WorkerOK, InCode, Scheduled
<1>3. ASSUME NEW f \in Threads PROVE FutureOK(f)' /\ StopOK(f)'
  <2>1. FutureOK(f) /\ StopOK(f)
    BY IInvParts
  <2>2. FutureOK(f)'
    BY <1>1, <2>1 DEF FutureOK, InCode, Scheduled
  <2> QED
    BY <1>1, <2>1, <2>2 DEF StopOK
<1>4. Busy' = Busy
  BY DEF Busy
<1>5. ActiveExact' /\ Lines'
  BY <1>4 DEF IInv, ActiveExact, Busy, Lines
<1> QED
  BY <1>2, <1>3, <1>5 DEF IInv

LEMMA WaitTakesStep ==
    ASSUME IInv, NEW w \in Workers, WaitTakes(w)
    PROVE  IInv'
<1>1. TypeOK /\ PlaceOK /\ FsemaOK
  BY IInvParts
<1>2. /\ ops < MaxOps /\ fslock = NoOne /\ c > 0 /\ ops' = ops + 1 /\ c' = c - 1 /\ granted' = granted + 1
      /\ waiting' = waiting /\ fslock' = fslock /\ posted' = posted /\ posts' = posts /\ suspends' = suspends
      /\ UNCHANGED <<futures, workers, threads, placevar, signals>>
  BY DEF WaitTakes
<1>3. TypeOK'
  BY <1>1, <1>2, PoolAssumption DEF TypeOK, futures, workers, threads, placevar, signals
<1>4. \A v \in Workers : fslock # v
  BY <1>2, PoolAssumption
<1>5. FsemaOK'
  <2>1. UnitsConserved'
    BY <1>1, <1>2 DEF FsemaOK, UnitsConserved, TypeOK
  <2> QED
    BY <1>1, <1>2, <1>4, <2>1 DEF FsemaOK, workers
<1>6. PlaceOK'
  BY <1>1, <1>2 DEF PlaceOK, placevar, futures
<1>7. UNCHANGED <<state, at, lock, stop, queue, active, waiting, cur, threads, whom>> /\ wpc' = wpc
  BY <1>2 DEF futures, workers, placevar
<1> QED
  BY <1>3, <1>5, <1>6, <1>7, CodeStep

\* The timer finds that the future has to make room for another.
LEMMA RoundRobinStep ==
    ASSUME IInv, NEW w \in Workers, RoundRobin(w), ~late'
    PROVE  IInv'
<1>1. TypeOK /\ PlaceOK /\ FsemaOK /\ wpc \in [Workers -> Steps]
  BY IInvParts
<1>2. /\ wpc[w] = "run" /\ wpc' = [wpc EXCEPT ![w] = "switch"] /\ cur' = cur /\ seen' = seen
      /\ capacity' = capacity /\ round' = round
      /\ UNCHANGED <<futures, fsema, threads, placevar, signals, counts, posted, granted>>
  BY DEF RoundRobin, Goto
<1>3. TypeOK'
  BY <1>1, <1>2 DEF TypeOK, futures, fsema, threads, placevar, signals, counts
<1>4. FsemaOK'
  BY <1>1, <1>2 DEF FsemaOK, UnitsConserved, fsema
<1>5. PlaceOK'
  BY <1>1, <1>2 DEF PlaceOK, placevar, futures
<1>6. \A v \in Workers : wpc'[v] = wpc[v] \/ {wpc[v], wpc'[v]} \subseteq {"run", "post", "wait", "switch"}
  BY <1>1, <1>2
<1>7. UNCHANGED <<state, at, lock, stop, queue, active, waiting, cur, threads, whom>>
  BY <1>2 DEF futures, fsema, placevar
<1> QED
  BY <1>3, <1>4, <1>5, <1>6, <1>7, CodeStep

\* The fsemaphore's lock is taken to wait or to post.
LEMMA LocksStep ==
    ASSUME IInv, NEW w \in Workers, NEW l \in {"wait", "post"}, l = "wait" => c = 0,
           wpc[w] = "run", ops < MaxOps, fslock = NoOne, ops' = ops + 1, fslock' = w, Goto(w, l),
           UNCHANGED <<c, waiting, posts, suspends>>,
           UNCHANGED <<futures, threads, placevar, signals, history>>
    PROVE  IInv'
<1>1. TypeOK /\ PlaceOK /\ FsemaOK /\ wpc \in [Workers -> Steps]
  BY IInvParts
<1>2. wpc' = [wpc EXCEPT ![w] = l] /\ cur' = cur /\ seen' = seen /\ capacity' = capacity /\ round' = round
  BY DEF Goto
<1>3. TypeOK'
  BY <1>1, <1>2, PoolAssumption DEF TypeOK, futures, threads, placevar, signals, history
<1>4. \A v \in Workers : fslock # v
  BY PoolAssumption
<1>5. FsemaOK'
  BY <1>1, <1>2, <1>4 DEF FsemaOK, UnitsConserved, history
<1>6. PlaceOK'
  BY <1>1 DEF PlaceOK, placevar, futures
<1>7. \A v \in Workers : wpc'[v] = wpc[v] \/ {wpc[v], wpc'[v]} \subseteq {"run", "post", "wait", "switch"}
  BY <1>1, <1>2
<1>8. UNCHANGED <<state, at, lock, stop, queue, active, waiting, cur, threads, whom>>
  BY <1>2 DEF futures, placevar
<1> QED
  BY <1>3, <1>5, <1>6, <1>7, <1>8, CodeStep

LEMMA MainPostsStep ==
    ASSUME IInv, MainPosts
    PROVE  IInv'
<1>1. TypeOK /\ PlaceOK /\ FsemaOK
  BY IInvParts
<1>2. /\ ppc = "free" /\ posts < MaxPosts /\ fslock = NoOne /\ posts' = posts + 1 /\ fslock' = Place
      /\ ppc' = "post" /\ whom' = whom /\ c' = c /\ waiting' = waiting /\ ops' = ops /\ suspends' = suspends
      /\ UNCHANGED <<futures, workers, threads, signals, history>>
  BY DEF MainPosts
<1>3. TypeOK'
  BY <1>1, <1>2, PoolAssumption DEF TypeOK, futures, workers, threads, signals, history
<1>4. \A v \in Workers : fslock # v
  BY <1>2, PoolAssumption
<1>5. FsemaOK'
  BY <1>1, <1>2, <1>4 DEF FsemaOK, UnitsConserved, history, workers
<1>6. PlaceOK'
  BY <1>1, <1>2 DEF PlaceOK
<1>7. UNCHANGED <<state, at, lock, stop, queue, active, waiting, cur, threads, whom>> /\ wpc' = wpc
  BY <1>2 DEF futures, workers
<1> QED
  BY <1>3, <1>5, <1>6, <1>7, CodeStep

\* fsemaphore-post returns.
LEMMA PostReturnsIs ==
    ASSUME IInv, NEW a \in Workers \cup {Place}, fslock = a,
           IF a = Place THEN ppc = "post" ELSE wpc[a] = "post", PostReturns(a)
    PROVE  /\ whom' = whom /\ cur' = cur /\ seen' = seen /\ capacity' = capacity /\ round' = round
           /\ ppc' \in {"free", ppc} /\ (ppc' # ppc => ppc = "post")
           /\ wpc' \in [Workers -> Steps]
           /\ \A v \in Workers : wpc'[v] = wpc[v] \/ {wpc[v], wpc'[v]} \subseteq {"run", "post", "wait", "switch"}
           /\ \A v \in Workers : wpc'[v] \notin {"wait", "post"}
<1>1. wpc \in [Workers -> Steps] /\ FsemaOK
  BY IInvParts
<1>2. \A v \in Workers : v # a => wpc[v] \notin {"wait", "post"}
  BY <1>1 DEF FsemaOK
<1>3. CASE a = Place
  BY <1>1, <1>2, <1>3, PoolAssumption DEF PostReturns, workers
<1>4. CASE a # Place
  <2>1. /\ wpc' = [wpc EXCEPT ![a] = "run"] /\ cur' = cur /\ seen' = seen /\ capacity' = capacity
        /\ round' = round /\ ppc' = ppc /\ whom' = whom /\ a \in Workers /\ wpc[a] = "post"
    BY <1>4 DEF PostReturns, Goto, placevar
  <2>2. wpc' \in [Workers -> Steps]
    BY <1>1, <2>1 DEF Steps
  <2> QED
    BY <1>1, <1>2, <2>1, <2>2
<1> QED
  BY <1>3, <1>4

LEMMA PostCountsStep ==
    ASSUME IInv, NEW a \in Workers \cup {Place}, PostCounts(a)
    PROVE  IInv'
<1>1. TypeOK /\ PlaceOK /\ FsemaOK
  BY IInvParts
<1>2. /\ fslock = a /\ (IF a = Place THEN ppc = "post" ELSE wpc[a] = "post") /\ PostReturns(a)
      /\ (c > 0 \/ waiting = << >>) /\ c' = c + 1 /\ posted' = posted + 1 /\ fslock' = NoOne
      /\ waiting' = waiting /\ granted' = granted /\ UNCHANGED <<futures, threads, signals, counts>>
  BY DEF PostCounts
<1>3. /\ whom' = whom /\ cur' = cur /\ seen' = seen /\ capacity' = capacity /\ round' = round
      /\ ppc' \in {"free", ppc} /\ (ppc' # ppc => ppc = "post")
      /\ wpc' \in [Workers -> Steps]
      /\ \A v \in Workers : wpc'[v] = wpc[v] \/ {wpc[v], wpc'[v]} \subseteq {"run", "post", "wait", "switch"}
      /\ \A v \in Workers : wpc'[v] \notin {"wait", "post"}
  BY <1>2, PostReturnsIs
<1>4. TypeOK'
  BY <1>1, <1>2, <1>3 DEF TypeOK, Steps, futures, threads, signals, counts
<1>5. FsemaOK'
  BY <1>1, <1>2, <1>3 DEF FsemaOK, UnitsConserved, TypeOK
<1>6. PlaceOK'
  BY <1>1, <1>2, <1>3 DEF PlaceOK, futures
<1>7. UNCHANGED <<state, at, lock, stop, queue, active, waiting, cur, threads, whom>>
  BY <1>2, <1>3 DEF futures
<1> QED
  BY <1>3, <1>4, <1>5, <1>6, <1>7, CodeStep
LEMMA WaitLocksStep ==
    ASSUME IInv, NEW w \in Workers, WaitLocks(w)
    PROVE  IInv'
  BY LocksStep DEF WaitLocks

LEMMA PostLocksStep ==
    ASSUME IInv, NEW w \in Workers, PostLocks(w)
    PROVE  IInv'
  BY LocksStep DEF PostLocks

LEMMA WaitJoinsStep ==
    ASSUME IInv, NEW w \in Workers, WaitJoins(w)
    PROVE  IInv'
<1>1. PICK f \in Threads : f = cur[w]
  BY RunFacts DEF WaitJoins
<1>2. /\ state \in [Threads -> {"free", "running", "blocked", "fsema", "done"}]
      /\ at \in [Threads -> {"thunk", "racket", "over"} \cup Workers]
      /\ lock \in [Threads -> Workers \cup {NoOne}] /\ TypeOK /\ Line(queue, Threads) /\ Line(waiting, Threads)
      /\ wpc \in [Workers -> Steps] /\ WorkerOK(w) /\ FutureOK(f) /\ FsemaOK
      /\ active = Len(queue) + Cardinality(Busy) /\ StopOK(f)
  BY IInvParts
<1>3. /\ wpc[w] = "wait" /\ lock' = [lock EXCEPT ![f] = w] /\ waiting' = Append(waiting, f)
      /\ latch' = (latch \/ NotifyStop(f)) /\ state' = [state EXCEPT ![f] = "fsema"] /\ fslock' = NoOne
      /\ wpc' = [wpc EXCEPT ![w] = "suspend"] /\ cur' = cur /\ seen' = seen /\ capacity' = capacity /\ round' = round
      /\ at' = at /\ stop' = stop /\ queue' = queue /\ waiters' = waiters /\ active' = active
      /\ c' = c /\ callbacks' = callbacks /\ UNCHANGED <<threads, placevar, counts, history>>
  BY <1>1 DEF WaitJoins, Goto
<1>4. Owns(w, f) /\ state[f] = "running" /\ at[f] = w /\ fslock = w /\ c = 0 /\ ~Scheduled(f)
  BY <1>1, <1>2, <1>3 DEF Owns, WorkerOK, InCode, FutureOK, FsemaOK
<1>5. f \notin Range(waiting)
  BY <1>2, <1>4 DEF FutureOK
<1>6. Line(waiting', Threads) /\ \A x : x \in Range(waiting') <=> x \in Range(waiting) \/ x = f
  BY <1>2, <1>3, <1>5, Appended
<1>7. TypeOK'
  <2>1. Range(waiting') \subseteq Threads
    BY <1>2, <1>6 DEF TypeOK
  <2> QED
    BY <1>2, <1>3, <2>1 DEF TypeOK, threads, placevar, counts, history
<1>8. ActiveExact'
  <2>1. Cardinality(Busy') = Cardinality(Busy)
    BY <1>2, <1>3, BusyStep DEF Busy
  <2> QED
    BY <1>2, <1>3, <2>1 DEF ActiveExact, Busy
<1>9. FsemaOK' /\ Lines'
  <2>1. \A v \in Workers : wpc'[v] \notin {"wait", "post"}
    BY <1>2, <1>3, <1>4 DEF FsemaOK
  <2>2. UnitsConserved'
    BY <1>2, <1>3, <1>4 DEF FsemaOK, UnitsConserved, history
  <2> QED
    BY <1>2, <1>3, <1>6, <2>1, <2>2 DEF FsemaOK, Lines
<1>10. WorkerOK(w)'
  BY <1>1, <1>2, <1>3, <1>4 DEF WorkerOK, InCode
<1>11. FutureOK(f)'
  BY <1>1, <1>2, <1>3, <1>4, PoolAssumption DEF FutureOK, Scheduled, InCode, threads
<1>12. \A v \in Workers : v # w => wpc'[v] = wpc[v] /\ ~Owns(v, f)
  BY <1>2, <1>3, <1>4, OneOwner
<1>13. \A g \in Threads : g # f =>
           /\ state'[g] = state[g] /\ at'[g] = at[g] /\ lock'[g] = lock[g]
           /\ g \in Range(queue') <=> g \in Range(queue)
           /\ g \in Range(waiting') => g \in Range(waiting)
  BY <1>2, <1>3, <1>6
<1>14. UNCHANGED <<threads, placevar>> /\ (stop[f] => whom = f)
  BY <1>2, <1>3, <1>4 DEF StopOK
<1> QED
  BY <1>1, <1>3, <1>7, <1>8, <1>9, <1>10, <1>11, <1>12, <1>13, <1>14, OwnerStep

LEMMA SuspendsStep ==
    ASSUME IInv, NEW w \in Workers, Suspends(w)
    PROVE  IInv'
<1>1. PICK f \in Threads : f = cur[w]
  BY RunFacts DEF Suspends
<1>2. /\ state \in [Threads -> {"free", "running", "blocked", "fsema", "done"}]
      /\ at \in [Threads -> {"thunk", "racket", "over"} \cup Workers]
      /\ lock \in [Threads -> Workers \cup {NoOne}] /\ TypeOK /\ Lines
      /\ wpc \in [Workers -> Steps] /\ WorkerOK(w) /\ FutureOK(f) /\ FsemaOK
      /\ active = Len(queue) + Cardinality(Busy)
  BY IInvParts DEF IInv
<1>3. /\ wpc[w] = "suspend" /\ at' = [at EXCEPT ![f] = "thunk"] /\ lock' = [lock EXCEPT ![f] = NoOne]
      /\ wpc' = [wpc EXCEPT ![w] = "wake"] /\ cur' = cur /\ seen' = seen /\ capacity' = capacity /\ round' = "pause"
      /\ state' = state /\ stop' = stop /\ queue' = queue /\ waiters' = waiters /\ active' = active
      /\ UNCHANGED <<fsema, threads, placevar, signals, counts, history>>
  BY <1>1 DEF Suspends, SwapsOut
<1>4. Owns(w, f) /\ state[f] = "fsema" /\ at[f] = w /\ ~Scheduled(f)
  BY <1>1, <1>2, <1>3 DEF Owns, WorkerOK, InCode, FutureOK
<1>5. TypeOK'
  BY <1>2, <1>3 DEF TypeOK, fsema, threads, placevar, signals, counts, history
<1>6. ActiveExact'
  <2>1. Cardinality(Busy') = Cardinality(Busy)
    BY <1>2, <1>3, BusyStep DEF Busy
  <2> QED
    BY <1>2, <1>3, <2>1 DEF ActiveExact, Busy
<1>7. FsemaOK' /\ Lines'
  BY <1>2, <1>3 DEF FsemaOK, UnitsConserved, Lines, fsema, history
<1>8. WorkerOK(w)'
  BY <1>1, <1>2, <1>3 DEF WorkerOK, InCode
<1>9. at'[f] = "thunk" /\ "thunk" \notin Workers
  BY <1>2, <1>3, PoolAssumption
<1>10. FutureOK(f)'
  BY <1>1, <1>2, <1>3, <1>4, <1>9, PoolAssumption DEF FutureOK, Scheduled, InCode, threads, fsema
<1>11. \A v \in Workers : v # w => wpc'[v] = wpc[v] /\ ~Owns(v, f)
  BY <1>2, <1>3, <1>4, OneOwner
<1>12. \A g \in Threads : g # f =>
           /\ state'[g] = state[g] /\ at'[g] = at[g] /\ lock'[g] = lock[g]
           /\ g \in Range(queue') <=> g \in Range(queue)
           /\ g \in Range(waiting') => g \in Range(waiting)
  BY <1>2, <1>3 DEF fsema
<1>13. UNCHANGED <<threads, placevar>> /\ state'[f] # "running"
  BY <1>3, <1>4
<1> QED
  BY <1>1, <1>3, <1>5, <1>6, <1>7, <1>8, <1>9, <1>10, <1>11, <1>12, <1>13, OwnerStep

LEMMA PostNotifiesStep ==
    ASSUME IInv, NEW a \in Workers \cup {Place}, PostNotifies(a)
    PROVE  IInv'
<1>1. /\ state \in [Threads -> {"free", "running", "blocked", "fsema", "done"}]
      /\ at \in [Threads -> {"thunk", "racket", "over"} \cup Workers]
      /\ wpc \in [Workers -> Steps] /\ TypeOK /\ Line(queue, Threads) /\ Line(waiting, Threads)
      /\ Len(queue) \in Nat /\ active \in Nat /\ active = Len(queue) + Cardinality(Busy)
      /\ FsemaOK /\ PlaceOK
  BY IInvParts
<1>2. /\ fslock = a /\ (IF a = Place THEN ppc = "post" ELSE wpc[a] = "post") /\ c = 0 /\ waiting # << >>
      /\ waiting' = Tail(waiting) /\ c' = c /\ at' = at /\ lock' = lock /\ stop' = stop
      /\ UNCHANGED <<threads, callbacks, counts>>
  BY DEF PostNotifies
<1>3. PICK f \in Threads : f = Head(waiting)
  BY <1>1, <1>2, Tailed
<1>4. /\ f \in Range(waiting) /\ Line(waiting', Threads)
      /\ \A x : x \in Range(waiting') <=> x \in Range(waiting) /\ x # f
  BY <1>1, <1>2, <1>3, Tailed
<1>5. Free(f) /\ FutureOK(f) /\ StopOK(f)
  BY <1>3, IInvParts DEF PostNotifies
<1>6. tpc' = tpc /\ sched' = sched /\ suspended' = suspended /\ callbacks' = callbacks
      /\ ops' = ops /\ posts' = posts /\ suspends' = suspends
  BY <1>2 DEF threads, counts
<1>7. CASE stop[f]
  <2>1. UNCHANGED <<state, queue, waiters, active, latch, fslock, history, placevar, workers>>
    BY <1>3, <1>7 DEF PostNotifies
  <2>2. /\ state' = state /\ queue' = queue /\ active' = active /\ wpc' = wpc /\ cur' = cur /\ fslock' = fslock
        /\ ppc' = ppc /\ whom' = whom /\ posted' = posted /\ granted' = granted
    BY <2>1 DEF history, placevar, workers
  <2>3. TypeOK'
    BY <1>1, <1>2, <1>4, <1>6, <2>1 DEF TypeOK, history, placevar, workers
  <2>4. ASSUME NEW v \in Workers PROVE WorkerOK(v)'
    <3>1. WorkerOK(v)
      BY IInvParts
    <3> QED
      BY <1>2, <2>2, <3>1 DEF WorkerOK, InCode, Scheduled
  <2>5. ASSUME NEW g \in Threads PROVE FutureOK(g)' /\ StopOK(g)'
    <3>1. FutureOK(g) /\ StopOK(g)
      BY IInvParts
    <3>2. FutureOK(g)'
      BY <1>2, <1>4, <1>6, <2>2, <3>1 DEF FutureOK, InCode, Scheduled
    <3> QED
      BY <1>2, <1>6, <2>2, <3>1, <3>2 DEF StopOK
  <2>6. PlaceOK' /\ Lines' /\ ActiveExact'
    BY <1>1, <1>2, <1>4, <2>2 DEF PlaceOK, Lines, ActiveExact, Busy
  <2>7. FsemaOK'
    BY <1>1, <1>2, <2>2 DEF FsemaOK, UnitsConserved
  <2> QED
    BY <2>3, <2>4, <2>5, <2>6, <2>7 DEF IInv
<1>8. CASE ~stop[f]
  <2>1. /\ state' = [state EXCEPT ![f] = "free"] /\ Schedule(f, TRUE) /\ latch' = (latch \/ a # Place)
        /\ posted' = posted + 1 /\ granted' = granted + 1 /\ fslock' = NoOne /\ PostReturns(a)
    BY <1>3, <1>8 DEF PostNotifies
  <2>2. /\ whom' = whom /\ cur' = cur /\ seen' = seen /\ capacity' = capacity /\ round' = round
        /\ ppc' \in {"free", ppc} /\ (ppc' # ppc => ppc = "post")
        /\ wpc' \in [Workers -> Steps]
        /\ \A v \in Workers : wpc'[v] = wpc[v] \/ {wpc[v], wpc'[v]} \subseteq {"run", "post", "wait", "switch"}
        /\ \A v \in Workers : wpc'[v] \notin {"wait", "post"}
    BY <1>2, <2>1, PostReturnsIs
  <2>3. state[f] = "fsema" /\ ~Scheduled(f)
    BY <1>4, <1>5 DEF FutureOK
  <2>4. \A v \in Workers : ~Owns(v, f)
    BY <1>4, <1>5, <2>3, NoOwner
  <2>5. at[f] = "thunk"
    BY <1>1, <1>5, <2>3, <2>4 DEF FutureOK, Owns
  <2>6. /\ Line(queue', Threads) /\ Len(queue') = Len(queue) + 1
        /\ \A x : x \in Range(queue') <=> x \in Range(queue) \/ x = f
        /\ active' = active + 1 /\ waiters' \subseteq Workers
    BY <1>1, <2>1, <2>3, ScheduleIs DEF TypeOK
  <2>7. TypeOK'
    <3>1. Range(queue') \subseteq Threads /\ Range(waiting') \subseteq Threads
      BY <1>1, <1>4, <2>6 DEF TypeOK
    <3> QED
      BY <1>1, <1>2, <1>6, <2>1, <2>2, <2>6, <3>1 DEF TypeOK, Steps, Line
  <2>8. ActiveExact'
    <3>1. Busy' = Busy
      BY <1>1, <2>2 DEF Busy
    <3>2. active' = Len(queue') + Cardinality(Busy')
      BY <1>1, <2>6, <3>1, BusyFinite
    <3> QED
      BY <3>2 DEF ActiveExact, Busy
  <2>9. FsemaOK' /\ Lines' /\ PlaceOK'
    BY <1>1, <1>2, <1>4, <2>1, <2>2, <2>6 DEF FsemaOK, UnitsConserved, Lines, PlaceOK, TypeOK
  <2>10. FutureOK(f)'
    <3>1. state'[f] = "free" /\ at'[f] = "thunk" /\ "thunk" \notin Workers /\ tpc[f] # "racket"
      BY <1>1, <1>2, <1>5, <2>1, <2>3, <2>5, PoolAssumption DEF FutureOK
    <3> QED
      BY <1>2, <1>4, <1>6, <1>8, <3>1 DEF FutureOK
  <2>11. StopOK(f)'
    BY <1>2, <1>5, <1>6, <1>8, <2>2 DEF StopOK
  <2>12. (\A v \in Workers : WorkerOK(v)') /\ \A g \in Threads : g # f => FutureOK(g)' /\ StopOK(g)'
    <3> DEFINE W == {}
    <3>1. /\ W \in SUBSET Workers /\ (\A v \in W : cur[v] = f)
          /\ \A v \in Workers \ W : cur'[v] = cur[v] /\ ~Owns(v, f)
          /\ \A v \in Workers \ W : wpc'[v] = wpc[v] \/ {wpc[v], wpc'[v]} \subseteq {"run", "post", "wait", "switch"}
      BY <2>2, <2>4
    <3>2. \A g \in Threads : g # f =>
             /\ state'[g] = state[g] /\ at'[g] = at[g] /\ lock'[g] = lock[g] /\ stop'[g] = stop[g]
             /\ tpc'[g] = tpc[g] /\ sched'[g] = sched[g] /\ suspended'[g] = suspended[g]
             /\ g \in Range(queue') <=> g \in Range(queue)
             /\ g \in Range(waiting') => g \in Range(waiting)
             /\ whom' = g <=> whom = g
      BY <1>1, <1>2, <1>4, <1>6, <2>1, <2>2, <2>6
    <3> HIDE DEF W
    <3>3. (\A v \in Workers \ W : WorkerOK(v)') /\ \A g \in Threads : g # f => FutureOK(g)' /\ StopOK(g)'
      BY <3>1, <3>2, Frame
    <3> QED
      BY <3>3 DEF W
  <2> QED
    BY <2>7, <2>8, <2>9, <2>10, <2>11, <2>12 DEF IInv
<1> QED
  BY <1>7, <1>8
-----------------------------------------------------------------------------
(* The place's OS thread. *)

\* A step of the place that leaves the futures where they are, but may stop one or
\* take it from the queue.
LEMMA PlaceStep ==
    ASSUME IInv, UNCHANGED <<state, at, lock, c, waiting, fslock, workers, history>>,
           Line(queue', Threads), \A x : x \in Range(queue') => x \in Range(queue),
           \A v \in Workers : wpc[v] = "claimed" => stop'[cur[v]] = stop[cur[v]],
           \A g \in Threads :
               /\ g \in Range(queue') => ~stop'[g]
               /\ tpc'[g] = "racket" => tpc[g] = "racket" /\ sched'[g] # "future"
               /\ tpc[g] \in {"racket", "over"} => tpc'[g] \in {tpc[g], "over"},
           TypeOK', ActiveExact', PlaceOK', \A g \in Threads : StopOK(g)'
    PROVE  IInv'
<1>1. wpc' = wpc /\ cur' = cur /\ posted' = posted /\ granted' = granted
  BY DEF workers, history
<1>2. ASSUME NEW v \in Workers PROVE WorkerOK(v)'
  <2>1. WorkerOK(v)
    BY IInvParts
  <2> QED
    BY <1>1, <2>1 DEF WorkerOK, InCode, Scheduled
<1>3. ASSUME NEW g \in Threads PROVE FutureOK(g)'
  <2>1. FutureOK(g)
    BY IInvParts
  <2> QED
    BY <1>1, <2>1 DEF FutureOK, InCode, Scheduled
<1>4. FsemaOK' /\ Lines'
  BY <1>1 DEF IInv, FsemaOK, UnitsConserved, Lines
<1> QED
  BY <1>2, <1>3, <1>4 DEF IInv

\* A step of a Racket thread, or of the place, that concerns a future that no worker has.
LEMMA RacketStep ==
    ASSUME IInv, NEW f \in Threads, \A v \in Workers : ~Owns(v, f),
           UNCHANGED <<lock, fsema, workers, history>>,
           \A g \in Threads : g # f =>
               /\ state'[g] = state[g] /\ at'[g] = at[g] /\ stop'[g] = stop[g]
               /\ tpc'[g] = tpc[g] /\ sched'[g] = sched[g] /\ suspended'[g] = suspended[g]
               /\ whom' = g <=> whom = g,
           \/ queue' = queue /\ active' = active
           \/ /\ Line(queue', Threads) /\ Len(queue') = Len(queue) + 1 /\ active' = active + 1
              /\ \A x : x \in Range(queue') <=> x \in Range(queue) \/ x = f,
           TypeOK', PlaceOK', FutureOK(f)', StopOK(f)'
    PROVE  IInv'
<1>1. /\ wpc' = wpc /\ cur' = cur /\ posted' = posted /\ granted' = granted /\ c' = c /\ fslock' = fslock
      /\ waiting' = waiting
  BY DEF workers, history, fsema
<1>2. Line(queue, Threads) /\ Len(queue) \in Nat /\ active = Len(queue) + Cardinality(Busy) /\ Line(waiting, Threads)
  BY IInvParts
<1>3. (\A v \in Workers : WorkerOK(v)') /\ \A g \in Threads : g # f => FutureOK(g)' /\ StopOK(g)'
  <2> DEFINE W == {}
  <2>1. /\ W \in SUBSET Workers /\ (\A v \in W : cur[v] = f)
        /\ \A v \in Workers \ W : cur'[v] = cur[v] /\ ~Owns(v, f)
        /\ \A v \in Workers \ W : wpc'[v] = wpc[v] \/ {wpc[v], wpc'[v]} \subseteq {"run", "post", "wait", "switch"}
    BY <1>1
  <2>2. \A g \in Threads : g # f =>
           /\ state'[g] = state[g] /\ at'[g] = at[g] /\ lock'[g] = lock[g] /\ stop'[g] = stop[g]
           /\ tpc'[g] = tpc[g] /\ sched'[g] = sched[g] /\ suspended'[g] = suspended[g]
           /\ g \in Range(queue') <=> g \in Range(queue)
           /\ g \in Range(waiting') => g \in Range(waiting)
           /\ whom' = g <=> whom = g
    BY <1>1
  <2> HIDE DEF W
  <2>3. (\A v \in Workers \ W : WorkerOK(v)') /\ \A g \in Threads : g # f => FutureOK(g)' /\ StopOK(g)'
    BY <2>1, <2>2, Frame
  <2> QED
    BY <2>3 DEF W
<1>4. ActiveExact'
  <2>1. Busy' = Busy
    BY <1>1 DEF Busy
  <2>2. active' = Len(queue') + Cardinality(Busy')
    BY <1>2, <2>1, BusyFinite
  <2> QED
    BY <2>2 DEF ActiveExact, Busy
<1>5. FsemaOK' /\ Lines'
  BY <1>1, <1>2 DEF IInv, FsemaOK, UnitsConserved, Lines
<1> QED
  BY <1>3, <1>4, <1>5 DEF IInv

LEMMA TouchBlockedStep ==
    ASSUME IInv, NEW f \in Threads, TouchBlocked(f)
    PROVE  IInv'
<1>1. /\ state \in [Threads -> {"free", "running", "blocked", "fsema", "done"}]
      /\ at \in [Threads -> {"thunk", "racket", "over"} \cup Workers]
      /\ tpc \in [Threads -> {"touch", "racket", "over"}] /\ sched \in [Threads -> {"on", "off", "future"}]
      /\ TypeOK /\ PlaceOK /\ FutureOK(f) /\ StopOK(f) /\ Line(queue, Threads) /\ whom # f
  BY IInvParts, PoolAssumption DEF TouchBlocked, Turn, PlaceOK
<1>2. /\ ppc = "free" /\ sched[f] = "on" /\ tpc[f] = "touch"
      /\ lock' = lock /\ stop' = stop /\ queue' = queue /\ waiters' = waiters /\ active' = active
      /\ suspended' = suspended /\ UNCHANGED <<fsema, workers, placevar, signals, counts, history>>
  BY DEF TouchBlocked, Turn
<1>3. CASE state[f] = "blocked"
  <2>1. /\ state' = [state EXCEPT ![f] = "free"] /\ at' = [at EXCEPT ![f] = "racket"]
        /\ tpc' = [tpc EXCEPT ![f] = "racket"] /\ sched' = sched
    BY <1>3 DEF TouchBlocked, Set
  <2>2. \A v \in Workers : ~Owns(v, f)
    BY <1>3, NoOwner
  <2>3. TypeOK'
    BY <1>1, <1>2, <2>1 DEF TypeOK, fsema, workers, placevar, signals, counts, history
  <2>4. PlaceOK'
    BY <1>1, <1>2 DEF PlaceOK, placevar
  <2>5. FutureOK(f)'
    BY <1>1, <1>2, <1>3, <2>1, PoolAssumption DEF FutureOK, Scheduled, fsema
  <2>6. StopOK(f)'
    BY <1>1, <1>2, <2>1 DEF StopOK, placevar
  <2>7. \A g \in Threads : g # f =>
           /\ state'[g] = state[g] /\ at'[g] = at[g] /\ stop'[g] = stop[g]
           /\ tpc'[g] = tpc[g] /\ sched'[g] = sched[g] /\ suspended'[g] = suspended[g]
           /\ whom' = g <=> whom = g
    BY <1>1, <1>2, <2>1 DEF placevar
  <2>8. UNCHANGED <<lock, fsema, workers, history>>
    BY <1>2
  <2> QED
    BY <1>2, <2>2, <2>3, <2>4, <2>5, <2>6, <2>7, <2>8, RacketStep
<1>4. CASE state[f] # "blocked"
  <2>1. sched' = [sched EXCEPT ![f] = "future"] /\ state' = state /\ at' = at /\ tpc' = tpc
    BY <1>4 DEF TouchBlocked
  <2>2. TypeOK'
    BY <1>1, <1>2, <2>1 DEF TypeOK, fsema, workers, placevar, signals, counts, history
  <2>3. PlaceOK' /\ ActiveExact'
    BY <1>1, <1>2 DEF PlaceOK, placevar, ActiveExact, IInv, workers
  <2>4. ASSUME NEW g \in Threads
        PROVE  /\ StopOK(g)' /\ (g \in Range(queue') => ~stop'[g])
               /\ tpc'[g] = "racket" => tpc[g] = "racket" /\ sched'[g] # "future"
    <3>1. StopOK(g) /\ FutureOK(g)
      BY IInvParts
    <3> QED
      BY <1>1, <1>2, <2>1, <3>1 DEF StopOK, FutureOK, Scheduled, placevar
  <2>5. UNCHANGED <<state, at, lock, c, waiting, fslock, workers, history>>
    BY <1>2, <2>1 DEF fsema
  <2> QED
    BY <1>1, <1>2, <2>1, <2>2, <2>3, <2>4, <2>5, PlaceStep
<1> QED
  BY <1>3, <1>4
LEMMA UnblockStep ==
    ASSUME IInv, NEW f \in Threads, Unblock(f)
    PROVE  IInv'
<1>1. /\ at \in [Threads -> {"thunk", "racket", "over"} \cup Workers]
      /\ tpc \in [Threads -> {"touch", "racket", "over"}] /\ Len(queue) \in Nat
      /\ TypeOK /\ PlaceOK /\ FutureOK(f) /\ StopOK(f) /\ Line(queue, Threads)
  BY IInvParts
<1>2. /\ ppc = "free" /\ sched[f] = "on" /\ tpc[f] = "racket" /\ Schedule(f, FALSE)
      /\ at' = [at EXCEPT ![f] = "thunk"] /\ tpc' = [tpc EXCEPT ![f] = "touch"]
      /\ state' = state /\ lock' = lock /\ stop' = stop /\ sched' = sched /\ suspended' = suspended
      /\ UNCHANGED <<fsema, workers, placevar, signals, counts, history>>
  BY DEF Unblock, Turn
<1>3. /\ state[f] = "free" /\ at[f] = "racket" /\ "thunk" \notin Workers /\ whom # f
  BY <1>1, <1>2, PoolAssumption DEF FutureOK, PlaceOK
<1>4. ~Scheduled(f) /\ ~stop[f]
  BY <1>1, <1>2, <1>3 DEF FutureOK, StopOK
<1>5. /\ Line(queue', Threads) /\ Len(queue') = Len(queue) + 1
      /\ \A x : x \in Range(queue') <=> x \in Range(queue) \/ x = f
      /\ active' = active + 1 /\ waiters' \subseteq Workers
  BY <1>1, <1>2, <1>4, ScheduleIs DEF TypeOK
<1>6. \A v \in Workers : ~Owns(v, f)
  BY <1>3, NoOwner, PoolAssumption
<1>7. TypeOK'
  <2>1. Range(queue') \subseteq Threads
    BY <1>1, <1>5 DEF TypeOK
  <2> QED
    BY <1>1, <1>2, <1>5, <2>1 DEF TypeOK, fsema, workers, placevar, signals, counts, history, Line
<1>8. PlaceOK'
  BY <1>1, <1>2 DEF PlaceOK, placevar
<1>9. FutureOK(f)'
  BY <1>1, <1>2, <1>3, <1>4 DEF FutureOK, Scheduled, fsema
<1>10. StopOK(f)'
  BY <1>1, <1>2 DEF StopOK, placevar
<1>11. \A g \in Threads : g # f =>
         /\ state'[g] = state[g] /\ at'[g] = at[g] /\ stop'[g] = stop[g]
         /\ tpc'[g] = tpc[g] /\ sched'[g] = sched[g] /\ suspended'[g] = suspended[g]
         /\ whom' = g <=> whom = g
  BY <1>1, <1>2 DEF placevar
<1>12. UNCHANGED <<lock, fsema, workers, history>>
  BY <1>2
<1> QED
  BY <1>5, <1>6, <1>7, <1>8, <1>9, <1>10, <1>11, <1>12, RacketStep

\* thread-dead!, of a thread whose future's continuation is left where it is.
LEMMA DiesStep ==
    ASSUME IInv, NEW f \in Threads, ppc = "free", Dies(f), futures' = futures, TypeOK'
    PROVE  IInv'
<1>1. /\ tpc \in [Threads -> {"touch", "racket", "over"}] /\ sched \in [Threads -> {"on", "off", "future"}]
      /\ PlaceOK /\ Line(queue, Threads)
  BY IInvParts
<1>2. /\ tpc' = [tpc EXCEPT ![f] = "over"] /\ sched' = [sched EXCEPT ![f] = "off"]
      /\ ppc' = "stop" /\ whom' = f /\ suspended' = suspended /\ UNCHANGED <<fsema, workers, history>>
      /\ state' = state /\ at' = at /\ lock' = lock /\ stop' = stop /\ queue' = queue /\ active' = active
  BY DEF Dies, futures
<1>3. whom = NoOne /\ f # NoOne
  BY <1>1, PoolAssumption DEF PlaceOK
<1>4. PlaceOK' /\ ActiveExact'
  BY <1>2, <1>3 DEF PlaceOK, ActiveExact, IInv, workers
<1>5. ASSUME NEW g \in Threads
      PROVE  /\ StopOK(g)' /\ (g \in Range(queue') => ~stop'[g])
             /\ tpc'[g] = "racket" => tpc[g] = "racket" /\ sched'[g] # "future"
             /\ tpc[g] \in {"racket", "over"} => tpc'[g] \in {tpc[g], "over"}
  <2>1. StopOK(g) /\ FutureOK(g) /\ whom # g
    BY <1>3, IInvParts, PoolAssumption
  <2>2. CASE g = f
    BY <1>1, <1>2, <2>1, <2>2 DEF StopOK, FutureOK, Scheduled
  <2>3. CASE g # f
    BY <1>1, <1>2, <2>1, <2>3 DEF StopOK, FutureOK, Scheduled
  <2> QED
    BY <2>2, <2>3
<1>6. UNCHANGED <<state, at, lock, c, waiting, fslock, workers, history>>
  BY <1>2 DEF fsema
<1>7. \A v \in Workers : wpc[v] = "claimed" => stop'[cur[v]] = stop[cur[v]]
  BY <1>2
<1> QED
  BY <1>1, <1>2, <1>4, <1>5, <1>6, <1>7, PlaceStep

LEMMA KillStep ==
    ASSUME IInv, NEW f \in Threads, Kill(f)
    PROVE  IInv'
<1>1. /\ ppc = "free" /\ Dies(f) /\ futures' = futures /\ suspends < MaxSuspends
      /\ suspends' = suspends + 1 /\ ops' = ops /\ posts' = posts
  BY DEF Kill
<1>2. TypeOK
  BY IInvParts
<1>3. suspends' \in 0..MaxSuspends
  BY <1>1, <1>2, PoolAssumption DEF TypeOK
<1>4. TypeOK'
  BY <1>1, <1>2, <1>3 DEF TypeOK, Dies, futures, fsema, workers, signals, history
<1> QED
  BY <1>1, <1>4, DiesStep

LEMMA EndsStep ==
    ASSUME IInv, NEW f \in Threads, Ends(f)
    PROVE  IInv'
<1>1. /\ at \in [Threads -> {"thunk", "racket", "over"} \cup Workers]
      /\ tpc \in [Threads -> {"touch", "racket", "over"}] /\ sched \in [Threads -> {"on", "off", "future"}]
      /\ TypeOK /\ PlaceOK /\ FutureOK(f) /\ StopOK(f) /\ Line(queue, Threads)
  BY IInvParts
<1>2. /\ ppc = "free" /\ Dies(f) /\ state' = state /\ lock' = lock /\ stop' = stop /\ queue' = queue
      /\ waiters' = waiters /\ active' = active /\ UNCHANGED counts
  BY DEF Ends, Turn
<1>3. at' = at \/ (tpc[f] = "racket" /\ at' = [at EXCEPT ![f] = "over"])
  BY DEF Ends
<1>4. TypeOK'
  BY <1>1, <1>2, <1>3 DEF TypeOK, Dies, fsema, workers, signals, counts, history
<1>5. CASE at' = at
  BY <1>2, <1>4, <1>5, DiesStep DEF futures
<1>6. CASE tpc[f] = "racket" /\ at' = [at EXCEPT ![f] = "over"]
  <2>1. /\ tpc' = [tpc EXCEPT ![f] = "over"] /\ sched' = [sched EXCEPT ![f] = "off"]
        /\ ppc' = "stop" /\ whom' = f /\ suspended' = suspended /\ UNCHANGED <<fsema, workers, history>>
    BY <1>2 DEF Dies
  <2>2. state[f] = "free" /\ at[f] = "racket" /\ "over" \notin Workers /\ whom = NoOne /\ f # NoOne
    BY <1>1, <1>2, <1>6, PoolAssumption DEF FutureOK, PlaceOK
  <2>3. ~Scheduled(f)
    BY <1>1, <2>2 DEF FutureOK
  <2>4. \A v \in Workers : ~Owns(v, f)
    BY <2>2, NoOwner, PoolAssumption
  <2>5. PlaceOK'
    BY <2>1, <2>2 DEF PlaceOK
  <2>6. FutureOK(f)'
    BY <1>1, <1>2, <1>6, <2>1, <2>2, <2>3 DEF FutureOK, Scheduled, fsema
  <2>7. StopOK(f)'
    BY <1>1, <1>2, <2>1 DEF StopOK
  <2>8. \A g \in Threads : g # f =>
           /\ state'[g] = state[g] /\ at'[g] = at[g] /\ stop'[g] = stop[g]
           /\ tpc'[g] = tpc[g] /\ sched'[g] = sched[g] /\ suspended'[g] = suspended[g]
           /\ whom' = g <=> whom = g
    BY <1>1, <1>2, <1>6, <2>1, <2>2, PoolAssumption
  <2>9. UNCHANGED <<lock, fsema, workers, history>>
    BY <1>2, <2>1
  <2> QED
    BY <1>2, <1>4, <2>4, <2>5, <2>6, <2>7, <2>8, <2>9, RacketStep
<1> QED
  BY <1>3, <1>5, <1>6

LEMMA SuspendStep ==
    ASSUME IInv, NEW f \in Threads, Suspend(f)
    PROVE  IInv'
<1>1. /\ suspended \in [Threads -> BOOLEAN] /\ TypeOK /\ PlaceOK /\ Line(queue, Threads)
  BY IInvParts
<1>2. /\ ppc = "free" /\ suspends < MaxSuspends /\ suspends' = suspends + 1
      /\ suspended' = [suspended EXCEPT ![f] = TRUE] /\ ppc' = "stop" /\ whom' = f
      /\ UNCHANGED <<futures, fsema, workers, tpc, sched, signals, ops, posts, history>>
  BY DEF Suspend
<1>3. /\ state' = state /\ at' = at /\ lock' = lock /\ stop' = stop /\ queue' = queue
      /\ active' = active /\ tpc' = tpc /\ sched' = sched
  BY <1>2 DEF futures
<1>4. whom = NoOne /\ f # NoOne
  BY <1>1, <1>2, PoolAssumption DEF PlaceOK
<1>5. suspends' \in 0..MaxSuspends
  BY <1>1, <1>2, PoolAssumption DEF TypeOK
<1>6. TypeOK'
  BY <1>1, <1>2, <1>5 DEF TypeOK, futures, fsema, workers, signals, history
<1>7. PlaceOK' /\ ActiveExact'
  BY <1>2, <1>3, <1>4 DEF PlaceOK, ActiveExact, IInv, workers
<1>8. ASSUME NEW g \in Threads
      PROVE  /\ StopOK(g)' /\ (g \in Range(queue') => ~stop'[g])
             /\ tpc'[g] = "racket" => tpc[g] = "racket" /\ sched'[g] # "future"
  <2>1. StopOK(g) /\ FutureOK(g) /\ whom # g
    BY <1>4, IInvParts, PoolAssumption
  <2>2. CASE g = f
    BY <1>1, <1>2, <1>3, <2>1, <2>2 DEF StopOK, FutureOK, Scheduled
  <2>3. CASE g # f
    BY <1>1, <1>2, <1>3, <2>1, <2>3 DEF StopOK, FutureOK, Scheduled
  <2> QED
    BY <2>2, <2>3
<1>9. UNCHANGED <<state, at, lock, c, waiting, fslock, workers, history>>
  BY <1>2, <1>3 DEF fsema
<1> QED
  BY <1>1, <1>3, <1>6, <1>7, <1>8, <1>9, PlaceStep
\* A callback wakes a thread only if it waits for its future; a stopped one stays
\* descheduled.
LEMMA CallbacksIs ==
    ASSUME IInv, Callbacks
    PROVE  /\ sched' \in [Threads -> {"on", "off", "future"}] /\ callbacks' = {}
           /\ \A g \in Threads :
                /\ tpc[g] \in {"racket", "over"} => sched'[g] = sched[g]
                /\ stop[g] /\ sched[g] # "on" => sched'[g] # "on"
<1>1. /\ tpc \in [Threads -> {"touch", "racket", "over"}] /\ sched \in [Threads -> {"on", "off", "future"}]
      /\ callbacks \subseteq Threads
  BY IInvParts DEF TypeOK
<1>2. /\ sched' = [g \in Threads |->
                     IF g \in Woken THEN IF suspended[g] THEN "off" ELSE "on" ELSE sched[g]]
      /\ callbacks' = {}
  BY DEF Callbacks
<1>3. ASSUME NEW g \in Threads
      PROVE  /\ tpc[g] \in {"racket", "over"} => sched'[g] = sched[g]
             /\ stop[g] /\ sched[g] # "on" => sched'[g] # "on"
  <2>1. FutureOK(g) /\ StopOK(g)
    BY IInvParts
  <2>2. CASE g \in Woken
    <3>1. sched[g] = "future" /\ tpc[g] # "over"
      BY <2>2 DEF Woken
    <3> QED
      BY <1>1, <1>2, <2>1, <2>2, <3>1 DEF FutureOK, StopOK
  <2>3. CASE g \notin Woken
    BY <1>1, <1>2, <2>3
  <2> QED
    BY <2>2, <2>3
<1>4. sched' \in [Threads -> {"on", "off", "future"}]
  BY <1>1, <1>2
<1> QED
  BY <1>2, <1>3, <1>4

LEMMA RunCallbacksStep ==
    ASSUME IInv, RunCallbacks
    PROVE  IInv'
<1>1. TypeOK /\ PlaceOK /\ Line(queue, Threads)
  BY IInvParts
<1>2. /\ ppc = "free" /\ Callbacks
      /\ UNCHANGED <<futures, fsema, workers, tpc, suspended, placevar, latch, counts, history>>
  BY DEF RunCallbacks
<1>3. /\ state' = state /\ at' = at /\ lock' = lock /\ stop' = stop /\ queue' = queue
      /\ active' = active /\ tpc' = tpc /\ suspended' = suspended /\ whom' = whom /\ ppc' = ppc
  BY <1>2 DEF futures, placevar
<1>4. /\ sched' \in [Threads -> {"on", "off", "future"}] /\ callbacks' = {}
      /\ \A g \in Threads :
           /\ tpc[g] \in {"racket", "over"} => sched'[g] = sched[g]
           /\ stop[g] /\ sched[g] # "on" => sched'[g] # "on"
  BY <1>2, CallbacksIs
<1>5. TypeOK'
  BY <1>1, <1>2, <1>4 DEF TypeOK, futures, fsema, workers, placevar, counts, history
<1>6. PlaceOK' /\ ActiveExact'
  BY <1>1, <1>2, <1>3 DEF PlaceOK, ActiveExact, IInv, workers
<1>7. ASSUME NEW g \in Threads
      PROVE  /\ StopOK(g)' /\ (g \in Range(queue') => ~stop'[g])
             /\ tpc'[g] = "racket" => tpc[g] = "racket" /\ sched'[g] # "future"
  <2>1. StopOK(g) /\ FutureOK(g)
    BY IInvParts
  <2> QED
    BY <1>3, <1>4, <2>1 DEF StopOK, FutureOK, Scheduled
<1>8. UNCHANGED <<state, at, lock, c, waiting, fslock, workers, history>>
  BY <1>2, <1>3 DEF fsema
<1> QED
  BY <1>1, <1>3, <1>5, <1>6, <1>7, <1>8, PlaceStep

\* The place's scheduler returns from its sleep, or future-external-stop does.
LEMMA WakesStep ==
    ASSUME IInv, PlaceWakes \/ StopWakes
    PROVE  IInv'
<1>1. TypeOK /\ PlaceOK /\ Line(queue, Threads)
  BY IInvParts
<1>2. /\ latch' = FALSE /\ whom' = whom /\ (ppc' = ppc \/ (ppc = "asleep" /\ ppc' = "check"))
      /\ UNCHANGED <<futures, fsema, workers, threads, callbacks, counts, history>>
  BY DEF PlaceWakes, StopWakes, placevar
<1>3. /\ state' = state /\ at' = at /\ lock' = lock /\ stop' = stop /\ queue' = queue
      /\ active' = active /\ tpc' = tpc /\ suspended' = suspended /\ sched' = sched
  BY <1>2 DEF futures, threads
<1>4. TypeOK'
  BY <1>1, <1>2 DEF TypeOK, futures, fsema, workers, threads, counts, history
<1>5. PlaceOK' /\ ActiveExact'
  BY <1>1, <1>2, <1>3 DEF PlaceOK, ActiveExact, IInv, workers
<1>6. ASSUME NEW g \in Threads
      PROVE  /\ StopOK(g)' /\ (g \in Range(queue') => ~stop'[g])
             /\ tpc'[g] = "racket" => tpc[g] = "racket" /\ sched'[g] # "future"
  <2>1. StopOK(g) /\ FutureOK(g)
    BY IInvParts
  <2> QED
    BY <1>2, <1>3, <2>1 DEF StopOK, FutureOK, Scheduled
<1>7. UNCHANGED <<state, at, lock, c, waiting, fslock, workers, history>>
  BY <1>2, <1>3 DEF fsema
<1> QED
  BY <1>1, <1>3, <1>4, <1>5, <1>6, <1>7, PlaceStep

LEMMA StopsStep ==
    ASSUME IInv, NEW f \in Threads, Stops(f)
    PROVE  IInv'
<1>1. /\ stop \in [Threads -> BOOLEAN] /\ sched \in [Threads -> {"on", "off", "future"}]
      /\ tpc \in [Threads -> {"touch", "racket", "over"}]
      /\ TypeOK /\ PlaceOK /\ FutureOK(f) /\ StopOK(f) /\ Line(queue, Threads) /\ Len(queue) \in Nat
      /\ active \in Nat /\ active = Len(queue) + Cardinality(Busy)
  BY IInvParts
<1>2. /\ ppc \in {"stop", "check"} /\ whom = f /\ Free(f) /\ stop' = [stop EXCEPT ![f] = TRUE]
      /\ state' = state /\ at' = at /\ lock' = lock /\ tpc' = tpc /\ suspended' = suspended
      /\ UNCHANGED <<waiters, fsema, workers, counts, history>>
  BY DEF Stops
<1>3. f # NoOne /\ (ppc = "check" => stop[f])
  BY <1>1, <1>2, PoolAssumption DEF PlaceOK
<1>4. /\ Line(queue', Threads) /\ (\A x : x \in Range(queue') => x \in Range(queue)) /\ f \notin Range(queue')
      /\ active' \in Nat /\ active' = Len(queue') + Cardinality(Busy) /\ latch' \in BOOLEAN
  <2>1. CASE ppc = "stop" /\ Scheduled(f)
    <3>1. Deschedule(f) /\ active' = active - 1 /\ latch' = (latch \/ active = 1)
      BY <2>1 DEF Stops
    <3>2. PICK i \in 1..Len(queue) : queue[i] = f /\ queue' = RemoveAt(queue, i)
      BY <1>1, <3>1, LenProperties DEF Deschedule, Line
    <3>3. /\ Line(queue', Threads) /\ Len(queue') = Len(queue) - 1
          /\ \A x : x \in Range(queue') <=> x \in Range(queue) /\ x # f
      BY <1>1, <3>2, Removed
    <3>4. active' \in Nat /\ active' = Len(queue') + Cardinality(Busy)
      BY <1>1, <3>1, <3>2, <3>3, BusyFinite
    <3> QED
      BY <1>1, <3>1, <3>3, <3>4 DEF TypeOK
  <2>2. CASE ~(ppc = "stop" /\ Scheduled(f))
    <3>1. queue' = queue /\ active' = active /\ latch' = latch
      BY <2>2 DEF Stops
    <3>2. ~Scheduled(f)
      BY <1>1, <1>2, <1>3, <2>2 DEF FutureOK
    <3> QED
      BY <1>1, <3>1, <3>2 DEF TypeOK, Scheduled
  <2> QED
    BY <2>1, <2>2
<1>5. /\ ppc' \in {"free", "asleep"}
      /\ ppc' = "asleep" => whom' = f
      /\ ppc' = "free" => whom' = NoOne /\ sched'[f] # "on" /\ state[f] # "running"
      /\ sched' \in [Threads -> {"on", "off", "future"}] /\ callbacks' \subseteq Threads
      /\ \A g \in Threads :
           /\ tpc[g] = "racket" => sched'[g] # "future"
           /\ tpc[g] = "over" => sched'[g] = "off"
           /\ stop[g] /\ sched[g] # "on" => sched'[g] # "on"
  <2>1. \A g \in Threads : (tpc[g] = "racket" => sched[g] # "future") /\ (tpc[g] = "over" => sched[g] = "off")
    BY IInvParts DEF FutureOK, StopOK
  <2>2. CASE state[f] = "running"
    <3>1. ppc' = "asleep" /\ Callbacks /\ whom' = whom
      BY <2>2 DEF Stops
    <3>2. /\ sched' \in [Threads -> {"on", "off", "future"}] /\ callbacks' = {}
          /\ \A g \in Threads :
               /\ tpc[g] \in {"racket", "over"} => sched'[g] = sched[g]
               /\ stop[g] /\ sched[g] # "on" => sched'[g] # "on"
      BY <3>1, CallbacksIs
    <3> QED
      BY <1>2, <2>1, <3>1, <3>2
  <2>3. CASE state[f] # "running"
    <3>1. /\ ppc' = "free" /\ whom' = NoOne /\ callbacks' = callbacks
          /\ sched' = [sched EXCEPT ![f] = IF @ = "on" THEN "off" ELSE @]
      BY <2>3 DEF Stops, Stopped
    <3> QED
      BY <1>1, <2>1, <2>3, <3>1 DEF TypeOK
  <2> QED
    BY <2>2, <2>3
<1>6. TypeOK'
  <2>1. Range(queue') \subseteq Threads
    BY <1>1, <1>4 DEF TypeOK
  <2>2. whom' \in Threads \cup {NoOne} /\ ppc' \in {"free", "post", "stop", "asleep", "check"}
    BY <1>5
  <2> QED
    BY <1>1, <1>2, <1>4, <1>5, <2>1, <2>2 DEF TypeOK, Line, fsema, workers, counts, history
<1>7. PlaceOK'
  BY <1>1, <1>2, <1>3, <1>5 DEF PlaceOK
<1>8. ActiveExact'
  <2>1. Busy' = Busy
    BY <1>2 DEF Busy, workers
  <2>2. active' = Len(queue') + Cardinality(Busy')
    BY <1>4, <2>1
  <2> QED
    BY <2>2 DEF ActiveExact, Busy
<1>9. state[f] # "running" => at[f] \notin Workers
  <2> SUFFICES ASSUME state[f] # "running", at[f] \in Workers PROVE FALSE
    OBVIOUS
  <2>1. PICK w \in Workers : w = at[f]
    OBVIOUS
  <2>2. cur[w] = f /\ wpc[w] \in {"run", "post", "wait", "switch", "suspend"} /\ WorkerOK(w) /\ w # NoOne
    BY <1>1, <2>1, IInvParts, PoolAssumption DEF FutureOK
  <2> QED
    BY <1>2, <2>2 DEF WorkerOK, InCode, Free
<1>10. \A v \in Workers : wpc[v] = "claimed" => stop'[cur[v]] = stop[cur[v]]
  <2> SUFFICES ASSUME NEW v \in Workers, wpc[v] = "claimed" PROVE stop'[cur[v]] = stop[cur[v]]
    OBVIOUS
  <2>1. WorkerOK(v) /\ v # NoOne
    BY IInvParts, PoolAssumption
  <2>2. cur[v] \in Threads /\ cur[v] # f
    BY <1>2, <2>1 DEF WorkerOK, Free
  <2> QED
    BY <1>1, <1>2, <2>2
<1>11. ASSUME NEW g \in Threads
       PROVE  StopOK(g)' /\ (g \in Range(queue') => ~stop'[g])
  <2>1. StopOK(g) /\ FutureOK(g)
    BY IInvParts
  <2>2. CASE g = f
    <3>1. stop'[f] = TRUE
      BY <1>1, <1>2
    <3> QED
      BY <1>2, <1>3, <1>4, <1>5, <1>9, <2>1, <2>2, <3>1 DEF StopOK
  <2>3. CASE g # f
    <3>1. stop'[g] = stop[g] /\ whom # g /\ whom' # g
      BY <1>1, <1>2, <1>5, <2>3, PoolAssumption
    <3>2. g \in Range(queue') => ~stop'[g]
      BY <1>4, <2>1, <3>1 DEF FutureOK, Scheduled
    <3> QED
      BY <1>2, <1>5, <2>1, <3>1, <3>2 DEF StopOK
  <2> QED
    BY <2>2, <2>3
<1>12. UNCHANGED <<state, at, lock, c, waiting, fslock, workers, history>>
  BY <1>2 DEF fsema
<1>13. \A g \in Threads :
         /\ tpc'[g] = "racket" => tpc[g] = "racket" /\ sched'[g] # "future"
         /\ tpc[g] \in {"racket", "over"} => tpc'[g] \in {tpc[g], "over"}
  BY <1>2, <1>5
<1> QED
  BY <1>4, <1>6, <1>7, <1>8, <1>10, <1>11, <1>12, <1>13, PlaceStep
LEMMA ResumeStep ==
    ASSUME IInv, NEW f \in Threads, Resume(f)
    PROVE  IInv'
<1>1. /\ stop \in [Threads -> BOOLEAN] /\ sched \in [Threads -> {"on", "off", "future"}]
      /\ suspended \in [Threads -> BOOLEAN] /\ at \in [Threads -> {"thunk", "racket", "over"} \cup Workers]
      /\ TypeOK /\ PlaceOK /\ FutureOK(f) /\ StopOK(f) /\ Line(queue, Threads) /\ Len(queue) \in Nat
  BY IInvParts
<1>2. /\ ppc = "free" /\ suspended[f] /\ tpc[f] # "over"
      /\ suspended' = [suspended EXCEPT ![f] = FALSE] /\ stop' = [stop EXCEPT ![f] = FALSE]
      /\ sched' = [sched EXCEPT ![f] = IF @ = "future" /\ state[f] # "blocked" THEN @ ELSE "on"]
      /\ state' = state /\ at' = at /\ lock' = lock /\ tpc' = tpc
      /\ UNCHANGED <<fsema, workers, placevar, signals, counts, history>>
  BY DEF Resume
<1>3. whom # f
  BY <1>1, <1>2, PoolAssumption DEF PlaceOK
<1>4. stop[f] /\ state[f] # "running" /\ at[f] \notin Workers /\ ~Scheduled(f)
  BY <1>1, <1>2, <1>3 DEF StopOK, FutureOK
<1>5. \A v \in Workers : ~Owns(v, f)
  BY <1>4, NoOwner
<1>6. \/ /\ queue' = queue /\ active' = active /\ waiters' = waiters
      \/ /\ state[f] = "free" /\ sched[f] = "future"
         /\ Line(queue', Threads) /\ Len(queue') = Len(queue) + 1 /\ active' = active + 1
         /\ waiters' \subseteq Workers
         /\ \A x : x \in Range(queue') <=> x \in Range(queue) \/ x = f
  <2>1. CASE sched[f] = "future" /\ state[f] = "free"
    <3>1. Schedule(f, FALSE)
      BY <2>1 DEF Resume
    <3> QED
      BY <1>1, <1>4, <2>1, <3>1, ScheduleIs DEF TypeOK
  <2>2. CASE ~(sched[f] = "future" /\ state[f] = "free")
    BY <2>2 DEF Resume
  <2> QED
    BY <2>1, <2>2
<1>7. TypeOK'
  <2>1. Range(queue') \subseteq Threads /\ IsInjective(queue') /\ waiters' \subseteq Workers /\ active' \in Nat
    BY <1>1, <1>6 DEF TypeOK, Line
  <2>2. /\ sched' \in [Threads -> {"on", "off", "future"}] /\ suspended' \in [Threads -> BOOLEAN]
        /\ stop' \in [Threads -> BOOLEAN]
    BY <1>1, <1>2
  <2> QED
    BY <1>1, <1>2, <2>1, <2>2 DEF TypeOK, fsema, workers, placevar, signals, counts, history
<1>8. PlaceOK'
  BY <1>1, <1>2 DEF PlaceOK, placevar
<1>9. FutureOK(f)'
  <2>1. ~stop'[f] /\ (tpc[f] = "racket" => sched'[f] # "future")
    BY <1>1, <1>2 DEF FutureOK
  <2>2. f \in Range(queue') => state[f] = "free" /\ at[f] = "thunk"
    BY <1>1, <1>2, <1>4, <1>6 DEF FutureOK, Scheduled
  <2> QED
    BY <1>1, <1>2, <1>4, <2>1, <2>2 DEF FutureOK, Scheduled, fsema
<1>10. StopOK(f)'
  BY <1>1, <1>2, <1>3 DEF StopOK, placevar
<1>11. \A g \in Threads : g # f =>
         /\ state'[g] = state[g] /\ at'[g] = at[g] /\ stop'[g] = stop[g]
         /\ tpc'[g] = tpc[g] /\ sched'[g] = sched[g] /\ suspended'[g] = suspended[g]
         /\ whom' = g <=> whom = g
  BY <1>1, <1>2 DEF placevar
<1>12. UNCHANGED <<lock, fsema, workers, history>>
  BY <1>2
<1> QED
  BY <1>5, <1>6, <1>7, <1>8, <1>9, <1>10, <1>11, <1>12, RacketStep
-----------------------------------------------------------------------------
LEMMA InitIInv == Init => IInv
<1> SUFFICES ASSUME Init PROVE IInv
  OBVIOUS
<1> DEFINE n == Cardinality(Threads)
<1>1. n \in Nat /\ Cardinality(Workers) \in Nat
  BY PoolAssumption, FS_CardinalityType
<1>2. queue \in [1..n -> Threads] /\ IsInjective(queue) /\ active = n
  BY DEF Init
<1> HIDE DEF n
<1>3. queue \in Seq(Threads) /\ Len(queue) = n
  BY <1>1, <1>2
<1>4. Line(queue, Threads) /\ Range(queue) \subseteq Threads
  BY <1>2, <1>3, RangeIs, ElementOfSeq DEF Line
<1>5. waiting = << >> /\ Line(waiting, Threads) /\ Range(waiting) = {}
  <2>1. << >> \in Seq(Threads) /\ Len(<< >>) = 0
    OBVIOUS
  <2>2. IsInjective(<< >>) /\ Range(<< >>) = {}
    BY DEF IsInjective, Range
  <2> QED
    BY <2>1, <2>2 DEF Init, Line
<1>6. ActiveExact
  <2>1. Busy = {}
    BY DEF Busy, Init
  <2>2. active = Len(queue) + Cardinality(Busy)
    BY <1>1, <1>2, <1>3, <2>1, FS_EmptySet
  <2> QED
    BY <2>2, ActiveIs
<1>7. TypeOK
  <2>1. /\ state = [f \in Threads |-> "free"] /\ at = [f \in Threads |-> "thunk"]
        /\ lock = [f \in Threads |-> NoOne] /\ stop = [f \in Threads |-> FALSE]
        /\ wpc = [w \in Workers |-> "loop"] /\ cur = [w \in Workers |-> NoOne]
        /\ seen = [w \in Workers |-> 0] /\ capacity = Cardinality(Workers) /\ round = "round"
        /\ tpc = [f \in Threads |-> "touch"] /\ sched = [f \in Threads |-> "future"]
        /\ suspended = [f \in Threads |-> FALSE]
    BY DEF Init
  <2>2. /\ waiters = {} /\ c = 0 /\ fslock = NoOne /\ ppc = "free" /\ whom = NoOne
        /\ callbacks = {} /\ latch = FALSE /\ ops = 0 /\ posts = 0 /\ suspends = 0
        /\ posted = 0 /\ granted = 0
    BY DEF Init
  <2>3. ops \in 0..MaxOps /\ posts \in 0..MaxPosts /\ suspends \in 0..MaxSuspends
    BY <2>2, PoolAssumption
  <2>4. capacity \in Int /\ round \in {"round", "pause"} /\ active \in Nat /\ IsInjective(queue) /\ Range(waiting) \subseteq Threads
    BY <1>1, <1>2, <1>5, <2>1
  <2>5. /\ state \in [Threads -> {"free", "running", "blocked", "fsema", "done"}]
        /\ at \in [Threads -> {"thunk", "racket", "over"} \cup Workers]
        /\ lock \in [Threads -> Workers \cup {NoOne}] /\ stop \in [Threads -> BOOLEAN]
        /\ wpc \in [Workers -> {"loop", "claim", "claimed", "run", "wait", "suspend",
                                "post", "switch", "wake", "left", "finish", "ended", "back"}]
        /\ cur \in [Workers -> Threads \cup {NoOne}] /\ seen \in [Workers -> Int]
        /\ tpc \in [Threads -> {"touch", "racket", "over"}]
        /\ sched \in [Threads -> {"on", "off", "future"}] /\ suspended \in [Threads -> BOOLEAN]
    BY <2>1
  <2>6. /\ waiters \subseteq Workers /\ c \in Nat /\ fslock \in Workers \cup {Place, NoOne}
        /\ ppc \in {"free", "post", "stop", "asleep", "check"} /\ whom \in Threads \cup {NoOne}
        /\ callbacks \subseteq Threads /\ latch \in BOOLEAN /\ posted \in Nat /\ granted \in Nat
    BY <2>2
  <2> QED
    BY <1>4, <2>3, <2>4, <2>5, <2>6 DEF TypeOK
<1>8. PlaceOK /\ FsemaOK
  BY <1>5 DEF Init, PlaceOK, FsemaOK, UnitsConserved
<1>9. \A w \in Workers : WorkerOK(w)
  BY DEF Init, WorkerOK, InCode
<1>10. \A f \in Threads : FutureOK(f) /\ StopOK(f)
  BY <1>5, PoolAssumption DEF Init, FutureOK, StopOK
<1> QED
  BY <1>4, <1>5, <1>6, <1>7, <1>8, <1>9, <1>10 DEF IInv, Lines

LEMMA StutterIInv ==
    ASSUME IInv, UNCHANGED vars
    PROVE  IInv'
<1>1. UNCHANGED <<state, at, lock, stop, queue, waiters, active, fsema, workers, threads,
                  placevar, signals, counts, history>>
  BY DEF vars, futures
<1>2. TypeOK
  BY IInvParts
<1>3. TypeOK'
  BY <1>1, <1>2 DEF TypeOK, fsema, workers, threads, placevar, signals, counts, history
<1>4. Lines' /\ PlaceOK' /\ ActiveExact' /\ FsemaOK'
  BY <1>1 DEF IInv, Lines, PlaceOK, ActiveExact, FsemaOK, UnitsConserved, fsema, workers, placevar, history
<1>5. ASSUME NEW w \in Workers PROVE WorkerOK(w)'
  <2>1. WorkerOK(w)
    BY IInvParts
  <2> QED
    BY <1>1, <2>1 DEF WorkerOK, InCode, Scheduled, workers
<1>6. ASSUME NEW f \in Threads PROVE FutureOK(f)' /\ StopOK(f)'
  <2>1. FutureOK(f) /\ StopOK(f)
    BY IInvParts
  <2>2. FutureOK(f)'
    BY <1>1, <2>1 DEF FutureOK, InCode, Scheduled, workers, fsema, threads
  <2> QED
    BY <1>1, <2>1, <2>2 DEF StopOK, threads, placevar
<1> QED
  BY <1>3, <1>4, <1>5, <1>6 DEF IInv

\* Outside the prompt of run-future, the timer is late.
LEMMA RaiseLate ==
    ASSUME IInv, NEW w \in Workers, Raise(w)
    PROVE  late'
  BY DEF Raise

\* Only a late timer breaks the invariant.
LEMMA NextIInv ==
    ASSUME IInv, [Next]_vars, ~late'
    PROVE  IInv'
<1>1. ASSUME NEW w \in Workers, Obliged(w) PROVE IInv'
  <2>1. w \in Workers \cup {Place}
    OBVIOUS
  <2> QED
    BY <1>1, <2>1, LoopStep, ClaimStep, RunStep, StopRunStep, RoundRobinStep, SwitchStep, RaiseLate,
       WakeStep, LeftStep, WaitJoinsStep, SuspendsStep, PostCountsStep, PostNotifiesStep DEF Obliged
<1>2. ASSUME NEW w \in Workers, Chosen(w) PROVE IInv'
  BY <1>2, BlockStep, FinishStep, WaitTakesStep, WaitLocksStep, PostLocksStep DEF Chosen
<1>3. ASSUME PlaceObliged PROVE IInv'
  <2>1. Place \in Workers \cup {Place}
    OBVIOUS
  <2> QED
    BY <1>3, <2>1, PostCountsStep, PostNotifiesStep, RunCallbacksStep, WakesStep, StopsStep DEF PlaceObliged
<1>4. ASSUME NEW f \in Threads, Racket(f) PROVE IInv'
  BY <1>4, TouchBlockedStep, UnblockStep, EndsStep DEF Racket
<1>5. ASSUME NEW f \in Threads, Suspend(f) \/ Kill(f) \/ Resume(f) PROVE IInv'
  BY <1>5, SuspendStep, KillStep, ResumeStep
<1> QED
  BY <1>1, <1>2, <1>3, <1>4, <1>5, MainPostsStep, StutterIInv DEF Next

\* That a timer was late is not forgotten.
LEMMA LateStays ==
    ASSUME late, [Next]_vars
    PROVE  late'
<1>1. ASSUME NEW w \in Workers, Obliged(w) PROVE late'
  <2>1. CASE Loop(w) \/ Claim(w) \/ Run(w) \/ Switch(w) \/ Wake(w) \/ Left(w) \/ WaitJoins(w) \/ Suspends(w)
    BY <2>1 DEF Loop, Claim, Run, Switch, Wake, Left, WaitJoins, Suspends, history
  <2>2. CASE StopRun(w) \/ RoundRobin(w) \/ Raise(w)
    BY <2>2 DEF StopRun, RoundRobin, Raise
  <2>3. CASE PostCounts(w) \/ PostNotifies(w)
    BY <2>3 DEF PostCounts, PostNotifies
  <2> QED
    BY <1>1, <2>1, <2>2, <2>3 DEF Obliged
<1>2. ASSUME NEW w \in Workers, Chosen(w) PROVE late'
  BY <1>2 DEF Chosen, Block, Finish, WaitTakes, WaitLocks, PostLocks, history
<1>3. ASSUME PlaceObliged PROVE late'
  <2>1. CASE PostCounts(Place) \/ PostNotifies(Place)
    BY <2>1 DEF PostCounts, PostNotifies
  <2>2. CASE RunCallbacks \/ PlaceWakes \/ StopWakes \/ \E f \in Threads : Stops(f)
    BY <2>2 DEF RunCallbacks, PlaceWakes, StopWakes, Stops, history
  <2> QED
    BY <1>3, <2>1, <2>2 DEF PlaceObliged
<1>4. ASSUME MainPosts \/ \E f \in Threads : Racket(f) PROVE late'
  BY <1>4 DEF MainPosts, Racket, TouchBlocked, Unblock, Ends, Dies, history
<1>5. ASSUME NEW f \in Threads, Suspend(f) \/ Kill(f) \/ Resume(f) PROVE late'
  BY <1>5 DEF Suspend, Kill, Dies, Resume, history
<1>6. CASE UNCHANGED vars
  BY <1>6 DEF vars, history
<1> QED
  BY <1>1, <1>2, <1>3, <1>4, <1>5, <1>6 DEF Next

LEMMA Inductive == Spec => [](late \/ IInv)
<1>1. Init => late \/ IInv
  BY InitIInv
<1>2. (late \/ IInv) /\ [Next]_vars => (late \/ IInv)'
  BY NextIInv, LateStays
<1> QED
  BY <1>1, <1>2, PTL DEF Spec

LEMMA IInvImplies == IInv => PoolInv
<1> SUFFICES ASSUME IInv PROVE PoolInv
  OBVIOUS
<1>1. TypeOK /\ ActiveExact
  BY DEF IInv
<1>2. ASSUME NEW f \in Threads
      PROVE  /\ Scheduled(f) => state[f] = "free" /\ at[f] = "thunk"
             /\ \A w \in Workers : InCode(w) /\ cur[w] = f => state[f] = "running" /\ at[f] = w
             /\ state[f] = "running" => \E w \in Workers : InCode(w) /\ cur[w] = f
             /\ tpc[f] = "racket" => state[f] = "free" /\ at[f] = "racket"
             /\ stop[f] /\ whom # f => ~Scheduled(f) /\ state[f] # "running" /\ at[f] \notin Workers
  <2>1. FutureOK(f) /\ StopOK(f) /\ \A w \in Workers : WorkerOK(w)
    BY IInvParts
  <2>2. \A w \in Workers : InCode(w) /\ cur[w] = f => state[f] = "running" /\ at[f] = w
    BY <2>1 DEF WorkerOK
  <2> QED
    BY <2>1, <2>2 DEF FutureOK, StopOK
<1>3. OneRunner /\ StopHolds
  BY <1>2 DEF OneRunner, StopHolds
<1> QED
  BY <1>1, <1>3 DEF PoolInv

\* However many workers and threads there are, as long as no engine timer has gone
\* off in a future that had suspended already (late): a future is in one OS thread
\* at a time, or saved and queued (schedule-future! and run-future, future.rkt); the
\* future of a thread that has been suspended or killed is in no queue and runs
\* nowhere once future-external-stop has returned; and place-active-parallel counts
\* the futures that are queued or with a worker.
THEOREM OneAtATime == Spec => []PoolInv
<1>1. late => PoolInv
  BY DEF PoolInv
<1> QED
  BY <1>1, Inductive, IInvImplies, PTL
-----------------------------------------------------------------------------
(* The units of an fsemaphore, whatever the timers do. *)

Labels == Steps \cup {"reswitch", "raise", "hung"}

UnitsInv ==
    /\ c \in Nat /\ posted \in Nat /\ granted \in Nat
    /\ wpc \in [Workers -> Labels] /\ FsemaOK

\* A step that keeps the fsemaphore as it is, in which no worker comes to it.
LEMMA AsideStep ==
    ASSUME UnitsInv, UNCHANGED <<fsema, posted, granted>>,
           \/ wpc' = wpc
           \/ \E w \in Workers, l \in Labels \ {"wait", "post"} : wpc' = [wpc EXCEPT ![w] = l]
    PROVE  UnitsInv'
<1>1. c' = c /\ waiting' = waiting /\ fslock' = fslock /\ posted' = posted /\ granted' = granted
  BY DEF fsema
<1>2. wpc' \in [Workers -> Labels] /\ \A v \in Workers : wpc'[v] \in {"wait", "post"} => wpc'[v] = wpc[v]
  BY DEF UnitsInv
<1> QED
  BY <1>1, <1>2 DEF UnitsInv, FsemaOK, UnitsConserved

LEMMA WorkerAside ==
    ASSUME UnitsInv, NEW w \in Workers,
           \/ Loop(w) \/ Claim(w) \/ Run(w) \/ StopRun(w) \/ RoundRobin(w) \/ Switch(w) \/ Raise(w)
           \/ Wake(w) \/ Left(w) \/ Suspends(w) \/ Block(w) \/ Finish(w)
    PROVE  UnitsInv'
<1>1. UNCHANGED <<fsema, posted, granted>>
  BY DEF Loop, Claim, Run, StopRun, RoundRobin, Switch, Raise, Wake, Left, Suspends, Block, Finish, history
<1>2. \E l \in Labels \ {"wait", "post"} : wpc' = [wpc EXCEPT ![w] = l]
  <2>1. CASE Loop(w) \/ Claim(w) \/ Run(w)
    BY <2>1 DEF Loop, Claim, Run, Goto, Labels, Steps
  <2>2. CASE StopRun(w) \/ Switch(w) \/ Block(w) \/ Suspends(w)
    BY <2>2 DEF StopRun, Switch, Block, Suspends, SwapsOut, Labels, Steps
  <2>3. CASE RoundRobin(w) \/ Raise(w) \/ Wake(w) \/ Finish(w) \/ Left(w)
    BY <2>3 DEF RoundRobin, Raise, Wake, Finish, Left, Goto, Labels, Steps
  <2> QED
    BY <2>1, <2>2, <2>3
<1> QED
  BY <1>1, <1>2, AsideStep

LEMMA PlaceAside ==
    ASSUME UnitsInv,
           \/ RunCallbacks \/ PlaceWakes \/ StopWakes
           \/ \E f \in Threads : Stops(f) \/ Racket(f) \/ Suspend(f) \/ Kill(f) \/ Resume(f)
    PROVE  UnitsInv'
<1>1. UNCHANGED <<fsema, posted, granted>> /\ wpc' = wpc
  BY DEF RunCallbacks, PlaceWakes, StopWakes, Stops, Racket, TouchBlocked, Unblock, Ends, Dies,
         Suspend, Kill, Resume, workers, history
<1> QED
  BY <1>1, AsideStep

LEMMA UnitsTaken ==
    ASSUME UnitsInv, NEW w \in Workers, WaitTakes(w)
    PROVE  UnitsInv'
<1>1. /\ fslock = NoOne /\ c > 0 /\ c' = c - 1 /\ granted' = granted + 1 /\ posted' = posted
      /\ waiting' = waiting /\ fslock' = fslock /\ wpc' = wpc
  BY DEF WaitTakes, workers
<1>2. \A v \in Workers : wpc[v] \notin {"wait", "post"}
  BY <1>1, PoolAssumption DEF UnitsInv, FsemaOK
<1> QED
  BY <1>1, <1>2 DEF UnitsInv, FsemaOK, UnitsConserved

\* The fsemaphore's lock is free when it is taken, and c is zero for who then waits.
LEMMA UnitsLocked ==
    ASSUME UnitsInv,
           MainPosts \/ \E w \in Workers : WaitLocks(w) \/ PostLocks(w)
    PROVE  UnitsInv'
<1>1. /\ fslock = NoOne /\ c' = c /\ granted' = granted /\ posted' = posted /\ waiting' = waiting
  BY DEF MainPosts, WaitLocks, PostLocks, history
<1>2. \A v \in Workers : wpc[v] \notin {"wait", "post"}
  BY <1>1, PoolAssumption DEF UnitsInv, FsemaOK
<1>3. \/ wpc' = wpc
      \/ \E w \in Workers : /\ fslock' = w
                             /\ \/ wpc' = [wpc EXCEPT ![w] = "wait"] /\ c = 0
                                \/ wpc' = [wpc EXCEPT ![w] = "post"]
  BY DEF MainPosts, WaitLocks, PostLocks, Goto, workers
<1>4. wpc' \in [Workers -> Labels]
  BY <1>3 DEF UnitsInv, Labels, Steps
<1> QED
  BY <1>1, <1>2, <1>3, <1>4 DEF UnitsInv, FsemaOK, UnitsConserved

LEMMA UnitsJoined ==
    ASSUME UnitsInv, NEW w \in Workers, WaitJoins(w)
    PROVE  UnitsInv'
<1>1. /\ wpc[w] = "wait" /\ c' = c /\ granted' = granted /\ posted' = posted
      /\ wpc' = [wpc EXCEPT ![w] = "suspend"]
  BY DEF WaitJoins, Goto, history
<1>2. c = 0 /\ \A v \in Workers : v # w => wpc[v] \notin {"wait", "post"}
  BY <1>1 DEF UnitsInv, FsemaOK
<1>3. wpc' \in [Workers -> Labels] /\ \A v \in Workers : wpc'[v] \notin {"wait", "post"}
  BY <1>1, <1>2 DEF UnitsInv, Labels, Steps
<1> QED
  BY <1>1, <1>2, <1>3 DEF UnitsInv, FsemaOK, UnitsConserved

LEMMA UnitsPosted ==
    ASSUME UnitsInv, NEW a \in Workers \cup {Place}, PostCounts(a) \/ PostNotifies(a)
    PROVE  UnitsInv'
<1>1. fslock = a /\ \A v \in Workers : v # a => wpc[v] \notin {"wait", "post"}
  BY DEF UnitsInv, FsemaOK, PostCounts, PostNotifies
<1>2. ASSUME PostReturns(a)
      PROVE  wpc' \in [Workers -> Labels] /\ \A v \in Workers : wpc'[v] \notin {"wait", "post"}
  <2>1. CASE a = Place
    BY <1>1, <1>2, <2>1, PoolAssumption DEF PostReturns, workers, UnitsInv
  <2>2. CASE a # Place
    BY <1>1, <1>2, <2>2 DEF PostReturns, Goto, UnitsInv, Labels, Steps
  <2> QED
    BY <2>1, <2>2
<1>3. CASE PostCounts(a)
  <2>1. /\ PostReturns(a) /\ c' = c + 1 /\ posted' = posted + 1 /\ granted' = granted
        /\ waiting' = waiting /\ (c > 0 \/ waiting = << >>)
    BY <1>3 DEF PostCounts
  <2> QED
    BY <1>2, <2>1 DEF UnitsInv, FsemaOK, UnitsConserved
<1>4. CASE PostNotifies(a)
  <2>1. c = 0 /\ c' = c
    BY <1>4 DEF PostNotifies
  <2>2. \/ /\ PostReturns(a) /\ posted' = posted + 1 /\ granted' = granted + 1
        \/ /\ fslock' = fslock /\ posted' = posted /\ granted' = granted /\ wpc' = wpc
    BY <1>4 DEF PostNotifies, history, workers
  <2>3. CASE PostReturns(a) /\ posted' = posted + 1 /\ granted' = granted + 1
    BY <1>2, <2>1, <2>3 DEF UnitsInv, FsemaOK, UnitsConserved
  <2>4. CASE fslock' = fslock /\ posted' = posted /\ granted' = granted /\ wpc' = wpc
    BY <2>1, <2>4 DEF UnitsInv, FsemaOK, UnitsConserved
  <2> QED
    BY <2>2, <2>3, <2>4
<1> QED
  BY <1>3, <1>4

\* fsemaphore-post and fsemaphore-wait lose no unit and make none, whatever stops,
\* kills and resumptions of the threads in line come between (fsemaphore.rkt), and
\* whether or not a timer is late.
THEOREM NoUnitLost == Spec => []UnitsConserved
<1>1. Init => UnitsInv
  BY DEF Init, UnitsInv, FsemaOK, UnitsConserved, Labels, Steps
<1>2. ASSUME UnitsInv, [Next]_vars PROVE UnitsInv'
  <2>1. CASE Next
    <3>1. ASSUME NEW w \in Workers, Obliged(w) \/ Chosen(w) PROVE UnitsInv'
      BY <1>2, <3>1, WorkerAside, UnitsTaken, UnitsLocked, UnitsJoined, UnitsPosted DEF Obliged, Chosen
    <3>2. CASE PlaceObliged \/ MainPosts
      BY <1>2, <3>2, PlaceAside, UnitsLocked, UnitsPosted DEF PlaceObliged
    <3>3. ASSUME NEW f \in Threads, Racket(f) \/ Suspend(f) \/ Kill(f) \/ Resume(f) PROVE UnitsInv'
      BY <1>2, <3>3, PlaceAside
    <3> QED
      BY <2>1, <3>1, <3>2, <3>3 DEF Next
  <2>2. CASE UNCHANGED vars
    BY <1>2, <2>2, AsideStep DEF vars, history, workers
  <2> QED
    BY <1>2, <2>1, <2>2
<1>3. UnitsInv => UnitsConserved
  BY DEF UnitsInv, FsemaOK
<1> QED
  BY <1>1, <1>2, <1>3, PTL DEF Spec
=============================================================================
