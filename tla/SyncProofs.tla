----------------------------- MODULE SyncProofs -----------------------------
(***************************************************************************)
(* Proofs about module Sync, for every set of threads and semaphores,      *)
(* every choice of events, break modes and timeouts, and every set of      *)
(* disturbances the statement does not exclude.                            *)
(***************************************************************************)
EXTENDS Sync, FiniteSetTheorems, TLAPS

In(q, e) == \E i \in 1..Len(q) : q[i] = e
Once(q)  == \A i, j \in 1..Len(q) : q[i] = q[j] => i = j

Positions == Nat \ {0}
Entry     == Threads \X Positions

\* TypeOK, with what the variables are functions on.
Typed ==
    /\ value \in [Semas -> Nat \cup {Inf}]
    /\ line \in [Semas -> Seq(Entry)]
    /\ posts \in [Semas -> 0..MaxPosts]
    /\ evts \in [Threads -> Seq(Events)]
    /\ DOMAIN stage = Threads
    /\ DOMAIN selected = Threads
    /\ DOMAIN interrupted = Threads
    /\ DOMAIN nacked = Threads
    /\ DOMAIN at = Threads
    /\ pc \in [Threads -> Pcs]
    /\ outcome \in [Threads -> {"none", "selected", "timeout", "break"}]

TypedSets ==
    /\ polled \subseteq Threads /\ needRetry \subseteq Threads /\ wakeup \subseteq Threads
    /\ descheduled \subseteq Threads /\ callback \subseteq Threads /\ retry \subseteq Threads
    /\ sleeping \subseteq Threads /\ expired \subseteq Threads /\ suspended \subseteq Threads
    /\ dead \subseteq Threads /\ pending \subseteq Threads /\ ignored \subseteq Threads
    /\ fault \in {"none", "dead", "scheduled", "descheduled"}

TypedThread(t) ==
    /\ stage[t] \in [Syncers(t) -> Stages]
    /\ selected[t] \in Syncers(t) \cup {NotYet, NoneSyncer}
    /\ interrupted[t] \subseteq Syncers(t)
    /\ nacked[t] \subseteq Syncers(t)
    /\ at[t] \in 1..(Len(evts[t]) + 1)

\* The syncers in line: InLineExactly without counting.
Waits(t, k) ==
    /\ stage[t][k] = "async"
    /\ k \notin interrupted[t]
    /\ selected[t] = NotYet

Lines ==
    \A s \in Semas :
        /\ Once(line[s])
        /\ \A t \in Threads, k \in Positions :
              In(line[s], <<t, k>>) <=> k \in Syncers(t) /\ SemaOf(t, k) = s /\ Waits(t, k)

\* Somebody is in line only if there is nothing to take.
LineZero == \A s \in Semas : line[s] # <<>> => value[s] = 0

\* UnitsConserved needs the takers to be finite in number.
Units ==
    \A s \in Semas :
        /\ IsFiniteSet(Takers(s))
        /\ value[s] # Inf => InitValue[s] + posts[s] = value[s] + Cardinality(Takers(s))

\* Nothing has been done for the syncers of t yet.
Fresh(t) ==
    /\ interrupted[t] = {}
    /\ \A k \in Syncers(t) : stage[t][k] = IF evts[t][k].nack THEN "guard" ELSE "sema"

\* Where a sync may be undecided, and how far its syncers are.
Control(t) ==
    /\ pc[t] \in {"fast", "wind"} => selected[t] = NotYet /\ Fresh(t)
    /\ (pc[t] = "returned" \/ t \in dead) /\ selected[t] = NotYet => Fresh(t)
    /\ pc[t] \in {"suspend", "waiting"} => \A k \in Syncers(t) : stage[t][k] = "async"
    /\ pc[t] = "call" => at[t] \in Syncers(t) /\ stage[t][at[t]] \in {"guard", "maker"}

\* A suspended thread is descheduled and out of every line; what was interrupted
\* is retried before it is polled again.
Interrupts(t) ==
    /\ t \in suspended \ dead =>
          t \in descheduled /\ (pc[t] \in BodyPcs => interrupted[t] = Syncers(t))
    /\ interrupted[t] # {} /\ selected[t] = NotYet => t \in needRetry \cup suspended
    /\ t \in sleeping => t \in descheduled \ (dead \cup suspended)

Nacks(t) ==
    /\ \A k \in nacked[t] : selected[t] \notin {NotYet, k}
    /\ selected[t] # NotYet =>
          \A k \in Syncers(t) : Registered(t, k) /\ k # selected[t] => k \in nacked[t]

\* A break ends the sync.  The break cell of sync/enable-break is ignored once there
\* is a selection, and while a break is due the sync is in no line.
EnabledBreaks(t) ==
    /\ outcome[t] = "break" => pc[t] \in {"unwind", "returned"}
    /\ Breaks[t] = "enable" =>
        /\ t \in ignored <=> selected[t] # NotYet
        /\ outcome[t] = "break" => selected[t] \in {NotYet, NoneSyncer}
        /\ /\ selected[t] = NotYet
           /\ pc[t] \in BodyPcs
           /\ t \in pending \/ outcome[t] = "break"
           => \A k \in Syncers(t) : stage[t][k] = "async" => k \in interrupted[t]

\* A wakeup callback that finds its thread descheduled was installed together
\* with the interrupt callback, unless a timeout and then a suspend came first.
Wakeups(t) ==
    /\ t \in suspended => "suspend" \in Disturb /\ t \notin callback
    /\ Timeout[t] # "finite" => t \notin sleeping /\ (t \in wakeup => t \in descheduled \cap callback)
    /\ "suspend" \notin Disturb => (t \in wakeup \cap descheduled => t \in callback)

\* No thread is suspended and killed after its finite timeout passed.
NoLateWakeup ==
    \/ "suspend" \notin Disturb
    \/ "kill" \notin Disturb
    \/ \A t \in Threads : Timeout[t] # "finite"

\* No sync goes on after it was interrupted: nobody is suspended, and a break is
\* sent only where breaks are enabled, so that it is raised.
NoRetries ==
    /\ "suspend" \notin Disturb
    /\ "break" \in Disturb => \A t \in Threads : Breaks[t] # "off"

\* A thread that sync has descheduled is undecided, in its lines, and can be woken.
Blocked(t) ==
    NoRetries =>
        /\ t \notin suspended
        /\ interrupted[t] # {} /\ selected[t] = NotYet =>
              /\ pc[t] \in BodyPcs /\ Breaks[t] # "off"
              /\ t \in pending \/ outcome[t] = "break"
        /\ t \in descheduled \ dead =>
              /\ pc[t] = "waiting" /\ selected[t] = NotYet
              /\ t \in wakeup /\ interrupted[t] = {}

Faults == NoLateWakeup => fault = "none"

ThreadInv(t) ==
    /\ TypedThread(t)
    /\ Control(t)
    /\ Interrupts(t)
    /\ Nacks(t)
    /\ EnabledBreaks(t)
    /\ Wakeups(t)
    /\ Blocked(t)

IInv ==
    /\ Typed
    /\ TypedSets
    /\ Lines
    /\ LineZero
    /\ Units
    /\ \A t \in Threads : ThreadInv(t)
    /\ Faults
-----------------------------------------------------------------------------
(* Lines. *)

\* The number of a position among the positions in I, counted from 1.
Rank(I, i) == Cardinality(I \cap (1..i))

\* Numbering the positions in I in order is one to one and exhausts 1..|I|.
LEMMA RankBijective ==
    ASSUME NEW n \in Nat, NEW I \in SUBSET (1..n)
    PROVE  /\ IsFiniteSet(I)
           /\ Cardinality(I) \in Nat
           /\ \A i \in I : Rank(I, i) \in 1..Cardinality(I)
           /\ \A i, j \in I : i < j => Rank(I, i) < Rank(I, j)
           /\ \A m \in 1..Cardinality(I) : \E i \in I : Rank(I, i) = m
<1>1. IsFiniteSet(I) /\ Cardinality(I) \in Nat
  <2>1. 1 \in Int /\ n \in Int
    OBVIOUS
  <2>2. IsFiniteSet(1..n)
    BY <2>1, FS_Interval
  <2>3. IsFiniteSet(I)
    BY <2>2, FS_Subset
  <2> QED
    BY <2>3, FS_CardinalityType
<1>2. \A i \in I : /\ IsFiniteSet(I \cap (1..i))
                   /\ Rank(I, i) \in Nat
                   /\ Rank(I, i) <= Cardinality(I)
  <2> TAKE i \in I
  <2>1. I \cap (1..i) \in SUBSET I
    OBVIOUS
  <2> QED
    BY <1>1, <2>1, FS_Subset, FS_CardinalityType DEF Rank
<1>3. \A i \in I : Rank(I, i) \in 1..Cardinality(I)
  <2> TAKE i \in I
  <2>1. i \in I \cap (1..i)
    OBVIOUS
  <2>2. Cardinality(I \cap (1..i)) # 0
    <3>1. IsFiniteSet(I \cap (1..i)) /\ I \cap (1..i) # {}
      BY <1>2, <2>1
    <3> QED
      BY ONLY <3>1, FS_EmptySet
  <2> QED
    BY <1>1, <1>2, <2>2 DEF Rank
<1>4. \A i, j \in I : i < j => Rank(I, i) < Rank(I, j)
  <2> SUFFICES ASSUME NEW i \in I, NEW j \in I, i < j
               PROVE  Rank(I, i) < Rank(I, j)
    OBVIOUS
  <2>1. I \cap (1..i) \in SUBSET (I \cap (1..j))
    OBVIOUS
  <2>2. j \in (I \cap (1..j)) /\ j \notin (I \cap (1..i))
    OBVIOUS
  <2>3. /\ Cardinality(I \cap (1..i)) <= Cardinality(I \cap (1..j))
        /\ Cardinality(I \cap (1..i)) # Cardinality(I \cap (1..j))
    BY <1>2, <2>1, <2>2, FS_Subset
  <2> QED
    BY <1>2, <2>3 DEF Rank
<1>5. \A m \in 1..Cardinality(I) : \E i \in I : Rank(I, i) = m
  <2> DEFINE r == [i \in I |-> Rank(I, i)]
  <2>1. r \in Injection(I, 1..Cardinality(I))
    <3>1. r \in [I -> 1..Cardinality(I)]
      BY <1>3
    <3>2. \A i, j \in I : i # j => r[i] # r[j]
      <4> SUFFICES ASSUME NEW i \in I, NEW j \in I, i # j
                   PROVE  Rank(I, i) # Rank(I, j)
        OBVIOUS
      <4>1. i < j \/ j < i
        OBVIOUS
      <4>2. Rank(I, i) \in Nat /\ Rank(I, j) \in Nat
        BY <1>2
      <4>3. Rank(I, i) < Rank(I, j) \/ Rank(I, j) < Rank(I, i)
        BY <1>4, <4>1
      <4> QED
        BY <4>2, <4>3
    <3> QED
      BY <3>1, <3>2 DEF Injection, IsInjective
  <2>2. IsFiniteSet(1..Cardinality(I)) /\ Cardinality(1..Cardinality(I)) = Cardinality(I)
    <3>1. 1 \in Int /\ Cardinality(I) \in Int
      BY <1>1
    <3>2. /\ IsFiniteSet(1..Cardinality(I))
          /\ Cardinality(1..Cardinality(I)) =
                IF 1 > Cardinality(I) THEN 0 ELSE Cardinality(I) - 1 + 1
      BY <3>1, FS_Interval
    <3> QED
      BY <1>1, <3>2
  <2>3. r \in Surjection(I, 1..Cardinality(I))
    BY <2>1, <2>2, FS_Injection
  <2> QED
    BY <2>3 DEF Surjection
<1> QED
  BY <1>1, <1>3, <1>4, <1>5

\* A set of positions has a first one.
LEMMA FirstPosition ==
    ASSUME NEW n \in Nat, NEW I \in SUBSET (1..n), I # {}
    PROVE  \E i \in I : \A j \in I : i <= j
<1>1. Cardinality(I) \in Nat /\ Cardinality(I) # 0
  BY RankBijective, FS_EmptySet
<1>2. PICK i \in I : Rank(I, i) = 1
  BY <1>1, RankBijective
<1>3. \A j \in I : i <= j
  <2> SUFFICES ASSUME NEW j \in I, j < i PROVE FALSE
    OBVIOUS
  <2>1. Rank(I, j) < 1 /\ Rank(I, j) \in 1..Cardinality(I)
    BY <1>2, RankBijective
  <2> QED
    BY <2>1, <1>1
<1> QED
  BY <1>3

\* Sub keeps exactly the entries at the positions given, each of them once
\* (queue-remove-node! on the others).
LEMMA SubProps ==
    ASSUME NEW S, NEW q \in Seq(S), NEW I \in SUBSET (1..Len(q))
    PROVE  /\ Sub(q, I) \in Seq(S)
           /\ \A e : In(Sub(q, I), e) <=> \E i \in I : q[i] = e
           /\ Once(q) => Once(Sub(q, I))
<1> DEFINE c == Cardinality(I)
           p == [m \in 1..c |-> CHOOSE i \in I : Cardinality(I \cap (1..i)) = m]
<1>1. /\ Len(q) \in Nat /\ c \in Nat
      /\ \A i \in I : Rank(I, i) \in 1..c
      /\ \A i, j \in I : i < j => Rank(I, i) < Rank(I, j)
      /\ \A m \in 1..c : \E i \in I : Rank(I, i) = m
  <2>1. Len(q) \in Nat
    OBVIOUS
  <2> QED
    BY <2>1, RankBijective
<1>2. \A m \in 1..c : p[m] \in I /\ Rank(I, p[m]) = m
  <2> TAKE m \in 1..c
  <2>1. \E i \in I : Cardinality(I \cap (1..i)) = m
    BY <1>1 DEF Rank
  <2> DEFINE i == CHOOSE i \in I : Cardinality(I \cap (1..i)) = m
  <2>2. i \in I /\ Cardinality(I \cap (1..i)) = m
    BY ONLY <2>1
  <2> HIDE DEF i
  <2>3. p[m] = i
    BY DEF i
  <2> QED
    BY <2>2, <2>3 DEF Rank
<1> HIDE DEF p
<1>3. \A i \in I : p[Rank(I, i)] = i
  <2> TAKE i \in I
  <2>1. Rank(I, i) \in 1..c
    BY <1>1
  <2>2. p[Rank(I, i)] \in I /\ Rank(I, p[Rank(I, i)]) = Rank(I, i)
    BY <1>2, <2>1
  <2>3. Rank(I, i) \in Int
    BY <1>1, <2>1
  <2>4. PICK j \in I : j = p[Rank(I, i)]
    BY <2>2
  <2>5. Rank(I, j) = Rank(I, i)
    BY <2>2, <2>4
  <2>6. ~(j < i) /\ ~(i < j)
    BY <1>1, <2>3, <2>5
  <2>7. j = i
    BY <2>6
  <2> QED
    BY <2>4, <2>7
<1>4. Sub(q, I) = [m \in 1..c |-> q[p[m]]]
  BY DEF Sub, p
<1> HIDE DEF c
<1>5. /\ Sub(q, I) \in Seq(S)
      /\ Len(Sub(q, I)) = c
      /\ \A m \in 1..c : Sub(q, I)[m] = q[p[m]]
  <2>1. \A m \in 1..c : q[p[m]] \in S
    <3>1. \A i \in I : q[i] \in S
      OBVIOUS
    <3> QED
      BY <1>2, <3>1
  <2> QED
    BY <1>1, <1>4, <2>1
<1>6. \A e : In(Sub(q, I), e) <=> \E i \in I : q[i] = e
  <2> TAKE e
  <2>1. In(Sub(q, I), e) => \E i \in I : q[i] = e
    BY <1>2, <1>5 DEF In
  <2>2. ASSUME NEW i \in I, q[i] = e PROVE In(Sub(q, I), e)
    <3>1. Rank(I, i) \in 1..c /\ Sub(q, I)[Rank(I, i)] = q[i]
      BY <1>1, <1>3, <1>5
    <3> QED
      BY <1>5, <2>2, <3>1 DEF In
  <2> QED
    BY <2>1, <2>2
<1>7. ASSUME Once(q) PROVE Once(Sub(q, I))
  <2> SUFFICES ASSUME NEW i \in 1..c, NEW j \in 1..c, q[p[i]] = q[p[j]] PROVE i = j
    BY <1>5 DEF Once
  <2>1. p[i] = p[j]
    BY <1>2, <1>7 DEF Once
  <2> QED
    BY <1>2, <2>1
<1> QED
  BY <1>5, <1>6, <1>7
LEMMA ConcatProps ==
    ASSUME NEW S, NEW p \in Seq(S), NEW q \in Seq(S)
    PROVE  /\ p \o q \in Seq(S)
           /\ \A e : In(p \o q, e) <=> In(p, e) \/ In(q, e)
           /\ Once(p) /\ Once(q) /\ (\A e : ~(In(p, e) /\ In(q, e))) => Once(p \o q)
<1> DEFINE r == p \o q
           m == Len(p)
           n == Len(q)
<1>1. m \in Nat /\ n \in Nat
  OBVIOUS
<1>2. /\ r \in Seq(S)
      /\ Len(r) = m + n
      /\ \A i \in 1..(m + n) : r[i] = IF i <= m THEN p[i] ELSE q[i - m]
  OBVIOUS
<1> HIDE DEF r
<1>3. \A i \in 1..m : i \in 1..(m + n) /\ r[i] = p[i]
  BY <1>1, <1>2
<1>4. \A i \in 1..n : m + i \in 1..(m + n) /\ r[m + i] = q[i]
  <2> TAKE i \in 1..n
  <2>1. m + i \in 1..(m + n) /\ ~(m + i <= m) /\ (m + i) - m = i
    BY <1>1
  <2> QED
    BY <1>2, <2>1
<1>5. \A i \in 1..(m + n) : \/ i \in 1..m /\ r[i] = p[i]
                            \/ i - m \in 1..n /\ r[i] = q[i - m]
  BY <1>1, <1>2
<1>6. \A e : In(r, e) <=> In(p, e) \/ In(q, e)
  <2> TAKE e
  <2>1. In(r, e) => In(p, e) \/ In(q, e)
    BY <1>2, <1>5 DEF In
  <2>2. In(p, e) => In(r, e)
    BY <1>2, <1>3 DEF In
  <2>3. In(q, e) => In(r, e)
    BY <1>2, <1>4 DEF In
  <2> QED
    BY <2>1, <2>2, <2>3
<1>7. ASSUME Once(p), Once(q), \A e : ~(In(p, e) /\ In(q, e))
      PROVE  Once(r)
  <2> SUFFICES ASSUME NEW i \in 1..(m + n), NEW j \in 1..(m + n), r[i] = r[j]
               PROVE  i = j
    BY <1>2 DEF Once
  <2>1. CASE i \in 1..m /\ j \in 1..m
    BY <1>3, <1>7, <2>1 DEF Once
  <2>2. CASE i - m \in 1..n /\ j - m \in 1..n
    <3>1. r[i] = q[i - m] /\ r[j] = q[j - m]
      BY <1>1, <1>2, <2>2
    <3>2. i - m = j - m
      BY <1>7, <2>2, <3>1 DEF Once
    <3> QED
      BY <1>1, <3>2
  <2>3. CASE i \in 1..m /\ j - m \in 1..n
    <3>1. r[i] = p[i] /\ r[j] = q[j - m]
      BY <1>1, <1>2, <2>3
    <3> QED
      BY <1>7, <2>3, <3>1 DEF In
  <2>4. CASE i - m \in 1..n /\ j \in 1..m
    <3>1. r[j] = p[j] /\ r[i] = q[i - m]
      BY <1>1, <1>2, <2>4
    <3> QED
      BY <1>7, <2>4, <3>1 DEF In
  <2> QED
    BY <1>5, <2>1, <2>2, <2>3, <2>4
<1> QED
  BY <1>2, <1>6, <1>7 DEF r

LEMMA AppendProps ==
    ASSUME NEW S, NEW p \in Seq(S), NEW x \in S
    PROVE  /\ Append(p, x) \in Seq(S)
           /\ \A e : In(Append(p, x), e) <=> In(p, e) \/ e = x
           /\ Once(p) /\ ~In(p, x) => Once(Append(p, x))
<1> DEFINE r == Append(p, x)
           m == Len(p)
<1>1. /\ m \in Nat
      /\ r \in Seq(S)
      /\ Len(r) = m + 1
      /\ \A i \in 1..m : r[i] = p[i]
      /\ r[m + 1] = x
  OBVIOUS
<1> HIDE DEF r
<1>2. \A i : i \in 1..(m + 1) <=> i \in 1..m \/ i = m + 1
  BY <1>1
<1>3. \A e : In(r, e) <=> In(p, e) \/ e = x
  BY <1>1, <1>2 DEF In
<1>4. ASSUME Once(p), ~In(p, x) PROVE Once(r)
  <2> SUFFICES ASSUME NEW i \in 1..(m + 1), NEW j \in 1..(m + 1), r[i] = r[j]
               PROVE  i = j
    BY <1>1 DEF Once
  <2>1. CASE i \in 1..m /\ j \in 1..m
    BY <1>1, <1>4, <2>1 DEF Once
  <2>2. CASE i = m + 1 /\ j \in 1..m
    BY <1>1, <1>4, <2>2 DEF In
  <2>3. CASE i \in 1..m /\ j = m + 1
    BY <1>1, <1>4, <2>3 DEF In
  <2> QED
    BY <1>2, <2>1, <2>2, <2>3
<1> QED
  BY <1>1, <1>3, <1>4 DEF r

\* A line that nobody is in is empty.
LEMMA EmptyLine ==
    ASSUME NEW q \in Seq(Entry)
    PROVE  q = <<>> <=> \A t \in Threads, k \in Positions : ~In(q, <<t, k>>)
<1>1. q = <<>> => \A t \in Threads, k \in Positions : ~In(q, <<t, k>>)
  BY DEF In
<1>2. ASSUME q # <<>> PROVE \E t \in Threads, k \in Positions : In(q, <<t, k>>)
  <2>1. 1 \in 1..Len(q) /\ q[1] \in Entry
    BY <1>2
  <2>2. PICK t \in Threads, k \in Positions : q[1] = <<t, k>>
    BY <2>1 DEF Entry
  <2> QED
    BY <2>1, <2>2 DEF In
<1> QED
  BY <1>1, <1>2

LEMMA WithoutProps ==
    ASSUME Typed, NEW T
    PROVE  /\ LinesWithout(T) \in [Semas -> Seq(Entry)]
           /\ \A s \in Semas :
                 /\ \A t \in Threads, k \in Positions :
                       In(LinesWithout(T)[s], <<t, k>>) <=> t \notin T /\ In(line[s], <<t, k>>)
                 /\ Once(line[s]) => Once(LinesWithout(T)[s])
<1> DEFINE I(s) == {i \in 1..Len(line[s]) : line[s][i][1] \notin T}
<1>1. \A s \in Semas : line[s] \in Seq(Entry)
  BY DEF Typed, Entry
<1>2. \A s \in Semas : LinesWithout(T)[s] = Sub(line[s], I(s))
  BY DEF LinesWithout
<1>3. DOMAIN LinesWithout(T) = Semas /\ LinesWithout(T) = [s \in Semas |-> Sub(line[s], I(s))]
  BY DEF LinesWithout
<1>4. \A s \in Semas : I(s) \in SUBSET (1..Len(line[s]))
  OBVIOUS
<1>5. \A s \in Semas :
         /\ Sub(line[s], I(s)) \in Seq(Entry)
         /\ \A e : In(Sub(line[s], I(s)), e) <=> \E i \in I(s) : line[s][i] = e
         /\ Once(line[s]) => Once(Sub(line[s], I(s)))
  <2> TAKE s \in Semas
  <2>1. line[s] \in Seq(Entry) /\ I(s) \in SUBSET (1..Len(line[s]))
    BY <1>1, <1>4
  <2> HIDE DEF I
  <2> QED
    BY <2>1, SubProps
<1> HIDE DEF I
<1>6. LinesWithout(T) \in [Semas -> Seq(Entry)]
  BY <1>3, <1>5
<1>7. ASSUME NEW s \in Semas, NEW t \in Threads, NEW k \in Positions
      PROVE  (\E i \in I(s) : line[s][i] = <<t, k>>) <=> t \notin T /\ In(line[s], <<t, k>>)
  <2>1. <<t, k>>[1] = t
    OBVIOUS
  <2>2. \A i \in 1..Len(line[s]) : line[s][i] = <<t, k>> => (i \in I(s) <=> t \notin T)
    BY <2>1 DEF I
  <2>3. I(s) \subseteq 1..Len(line[s])
    BY DEF I
  <2> QED
    BY <2>2, <2>3 DEF In
<1> QED
  BY <1>2, <1>5, <1>6, <1>7

\* What syncing-retry! makes of the lines when nothing is ready.
LEMMA RequeuedProps ==
    ASSUME Typed, Lines, NEW t \in Threads, TypedThread(t)
    PROVE  /\ Requeued(t) \in [Semas -> Seq(Entry)]
           /\ \A s \in Semas :
                 /\ \A u \in Threads, k \in Positions :
                       In(Requeued(t)[s], <<u, k>>) <=>
                           \/ In(line[s], <<u, k>>)
                           \/ /\ u = t /\ k \in interrupted[t]
                              /\ stage[t][k] = "async" /\ SemaOf(t, k) = s
                 /\ Once(Requeued(t)[s])
<1> DEFINE q == [k \in Syncers(t) |-> <<t, k>>]
           I(s) == {k \in interrupted[t] : stage[t][k] = "async" /\ SemaOf(t, k) = s}
<1>1. \A s \in Semas : line[s] \in Seq(Entry) /\ Once(line[s])
  BY DEF Typed, Entry, Lines
<1>2. /\ Len(evts[t]) \in Nat
      /\ interrupted[t] \subseteq 1..Len(evts[t])
  BY DEF Typed, TypedThread, Syncers
<1>3. /\ q \in Seq(Entry)
      /\ Len(q) = Len(evts[t])
      /\ \A k \in 1..Len(evts[t]) : q[k] = <<t, k>>
  <2>1. \A k \in 1..Len(evts[t]) : <<t, k>> \in Entry
    BY <1>2 DEF Entry, Positions
  <2> QED
    BY <1>2, <2>1 DEF Syncers
<1>4. Once(q)
  BY <1>3 DEF Once
<1>5. Requeued(t) = [s \in Semas |-> line[s] \o Sub(q, I(s))]
  BY DEF Requeued
<1> HIDE DEF q
<1>6. ASSUME NEW s \in Semas
      PROVE  /\ Sub(q, I(s)) \in Seq(Entry)
             /\ \A u \in Threads, k \in Positions :
                   In(Sub(q, I(s)), <<u, k>>) <=> u = t /\ k \in I(s)
             /\ \A e : In(Sub(q, I(s)), e) => ~In(line[s], e)
             /\ Once(Sub(q, I(s)))
  <2>1. I(s) \in SUBSET (1..Len(q))
    BY <1>2, <1>3
  <2>2. /\ Sub(q, I(s)) \in Seq(Entry)
        /\ \A e : In(Sub(q, I(s)), e) <=> \E k \in I(s) : q[k] = e
        /\ Once(Sub(q, I(s)))
    BY <1>3, <1>4, <2>1, SubProps
  <2>3. \A k \in I(s) : q[k] = <<t, k>> /\ k \in Positions
    BY <1>2, <1>3 DEF Positions
  <2>4. \A k \in I(s) : ~In(line[s], <<t, k>>)
    BY <2>3 DEF Lines, Waits
  <2> HIDE DEF I
  <2>5. \A u \in Threads, k \in Positions :
           In(Sub(q, I(s)), <<u, k>>) <=> u = t /\ k \in I(s)
    BY <2>2, <2>3
  <2>6. \A e : In(Sub(q, I(s)), e) => ~In(line[s], e)
    <3> SUFFICES ASSUME NEW e, In(Sub(q, I(s)), e) PROVE ~In(line[s], e)
      OBVIOUS
    <3>1. PICK k \in I(s) : q[k] = e
      BY <2>2
    <3>2. e = <<t, k>>
      BY <2>3, <3>1
    <3> QED
      BY <2>4, <3>2
  <2> QED
    BY <2>2, <2>5, <2>6
<1> HIDE DEF I
<1>7. ASSUME NEW s \in Semas
      PROVE  /\ line[s] \o Sub(q, I(s)) \in Seq(Entry)
             /\ \A e : In(line[s] \o Sub(q, I(s)), e) <=>
                           In(line[s], e) \/ In(Sub(q, I(s)), e)
             /\ Once(line[s] \o Sub(q, I(s)))
  <2>1. /\ line[s] \in Seq(Entry) /\ Sub(q, I(s)) \in Seq(Entry)
        /\ Once(line[s]) /\ Once(Sub(q, I(s)))
        /\ \A e : ~(In(line[s], e) /\ In(Sub(q, I(s)), e))
    BY <1>1, <1>6
  <2> QED
    BY <2>1, ConcatProps
<1>8. \A s \in Semas : Requeued(t)[s] = line[s] \o Sub(q, I(s))
  BY <1>5
<1>9. Requeued(t) \in [Semas -> Seq(Entry)]
  <2>1. \A s \in Semas : line[s] \o Sub(q, I(s)) \in Seq(Entry)
    BY <1>7
  <2> QED
    BY <1>5, <2>1, Zenon
<1>10. ASSUME NEW s \in Semas, NEW u \in Threads, NEW k \in Positions
       PROVE  In(Requeued(t)[s], <<u, k>>) <=>
                  \/ In(line[s], <<u, k>>)
                  \/ /\ u = t /\ k \in interrupted[t]
                     /\ stage[t][k] = "async" /\ SemaOf(t, k) = s
  <2>1. In(Sub(q, I(s)), <<u, k>>) <=> u = t /\ k \in I(s)
    BY <1>6
  <2>2. In(Requeued(t)[s], <<u, k>>) <=> In(line[s], <<u, k>>) \/ In(Sub(q, I(s)), <<u, k>>)
    BY <1>7, <1>8
  <2>3. k \in I(s) <=> k \in interrupted[t] /\ stage[t][k] = "async" /\ SemaOf(t, k) = s
    BY DEF I
  <2> QED
    BY <2>1, <2>2, <2>3
<1>11. \A s \in Semas : Once(Requeued(t)[s])
  BY <1>7, <1>8
<1> QED
  BY <1>9, <1>10, <1>11
-----------------------------------------------------------------------------
(* How the lines change. *)

LEMMA LinesStay ==
    ASSUME Lines, evts' = evts, line' = line,
           \A t \in Threads : \A k \in Syncers(t) : Waits(t, k)' <=> Waits(t, k)
    PROVE  Lines'
BY DEF Lines, Syncers, SemaOf

LEMMA LinesLeave ==
    ASSUME Typed, Lines, LineZero, evts' = evts, NEW T, line' = LinesWithout(T),
           \A t \in Threads : \A k \in Syncers(t) : Waits(t, k)' <=> t \notin T /\ Waits(t, k)
    PROVE  /\ Lines'
           /\ line' \in [Semas -> Seq(Entry)]
           /\ \A s \in Semas : line'[s] # <<>> => value[s] = 0
<1>1. /\ line' \in [Semas -> Seq(Entry)]
      /\ \A s \in Semas :
            /\ \A t \in Threads, k \in Positions :
                  In(line'[s], <<t, k>>) <=> t \notin T /\ In(line[s], <<t, k>>)
            /\ Once(line'[s])
  BY WithoutProps DEF Lines
<1>2. ASSUME NEW s \in Semas, NEW t \in Threads, NEW k \in Positions
      PROVE  In(line'[s], <<t, k>>) <=>
                 k \in Syncers(t)' /\ SemaOf(t, k)' = s /\ Waits(t, k)'
  <2>1. In(line'[s], <<t, k>>) <=>
            t \notin T /\ k \in Syncers(t) /\ SemaOf(t, k) = s /\ Waits(t, k)
    BY <1>1 DEF Lines
  <2>2. Syncers(t)' = Syncers(t) /\ SemaOf(t, k)' = SemaOf(t, k)
    BY DEF Syncers, SemaOf
  <2> QED
    BY <2>1, <2>2
<1>3. Lines'
  BY <1>1, <1>2 DEF Lines
<1>4. ASSUME NEW s \in Semas, line'[s] # <<>> PROVE value[s] = 0
  <2>1. line'[s] \in Seq(Entry) /\ line[s] \in Seq(Entry)
    BY <1>1 DEF Typed
  <2>2. PICK t \in Threads, k \in Positions : In(line'[s], <<t, k>>)
    BY <1>4, <2>1, EmptyLine
  <2>3. In(line[s], <<t, k>>)
    BY <1>1, <2>2
  <2>4. line[s] # <<>>
    BY <2>1, <2>3, EmptyLine
  <2> QED
    BY <2>4 DEF LineZero
<1> QED
  BY <1>1, <1>3, <1>4

\* After syncing-retry! without success.
LEMMA LinesRequeue ==
    ASSUME Typed, Lines, LineZero, evts' = evts, NEW t \in Threads, TypedThread(t),
           selected[t] = NotYet, RetryReady(t) = {}
    PROVE  /\ Requeued(t) \in [Semas -> Seq(Entry)]
           /\ \A s \in Semas :
                 /\ Once(Requeued(t)[s])
                 /\ \A u \in Threads, k \in Positions :
                       In(Requeued(t)[s], <<u, k>>) <=>
                           /\ k \in Syncers(u) /\ SemaOf(u, k) = s
                           /\ stage[u][k] = "async" /\ selected[u] = NotYet
                           /\ u = t \/ k \notin interrupted[u]
                 /\ Requeued(t)[s] # <<>> => value[s] = 0
<1>1. /\ Requeued(t) \in [Semas -> Seq(Entry)]
      /\ \A s \in Semas :
            /\ \A u \in Threads, k \in Positions :
                  In(Requeued(t)[s], <<u, k>>) <=>
                      \/ In(line[s], <<u, k>>)
                      \/ /\ u = t /\ k \in interrupted[t]
                         /\ stage[t][k] = "async" /\ SemaOf(t, k) = s
            /\ Once(Requeued(t)[s])
  BY RequeuedProps
<1>2. interrupted[t] \subseteq Syncers(t)
  BY DEF TypedThread
<1>3. ASSUME NEW s \in Semas, NEW u \in Threads, NEW k \in Positions
      PROVE  In(Requeued(t)[s], <<u, k>>) <=>
                 /\ k \in Syncers(u) /\ SemaOf(u, k) = s
                 /\ stage[u][k] = "async" /\ selected[u] = NotYet
                 /\ u = t \/ k \notin interrupted[u]
  <2>1. In(line[s], <<u, k>>) <=> k \in Syncers(u) /\ SemaOf(u, k) = s /\ Waits(u, k)
    BY DEF Lines
  <2> QED
    BY <1>1, <1>2, <2>1 DEF Waits
<1>4. ASSUME NEW s \in Semas, Requeued(t)[s] # <<>> PROVE value[s] = 0
  <2>1. Requeued(t)[s] \in Seq(Entry) /\ line[s] \in Seq(Entry)
    BY <1>1 DEF Typed
  <2>2. PICK u \in Threads, k \in Positions : In(Requeued(t)[s], <<u, k>>)
    BY <1>4, <2>1, EmptyLine
  <2>3. CASE In(line[s], <<u, k>>)
    <3>1. line[s] # <<>>
      BY <2>1, <2>3, EmptyLine
    <3> QED
      BY <3>1 DEF LineZero
  <2>4. CASE u = t /\ k \in interrupted[t] /\ stage[t][k] = "async" /\ SemaOf(t, k) = s
    BY <2>4 DEF RetryReady, Positive
  <2> QED
    BY <1>1, <2>2, <2>3, <2>4
<1> QED
  BY <1>1, <1>3, <1>4

-----------------------------------------------------------------------------
(* What a step leaves alone. *)

SameThread(u) ==
    /\ stage'[u] = stage[u] /\ selected'[u] = selected[u]
    /\ interrupted'[u] = interrupted[u] /\ nacked'[u] = nacked[u]
    /\ pc'[u] = pc[u] /\ at'[u] = at[u] /\ outcome'[u] = outcome[u]
    /\ u \in needRetry' <=> u \in needRetry
    /\ u \in wakeup' <=> u \in wakeup
    /\ u \in descheduled' <=> u \in descheduled
    /\ u \in callback' <=> u \in callback
    /\ u \in retry' <=> u \in retry
    /\ u \in sleeping' <=> u \in sleeping
    /\ u \in suspended' <=> u \in suspended
    /\ u \in dead' <=> u \in dead
    /\ u \in pending' <=> u \in pending
    /\ u \in ignored' <=> u \in ignored

LEMMA ThreadFrame ==
    ASSUME NEW u \in Threads, ThreadInv(u), evts' = evts, SameThread(u)
    PROVE  ThreadInv(u)'
<1> USE DEF SameThread
<1>1. Syncers(u)' = Syncers(u)
  BY DEF Syncers
<1>2. TypedThread(u)'
  BY <1>1 DEF ThreadInv, TypedThread
<1>3. Control(u)'
  BY <1>1 DEF ThreadInv, Control, Fresh
<1>4. Interrupts(u)'
  BY <1>1 DEF ThreadInv, Interrupts
<1>5. Nacks(u)'
  BY <1>1 DEF ThreadInv, Nacks, Registered
<1>6. EnabledBreaks(u)'
  BY <1>1 DEF ThreadInv, EnabledBreaks
<1>7. Wakeups(u)'
  BY DEF ThreadInv, Wakeups
<1>8. Blocked(u)'
  BY DEF ThreadInv, Blocked
<1> QED
  BY <1>2, <1>3, <1>4, <1>5, <1>6, <1>7, <1>8 DEF ThreadInv

\* A step of t alone.
LEMMA OneThread ==
    ASSUME IInv, evts' = evts, NEW t \in Threads, ThreadInv(t)',
           \A u \in Threads \ {t} : SameThread(u)
    PROVE  \A u \in Threads : ThreadInv(u)'
BY ThreadFrame DEF IInv

LEMMA UnitsStay ==
    ASSUME Units, value' = value, posts' = posts, evts' = evts, selected' = selected
    PROVE  Units'
<1>1. \A s \in Semas : Takers(s)' = Takers(s)
  BY DEF Takers, SemaOf
<1> QED
  BY <1>1 DEF Units

\* A step that has nothing to do with semaphores and selections.
LEMMA SemasStay ==
    ASSUME IInv, UNCHANGED <<value, line, posts, evts, selected, interrupted>>,
           \A t \in Threads : \A k \in Syncers(t) :
              (stage'[t][k] = "async") <=> (stage[t][k] = "async")
    PROVE  Lines' /\ LineZero' /\ Units'
<1>1. Lines'
  <2>1. \A t \in Threads : \A k \in Syncers(t) : Waits(t, k)' <=> Waits(t, k)
    BY DEF Waits
  <2> QED
    BY <2>1, LinesStay DEF IInv
<1>2. LineZero'
  BY DEF IInv, LineZero
<1>3. Units'
  BY UnitsStay DEF IInv
<1> QED
  BY <1>1, <1>2, <1>3

-----------------------------------------------------------------------------
(* A running thread decides its own sync. *)

LEMMA SemaOfSyncer ==
    ASSUME Typed, NEW t \in Threads, NEW k \in Syncers(t)
    PROVE  SemaOf(t, k) \in Semas
<1>1. evts[t] \in Seq(Events) /\ k \in 1..Len(evts[t])
  BY DEF Typed, Syncers
<1>2. evts[t][k] \in Events
  BY <1>1
<1> QED
  BY <1>2 DEF SemaOf, Events

LEMMA DoneOneFacts ==
    ASSUME Typed, TypedSets, NEW t \in Threads, NEW k, t \notin descheduled, DoneOne(t, k)
    PROVE  /\ selected' = [u \in Threads |-> IF u = t THEN k ELSE selected[u]]
           /\ line' = LinesWithout({t})
           /\ nacked' = [u \in Threads |->
                            IF u = t THEN {j \in Syncers(t) : Registered(t, j) /\ j # k}
                                     ELSE nacked[u]]
           /\ ignored' = ignored \cup {u \in {t} : Breaks[u] = "enable"}
           /\ wakeup' = wakeup \ {t}
           /\ UNCHANGED <<fault, descheduled, callback, sleeping>>
<1>1. Decide({t}, [u \in {t} |-> k]) /\ WakeUp({t})
  BY DEF DoneOne, Done
<1>2. /\ line' = LinesWithout({t})
      /\ ignored' = ignored \cup {u \in {t} : Breaks[u] = "enable"}
  BY <1>1 DEF Decide, LeaveLines, IgnoreBreakCell
<1>3. selected' = [u \in Threads |-> IF u = t THEN k ELSE selected[u]]
  BY <1>1 DEF Decide
<1>4. nacked' = [u \in Threads |->
                    IF u = t THEN {j \in Syncers(t) : Registered(t, j) /\ j # k}
                             ELSE nacked[u]]
  BY <1>1 DEF Decide
<1>5. {t} \cap wakeup \cap descheduled = {}
  OBVIOUS
<1>6. /\ wakeup' = wakeup \ {t}
      /\ UNCHANGED <<fault, descheduled, callback, sleeping>>
  BY <1>1, <1>5 DEF WakeUp
<1> QED
  BY <1>2, <1>3, <1>4, <1>6

\* A unit is taken by the thread that selects the semaphore.
LEMMA UnitsTake ==
    ASSUME Typed, Units, NEW t \in Threads, NEW k \in Syncers(t), selected[t] = NotYet,
           SemaOf(t, k) \in Semas,
           selected' = [u \in Threads |-> IF u = t THEN k ELSE selected[u]],
           evts' = evts, posts' = posts, Positive(SemaOf(t, k)), Take(t, k)
    PROVE  /\ Units'
           /\ value' \in [Semas -> Nat \cup {Inf}]
           /\ \A s \in Semas : value[s] = 0 => value'[s] = 0
<1> DEFINE z == SemaOf(t, k)
           takes(s) == s = z /\ ~evts[t][k].peek
<1>1. k \in Int /\ k > 0
  BY DEF Syncers, Typed
<1>2. \A s \in Semas : value[s] \in Nat \cup {Inf}
  BY DEF Typed
<1>3. Inf \notin Int
  BY SyncAssumption
<1>4. \A s \in Semas : /\ value[s] # Inf =>
                             /\ value'[s] # Inf
                             /\ value'[s] = IF takes(s) THEN value[s] - 1 ELSE value[s]
                       /\ value[s] = Inf => value'[s] = Inf
  <2> TAKE s \in Semas
  <2>1. CASE evts[t][k].peek \/ value[z] = Inf
    BY <2>1 DEF Take
  <2>2. CASE ~evts[t][k].peek /\ value[z] # Inf
    <3>1. value' = [value EXCEPT ![z] = value[z] - 1]
      BY <2>2 DEF Take
    <3>2. value[z] \in Nat /\ value[z] - 1 \in Int
      BY <1>2, <2>2
    <3>3. value'[s] = IF s = z THEN value[z] - 1 ELSE value[s]
      BY <3>1 DEF Typed
    <3> QED
      BY <1>3, <2>2, <3>2, <3>3
  <2> QED
    BY <2>1, <2>2
<1>5. \A s \in Semas : takes(s) /\ value[s] # Inf => value[s] \in Nat /\ value[s] > 0
  BY <1>2 DEF Positive
<1>6. value' \in [Semas -> Nat \cup {Inf}]
  <2>1. \A s \in Semas : value'[s] \in Nat \cup {Inf}
    BY <1>2, <1>4, <1>5
  <2>2. value' = [s \in Semas |-> value'[s]]
    BY DEF Take, Typed
  <2> QED
    BY <2>1, <2>2
<1>7. \A s \in Semas : value[s] = 0 => value'[s] = 0
  BY <1>3, <1>4, <1>5
<1>8. ASSUME NEW s \in Semas
      PROVE  /\ IsFiniteSet(Takers(s)')
             /\ value'[s] # Inf =>
                   InitValue[s] + posts'[s] = value'[s] + Cardinality(Takers(s)')
  <2>1. /\ IsFiniteSet(Takers(s))
        /\ value[s] # Inf => InitValue[s] + posts[s] = value[s] + Cardinality(Takers(s))
    BY DEF Units
  <2>2. t \notin Takers(s)
    BY DEF Takers, NotYet
  <2>3. Takers(s)' = IF takes(s) THEN Takers(s) \cup {t} ELSE Takers(s)
    BY <1>1, <2>2 DEF Takers, SemaOf
  <2>4. Cardinality(Takers(s)) \in Nat
    BY <2>1, FS_CardinalityType
  <2>5. CASE takes(s)
    <3>1. /\ IsFiniteSet(Takers(s) \cup {t})
          /\ Cardinality(Takers(s) \cup {t}) = Cardinality(Takers(s)) + 1
      BY <2>1, <2>2, FS_AddElement
    <3>2. value[s] # Inf => value[s] \in Nat /\ value'[s] = value[s] - 1
      BY <1>2, <1>4, <2>5
    <3> QED
      BY <1>4, <2>1, <2>3, <2>4, <2>5, <3>1, <3>2
  <2>6. CASE ~takes(s)
    BY <1>4, <2>1, <2>3, <2>6
  <2> QED
    BY <2>5, <2>6
<1> QED
  BY <1>6, <1>7, <1>8 DEF Units
\* A running thread that selects a syncer, or ends its sync without one: what a
\* poll, a retry, a timeout and the post thunk of the dynamic-wind have in common.
LEMMA SelfDecides ==
    ASSUME IInv, NEW t \in Threads, t \notin descheduled, t \notin dead, selected[t] = NotYet,
           NEW k \in Syncers(t) \cup {NoneSyncer}, DoneOne(t, k),
           UNCHANGED <<posts, evts, stage, at, expired, suspended, dead, pending>>,
           \/ k = NoneSyncer /\ value' = value
           \/ k \in Syncers(t) /\ Positive(SemaOf(t, k)) /\ Take(t, k),
           \A u \in Threads : interrupted'[u] \subseteq interrupted[u],
           \A u \in Threads \ {t} : interrupted'[u] = interrupted[u],
           DOMAIN interrupted' = Threads,
           needRetry \ {t} \subseteq needRetry', needRetry' \subseteq needRetry,
           retry \ {t} \subseteq retry', retry' \subseteq retry,
           polled' \subseteq Threads,
           NEW p \in {"loop", "unwind", "returned"}, pc' = [pc EXCEPT ![t] = p],
           outcome' \in [Threads -> {"none", "selected", "timeout", "break"}],
           \A u \in Threads \ {t} : outcome'[u] = outcome[u],
           outcome'[t] = "break" => p # "loop" /\ k = NoneSyncer
    PROVE  IInv'
<1>1. /\ selected' = [u \in Threads |-> IF u = t THEN k ELSE selected[u]]
      /\ line' = LinesWithout({t})
      /\ nacked' = [u \in Threads |->
                       IF u = t THEN {j \in Syncers(t) : Registered(t, j) /\ j # k}
                                ELSE nacked[u]]
      /\ ignored' = ignored \cup {u \in {t} : Breaks[u] = "enable"}
      /\ wakeup' = wakeup \ {t}
      /\ UNCHANGED <<fault, descheduled, callback, sleeping>>
  BY DoneOneFacts DEF IInv
<1>2. k # NotYet /\ k \in Int
  BY DEF Syncers, NotYet, NoneSyncer, IInv, Typed
<1>3. \A u \in Threads : Syncers(u)' = Syncers(u)
  BY DEF Syncers
<1>4. /\ Lines'
      /\ line' \in [Semas -> Seq(Entry)]
      /\ \A s \in Semas : line'[s] # <<>> => value[s] = 0
  <2>1. \A u \in Threads : \A j \in Syncers(u) : Waits(u, j)' <=> u \notin {t} /\ Waits(u, j)
    BY <1>1, <1>2 DEF Waits
  <2> QED
    BY <1>1, <2>1, LinesLeave DEF IInv
<1>5. /\ Units'
      /\ value' \in [Semas -> Nat \cup {Inf}]
      /\ \A s \in Semas : value[s] = 0 => value'[s] = 0
  <2>1. CASE k = NoneSyncer /\ value' = value
    <3>1. \A s \in Semas : Takers(s)' = Takers(s)
      BY <1>1, <2>1 DEF Takers, SemaOf, NoneSyncer, NotYet
    <3> QED
      BY <2>1, <3>1 DEF IInv, Typed, Units
  <2>2. CASE k \in Syncers(t) /\ Positive(SemaOf(t, k)) /\ Take(t, k)
    <3>1. SemaOf(t, k) \in Semas
      BY <2>2, SemaOfSyncer DEF IInv
    <3> QED
      BY <1>1, <2>2, <3>1, UnitsTake DEF IInv
  <2> QED
    BY <2>1, <2>2
<1>6. LineZero'
  BY <1>4, <1>5 DEF LineZero
<1>7. Typed'
  BY <1>1, <1>4, <1>5 DEF IInv, Typed, Pcs, BodyPcs
<1>8. TypedSets'
  BY <1>1 DEF IInv, TypedSets
<1>9. ThreadInv(t)'
  <2>0. /\ ThreadInv(t)
        /\ selected'[t] = k /\ pc'[t] = p
        /\ nacked'[t] = {j \in Syncers(t) : Registered(t, j) /\ j # k}
        /\ interrupted'[t] \subseteq interrupted[t]
        /\ t \notin suspended
    BY <1>1 DEF IInv, ThreadInv, Interrupts, Typed
  <2>1. TypedThread(t)'
    BY <1>3, <2>0 DEF ThreadInv, TypedThread
  <2>2. Control(t)'
    BY <1>2, <2>0 DEF Control
  <2>3. Interrupts(t)'
    BY <1>1, <1>2, <2>0 DEF ThreadInv, Interrupts
  <2>4. Nacks(t)'
    BY <1>2, <1>3, <2>0 DEF Nacks, Registered
  <2>5. EnabledBreaks(t)'
    BY <1>1, <1>2, <2>0 DEF EnabledBreaks
  <2>6. Wakeups(t)'
    BY <1>1, <2>0 DEF ThreadInv, Wakeups
  <2>7. Blocked(t)'
    BY <1>1, <1>2, <2>0 DEF ThreadInv, Blocked
  <2> QED
    BY <2>1, <2>2, <2>3, <2>4, <2>5, <2>6, <2>7 DEF ThreadInv
<1>10. \A u \in Threads \ {t} : SameThread(u)
  BY <1>1 DEF SameThread, IInv, Typed
<1>11. \A u \in Threads : ThreadInv(u)'
  BY <1>9, <1>10, OneThread
<1>12. Faults'
  BY <1>1 DEF IInv, Faults
<1> QED
  BY <1>4, <1>5, <1>6, <1>7, <1>8, <1>11, <1>12 DEF IInv
-----------------------------------------------------------------------------
(* A thread goes on without deciding anything. *)

LEMMA Moves ==
    ASSUME IInv, NEW t \in Threads, t \notin descheduled, t \notin dead,
           UNCHANGED <<semas, evts, stage, selected, interrupted, nacked, wakeup,
                       sched, others, ignored, fault>>,
           pc' \in [Threads -> Pcs],
           outcome' \in [Threads -> {"none", "selected", "timeout", "break"}],
           DOMAIN at' = Threads, polled' \subseteq Threads,
           \A u \in Threads \ {t} : pc'[u] = pc[u] /\ at'[u] = at[u] /\ outcome'[u] = outcome[u],
           \/ needRetry' = needRetry
           \/ /\ needRetry' = needRetry \ {t}
              /\ interrupted[t] = {} \/ selected[t] # NotYet,
           at'[t] \in 1..(Len(evts[t]) + 1), Control(t)', EnabledBreaks(t)',
           pc[t] \in BodyPcs /\ selected[t] = NotYet =>
               pc'[t] \in BodyPcs /\ outcome'[t] = outcome[t]
    PROVE  IInv'
<1>1. UNCHANGED <<value, line, posts>>
  BY DEF semas
<1>2. UNCHANGED <<descheduled, callback, retry, sleeping>>
  BY DEF sched
<1>3. UNCHANGED <<expired, suspended, dead, pending>>
  BY DEF others
<1>4. Typed'
  BY <1>1 DEF IInv, Typed
<1>5. TypedSets'
  BY <1>2, <1>3 DEF IInv, TypedSets
<1>6. Lines' /\ LineZero' /\ Units'
  BY <1>1, SemasStay
<1>7. ThreadInv(t)'
  <2>0. ThreadInv(t) /\ t \notin suspended
    BY DEF IInv, ThreadInv, Interrupts
  <2>1. TypedThread(t)'
    BY <2>0 DEF ThreadInv, TypedThread, Syncers
  <2>2. Interrupts(t)'
    BY <1>2, <1>3, <2>0 DEF ThreadInv, Interrupts
  <2>3. Nacks(t)'
    BY <2>0 DEF ThreadInv, Nacks, Syncers, Registered
  <2>4. Wakeups(t)'
    BY <1>2, <1>3, <2>0 DEF ThreadInv, Wakeups
  <2>5. Blocked(t)'
    BY <1>2, <1>3, <2>0 DEF ThreadInv, Blocked
  <2> QED
    BY <2>1, <2>2, <2>3, <2>4, <2>5 DEF ThreadInv
<1>8. \A u \in Threads \ {t} : SameThread(u)
  BY <1>2, <1>3 DEF SameThread
<1>9. \A u \in Threads : ThreadInv(u)'
  BY <1>7, <1>8, OneThread
<1>10. Faults'
  BY DEF IInv, Faults
<1> QED
  BY <1>4, <1>5, <1>6, <1>9, <1>10 DEF IInv

\* While an enabled break is due, its thread does nothing but raise it.
LEMMA NoBreakDue ==
    ASSUME IInv, NEW t \in Threads, Runs(t), Breaks[t] = "enable",
           pc[t] \in BodyPcs \ {"unwind"}, selected[t] = NotYet
    PROVE  t \notin pending /\ outcome[t] # "break"
<1>1. pc[t] \notin {"unwind", "returned"}
  BY DEF BodyPcs
<1>2. t \notin ignored /\ outcome[t] # "break"
  BY <1>1 DEF IInv, ThreadInv, EnabledBreaks
<1>3. ~BreakDue(t)
  BY DEF Runs
<1> QED
  BY <1>2, <1>3 DEF BreakDue

LEMMA RunsFacts ==
    ASSUME IInv, NEW t \in Threads, Runs(t)
    PROVE  /\ fault = "none" /\ t \notin descheduled /\ t \notin dead /\ t \notin suspended
           /\ ThreadInv(t)
           /\ pc[t] \in Pcs /\ Len(evts[t]) \in Nat /\ at[t] \in 1..(Len(evts[t]) + 1)
<1>1. ThreadInv(t) /\ t \notin descheduled /\ t \notin dead /\ fault = "none"
  BY DEF IInv, Runs
<1>2. t \notin suspended
  BY <1>1 DEF ThreadInv, Interrupts
<1>3. pc[t] \in Pcs /\ Len(evts[t]) \in Nat
  BY DEF IInv, Typed
<1>4. at[t] \in 1..(Len(evts[t]) + 1)
  BY <1>1 DEF ThreadInv, TypedThread
<1> QED
  BY <1>1, <1>2, <1>3, <1>4

\* Where a break that interrupts a sync is also raised, a sync that goes on was not
\* interrupted.
LEMMA NotInterrupted ==
    ASSUME IInv, NoRetries, NEW t \in Threads, Runs(t),
           pc[t] \in BodyPcs \ {"unwind"}, selected[t] = NotYet
    PROVE  interrupted[t] = {}
<1> SUFFICES ASSUME interrupted[t] # {} PROVE FALSE
  OBVIOUS
<1>1. ThreadInv(t) /\ ~BreakDue(t)
  BY DEF IInv, Runs
<1>2. pc[t] \notin {"unwind", "returned"}
  BY DEF BodyPcs
<1>3. outcome[t] # "break"
  BY <1>1, <1>2 DEF ThreadInv, EnabledBreaks
<1>4. t \in pending /\ Breaks[t] # "off"
  BY <1>1, <1>3 DEF ThreadInv, Blocked
<1>5. Breaks[t] = "enable" => t \notin ignored
  BY <1>1 DEF ThreadInv, EnabledBreaks
<1>6. Breaks[t] \in {"on", "off", "enable"}
  BY SyncAssumption
<1> QED
  BY <1>1, <1>3, <1>4, <1>5, <1>6 DEF BreakDue

LEMMA WindStep ==
    ASSUME IInv, NEW t \in Threads, Wind(t)
    PROVE  IInv'
<1>1. /\ pc[t] = "wind" /\ Runs(t)
      /\ pc' = [pc EXCEPT ![t] = IF Timeout[t] = "zero" THEN "poll" ELSE "loop"]
      /\ at' = [at EXCEPT ![t] = 1]
      /\ UNCHANGED <<semas, evts, syncing, polled, outcome, sched, others, ignored, fault>>
  BY DEF Wind, Goto
<1>2. /\ t \notin descheduled /\ t \notin dead
      /\ ThreadInv(t) /\ Len(evts[t]) \in Nat
  BY <1>1, RunsFacts
<1>3. UNCHANGED <<stage, selected, interrupted, needRetry, wakeup, nacked>>
  BY <1>1 DEF syncing
<1>4. pc'[t] \in {"poll", "loop"} /\ at'[t] = 1
  BY <1>1 DEF IInv, Typed
<1>5. /\ pc' \in [Threads -> Pcs]
      /\ DOMAIN at' = Threads
      /\ outcome' \in [Threads -> {"none", "selected", "timeout", "break"}]
      /\ polled' \subseteq Threads
  BY <1>1 DEF IInv, Typed, TypedSets, Pcs, BodyPcs
<1>6. \A u \in Threads \ {t} : pc'[u] = pc[u] /\ at'[u] = at[u] /\ outcome'[u] = outcome[u]
  BY <1>1 DEF IInv, Typed
<1>7. selected[t] = NotYet /\ Fresh(t)
  BY <1>1, <1>2 DEF ThreadInv, Control
<1>8. Control(t)'
  BY <1>1, <1>2, <1>3, <1>4 DEF Control, others
<1>9. EnabledBreaks(t)'
  <2>1. \A k \in Syncers(t) : stage[t][k] # "async"
    BY <1>7 DEF Fresh
  <2>2. Breaks[t] = "enable" => outcome[t] # "break"
    BY <1>1, <1>2 DEF ThreadInv, EnabledBreaks
  <2> QED
    BY <1>1, <1>2, <1>3, <1>4, <2>1, <2>2 DEF ThreadInv, EnabledBreaks, Syncers, others
<1>10. at'[t] \in 1..(Len(evts[t]) + 1)
  BY <1>2, <1>4
<1>11. pc[t] \notin BodyPcs
  BY <1>1 DEF BodyPcs
<1> QED
  BY <1>1, <1>2, <1>3, <1>5, <1>6, <1>8, <1>9, <1>10, <1>11, Moves
LEMMA FastPollStep ==
    ASSUME IInv, NEW t \in Threads, FastPoll(t)
    PROVE  IInv'
<1>1. pc[t] = "fast" /\ Runs(t) /\ UNCHANGED <<evts, polled, others>>
  BY DEF FastPoll
<1>2. /\ t \notin descheduled /\ t \notin dead
      /\ ThreadInv(t) /\ Len(evts[t]) \in Nat /\ at[t] \in 1..(Len(evts[t]) + 1)
  BY <1>1, RunsFacts
<1>3. selected[t] = NotYet /\ Fresh(t)
  BY <1>1, <1>2 DEF ThreadInv, Control
<1>4. Breaks[t] = "enable" => outcome[t] # "break"
  BY <1>1, <1>2 DEF ThreadInv, EnabledBreaks
<1>5. ASSUME UNCHANGED <<semas, syncing, sched, ignored, fault>>,
             NEW p \in {"fast", "wind", "returned"}, pc' = [pc EXCEPT ![t] = p],
             NEW o \in {outcome[t], "timeout"}, outcome' = [outcome EXCEPT ![t] = o],
             DOMAIN at' = Threads, at'[t] \in 1..(Len(evts[t]) + 1),
             \A u \in Threads \ {t} : at'[u] = at[u]
      PROVE  IInv'
  <2>1. UNCHANGED <<stage, selected, interrupted, needRetry, wakeup, nacked>>
    BY <1>5 DEF syncing
  <2>2. pc'[t] = p /\ outcome'[t] = o
    BY <1>5 DEF IInv, Typed
  <2>3. /\ pc' \in [Threads -> Pcs]
        /\ DOMAIN at' = Threads
        /\ outcome' \in [Threads -> {"none", "selected", "timeout", "break"}]
        /\ polled' \subseteq Threads
    BY <1>1, <1>5 DEF IInv, Typed, TypedSets, Pcs
  <2>4. \A u \in Threads \ {t} : pc'[u] = pc[u] /\ at'[u] = at[u] /\ outcome'[u] = outcome[u]
    BY <1>5 DEF IInv, Typed
  <2>5. Fresh(t)' /\ selected'[t] = NotYet
    BY <1>1, <1>3, <2>1 DEF Fresh, Syncers
  <2>6. Control(t)'
    BY <2>2, <2>5 DEF Control
  <2>7. EnabledBreaks(t)'
    BY <1>1, <1>2, <1>4, <1>5, <2>1, <2>2 DEF ThreadInv, EnabledBreaks, BodyPcs
  <2>8. pc[t] \notin BodyPcs
    BY <1>1 DEF BodyPcs
  <2> QED
    BY <1>1, <1>2, <1>5, <2>1, <2>2, <2>3, <2>4, <2>6, <2>7, <2>8, Moves
<1>6. pc = [pc EXCEPT ![t] = pc[t]] /\ outcome = [outcome EXCEPT ![t] = outcome[t]]
      /\ DOMAIN at = Threads
  BY DEF IInv, Typed
<1>7. CASE /\ at[t] > Len(evts[t])
           /\ IF Timeout[t] = "zero"
                THEN Goto(t, "returned") /\ outcome' = [outcome EXCEPT ![t] = "timeout"]
                ELSE Goto(t, "wind") /\ UNCHANGED outcome
           /\ UNCHANGED <<semas, syncing, sched, ignored, fault, at>>
  <2>1. CASE Timeout[t] = "zero"
    BY <1>2, <1>5, <1>6, <1>7, <2>1 DEF Goto
  <2>2. CASE Timeout[t] # "zero"
    BY <1>2, <1>5, <1>6, <1>7, <2>2 DEF Goto
  <2> QED
    BY <2>1, <2>2
<1>8. CASE /\ Goto(t, "wind")
           /\ UNCHANGED <<semas, syncing, sched, ignored, fault, at, outcome>>
  BY <1>2, <1>5, <1>6, <1>8 DEF Goto
<1>9. CASE /\ at[t] \in Syncers(t)
           /\ at' = [at EXCEPT ![t] = @ + 1]
           /\ UNCHANGED <<semas, syncing, sched, ignored, fault, pc, outcome>>
  <2>1. /\ at'[t] \in 1..(Len(evts[t]) + 1) /\ DOMAIN at' = Threads
        /\ \A u \in Threads \ {t} : at'[u] = at[u]
    BY <1>2, <1>6, <1>9 DEF Syncers
  <2>2. pc' = [pc EXCEPT ![t] = "fast"] /\ outcome' = [outcome EXCEPT ![t] = outcome[t]]
    BY <1>1, <1>6, <1>9
  <2> QED
    BY <1>5, <1>9, <2>1, <2>2
<1>10. CASE /\ at[t] \in Syncers(t)
            /\ Positive(SemaOf(t, at[t]))
            /\ Take(t, at[t])
            /\ DoneOne(t, at[t])
            /\ Goto(t, "returned")
            /\ outcome' = [outcome EXCEPT ![t] = "selected"]
            /\ UNCHANGED <<posts, stage, interrupted, needRetry, retry, at>>
  <2>1. pc' = [pc EXCEPT ![t] = "returned"]
    BY <1>10 DEF Goto
  <2>2. /\ outcome' \in [Threads -> {"none", "selected", "timeout", "break"}]
        /\ outcome'[t] # "break"
        /\ \A u \in Threads \ {t} : outcome'[u] = outcome[u]
    BY <1>10 DEF IInv, Typed
  <2>3. UNCHANGED <<expired, suspended, dead, pending>>
    BY <1>1 DEF others
  <2>4. DOMAIN interrupted' = Threads /\ polled' \subseteq Threads
    BY <1>1, <1>10 DEF IInv, Typed, TypedSets
  <2> QED
    BY <1>1, <1>2, <1>3, <1>10, <2>1, <2>2, <2>3, <2>4, SelfDecides
<1> QED
  BY <1>7, <1>8, <1>9, <1>10 DEF FastPoll

\* Goto "poll" or "suspend" in the loop; polling again after a late selection.
LEMMA LoopCheckStep ==
    ASSUME IInv, NEW t \in Threads, LoopCheck(t)
    PROVE  IInv'
<1>1. /\ pc[t] = "loop" /\ Runs(t)
      /\ UNCHANGED <<semas, evts, syncing, polled, outcome, sched, others, ignored, fault>>
  BY DEF LoopCheck
<1>2. /\ t \notin descheduled /\ t \notin dead
      /\ ThreadInv(t) /\ Len(evts[t]) \in Nat /\ at[t] \in 1..(Len(evts[t]) + 1)
  BY <1>1, RunsFacts
<1>3. UNCHANGED <<stage, selected, interrupted, needRetry, wakeup, nacked>>
  BY <1>1 DEF syncing
<1>4. \/ /\ \A k \in Syncers(t) : stage[t][k] = "async"
         /\ pc' = [pc EXCEPT ![t] = "suspend"] /\ at' = at
      \/ pc' = [pc EXCEPT ![t] = "poll"] /\ at' = [at EXCEPT ![t] = 1]
  BY DEF LoopCheck, Goto
<1>5. \/ /\ \A k \in Syncers(t) : stage[t][k] = "async"
         /\ pc'[t] = "suspend" /\ at' = at
      \/ pc'[t] = "poll" /\ at'[t] = 1
  BY <1>4 DEF IInv, Typed
<1>6. /\ pc' \in [Threads -> Pcs]
      /\ DOMAIN at' = Threads
      /\ outcome' \in [Threads -> {"none", "selected", "timeout", "break"}]
      /\ polled' \subseteq Threads
  BY <1>1, <1>4 DEF IInv, Typed, TypedSets, Pcs, BodyPcs
<1>7. \A u \in Threads \ {t} : pc'[u] = pc[u] /\ at'[u] = at[u] /\ outcome'[u] = outcome[u]
  BY <1>1, <1>4 DEF IInv, Typed
<1>8. at'[t] \in 1..(Len(evts[t]) + 1)
  BY <1>2, <1>5
<1>9. Control(t)'
  BY <1>1, <1>2, <1>3, <1>5 DEF Control, Syncers, others
<1>10. EnabledBreaks(t)'
  <2>1. Breaks[t] = "enable" /\ selected[t] = NotYet => t \notin pending /\ outcome[t] # "break"
    BY <1>1, NoBreakDue DEF BodyPcs
  <2>2. Breaks[t] = "enable" => outcome[t] # "break"
    BY <1>1, <1>2 DEF ThreadInv, EnabledBreaks
  <2> QED
    BY <1>1, <1>2, <1>3, <2>1, <2>2 DEF ThreadInv, EnabledBreaks, others
<1>11. pc'[t] \in BodyPcs /\ outcome' = outcome
  BY <1>1, <1>5 DEF BodyPcs
<1> QED
  BY <1>1, <1>2, <1>3, <1>6, <1>7, <1>8, <1>9, <1>10, <1>11, Moves

LEMMA LoopTimeoutStep ==
    ASSUME IInv, NEW t \in Threads, LoopTimeout(t)
    PROVE  IInv'
<1>1. /\ pc[t] = "loop" /\ Runs(t)
      /\ UNCHANGED <<evts, at, others>>
  BY DEF LoopTimeout
<1>2. /\ t \notin descheduled /\ t \notin dead
      /\ ThreadInv(t) /\ Len(evts[t]) \in Nat /\ at[t] \in 1..(Len(evts[t]) + 1)
  BY <1>1, RunsFacts
<1>3. CASE selected[t] # NotYet
  <2>1. /\ polled' = polled \ {t}
        /\ UNCHANGED <<semas, syncing, sched, ignored, fault, pc, outcome>>
    BY <1>3 DEF LoopTimeout
  <2>2. UNCHANGED <<stage, selected, interrupted, needRetry, wakeup, nacked>>
    BY <2>1 DEF syncing
  <2>3. /\ pc' \in [Threads -> Pcs]
        /\ DOMAIN at' = Threads
        /\ outcome' \in [Threads -> {"none", "selected", "timeout", "break"}]
        /\ polled' \subseteq Threads
    BY <1>1, <2>1 DEF IInv, Typed, TypedSets
  <2>4. Control(t)'
    BY <1>1, <1>2, <2>1, <2>2 DEF Control, others
  <2>5. EnabledBreaks(t)'
    BY <1>1, <1>2, <1>3, <2>1, <2>2 DEF ThreadInv, EnabledBreaks
  <2> QED
    BY <1>1, <1>2, <1>3, <2>1, <2>2, <2>3, <2>4, <2>5, Moves
<1>4. CASE selected[t] = NotYet
  <2>1. /\ DoneOne(t, NoneSyncer)
        /\ pc' = [pc EXCEPT ![t] = "unwind"]
        /\ outcome' = [outcome EXCEPT ![t] = "timeout"]
        /\ UNCHANGED <<value, posts, stage, interrupted, needRetry, polled, retry>>
    BY <1>4 DEF LoopTimeout, Goto
  <2>2. /\ outcome' \in [Threads -> {"none", "selected", "timeout", "break"}]
        /\ outcome'[t] # "break"
        /\ \A u \in Threads \ {t} : outcome'[u] = outcome[u]
    BY <2>1 DEF IInv, Typed
  <2>3. UNCHANGED <<expired, suspended, dead, pending>>
    BY <1>1 DEF others
  <2>4. DOMAIN interrupted' = Threads /\ polled' \subseteq Threads
    BY <2>1 DEF IInv, Typed, TypedSets
  <2> QED
    BY <1>1, <1>2, <1>4, <2>1, <2>2, <2>3, <2>4, SelfDecides
<1> QED
  BY <1>3, <1>4
\* The atomic section of suspend-syncing-thread, entered from the loop or from the
\* retry callback, there possibly after a retry that found nothing ready.
LEMMA SettleStep ==
    ASSUME IInv, NEW t \in Threads, Runs(t), pc[t] \in {"suspend", "waiting"},
           SuspendOrReturn(t, selected[t]),
           UNCHANGED <<value, posts, evts, stage, selected, nacked, at, outcome, others, ignored>>,
           retry' \subseteq retry, retry \ {t} \subseteq retry',
           \/ UNCHANGED <<line, interrupted, needRetry>>
           \/ /\ selected[t] = NotYet /\ RetryReady(t) = {}
              /\ line' = Requeued(t)
              /\ interrupted' = [interrupted EXCEPT ![t] = {}]
              /\ needRetry' = needRetry \ {t}
    PROVE  IInv'
<1>1. /\ fault = "none" /\ t \notin descheduled /\ t \notin dead /\ t \notin suspended
      /\ ThreadInv(t)
  BY RunsFacts
<1>2. UNCHANGED <<expired, suspended, dead, pending>>
  BY DEF others
<1>3. \/ /\ selected[t] # NotYet
         /\ pc' = [pc EXCEPT ![t] = "loop"]
         /\ wakeup' = wakeup \ {t}
         /\ polled' = polled \cup {t}
         /\ UNCHANGED <<descheduled, callback, sleeping, fault>>
      \/ /\ selected[t] = NotYet
         /\ pc' = [pc EXCEPT ![t] = "waiting"]
         /\ wakeup' = wakeup \cup {t}
         /\ descheduled' = descheduled \cup {t}
         /\ callback' = callback \cup {t}
         /\ sleeping' = IF Timeout[t] = "finite" THEN sleeping \cup {t} ELSE sleeping
         /\ UNCHANGED <<polled, fault>>
  BY <1>1 DEF SuspendOrReturn, Deschedule, Goto
<1>4. /\ line' \in [Semas -> Seq(Entry)] /\ Lines' /\ LineZero'
  <2>1. CASE UNCHANGED <<line, interrupted, needRetry>>
    <3>1. Lines' /\ LineZero'
      BY <2>1, SemasStay
    <3> QED
      BY <2>1, <3>1 DEF IInv, Typed
  <2>2. CASE /\ selected[t] = NotYet /\ RetryReady(t) = {}
             /\ line' = Requeued(t)
             /\ interrupted' = [interrupted EXCEPT ![t] = {}]
    <3>1. /\ line' \in [Semas -> Seq(Entry)]
          /\ \A s \in Semas :
                /\ Once(line'[s])
                /\ \A u \in Threads, k \in Positions :
                      In(line'[s], <<u, k>>) <=>
                          /\ k \in Syncers(u) /\ SemaOf(u, k) = s
                          /\ stage[u][k] = "async" /\ selected[u] = NotYet
                          /\ u = t \/ k \notin interrupted[u]
                /\ line'[s] # <<>> => value[s] = 0
      BY <1>1, <2>2, LinesRequeue DEF IInv, ThreadInv
    <3>2. \A u \in Threads, k \in Positions :
             /\ Syncers(u)' = Syncers(u) /\ SemaOf(u, k)' = SemaOf(u, k)
             /\ Waits(u, k)' <=> /\ stage[u][k] = "async" /\ selected[u] = NotYet
                                 /\ u = t \/ k \notin interrupted[u]
      BY <2>2 DEF Waits, Syncers, SemaOf, IInv, Typed
    <3>3. Lines'
      BY <3>1, <3>2 DEF Lines
    <3>4. LineZero'
      BY <3>1 DEF LineZero
    <3> QED
      BY <3>1, <3>3, <3>4
  <2> QED
    BY <2>1, <2>2
<1>5. Units'
  BY UnitsStay DEF IInv
<1>6. Typed'
  <2>1. DOMAIN interrupted' = Threads
    BY DEF IInv, Typed
  <2> QED
    BY <1>3, <1>4, <2>1 DEF IInv, Typed, Pcs, BodyPcs
<1>7. TypedSets'
  BY <1>2, <1>3 DEF IInv, TypedSets
<1>8. ThreadInv(t)'
  <2>0. /\ selected[t] # NotYet => pc'[t] = "loop"
        /\ selected[t] = NotYet => pc'[t] = "waiting"
        /\ \/ interrupted'[t] = interrupted[t] /\ (t \in needRetry' <=> t \in needRetry)
           \/ interrupted'[t] = {} /\ selected[t] = NotYet
        /\ Syncers(t)' = Syncers(t)
    BY <1>3 DEF IInv, Typed, Syncers
  <2>1. TypedThread(t)'
    BY <1>1, <2>0 DEF ThreadInv, TypedThread
  <2>2. Control(t)'
    BY <1>1, <1>2, <2>0 DEF ThreadInv, Control
  <2>3. Interrupts(t)'
    BY <1>1, <1>2, <1>3, <2>0 DEF ThreadInv, Interrupts
  <2>4. Nacks(t)'
    BY <1>1, <2>0 DEF ThreadInv, Nacks, Registered
  <2>5. EnabledBreaks(t)'
    <3>1. Breaks[t] = "enable" /\ selected[t] = NotYet => t \notin pending /\ outcome[t] # "break"
      BY NoBreakDue DEF BodyPcs
    <3>2. Breaks[t] = "enable" => outcome[t] # "break"
      BY <1>1 DEF ThreadInv, EnabledBreaks
    <3> QED
      BY <1>1, <1>2, <3>1, <3>2 DEF ThreadInv, EnabledBreaks
  <2>6. Wakeups(t)'
    BY <1>1, <1>2, <1>3 DEF ThreadInv, Wakeups
  <2>7. Blocked(t)'
    <3>1. NoRetries /\ selected[t] = NotYet => interrupted[t] = {}
      BY NotInterrupted DEF BodyPcs
    <3>2. NoRetries /\ selected[t] = NotYet => interrupted'[t] = {}
      BY <2>0, <3>1
    <3> QED
      BY <1>1, <1>2, <1>3, <2>0, <3>2 DEF ThreadInv, Blocked
  <2> QED
    BY <2>1, <2>2, <2>3, <2>4, <2>5, <2>6, <2>7 DEF ThreadInv
<1>9. \A u \in Threads \ {t} : SameThread(u)
  BY <1>2, <1>3 DEF SameThread, IInv, Typed
<1>10. \A u \in Threads : ThreadInv(u)'
  BY <1>8, <1>9, OneThread
<1>11. Faults'
  BY <1>3 DEF IInv, Faults
<1> QED
  BY <1>4, <1>5, <1>6, <1>7, <1>10, <1>11 DEF IInv

LEMMA SuspendSyncingStep ==
    ASSUME IInv, NEW t \in Threads, SuspendSyncing(t)
    PROVE  IInv'
<1>1. /\ pc[t] = "suspend" /\ Runs(t)
      /\ SuspendOrReturn(t, selected[t])
      /\ UNCHANGED <<semas, evts, stage, selected, interrupted, needRetry, nacked,
                     at, outcome, retry, others, ignored>>
  BY DEF SuspendSyncing
<1>2. UNCHANGED <<value, line, posts>>
  BY <1>1 DEF semas
<1> QED
  BY <1>1, <1>2, SettleStep

LEMMA WokenStep ==
    ASSUME IInv, NEW t \in Threads, Woken(t)
    PROVE  IInv'
<1>1. /\ pc[t] = "waiting" /\ Runs(t)
      /\ wakeup' = wakeup \ {t}
      /\ polled' = polled \cup {t}
      /\ pc' = [pc EXCEPT ![t] = "loop"]
      /\ UNCHANGED <<semas, evts, stage, selected, interrupted, needRetry, nacked,
                     at, outcome, sched, others, ignored, fault>>
  BY DEF Woken, Goto
<1>2. /\ t \notin descheduled /\ t \notin dead /\ t \notin suspended /\ ThreadInv(t)
  BY <1>1, RunsFacts
<1>3. UNCHANGED <<value, line, posts, descheduled, callback, retry, sleeping,
                  expired, suspended, dead, pending>>
  BY <1>1 DEF semas, sched, others
<1>4. pc'[t] = "loop"
  BY <1>1 DEF IInv, Typed
<1>5. Typed' /\ TypedSets'
  BY <1>1, <1>3 DEF IInv, Typed, TypedSets, Pcs, BodyPcs
<1>6. Lines' /\ LineZero' /\ Units'
  BY <1>1, <1>3, SemasStay
<1>7. ThreadInv(t)'
  <2>1. TypedThread(t)'
    BY <1>1, <1>2 DEF ThreadInv, TypedThread, Syncers
  <2>2. Control(t)'
    BY <1>2, <1>3, <1>4 DEF Control
  <2>3. Interrupts(t)'
    BY <1>1, <1>2, <1>3 DEF ThreadInv, Interrupts
  <2>4. Nacks(t)'
    BY <1>1, <1>2 DEF ThreadInv, Nacks, Registered, Syncers
  <2>5. EnabledBreaks(t)'
    <3>1. Breaks[t] = "enable" /\ selected[t] = NotYet => t \notin pending /\ outcome[t] # "break"
      BY <1>1, NoBreakDue DEF BodyPcs
    <3>2. Breaks[t] = "enable" => outcome[t] # "break"
      BY <1>1, <1>2 DEF ThreadInv, EnabledBreaks
    <3> QED
      BY <1>1, <1>2, <1>3, <3>1, <3>2 DEF ThreadInv, EnabledBreaks
  <2>6. Wakeups(t)'
    BY <1>1, <1>2, <1>3 DEF ThreadInv, Wakeups
  <2>7. Blocked(t)'
    <3>1. NoRetries /\ selected[t] = NotYet => interrupted[t] = {}
      BY <1>1, NotInterrupted DEF BodyPcs
    <3> QED
      BY <1>1, <1>2, <1>3, <3>1 DEF ThreadInv, Blocked
  <2> QED
    BY <2>1, <2>2, <2>3, <2>4, <2>5, <2>6, <2>7 DEF ThreadInv
<1>8. \A u \in Threads \ {t} : SameThread(u)
  BY <1>1, <1>3 DEF SameThread, IInv, Typed
<1>9. \A u \in Threads : ThreadInv(u)'
  BY <1>1, <1>7, <1>8, OneThread
<1>10. Faults'
  BY <1>1 DEF IInv, Faults
<1> QED
  BY <1>5, <1>6, <1>9, <1>10 DEF IInv

LEMMA RetryWaitStep ==
    ASSUME IInv, NEW t \in Threads, RetryWait(t)
    PROVE  IInv'
<1>1. /\ pc[t] = "waiting" /\ Runs(t)
      /\ retry' = retry \ {t}
      /\ UNCHANGED <<posts, evts, stage, at, outcome, others>>
  BY DEF RetryWait
<1>2. /\ t \notin descheduled /\ t \notin dead /\ ThreadInv(t)
  BY <1>1, RunsFacts
<1>3. CASE /\ selected[t] # NotYet
           /\ SuspendOrReturn(t, selected[t])
           /\ UNCHANGED <<value, line, selected, interrupted, nacked, needRetry, ignored>>
  BY <1>1, <1>3, SettleStep
<1>4. CASE /\ selected[t] = NotYet
           /\ \E k \in RetryReady(t) : RetryTakes(t, k)
           /\ needRetry' = needRetry \ {t}
           /\ Goto(t, "loop")
           /\ polled' = polled \cup {t}
  <2>1. PICK k \in RetryReady(t) : RetryTakes(t, k)
    BY <1>4
  <2>2. k \in interrupted[t] /\ k \in Syncers(t) /\ Positive(SemaOf(t, k))
    BY <1>2 DEF RetryReady, ThreadInv, TypedThread
  <2>3. /\ Take(t, k) /\ DoneOne(t, k)
        /\ interrupted' = [interrupted EXCEPT ![t] = {j \in @ : j > k}]
    BY <2>1 DEF RetryTakes
  <2>4. /\ DOMAIN interrupted' = Threads
        /\ \A u \in Threads : interrupted'[u] \subseteq interrupted[u]
        /\ \A u \in Threads \ {t} : interrupted'[u] = interrupted[u]
    BY <2>3 DEF IInv, Typed
  <2>5. outcome[t] # "break"
    BY <1>1, <1>2 DEF ThreadInv, EnabledBreaks
  <2>6. /\ outcome' \in [Threads -> {"none", "selected", "timeout", "break"}]
        /\ polled' \subseteq Threads
    BY <1>1, <1>4 DEF IInv, Typed, TypedSets
  <2>7. UNCHANGED <<expired, suspended, dead, pending>> /\ pc' = [pc EXCEPT ![t] = "loop"]
    BY <1>1, <1>4 DEF others, Goto
  <2> QED
    BY <1>1, <1>2, <1>4, <2>2, <2>3, <2>4, <2>5, <2>6, <2>7, SelfDecides
<1>5. CASE /\ selected[t] = NotYet
           /\ RetryReady(t) = {}
           /\ line' = Requeued(t)
           /\ interrupted' = [interrupted EXCEPT ![t] = {}]
           /\ needRetry' = needRetry \ {t}
           /\ SuspendOrReturn(t, NotYet)
           /\ UNCHANGED <<value, selected, nacked, ignored>>
  BY <1>1, <1>5, SettleStep
<1> QED
  BY <1>3, <1>4, <1>5 DEF RetryWait
-----------------------------------------------------------------------------
(* sync-poll. *)

\* The lines q that a poll starts from: every syncer that waits is in line,
\* after a retry if one was due.
Settled(q, t) ==
    /\ q \in [Semas -> Seq(Entry)]
    /\ \A s \in Semas :
          /\ Once(q[s])
          /\ \A u \in Threads, k \in Positions :
                In(q[s], <<u, k>>) <=>
                    /\ k \in Syncers(u) /\ SemaOf(u, k) = s
                    /\ stage[u][k] = "async" /\ selected[u] = NotYet
                    /\ u = t \/ k \notin interrupted[u]
          /\ q[s] # <<>> => value[s] = 0

LEMMA PollGoesOn ==
    ASSUME IInv, NEW t \in Threads, Runs(t), pc[t] = "poll", selected[t] = NotYet,
           UNCHANGED <<value, posts, evts, selected, nacked, wakeup, sched, others, ignored, fault>>,
           needRetry' = needRetry \ {t}, DOMAIN interrupted' = Threads, interrupted'[t] = {},
           \A u \in Threads \ {t} : interrupted'[u] = interrupted[u],
           DOMAIN stage' = Threads, stage'[t] \in [Syncers(t) -> Stages],
           \A u \in Threads \ {t} : stage'[u] = stage[u],
           DOMAIN at' = Threads, at'[t] \in 1..(Len(evts[t]) + 1),
           \A u \in Threads \ {t} : at'[u] = at[u],
           NEW p \in {"poll", "loop", "call"}, pc' = [pc EXCEPT ![t] = p],
           p = "call" => at'[t] \in Syncers(t) /\ stage'[t][at'[t]] \in {"guard", "maker"},
           polled' \subseteq Threads, outcome' = outcome,
           line' \in [Semas -> Seq(Entry)], Lines', LineZero'
    PROVE  IInv'
<1>1. /\ t \notin descheduled /\ t \notin dead /\ t \notin suspended /\ ThreadInv(t)
  BY RunsFacts
<1>2. UNCHANGED <<descheduled, callback, retry, sleeping, expired, suspended, dead, pending>>
  BY DEF sched, others
<1>3. pc'[t] = p /\ Syncers(t)' = Syncers(t)
  BY DEF IInv, Typed, Syncers
<1>4. Typed' /\ TypedSets'
  BY <1>2 DEF IInv, Typed, TypedSets, Pcs, BodyPcs
<1>5. Units'
  BY UnitsStay DEF IInv
<1>6. ThreadInv(t)'
  <2>1. TypedThread(t)'
    BY <1>1, <1>3 DEF ThreadInv, TypedThread
  <2>2. Control(t)'
    BY <1>1, <1>2, <1>3 DEF Control
  <2>3. Interrupts(t)'
    BY <1>1, <1>2 DEF ThreadInv, Interrupts
  <2>4. Nacks(t)'
    BY <1>1 DEF ThreadInv, Nacks
  <2>5. EnabledBreaks(t)'
    <3>1. Breaks[t] = "enable" => t \notin pending /\ outcome[t] # "break"
      BY NoBreakDue DEF BodyPcs
    <3> QED
      BY <1>1, <1>2, <3>1 DEF ThreadInv, EnabledBreaks
  <2>6. Wakeups(t)'
    BY <1>1, <1>2 DEF ThreadInv, Wakeups
  <2>7. Blocked(t)'
    BY <1>1, <1>2 DEF ThreadInv, Blocked
  <2> QED
    BY <2>1, <2>2, <2>3, <2>4, <2>5, <2>6, <2>7 DEF ThreadInv
<1>7. \A u \in Threads \ {t} : SameThread(u)
  BY <1>2 DEF SameThread, IInv, Typed
<1>8. \A u \in Threads : ThreadInv(u)'
  BY <1>6, <1>7, OneThread
<1>9. Faults'
  BY DEF IInv, Faults
<1> QED
  BY <1>4, <1>5, <1>8, <1>9 DEF IInv

\* The lines stay as they are after the retry.
LEMMA SettledStay ==
    ASSUME IInv, NEW t \in Threads, NEW q, Settled(q, t), line' = q,
           UNCHANGED <<value, evts, selected>>, interrupted'[t] = {},
           \A u \in Threads \ {t} : interrupted'[u] = interrupted[u],
           \A u \in Threads : \A k \in Syncers(u) :
              (stage'[u][k] = "async") <=> (stage[u][k] = "async")
    PROVE  line' \in [Semas -> Seq(Entry)] /\ Lines' /\ LineZero'
<1>1. ASSUME NEW s \in Semas, NEW u \in Threads, NEW k \in Positions
      PROVE  In(line'[s], <<u, k>>) <=>
                 k \in Syncers(u)' /\ SemaOf(u, k)' = s /\ Waits(u, k)'
  <2>1. In(line'[s], <<u, k>>) <=>
            /\ k \in Syncers(u) /\ SemaOf(u, k) = s
            /\ stage[u][k] = "async" /\ selected[u] = NotYet
            /\ u = t \/ k \notin interrupted[u]
    BY DEF Settled
  <2>2. Syncers(u)' = Syncers(u) /\ SemaOf(u, k)' = SemaOf(u, k)
    BY DEF Syncers, SemaOf
  <2>3. k \in Syncers(u) => (Waits(u, k)' <=> /\ stage[u][k] = "async" /\ selected[u] = NotYet
                                              /\ u = t \/ k \notin interrupted[u])
    BY DEF Waits
  <2> QED
    BY <2>1, <2>2, <2>3
<1>2. \A s \in Semas : Once(line'[s]) /\ (line'[s] # <<>> => value'[s] = 0)
  BY DEF Settled
<1>3. line' \in [Semas -> Seq(Entry)]
  BY DEF Settled
<1> QED
  BY <1>1, <1>2, <1>3 DEF Lines, LineZero

\* A syncer joins the line of its semaphore.
LEMMA SettledJoin ==
    ASSUME IInv, NEW t \in Threads, NEW q, Settled(q, t), NEW k \in Syncers(t),
           line' = [q EXCEPT ![SemaOf(t, k)] = Append(@, <<t, k>>)],
           UNCHANGED <<value, evts, selected>>, interrupted'[t] = {}, selected[t] = NotYet,
           \A u \in Threads \ {t} : interrupted'[u] = interrupted[u],
           stage[t][k] = "sema", stage'[t][k] = "async",
           \A u \in Threads : \A j \in Syncers(u) : ~(u = t /\ j = k) => stage'[u][j] = stage[u][j],
           ~Positive(SemaOf(t, k))
    PROVE  line' \in [Semas -> Seq(Entry)] /\ Lines' /\ LineZero'
<1>1. SemaOf(t, k) \in Semas
  BY SemaOfSyncer DEF IInv
<1>2. Waits(t, k)'
  BY DEF Waits
<1>3. ASSUME NEW s \in Semas, NEW u \in Threads, NEW j \in Positions
      PROVE  In(q[s], <<u, j>>) <=> /\ j \in Syncers(u) /\ SemaOf(u, j) = s /\ Waits(u, j)'
                                    /\ ~(u = t /\ j = k)
  <2>1. In(q[s], <<u, j>>) <=>
            /\ j \in Syncers(u) /\ SemaOf(u, j) = s
            /\ stage[u][j] = "async" /\ selected[u] = NotYet
            /\ u = t \/ j \notin interrupted[u]
    BY DEF Settled
  <2>2. j \in Syncers(u) /\ ~(u = t /\ j = k) =>
            (Waits(u, j)' <=> /\ stage[u][j] = "async" /\ selected[u] = NotYet
                              /\ u = t \/ j \notin interrupted[u])
    BY DEF Waits
  <2> QED
    BY <2>1, <2>2
<1>4. q \in [Semas -> Seq(Entry)] /\ \A s \in Semas : Once(q[s])
  BY DEF Settled
<1>5. Lines' /\ line' \in [Semas -> Seq(Entry)]
  <2> DEFINE z == SemaOf(t, k)
             e == <<t, k>>
  <2>1. k \in Positions /\ e \in Entry
    BY DEF Syncers, Positions, Entry, IInv, Typed
  <2>2. q[z] \in Seq(Entry) /\ Once(q[z]) /\ ~In(q[z], e)
    BY <1>1, <1>3, <1>4, <2>1
  <2> HIDE DEF e, z
  <2>3. /\ Append(q[z], e) \in Seq(Entry)
        /\ \A x : In(Append(q[z], e), x) <=> In(q[z], x) \/ x = e
        /\ Once(Append(q[z], e))
    BY <2>1, <2>2, AppendProps
  <2>4. \A s \in Semas : line'[s] = IF s = z THEN Append(q[z], e) ELSE q[s]
    BY <1>4 DEF e, z
  <2>5. line' \in [Semas -> Seq(Entry)]
    <3>1. line' = [q EXCEPT ![z] = Append(q[z], e)]
      BY DEF e, z
    <3> QED
      BY <1>1, <1>4, <2>3, <3>1 DEF z
  <2>6. \A s \in Semas : Once(line'[s])
    BY <1>4, <2>3, <2>4
  <2>7. ASSUME NEW s \in Semas, NEW u \in Threads, NEW j \in Positions
        PROVE  In(line'[s], <<u, j>>) <=>
                   j \in Syncers(u)' /\ SemaOf(u, j)' = s /\ Waits(u, j)'
    <3>1. In(line'[s], <<u, j>>) <=> In(q[s], <<u, j>>) \/ (s = z /\ u = t /\ j = k)
      BY <2>3, <2>4 DEF e
    <3>2. Syncers(u)' = Syncers(u) /\ SemaOf(u, j)' = SemaOf(u, j)
      BY DEF Syncers, SemaOf
    <3>3. In(q[s], <<u, j>>) <=> /\ j \in Syncers(u) /\ SemaOf(u, j) = s /\ Waits(u, j)'
                                 /\ ~(u = t /\ j = k)
      BY <1>3
    <3> QED
      BY <1>2, <3>1, <3>2, <3>3 DEF z
  <2> QED
    BY <2>5, <2>6, <2>7 DEF Lines
<1>6. ASSUME NEW s \in Semas, line'[s] # <<>> PROVE value'[s] = 0
  <2>1. CASE s = SemaOf(t, k)
    BY <2>1 DEF Positive
  <2>2. CASE s # SemaOf(t, k)
    <3>1. line'[s] = q[s]
      BY <1>4, <2>2
    <3> QED
      BY <1>6, <3>1 DEF Settled
  <2> QED
    BY <2>1, <2>2
<1> QED
  BY <1>5, <1>6 DEF LineZero
LEMMA PollSyncerStep ==
    ASSUME IInv, NEW t \in Threads, Runs(t), pc[t] = "poll", selected[t] = NotYet,
           NEW q, Settled(q, t), PollSyncer(t, q),
           UNCHANGED <<posts, evts, retry, others>>, needRetry' = needRetry \ {t},
           DOMAIN interrupted' = Threads, interrupted'[t] = {},
           \A u \in Threads \ {t} : interrupted'[u] = interrupted[u]
    PROVE  IInv'
<1> DEFINE k == at[t]
           Unselected == UNCHANGED <<value, selected, nacked, wakeup, descheduled, callback,
                                     sleeping, ignored, fault>>
<1>1. /\ t \notin descheduled /\ t \notin dead /\ ThreadInv(t)
      /\ Len(evts[t]) \in Nat /\ k \in 1..(Len(evts[t]) + 1)
  BY RunsFacts
<1>2. UNCHANGED <<expired, suspended, dead, pending>>
  BY DEF others
<1>3. /\ stage[t] \in [Syncers(t) -> Stages] /\ DOMAIN stage = Threads /\ DOMAIN at = Threads
      /\ polled \subseteq Threads
      /\ pc = [pc EXCEPT ![t] = "poll"]
  BY <1>1 DEF ThreadInv, TypedThread, IInv, Typed, TypedSets
<1>4. ASSUME Unselected PROVE
         UNCHANGED <<value, posts, evts, selected, nacked, wakeup, sched, others, ignored, fault>>
  BY <1>4 DEF sched
<1> HIDE DEF Unselected
<1>5. Unselected => UNCHANGED <<value, selected>>
  BY DEF Unselected
<1>6. ASSUME NEW j \in Syncers(t) \cup {NoneSyncer}, DoneOne(t, j),
             \/ j = NoneSyncer /\ value' = value
             \/ j \in Syncers(t) /\ Positive(SemaOf(t, j)) /\ Take(t, j),
             pc' = [pc EXCEPT ![t] = "unwind"],
             NEW o \in {"timeout", "selected"}, outcome' = [outcome EXCEPT ![t] = o],
             UNCHANGED <<stage, at, polled>>
      PROVE  IInv'
  <2>1. /\ outcome' \in [Threads -> {"none", "selected", "timeout", "break"}]
        /\ outcome'[t] # "break"
        /\ \A u \in Threads \ {t} : outcome'[u] = outcome[u]
    BY <1>6 DEF IInv, Typed
  <2>2. \A u \in Threads : interrupted'[u] \subseteq interrupted[u]
    OBVIOUS
  <2>3. polled' \subseteq Threads
    BY <1>3, <1>6
  <2> QED
    BY <1>1, <1>2, <1>6, <2>1, <2>2, <2>3, SelfDecides
<1>7. CASE /\ k > Len(evts[t])
           /\ Timeout[t] = "zero"
           /\ DoneOne(t, NoneSyncer)
           /\ Goto(t, "unwind")
           /\ outcome' = [outcome EXCEPT ![t] = "timeout"]
           /\ UNCHANGED <<value, stage, at, polled>>
  BY <1>6, <1>7 DEF Goto
<1>8. CASE /\ k \in Syncers(t)
           /\ stage[t][k] = "sema"
           /\ Positive(SemaOf(t, k))
           /\ Take(t, k)
           /\ DoneOne(t, k)
           /\ Goto(t, "unwind")
           /\ outcome' = [outcome EXCEPT ![t] = "selected"]
           /\ UNCHANGED <<stage, at, polled>>
  BY <1>6, <1>8 DEF Goto
<1>9. CASE /\ k > Len(evts[t])
           /\ Timeout[t] # "zero"
           /\ Goto(t, "loop")
           /\ polled' = polled \cup {t}
           /\ line' = q /\ Unselected
           /\ UNCHANGED <<stage, at, outcome>>
  <2>1. line' \in [Semas -> Seq(Entry)] /\ Lines' /\ LineZero'
    BY <1>5, <1>9, SettledStay
  <2>2. pc' = [pc EXCEPT ![t] = "loop"] /\ polled' \subseteq Threads
    BY <1>3, <1>9 DEF Goto
  <2> QED
    BY <1>1, <1>3, <1>4, <1>9, <2>1, <2>2, PollGoesOn
<1>10. CASE /\ k \in Syncers(t)
            /\ stage[t][k] \in {"guard", "maker"}
            /\ Goto(t, "call")
            /\ line' = q /\ Unselected
            /\ UNCHANGED <<stage, at, polled, outcome>>
  <2>1. line' \in [Semas -> Seq(Entry)] /\ Lines' /\ LineZero'
    BY <1>5, <1>10, SettledStay
  <2>2. pc' = [pc EXCEPT ![t] = "call"] /\ polled' \subseteq Threads
    BY <1>3, <1>10 DEF Goto
  <2> QED
    BY <1>1, <1>3, <1>4, <1>10, <2>1, <2>2, PollGoesOn
<1>11. CASE /\ k \in Syncers(t)
            /\ stage[t][k] = "register"
            /\ stage' = [stage EXCEPT ![t][k] = "maker"]
            /\ line' = q /\ Unselected
            /\ UNCHANGED <<pc, at, polled, outcome>>
  <2>1. /\ DOMAIN stage' = Threads
        /\ stage'[t] = [stage[t] EXCEPT ![k] = "maker"]
        /\ \A u \in Threads \ {t} : stage'[u] = stage[u]
    BY <1>3, <1>11
  <2>2. /\ stage'[t] \in [Syncers(t) -> Stages]
        /\ \A j \in Syncers(t) : stage'[t][j] = IF j = k THEN "maker" ELSE stage[t][j]
    BY <1>3, <2>1 DEF Stages
  <2>3. \A u \in Threads : \A j \in Syncers(u) :
           (stage'[u][j] = "async") <=> (stage[u][j] = "async")
    BY <1>11, <2>1, <2>2
  <2>4. line' \in [Semas -> Seq(Entry)] /\ Lines' /\ LineZero'
    BY <1>5, <1>11, <2>3, SettledStay
  <2>5. pc' = [pc EXCEPT ![t] = "poll"] /\ polled' \subseteq Threads
    BY <1>3, <1>11
  <2> QED
    BY <1>1, <1>3, <1>4, <1>11, <2>1, <2>2, <2>4, <2>5, PollGoesOn
<1>12. CASE /\ k \in Syncers(t)
            /\ stage[t][k] = "sema"
            /\ ~Positive(SemaOf(t, k))
            /\ Timeout[t] # "zero"
            /\ stage' = [stage EXCEPT ![t][k] = "async"]
            /\ line' = [q EXCEPT ![SemaOf(t, k)] = Append(@, <<t, k>>)]
            /\ Unselected
            /\ UNCHANGED <<pc, at, polled, outcome>>
  <2>1. /\ DOMAIN stage' = Threads
        /\ stage'[t] = [stage[t] EXCEPT ![k] = "async"]
        /\ \A u \in Threads \ {t} : stage'[u] = stage[u]
    BY <1>3, <1>12
  <2>2. /\ stage'[t] \in [Syncers(t) -> Stages]
        /\ \A j \in Syncers(t) : stage'[t][j] = IF j = k THEN "async" ELSE stage[t][j]
    BY <1>3, <2>1 DEF Stages
  <2>3. \A u \in Threads : \A j \in Syncers(u) :
           ~(u = t /\ j = k) => stage'[u][j] = stage[u][j]
    BY <2>1, <2>2
  <2>4. stage'[t][k] = "async"
    BY <1>12, <2>2
  <2>5. line' \in [Semas -> Seq(Entry)] /\ Lines' /\ LineZero'
    BY <1>5, <1>12, <2>3, <2>4, SettledJoin
  <2>6. pc' = [pc EXCEPT ![t] = "poll"] /\ polled' \subseteq Threads
    BY <1>3, <1>12
  <2> QED
    BY <1>1, <1>3, <1>4, <1>12, <2>1, <2>2, <2>5, <2>6, PollGoesOn
<1>13. CASE /\ k \in Syncers(t)
            /\ \/ stage[t][k] = "async"
               \/ stage[t][k] = "sema" /\ ~Positive(SemaOf(t, k)) /\ Timeout[t] = "zero"
            /\ at' = [at EXCEPT ![t] = @ + 1]
            /\ line' = q /\ Unselected
            /\ UNCHANGED <<stage, pc, polled, outcome>>
  <2>1. line' \in [Semas -> Seq(Entry)] /\ Lines' /\ LineZero'
    BY <1>5, <1>13, SettledStay
  <2>2. pc' = [pc EXCEPT ![t] = "poll"] /\ polled' \subseteq Threads
    BY <1>3, <1>13
  <2>3. /\ DOMAIN at' = Threads /\ at'[t] \in 1..(Len(evts[t]) + 1)
        /\ \A u \in Threads \ {t} : at'[u] = at[u]
    BY <1>1, <1>3, <1>13 DEF Syncers
  <2> QED
    BY <1>1, <1>3, <1>4, <1>13, <2>1, <2>2, <2>3, PollGoesOn
<1> QED
  BY <1>7, <1>8, <1>9, <1>10, <1>11, <1>12, <1>13 DEF PollSyncer, Unselected
LEMMA PollStep ==
    ASSUME IInv, NEW t \in Threads, Poll(t)
    PROVE  IInv'
<1>1. /\ pc[t] = "poll" /\ Runs(t)
      /\ needRetry' = needRetry \ {t}
      /\ UNCHANGED <<posts, evts, retry, others>>
  BY DEF Poll
<1>2. /\ t \notin descheduled /\ t \notin dead /\ t \notin suspended /\ ThreadInv(t)
      /\ Len(evts[t]) \in Nat /\ at[t] \in 1..(Len(evts[t]) + 1)
  BY <1>1, RunsFacts
<1>3. UNCHANGED <<expired, suspended, dead, pending>>
  BY <1>1 DEF others
<1>4. CASE /\ selected[t] # NotYet
           /\ Goto(t, "unwind")
           /\ outcome' = [outcome EXCEPT ![t] = "selected"]
           /\ UNCHANGED <<value, line, stage, selected, interrupted, nacked, wakeup, ignored,
                          at, polled, descheduled, callback, sleeping, fault>>
  <2>1. UNCHANGED <<semas, sched>>
    BY <1>1, <1>4 DEF semas, sched
  <2>2. pc' = [pc EXCEPT ![t] = "unwind"]
    BY <1>4 DEF Goto
  <2>3. /\ pc' \in [Threads -> Pcs] /\ pc'[t] = "unwind"
        /\ DOMAIN at' = Threads
        /\ outcome' \in [Threads -> {"none", "selected", "timeout", "break"}]
        /\ outcome'[t] = "selected"
        /\ polled' \subseteq Threads
        /\ \A u \in Threads \ {t} : pc'[u] = pc[u] /\ at'[u] = at[u] /\ outcome'[u] = outcome[u]
    BY <1>4, <2>2 DEF IInv, Typed, TypedSets, Pcs, BodyPcs
  <2>4. Control(t)'
    BY <1>2, <1>3, <2>3 DEF Control
  <2>5. EnabledBreaks(t)'
    BY <1>2, <1>3, <1>4, <2>3 DEF ThreadInv, EnabledBreaks
  <2> QED
    BY <1>1, <1>2, <1>4, <2>1, <2>3, <2>4, <2>5, Moves
<1>5. CASE /\ selected[t] = NotYet
           /\ \E k \in RetryReady(t) : RetryTakes(t, k)
           /\ Goto(t, "unwind")
           /\ outcome' = [outcome EXCEPT ![t] = "selected"]
           /\ UNCHANGED <<stage, at, polled>>
  <2>1. PICK k \in RetryReady(t) : RetryTakes(t, k)
    BY <1>5
  <2>2. k \in interrupted[t] /\ k \in Syncers(t) /\ Positive(SemaOf(t, k))
    BY <1>2 DEF RetryReady, ThreadInv, TypedThread
  <2>3. /\ Take(t, k) /\ DoneOne(t, k)
        /\ interrupted' = [interrupted EXCEPT ![t] = {j \in @ : j > k}]
    BY <2>1 DEF RetryTakes
  <2>4. /\ DOMAIN interrupted' = Threads
        /\ \A u \in Threads : interrupted'[u] \subseteq interrupted[u]
        /\ \A u \in Threads \ {t} : interrupted'[u] = interrupted[u]
    BY <2>3 DEF IInv, Typed
  <2>5. /\ outcome' \in [Threads -> {"none", "selected", "timeout", "break"}]
        /\ outcome'[t] # "break"
        /\ \A u \in Threads \ {t} : outcome'[u] = outcome[u]
        /\ polled' \subseteq Threads
    BY <1>5 DEF IInv, Typed, TypedSets
  <2>6. pc' = [pc EXCEPT ![t] = "unwind"]
    BY <1>5 DEF Goto
  <2> QED
    BY <1>1, <1>2, <1>3, <1>5, <2>2, <2>3, <2>4, <2>5, <2>6, SelfDecides
<1>6. CASE /\ selected[t] = NotYet
           /\ RetryReady(t) = {}
           /\ PollSyncer(t, Requeued(t))
           /\ interrupted' = [interrupted EXCEPT ![t] = {}]
  <2>1. Settled(Requeued(t), t)
    BY <1>1, <1>2, <1>6, LinesRequeue DEF Settled, IInv, ThreadInv
  <2>2. /\ DOMAIN interrupted' = Threads /\ interrupted'[t] = {}
        /\ \A u \in Threads \ {t} : interrupted'[u] = interrupted[u]
    BY <1>6 DEF IInv, Typed
  <2> QED
    BY <1>1, <1>6, <2>1, <2>2, PollSyncerStep
<1>7. CASE /\ selected[t] = NotYet
           /\ t \notin needRetry
           /\ PollSyncer(t, line)
           /\ UNCHANGED interrupted
  <2>1. interrupted[t] = {}
    BY <1>2, <1>7 DEF ThreadInv, Interrupts
  <2>2. Settled(line, t)
    <3>1. ASSUME NEW s \in Semas, NEW u \in Threads, NEW k \in Positions
          PROVE  In(line[s], <<u, k>>) <=>
                     /\ k \in Syncers(u) /\ SemaOf(u, k) = s
                     /\ stage[u][k] = "async" /\ selected[u] = NotYet
                     /\ u = t \/ k \notin interrupted[u]
      <4>1. In(line[s], <<u, k>>) <=> k \in Syncers(u) /\ SemaOf(u, k) = s /\ Waits(u, k)
        BY DEF IInv, Lines
      <4> QED
        BY <2>1, <4>1 DEF Waits
    <3>2. /\ line \in [Semas -> Seq(Entry)]
          /\ \A s \in Semas : Once(line[s]) /\ (line[s] # <<>> => value[s] = 0)
      BY DEF IInv, Typed, Lines, LineZero
    <3> QED
      BY <3>1, <3>2 DEF Settled
  <2>3. /\ DOMAIN interrupted' = Threads /\ interrupted'[t] = {}
        /\ \A u \in Threads \ {t} : interrupted'[u] = interrupted[u]
    BY <1>7, <2>1 DEF IInv, Typed
  <2> QED
    BY <1>1, <1>7, <2>2, <2>3, PollSyncerStep
<1> QED
  BY <1>4, <1>5, <1>6, <1>7 DEF Poll

LEMMA CallStep ==
    ASSUME IInv, NEW t \in Threads, Call(t)
    PROVE  IInv'
<1> DEFINE k == at[t]
<1>1. /\ pc[t] = "call" /\ Runs(t)
      /\ stage' = [stage EXCEPT ![t][k] = IF @ = "guard" THEN "register" ELSE "sema"]
      /\ pc' = [pc EXCEPT ![t] = "poll"]
      /\ UNCHANGED <<semas, evts, selected, interrupted, needRetry, wakeup, nacked,
                     at, polled, outcome, sched, others, ignored, fault>>
  BY DEF Call, Goto
<1>2. /\ t \notin descheduled /\ t \notin dead /\ t \notin suspended /\ ThreadInv(t)
  BY <1>1, RunsFacts
<1>3. k \in Syncers(t) /\ stage[t][k] \in {"guard", "maker"}
  BY <1>1, <1>2 DEF ThreadInv, Control
<1>4. UNCHANGED <<value, line, posts, descheduled, callback, retry, sleeping,
                  expired, suspended, dead, pending>>
  BY <1>1 DEF semas, sched, others
<1>5. stage[t] \in [Syncers(t) -> Stages] /\ DOMAIN stage = Threads
  BY <1>2 DEF ThreadInv, TypedThread, IInv, Typed
<1>6. /\ DOMAIN stage' = Threads
      /\ \A u \in Threads \ {t} : stage'[u] = stage[u]
      /\ stage'[t] = [stage[t] EXCEPT ![k] = IF stage[t][k] = "guard" THEN "register" ELSE "sema"]
  BY <1>1, <1>5
<1>7. /\ stage'[t] \in [Syncers(t) -> Stages]
      /\ \A j \in Syncers(t) : j # k => stage'[t][j] = stage[t][j]
      /\ stage'[t][k] = IF stage[t][k] = "guard" THEN "register" ELSE "sema"
  BY <1>3, <1>5, <1>6 DEF Stages
<1>8. pc'[t] = "poll" /\ Syncers(t)' = Syncers(t)
  BY <1>1 DEF IInv, Typed, Syncers
<1>9. Typed' /\ TypedSets'
  BY <1>1, <1>4, <1>6 DEF IInv, Typed, TypedSets, Pcs, BodyPcs
<1>10. Lines' /\ LineZero' /\ Units'
  <2>1. \A u \in Threads : \A j \in Syncers(u) :
           (stage'[u][j] = "async") <=> (stage[u][j] = "async")
    BY <1>3, <1>6, <1>7
  <2> QED
    BY <1>1, <1>4, <2>1, SemasStay
<1>11. ThreadInv(t)'
  <2>1. TypedThread(t)'
    BY <1>1, <1>2, <1>7, <1>8 DEF ThreadInv, TypedThread
  <2>2. Control(t)'
    BY <1>2, <1>4, <1>8 DEF Control
  <2>3. Interrupts(t)'
    BY <1>1, <1>2, <1>4, <1>8 DEF ThreadInv, Interrupts
  <2>4. Nacks(t)'
    <3>1. \A j \in Syncers(t) : Registered(t, j)' => Registered(t, j)
      BY <1>1, <1>3, <1>7 DEF Registered
    <3> QED
      BY <1>1, <1>2, <1>8, <3>1 DEF ThreadInv, Nacks
  <2>5. EnabledBreaks(t)'
    <3>1. Breaks[t] = "enable" /\ selected[t] = NotYet => t \notin pending /\ outcome[t] # "break"
      BY <1>1, NoBreakDue DEF BodyPcs
    <3>2. Breaks[t] = "enable" => outcome[t] # "break"
      BY <1>1, <1>2 DEF ThreadInv, EnabledBreaks
    <3> QED
      BY <1>1, <1>2, <1>4, <3>1, <3>2 DEF ThreadInv, EnabledBreaks
  <2>6. Wakeups(t)'
    BY <1>1, <1>2, <1>4 DEF ThreadInv, Wakeups
  <2>7. Blocked(t)'
    <3>1. NoRetries /\ selected[t] = NotYet => interrupted[t] = {}
      BY <1>1, NotInterrupted DEF BodyPcs
    <3> QED
      BY <1>1, <1>2, <1>4, <3>1 DEF ThreadInv, Blocked
  <2> QED
    BY <2>1, <2>2, <2>3, <2>4, <2>5, <2>6, <2>7 DEF ThreadInv
<1>12. \A u \in Threads \ {t} : SameThread(u)
  BY <1>1, <1>4, <1>6 DEF SameThread, IInv, Typed
<1>13. \A u \in Threads : ThreadInv(u)'
  BY <1>1, <1>11, <1>12, OneThread
<1>14. Faults'
  BY <1>1 DEF IInv, Faults
<1> QED
  BY <1>9, <1>10, <1>13, <1>14 DEF IInv

LEMMA UnwindStep ==
    ASSUME IInv, NEW t \in Threads, Unwind(t)
    PROVE  IInv'
<1>1. /\ pc[t] = "unwind" /\ Runs(t)
      /\ pc' = [pc EXCEPT ![t] = "returned"]
      /\ UNCHANGED <<value, posts, evts, stage, interrupted, needRetry, at, polled, outcome,
                     retry, others>>
  BY DEF Unwind, Goto
<1>2. /\ t \notin descheduled /\ t \notin dead /\ t \notin suspended /\ ThreadInv(t)
      /\ at[t] \in 1..(Len(evts[t]) + 1)
  BY <1>1, RunsFacts
<1>3. UNCHANGED <<expired, suspended, dead, pending>>
  BY <1>1 DEF others
<1>4. /\ outcome' \in [Threads -> {"none", "selected", "timeout", "break"}]
      /\ pc' \in [Threads -> Pcs] /\ pc'[t] = "returned"
      /\ DOMAIN interrupted' = Threads /\ DOMAIN at' = Threads /\ polled' \subseteq Threads
      /\ \A u \in Threads \ {t} : pc'[u] = pc[u]
  BY <1>1 DEF IInv, Typed, TypedSets, Pcs
<1>5. CASE selected[t] = NotYet
  <2>1. DoneOne(t, NoneSyncer)
    BY <1>5 DEF Unwind
  <2> QED
    BY <1>1, <1>2, <1>3, <1>4, <1>5, <2>1, SelfDecides
<1>6. CASE selected[t] # NotYet
  <2>1. UNCHANGED <<line, selected, nacked, wakeup, descheduled, callback, sleeping,
                    ignored, fault>>
    BY <1>6 DEF Unwind
  <2>2. UNCHANGED <<semas, sched>>
    BY <1>1, <2>1 DEF semas, sched
  <2>3. Control(t)'
    BY <1>3, <1>4, <1>6, <2>1 DEF Control
  <2>4. EnabledBreaks(t)'
    BY <1>1, <1>2, <1>3, <1>4, <1>6, <2>1 DEF ThreadInv, EnabledBreaks
  <2> QED
    BY <1>1, <1>2, <1>4, <1>6, <2>1, <2>2, <2>3, <2>4, Moves
<1> QED
  BY <1>5, <1>6
-----------------------------------------------------------------------------
(* Breaks, timers, suspends and resumes. *)

LEMMA RaiseBreakStep ==
    ASSUME IInv, NEW t \in Threads, RaiseBreak(t)
    PROVE  IInv'
<1> DEFINE p == IF pc[t] \in BodyPcs THEN "unwind" ELSE "returned"
<1>1. /\ fault = "none" /\ t \notin dead /\ t \notin descheduled /\ BreakDue(t)
      /\ pending' = pending \ {t}
      /\ outcome' = [outcome EXCEPT ![t] = "break"]
      /\ pc' = [pc EXCEPT ![t] = p]
      /\ retry' = retry \ {t}
      /\ UNCHANGED <<semas, evts, syncing, at, polled, descheduled, callback, sleeping,
                     expired, suspended, dead, ignored, fault>>
  BY DEF RaiseBreak, InSync, Goto
<1>2. UNCHANGED <<value, line, posts, stage, selected, interrupted, needRetry, wakeup, nacked>>
  BY <1>1 DEF semas, syncing
<1>3. ThreadInv(t) /\ t \notin suspended
  BY <1>1 DEF IInv, ThreadInv, Interrupts
<1>4. pc'[t] = p /\ outcome'[t] = "break" /\ p \in {"unwind", "returned"}
  BY <1>1 DEF IInv, Typed
<1>5. Typed' /\ TypedSets'
  BY <1>1, <1>2, <1>4 DEF IInv, Typed, TypedSets, Pcs, BodyPcs
<1>6. Lines' /\ LineZero' /\ Units'
  BY <1>1, <1>2, SemasStay
<1>7. ThreadInv(t)'
  <2>0. Syncers(t)' = Syncers(t)
    BY <1>1 DEF Syncers
  <2>1. TypedThread(t)'
    BY <1>1, <1>2, <1>3, <2>0 DEF ThreadInv, TypedThread
  <2>2. Control(t)'
    <3>1. pc'[t] = "returned" => pc[t] \in {"fast", "wind"} \/ pc[t] = "returned"
      BY <1>4 DEF IInv, Typed, Pcs
    <3>2. pc'[t] = "returned" /\ selected[t] = NotYet => Fresh(t)
      BY <1>3, <3>1 DEF ThreadInv, Control
    <3>3. Fresh(t)' <=> Fresh(t)
      BY <1>1, <1>2, <2>0 DEF Fresh
    <3> QED
      BY <1>1, <1>2, <1>4, <3>2, <3>3 DEF Control
  <2>3. Interrupts(t)'
    BY <1>1, <1>2, <1>3 DEF ThreadInv, Interrupts
  <2>4. Nacks(t)'
    BY <1>1, <1>2, <1>3, <2>0 DEF ThreadInv, Nacks, Registered
  <2>5. EnabledBreaks(t)'
    <3>1. Breaks[t] = "enable" =>
             /\ t \in pending /\ pc[t] \in BodyPcs /\ t \notin ignored /\ selected[t] = NotYet
             /\ \A k \in Syncers(t) : stage[t][k] = "async" => k \in interrupted[t]
      BY <1>1, <1>3 DEF BreakDue, ThreadInv, EnabledBreaks
    <3> QED
      BY <1>1, <1>2, <1>4, <2>0, <3>1 DEF EnabledBreaks
  <2>6. Wakeups(t)'
    BY <1>1, <1>2, <1>3 DEF ThreadInv, Wakeups
  <2>7. Blocked(t)'
    <3>1. pc[t] \in BodyPcs => pc'[t] \in BodyPcs
      BY <1>4 DEF BodyPcs
    <3> QED
      BY <1>1, <1>2, <1>3, <1>4, <3>1 DEF ThreadInv, Blocked
  <2> QED
    BY <2>1, <2>2, <2>3, <2>4, <2>5, <2>6, <2>7 DEF ThreadInv
<1>8. \A u \in Threads \ {t} : SameThread(u)
  BY <1>1, <1>2 DEF SameThread, IInv, Typed
<1>9. \A u \in Threads : ThreadInv(u)'
  BY <1>1, <1>7, <1>8, OneThread
<1>10. Faults'
  BY <1>1 DEF IInv, Faults
<1> QED
  BY <1>5, <1>6, <1>9, <1>10 DEF IInv

LEMMA ExpireStep ==
    ASSUME IInv, NEW t \in Threads, Expire(t)
    PROVE  IInv'
<1>1. /\ expired' = expired \cup {t}
      /\ UNCHANGED <<semas, evts, syncing, locals, sched, suspended, dead, pending,
                     ignored, fault>>
  BY DEF Expire
<1>2. UNCHANGED <<value, line, posts, stage, selected, interrupted, needRetry, wakeup, nacked,
                  pc, at, polled, outcome, descheduled, callback, retry, sleeping>>
  BY <1>1 DEF semas, syncing, locals, sched
<1>3. Typed' /\ TypedSets'
  BY <1>1, <1>2 DEF IInv, Typed, TypedSets
<1>4. Lines' /\ LineZero' /\ Units'
  BY <1>1, <1>2, SemasStay
<1>5. \A u \in Threads : SameThread(u)
  BY <1>1, <1>2 DEF SameThread
<1>6. \A u \in Threads : ThreadInv(u)'
  BY <1>1, <1>5, ThreadFrame DEF IInv
<1>7. Faults'
  BY <1>1 DEF IInv, Faults
<1> QED
  BY <1>3, <1>4, <1>6, <1>7 DEF IInv

LEMMA TimerWakesStep ==
    ASSUME IInv, NEW t \in Threads, TimerWakes(t)
    PROVE  IInv'
<1>1. /\ t \in sleeping
      /\ fault' = IF t \in dead THEN "dead"
                  ELSE IF t \notin descheduled THEN "scheduled" ELSE fault
      /\ descheduled' = descheduled \ {t}
      /\ callback' = callback \ {t}
      /\ sleeping' = sleeping \ {t}
      /\ UNCHANGED <<semas, evts, syncing, locals, retry, others, ignored>>
  BY DEF TimerWakes
<1>2. UNCHANGED <<value, line, posts, stage, selected, interrupted, needRetry, wakeup, nacked,
                  pc, at, polled, outcome, expired, suspended, dead, pending>>
  BY <1>1 DEF semas, syncing, locals, others
<1>3. /\ ThreadInv(t)
      /\ t \in descheduled /\ t \notin dead /\ t \notin suspended /\ Timeout[t] = "finite"
  BY <1>1 DEF IInv, ThreadInv, Interrupts, Wakeups
<1>4. fault' = fault
  BY <1>1, <1>3
<1>5. Typed' /\ TypedSets'
  BY <1>1, <1>2, <1>4 DEF IInv, Typed, TypedSets
<1>6. Lines' /\ LineZero' /\ Units'
  BY <1>1, <1>2, SemasStay
<1>7. ThreadInv(t)'
  <2>0. Syncers(t)' = Syncers(t)
    BY <1>1 DEF Syncers
  <2>1. TypedThread(t)'
    BY <1>1, <1>2, <1>3, <2>0 DEF ThreadInv, TypedThread
  <2>2. Control(t)'
    BY <1>1, <1>2, <1>3, <2>0 DEF ThreadInv, Control, Fresh
  <2>3. Interrupts(t)'
    BY <1>1, <1>2, <1>3, <2>0 DEF ThreadInv, Interrupts
  <2>4. Nacks(t)'
    BY <1>1, <1>2, <1>3, <2>0 DEF ThreadInv, Nacks, Registered
  <2>5. EnabledBreaks(t)'
    BY <1>1, <1>2, <1>3, <2>0 DEF ThreadInv, EnabledBreaks
  <2>6. Wakeups(t)'
    BY <1>1, <1>2, <1>3 DEF ThreadInv, Wakeups
  <2>7. Blocked(t)'
    BY <1>1, <1>2, <1>3 DEF ThreadInv, Blocked
  <2> QED
    BY <2>1, <2>2, <2>3, <2>4, <2>5, <2>6, <2>7 DEF ThreadInv
<1>8. \A u \in Threads \ {t} : SameThread(u)
  BY <1>1, <1>2 DEF SameThread
<1>9. \A u \in Threads : ThreadInv(u)'
  BY <1>1, <1>7, <1>8, OneThread
<1>10. Faults'
  BY <1>4 DEF IInv, Faults
<1> QED
  BY <1>5, <1>6, <1>9, <1>10 DEF IInv

\* syncing-interrupt! takes a thread out of every line.
LEMMA InterruptFacts ==
    ASSUME IInv, NEW t \in Threads, SyncingInterrupt(t), UNCHANGED <<value, posts, evts, stage, selected>>
    PROVE  /\ line' \in [Semas -> Seq(Entry)] /\ Lines' /\ LineZero' /\ Units'
           /\ DOMAIN interrupted' = Threads
           /\ \A u \in Threads \ {t} : interrupted'[u] = interrupted[u]
           /\ interrupted'[t] = IF pc[t] \in BodyPcs THEN Syncers(t) ELSE interrupted[t]
<1>1. Units'
  BY UnitsStay DEF IInv
<1>2. CASE pc[t] \notin BodyPcs
  <2>1. UNCHANGED <<interrupted, line>>
    BY <1>2 DEF SyncingInterrupt
  <2>2. Lines' /\ LineZero'
    BY <2>1, SemasStay
  <2> QED
    BY <1>1, <1>2, <2>1, <2>2 DEF IInv, Typed
<1>3. CASE pc[t] \in BodyPcs
  <2>1. /\ interrupted' = [interrupted EXCEPT ![t] = Syncers(t)]
        /\ line' = LinesWithout({t})
    BY <1>3 DEF SyncingInterrupt
  <2>2. /\ DOMAIN interrupted' = Threads
        /\ \A u \in Threads \ {t} : interrupted'[u] = interrupted[u]
        /\ interrupted'[t] = Syncers(t)
    BY <2>1 DEF IInv, Typed
  <2>3. \A u \in Threads : \A k \in Syncers(u) : Waits(u, k)' <=> u \notin {t} /\ Waits(u, k)
    BY <2>2 DEF Waits
  <2>4. /\ Lines' /\ line' \in [Semas -> Seq(Entry)]
        /\ \A s \in Semas : line'[s] # <<>> => value[s] = 0
    BY <2>1, <2>3, LinesLeave DEF IInv
  <2>5. LineZero'
    BY <2>4 DEF LineZero
  <2> QED
    BY <1>1, <1>3, <2>2, <2>4, <2>5
<1> QED
  BY <1>2, <1>3

LEMMA SuspendStep ==
    ASSUME IInv, NEW t \in Threads, Suspend(t)
    PROVE  IInv'
<1>1. /\ fault = "none" /\ pc[t] # "returned" /\ t \notin dead /\ "suspend" \in Disturb
      /\ suspended' = suspended \cup {t}
      /\ RunInterruptCallback(t) /\ SyncingInterrupt(t)
      /\ descheduled' = descheduled \cup {t}
      /\ sleeping' = sleeping \ {t}
      /\ UNCHANGED <<value, posts, evts, stage, selected, needRetry, nacked, locals,
                     expired, dead, pending, ignored, fault>>
  BY DEF Suspend, InSync
<1>2. /\ callback' = callback \ {t}
      /\ retry' = IF t \in callback THEN retry \cup {t} ELSE retry
      /\ wakeup' = IF t \in callback THEN wakeup \ {t} ELSE wakeup
  BY <1>1 DEF RunInterruptCallback
<1>3. UNCHANGED <<pc, at, polled, outcome>>
  BY <1>1 DEF locals
<1>4. /\ line' \in [Semas -> Seq(Entry)] /\ Lines' /\ LineZero' /\ Units'
      /\ DOMAIN interrupted' = Threads
      /\ \A u \in Threads \ {t} : interrupted'[u] = interrupted[u]
      /\ interrupted'[t] = IF pc[t] \in BodyPcs THEN Syncers(t) ELSE interrupted[t]
  BY <1>1, InterruptFacts
<1>5. ThreadInv(t) /\ Syncers(t)' = Syncers(t)
  BY <1>1 DEF IInv, Syncers
<1>6. Typed' /\ TypedSets'
  BY <1>1, <1>2, <1>3, <1>4 DEF IInv, Typed, TypedSets
<1>7. ThreadInv(t)'
  <2>1. TypedThread(t)'
    BY <1>1, <1>3, <1>4, <1>5 DEF ThreadInv, TypedThread
  <2>2. Control(t)'
    <3>1. pc[t] \in {"fast", "wind"} => pc[t] \notin BodyPcs
      BY DEF BodyPcs
    <3> QED
      BY <1>1, <1>3, <1>4, <1>5, <3>1 DEF ThreadInv, Control, Fresh
  <2>3. Interrupts(t)'
    BY <1>1, <1>3, <1>4, <1>5 DEF ThreadInv, Interrupts
  <2>4. Nacks(t)'
    BY <1>1, <1>5 DEF ThreadInv, Nacks, Registered
  <2>5. EnabledBreaks(t)'
    BY <1>1, <1>3, <1>4, <1>5 DEF ThreadInv, EnabledBreaks
  <2>6. Wakeups(t)'
    BY <1>1, <1>2, <1>5 DEF ThreadInv, Wakeups
  <2>7. Blocked(t)'
    BY <1>1 DEF Blocked, NoRetries
  <2> QED
    BY <2>1, <2>2, <2>3, <2>4, <2>5, <2>6, <2>7 DEF ThreadInv
<1>8. \A u \in Threads \ {t} : SameThread(u)
  BY <1>1, <1>2, <1>3, <1>4 DEF SameThread
<1>9. \A u \in Threads : ThreadInv(u)'
  BY <1>1, <1>7, <1>8, OneThread
<1>10. Faults'
  BY <1>1 DEF IInv, Faults
<1> QED
  BY <1>4, <1>6, <1>9, <1>10 DEF IInv

LEMMA ResumeStep ==
    ASSUME IInv, NEW t \in Threads, Resume(t)
    PROVE  IInv'
<1>1. /\ t \in suspended /\ t \notin dead
      /\ suspended' = suspended \ {t}
      /\ needRetry' = IF pc[t] \in BodyPcs THEN needRetry \cup {t} ELSE needRetry
      /\ fault' = IF t \notin descheduled THEN "scheduled" ELSE fault
      /\ descheduled' = descheduled \ {t}
      /\ callback' = callback \ {t}
      /\ sleeping' = sleeping \ {t}
      /\ UNCHANGED <<semas, evts, stage, selected, interrupted, wakeup, nacked, locals,
                     retry, expired, dead, pending, ignored>>
  BY DEF Resume
<1>2. UNCHANGED <<value, line, posts, pc, at, polled, outcome>>
  BY <1>1 DEF semas, locals
<1>3. ThreadInv(t) /\ t \in descheduled /\ Syncers(t)' = Syncers(t)
  BY <1>1 DEF IInv, ThreadInv, Interrupts, Syncers
<1>4. fault' = fault
  BY <1>1, <1>3
<1>5. Typed' /\ TypedSets'
  BY <1>1, <1>2, <1>4 DEF IInv, Typed, TypedSets
<1>6. Lines' /\ LineZero' /\ Units'
  BY <1>1, <1>2, SemasStay
<1>7. ThreadInv(t)'
  <2>1. TypedThread(t)'
    BY <1>1, <1>2, <1>3 DEF ThreadInv, TypedThread
  <2>2. Control(t)'
    BY <1>1, <1>2, <1>3 DEF ThreadInv, Control, Fresh
  <2>3. Interrupts(t)'
    <3>1. pc[t] \notin BodyPcs => pc[t] \in {"fast", "wind", "returned"}
      BY DEF IInv, Typed, Pcs
    <3>2. pc[t] \notin BodyPcs /\ selected[t] = NotYet => interrupted[t] = {}
      BY <1>3, <3>1 DEF ThreadInv, Control, Fresh
    <3> QED
      BY <1>1, <1>2, <1>3, <3>2 DEF ThreadInv, Interrupts
  <2>4. Nacks(t)'
    BY <1>1, <1>3 DEF ThreadInv, Nacks, Registered
  <2>5. EnabledBreaks(t)'
    BY <1>1, <1>2, <1>3 DEF ThreadInv, EnabledBreaks
  <2>6. Wakeups(t)'
    BY <1>1, <1>3 DEF ThreadInv, Wakeups
  <2>7. Blocked(t)'
    BY <1>1, <1>3 DEF ThreadInv, Blocked
  <2> QED
    BY <2>1, <2>2, <2>3, <2>4, <2>5, <2>6, <2>7 DEF ThreadInv
<1>8. \A u \in Threads \ {t} : SameThread(u)
  BY <1>1, <1>2 DEF SameThread
<1>9. \A u \in Threads : ThreadInv(u)'
  BY <1>1, <1>7, <1>8, OneThread
<1>10. Faults'
  BY <1>4 DEF IInv, Faults
<1> QED
  BY <1>5, <1>6, <1>9, <1>10 DEF IInv
LEMMA BreakStep ==
    ASSUME IInv, NEW t \in Threads, Break(t)
    PROVE  IInv'
<1>1. /\ fault = "none" /\ pc[t] # "returned" /\ t \notin dead /\ "break" \in Disturb
      /\ pending' = pending \cup {t}
      /\ UNCHANGED <<value, posts, evts, stage, selected, nacked, locals,
                     expired, suspended, dead, ignored, fault>>
  BY DEF Break, InSync
<1>2. UNCHANGED <<pc, at, polled, outcome>>
  BY <1>1 DEF locals
<1>3. ThreadInv(t) /\ Syncers(t)' = Syncers(t)
  BY <1>1 DEF IInv, Syncers
<1>4. CASE t \in suspended
  <2>1. UNCHANGED <<line, interrupted, needRetry, wakeup, descheduled, callback, retry, sleeping>>
    BY <1>4 DEF Break, sched
  <2>2. Typed' /\ TypedSets'
    BY <1>1, <1>2, <2>1 DEF IInv, Typed, TypedSets
  <2>3. Lines' /\ LineZero' /\ Units'
    BY <1>1, <2>1, SemasStay
  <2>4. ThreadInv(t)'
    <3>1. TypedThread(t)'
      BY <1>1, <1>2, <1>3, <2>1 DEF ThreadInv, TypedThread
    <3>2. Control(t)'
      BY <1>1, <1>2, <1>3, <2>1 DEF ThreadInv, Control, Fresh
    <3>3. Interrupts(t)'
      BY <1>1, <1>2, <1>3, <2>1 DEF ThreadInv, Interrupts
    <3>4. Nacks(t)'
      BY <1>1, <1>3 DEF ThreadInv, Nacks, Registered
    <3>5. EnabledBreaks(t)'
      <4>1. pc[t] \in BodyPcs => interrupted[t] = Syncers(t)
        BY <1>1, <1>3, <1>4 DEF ThreadInv, Interrupts
      <4> QED
        BY <1>1, <1>2, <1>3, <2>1, <4>1 DEF ThreadInv, EnabledBreaks
    <3>6. Wakeups(t)'
      BY <1>1, <1>3, <2>1 DEF ThreadInv, Wakeups
    <3>7. Blocked(t)'
      BY <1>3, <1>4 DEF ThreadInv, Blocked
    <3> QED
      BY <3>1, <3>2, <3>3, <3>4, <3>5, <3>6, <3>7 DEF ThreadInv
  <2>5. \A u \in Threads \ {t} : SameThread(u)
    BY <1>1, <1>2, <2>1 DEF SameThread
  <2>6. \A u \in Threads : ThreadInv(u)'
    BY <1>1, <2>4, <2>5, OneThread
  <2>7. Faults'
    BY <1>1 DEF IInv, Faults
  <2> QED
    BY <2>2, <2>3, <2>6, <2>7 DEF IInv
<1>5. CASE t \notin suspended
  <2>1. /\ SyncingInterrupt(t)
        /\ needRetry' = IF pc[t] \in BodyPcs THEN needRetry \cup {t} ELSE needRetry
        /\ IF t \in descheduled
             THEN /\ RunInterruptCallback(t)
                  /\ descheduled' = descheduled \ {t}
                  /\ sleeping' = sleeping \ {t}
             ELSE UNCHANGED <<wakeup, sched>>
    BY <1>5 DEF Break
  <2>2. \/ /\ t \in descheduled
           /\ callback' = callback \ {t}
           /\ retry' = IF t \in callback THEN retry \cup {t} ELSE retry
           /\ wakeup' = IF t \in callback THEN wakeup \ {t} ELSE wakeup
           /\ descheduled' = descheduled \ {t}
           /\ sleeping' = sleeping \ {t}
        \/ /\ t \notin descheduled
           /\ UNCHANGED <<wakeup, descheduled, callback, retry, sleeping>>
    BY <2>1 DEF RunInterruptCallback, sched
  <2>3. /\ line' \in [Semas -> Seq(Entry)] /\ Lines' /\ LineZero' /\ Units'
        /\ DOMAIN interrupted' = Threads
        /\ \A u \in Threads \ {t} : interrupted'[u] = interrupted[u]
        /\ interrupted'[t] = IF pc[t] \in BodyPcs THEN Syncers(t) ELSE interrupted[t]
    BY <1>1, <2>1, InterruptFacts
  <2>4. Typed'
    BY <1>1, <1>2, <2>3 DEF IInv, Typed
  <2>5. TypedSets'
    BY <1>1, <1>2, <2>1, <2>2 DEF IInv, TypedSets
  <2>6. ThreadInv(t)'
    <3>1. TypedThread(t)'
      BY <1>1, <1>2, <1>3, <2>3 DEF ThreadInv, TypedThread
    <3>2. Control(t)'
      <4>1. pc[t] \in {"fast", "wind"} => pc[t] \notin BodyPcs
        BY DEF BodyPcs
      <4> QED
        BY <1>1, <1>2, <1>3, <2>3, <4>1 DEF ThreadInv, Control, Fresh
    <3>3. Interrupts(t)'
      BY <1>1, <1>2, <1>3, <1>5, <2>1, <2>2, <2>3 DEF ThreadInv, Interrupts
    <3>4. Nacks(t)'
      BY <1>1, <1>3 DEF ThreadInv, Nacks, Registered
    <3>5. EnabledBreaks(t)'
      BY <1>1, <1>2, <1>3, <2>3 DEF ThreadInv, EnabledBreaks
    <3>6. Wakeups(t)'
      BY <1>1, <1>3, <1>5, <2>2 DEF ThreadInv, Wakeups
    <3>7. Blocked(t)'
      <4>1. NoRetries => Breaks[t] # "off"
        BY <1>1 DEF NoRetries
      <4> QED
        BY <1>1, <1>2, <1>3, <1>5, <2>2, <2>3, <4>1 DEF ThreadInv, Blocked
    <3> QED
      BY <3>1, <3>2, <3>3, <3>4, <3>5, <3>6, <3>7 DEF ThreadInv
  <2>7. \A u \in Threads \ {t} : SameThread(u)
    BY <1>1, <1>2, <2>1, <2>2, <2>3 DEF SameThread
  <2>8. \A u \in Threads : ThreadInv(u)'
    BY <1>1, <2>6, <2>7, OneThread
  <2>9. Faults'
    BY <1>1 DEF IInv, Faults
  <2> QED
    BY <2>3, <2>4, <2>5, <2>8, <2>9 DEF IInv
<1> QED
  BY <1>4, <1>5

LEMMA KillStep ==
    ASSUME IInv, NEW t \in Threads, Kill(t)
    PROVE  IInv'
<1>1. /\ fault = "none" /\ pc[t] # "returned" /\ t \notin dead /\ "kill" \in Disturb
      /\ dead' = dead \cup {t}
      /\ callback' = callback \ {t}
      /\ sleeping' = sleeping \ {t}
      /\ retry' = retry \ {t}
      /\ wakeup' = wakeup \ {t}
      /\ UNCHANGED <<value, posts, evts, stage, interrupted, needRetry, locals,
                     descheduled, expired, suspended, pending>>
  BY DEF Kill, InSync
<1>2. UNCHANGED <<pc, at, polled, outcome>>
  BY <1>1 DEF locals
<1>3. ThreadInv(t) /\ \A u \in Threads : Syncers(u)' = Syncers(u)
  BY <1>1 DEF IInv, Syncers
<1>4. CASE ~(pc[t] \in BodyPcs /\ selected[t] = NotYet)
  <2>1. UNCHANGED <<line, selected, nacked, ignored, fault>>
    BY <1>4 DEF Kill
  <2>2. Typed' /\ TypedSets'
    BY <1>1, <1>2, <2>1 DEF IInv, Typed, TypedSets
  <2>3. Lines' /\ LineZero' /\ Units'
    BY <1>1, <2>1, SemasStay
  <2>4. ThreadInv(t)'
    <3>1. TypedThread(t)'
      BY <1>1, <1>2, <1>3, <2>1 DEF ThreadInv, TypedThread
    <3>2. Control(t)'
      <4>1. selected[t] = NotYet => pc[t] \in {"fast", "wind"}
        BY <1>1, <1>4 DEF IInv, Typed, Pcs
      <4>2. Fresh(t)' <=> Fresh(t)
        BY <1>1, <1>3 DEF Fresh
      <4> QED
        BY <1>1, <1>2, <1>3, <2>1, <4>1, <4>2 DEF ThreadInv, Control
    <3>3. Interrupts(t)'
      BY <1>1, <1>2, <1>3, <2>1 DEF ThreadInv, Interrupts
    <3>4. Nacks(t)'
      BY <1>1, <1>3, <2>1 DEF ThreadInv, Nacks, Registered
    <3>5. EnabledBreaks(t)'
      BY <1>1, <1>2, <1>3, <2>1 DEF ThreadInv, EnabledBreaks
    <3>6. Wakeups(t)'
      BY <1>1, <1>3 DEF ThreadInv, Wakeups
    <3>7. Blocked(t)'
      BY <1>1, <1>2, <1>3, <2>1 DEF ThreadInv, Blocked
    <3> QED
      BY <3>1, <3>2, <3>3, <3>4, <3>5, <3>6, <3>7 DEF ThreadInv
  <2>5. \A u \in Threads \ {t} : SameThread(u)
    BY <1>1, <1>2, <2>1 DEF SameThread
  <2>6. \A u \in Threads : ThreadInv(u)'
    BY <1>1, <2>4, <2>5, OneThread
  <2>7. Faults'
    BY <2>1 DEF IInv, Faults
  <2> QED
    BY <2>2, <2>3, <2>6, <2>7 DEF IInv
<1>5. CASE pc[t] \in BodyPcs /\ selected[t] = NotYet
  <2>1. /\ Decide({t}, [u \in {t} |-> NoneSyncer])
        /\ fault' = IF t \in (wakeup \ callback) \cap descheduled THEN "dead" ELSE fault
    BY <1>5 DEF Kill
  <2>2. /\ selected' = [u \in Threads |-> IF u = t THEN NoneSyncer ELSE selected[u]]
        /\ line' = LinesWithout({t})
        /\ nacked' = [u \in Threads |->
                         IF u = t THEN {j \in Syncers(t) : Registered(t, j) /\ j # NoneSyncer}
                                  ELSE nacked[u]]
        /\ ignored' = ignored \cup {u \in {t} : Breaks[u] = "enable"}
    BY <2>1 DEF Decide, LeaveLines, IgnoreBreakCell
  <2>3. NoneSyncer # NotYet
    BY DEF NoneSyncer, NotYet
  <2>4. /\ Lines' /\ line' \in [Semas -> Seq(Entry)]
        /\ \A s \in Semas : line'[s] # <<>> => value[s] = 0
    <3>1. \A u \in Threads : \A j \in Syncers(u) : Waits(u, j)' <=> u \notin {t} /\ Waits(u, j)
      BY <1>1, <2>2, <2>3 DEF Waits
    <3> QED
      BY <1>1, <2>2, <3>1, LinesLeave DEF IInv
  <2>5. LineZero'
    BY <1>1, <2>4 DEF LineZero
  <2>6. Units'
    <3>1. \A s \in Semas : Takers(s)' = Takers(s)
      BY <1>1, <1>5, <2>2 DEF Takers, SemaOf, NoneSyncer, NotYet
    <3> QED
      BY <1>1, <3>1 DEF IInv, Units
  <2>7. Typed' /\ TypedSets'
    BY <1>1, <1>2, <2>1, <2>2, <2>4 DEF IInv, Typed, TypedSets
  <2>8. ThreadInv(t)'
    <3>0. /\ selected'[t] = NoneSyncer
          /\ nacked'[t] = {j \in Syncers(t) : Registered(t, j) /\ j # NoneSyncer}
      BY <2>2
    <3>1. TypedThread(t)'
      BY <1>1, <1>2, <1>3, <3>0 DEF ThreadInv, TypedThread
    <3>2. Control(t)'
      <4>1. pc[t] \notin {"fast", "wind"}
        BY <1>5 DEF BodyPcs
      <4> QED
        BY <1>1, <1>2, <1>3, <2>3, <3>0, <4>1 DEF ThreadInv, Control
    <3>3. Interrupts(t)'
      BY <1>1, <2>3, <3>0 DEF Interrupts
    <3>4. Nacks(t)'
      BY <1>1, <1>3, <2>3, <3>0 DEF Nacks, Registered
    <3>5. EnabledBreaks(t)'
      BY <1>1, <1>2, <1>3, <2>2, <2>3, <3>0 DEF ThreadInv, EnabledBreaks
    <3>6. Wakeups(t)'
      BY <1>1, <1>3 DEF ThreadInv, Wakeups
    <3>7. Blocked(t)'
      BY <1>1, <1>2, <1>3, <2>3, <3>0 DEF ThreadInv, Blocked
    <3> QED
      BY <3>1, <3>2, <3>3, <3>4, <3>5, <3>6, <3>7 DEF ThreadInv
  <2>9. \A u \in Threads \ {t} : SameThread(u)
    BY <1>1, <1>2, <2>2 DEF SameThread
  <2>10. \A u \in Threads : ThreadInv(u)'
    BY <1>1, <2>8, <2>9, OneThread
  <2>11. Faults'
    BY <1>1, <1>3, <2>1 DEF Faults, NoLateWakeup, ThreadInv, Wakeups
  <2> QED
    BY <2>4, <2>5, <2>6, <2>7, <2>10, <2>11 DEF IInv
<1> QED
  BY <1>4, <1>5
-----------------------------------------------------------------------------
(* semaphore-post and semaphore-post-all. *)

\* The threads of the entries at the positions in I, and the entry selected for
\* each of them.
ThreadsAt(s, I) == {line[s][i][1] : i \in I}
SelectedAt(s, I) ==
    [t \in ThreadsAt(s, I) |-> line[s][CHOOSE i \in I : line[s][i][1] = t][2]]

\* Whoever is in line can be selected: its sync is undecided, it is neither dead
\* nor suspended, and no break is due.
LEMMA EntryFacts ==
    ASSUME IInv, NEW s \in Semas, NEW i \in 1..Len(line[s])
    PROVE  /\ line[s][i] = <<line[s][i][1], line[s][i][2]>>
           /\ line[s][i][1] \in Threads
           /\ line[s][i][2] \in Syncers(line[s][i][1])
           /\ SemaOf(line[s][i][1], line[s][i][2]) = s
           /\ selected[line[s][i][1]] = NotYet
           /\ line[s][i][1] \notin dead \cup suspended
           /\ pc[line[s][i][1]] \in BodyPcs
           /\ Breaks[line[s][i][1]] = "enable" => outcome[line[s][i][1]] # "break"
<1>1. line[s] \in Seq(Entry)
  BY DEF IInv, Typed
<1>2. line[s][i] \in Entry
  BY <1>1
<1>3. PICK t \in Threads, k \in Positions : line[s][i] = <<t, k>>
  BY <1>2 DEF Entry
<1>4. In(line[s], <<t, k>>)
  BY <1>3 DEF In
<1>5. k \in Syncers(t) /\ SemaOf(t, k) = s /\ Waits(t, k)
  BY <1>4 DEF IInv, Lines
<1>6. /\ selected[t] = NotYet /\ stage[t][k] = "async" /\ k \notin interrupted[t] /\ ThreadInv(t)
      /\ pc[t] \in Pcs
  BY <1>5 DEF Waits, IInv, Typed
<1>7. ~Fresh(t)
  BY <1>5, <1>6 DEF Fresh
<1>8. t \notin dead /\ pc[t] \in BodyPcs
  BY <1>6, <1>7 DEF ThreadInv, Control, Pcs
<1>9. t \notin suspended
  BY <1>5, <1>6, <1>8 DEF ThreadInv, Interrupts
<1>10. Breaks[t] = "enable" => outcome[t] # "break"
  BY <1>5, <1>6, <1>8 DEF ThreadInv, EnabledBreaks
<1>11. line[s][i][1] = t /\ line[s][i][2] = k
  BY <1>3
<1> QED
  BY <1>3, <1>5, <1>6, <1>8, <1>9, <1>10, <1>11

\* Every thread in line has a first entry there.
LEMMA FirstsCover ==
    ASSUME IInv, NEW s \in Semas, NEW i \in 1..Len(line[s])
    PROVE  \E j \in Firsts(s) : line[s][j][1] = line[s][i][1]
<1> DEFINE J == {j \in 1..Len(line[s]) : line[s][j][1] = line[s][i][1]}
<1>1. Len(line[s]) \in Nat
  BY DEF IInv, Typed
<1>2. J \in SUBSET (1..Len(line[s])) /\ i \in J
  OBVIOUS
<1>3. PICK j \in J : \A n \in J : j <= n
  <2> HIDE DEF J
  <2> QED
    BY <1>1, <1>2, FirstPosition
<1>4. \A n \in 1..(j - 1) : line[s][n][1] # line[s][j][1]
  <2> SUFFICES ASSUME NEW n \in 1..(j - 1), line[s][n][1] = line[s][j][1] PROVE FALSE
    OBVIOUS
  <2>1. n \in J
    BY <1>1
  <2>2. j <= n
    BY <1>3, <2>1
  <2> QED
    BY <1>1, <2>2
<1> QED
  BY <1>4 DEF Firsts

\* A thread is selected for one of its entries.
LEMMA SelectedEntry ==
    ASSUME IInv, NEW s \in Semas, NEW I \in SUBSET (1..Len(line[s])), NEW t \in ThreadsAt(s, I)
    PROVE  \E i \in I : line[s][i] = <<t, SelectedAt(s, I)[t]>>
<1>1. \E i \in I : line[s][i][1] = t
  BY DEF ThreadsAt
<1> DEFINE c == CHOOSE i \in I : line[s][i][1] = t
<1>2. c \in I /\ line[s][c][1] = t
  BY <1>1
<1>3. SelectedAt(s, I)[t] = line[s][c][2]
  BY DEF SelectedAt
<1> HIDE DEF c
<1>4. line[s][c] = <<line[s][c][1], line[s][c][2]>>
  BY <1>2 DEF IInv, Typed, Entry
<1> QED
  BY <1>2, <1>3, <1>4

\* The sync of every thread selected was undecided; nobody else is affected.
LEMMA SelectFacts ==
    ASSUME IInv, NEW s \in Semas, NEW I \in SUBSET (1..Len(line[s])), Select(s, I)
    PROVE  LET T == ThreadsAt(s, I)
               sel == SelectedAt(s, I)
           IN  /\ T \subseteq Threads
               /\ \A t \in T : /\ \E i \in I : line[s][i] = <<t, sel[t]>>
                               /\ sel[t] \in Syncers(t)
                               /\ SemaOf(t, sel[t]) = s
                               /\ selected[t] = NotYet
                               /\ t \notin dead \cup suspended
                               /\ pc[t] \in BodyPcs
                               /\ Breaks[t] = "enable" => outcome[t] # "break"
               /\ line' = LinesWithout(T)
               /\ selected' = [t \in Threads |-> IF t \in T THEN sel[t] ELSE selected[t]]
               /\ nacked' = [t \in Threads |->
                               IF t \in T THEN {k \in Syncers(t) : Registered(t, k) /\ k # sel[t]}
                                          ELSE nacked[t]]
               /\ ignored' = ignored \cup {t \in T : Breaks[t] = "enable"}
               /\ wakeup' = wakeup \ T
               /\ fault' = fault
               /\ descheduled' = descheduled \ (T \cap wakeup \cap descheduled)
               /\ callback' = callback \ (T \cap wakeup \cap descheduled)
               /\ sleeping' = sleeping \ (T \cap wakeup \cap descheduled)
<1> DEFINE T == ThreadsAt(s, I)
           sel == SelectedAt(s, I)
<1>1. Done(T, sel)
  BY DEF Select, ThreadsAt, SelectedAt
<1>2. ASSUME NEW t \in T
      PROVE  \E i \in I : line[s][i][1] = t /\ line[s][i][2] = sel[t]
  <2>1. \E i \in I : line[s][i][1] = t
    BY DEF ThreadsAt
  <2> DEFINE c == CHOOSE i \in I : line[s][i][1] = t
  <2>2. c \in I /\ line[s][c][1] = t
    BY <2>1
  <2>3. sel[t] = line[s][c][2]
    BY DEF SelectedAt
  <2> QED
    BY <2>2, <2>3
<1> HIDE DEF T, sel
<1>3. ASSUME NEW t \in T
      PROVE  /\ t \in Threads
             /\ \E i \in I : line[s][i] = <<t, sel[t]>>
             /\ sel[t] \in Syncers(t)
             /\ SemaOf(t, sel[t]) = s
             /\ selected[t] = NotYet
             /\ t \notin dead \cup suspended
             /\ pc[t] \in BodyPcs
             /\ Breaks[t] = "enable" => outcome[t] # "break"
  <2>1. PICK i \in I : line[s][i][1] = t /\ line[s][i][2] = sel[t]
    BY <1>2
  <2>2. i \in 1..Len(line[s])
    OBVIOUS
  <2> QED
    BY <2>1, <2>2, EntryFacts
<1>4. T \subseteq Threads
  BY <1>3
<1>5. /\ line' = LinesWithout(T)
      /\ selected' = [t \in Threads |-> IF t \in T THEN sel[t] ELSE selected[t]]
      /\ nacked' = [t \in Threads |->
                      IF t \in T THEN {k \in Syncers(t) : Registered(t, k) /\ k # sel[t]}
                                 ELSE nacked[t]]
      /\ ignored' = ignored \cup {t \in T : Breaks[t] = "enable"}
  BY <1>1 DEF Done, Decide, LeaveLines, IgnoreBreakCell
<1>6. (T \cap wakeup \cap descheduled) \cap dead = {}
  BY <1>3
<1>7. /\ wakeup' = wakeup \ T
      /\ fault' = fault
      /\ descheduled' = descheduled \ (T \cap wakeup \cap descheduled)
      /\ callback' = callback \ (T \cap wakeup \cap descheduled)
      /\ sleeping' = sleeping \ (T \cap wakeup \cap descheduled)
  BY <1>1, <1>6 DEF Done, WakeUp
<1> QED
  BY <1>3, <1>4, <1>5, <1>7 DEF T, sel

\* The part of a post that concerns the threads it selects.
LEMMA SelectStep ==
    ASSUME IInv, NEW s \in Semas, NEW I \in SUBSET (1..Len(line[s])), Select(s, I),
           UNCHANGED <<evts, stage, interrupted, needRetry, locals, retry, others>>,
           value' \in [Semas -> Nat \cup {Inf}], posts' \in [Semas -> 0..MaxPosts],
           Units',
           \A z \in Semas : z # s => value'[z] = value[z],
           value'[s] = value[s] \/ \A i \in 1..Len(line[s]) : line[s][i][1] \in ThreadsAt(s, I)
    PROVE  IInv'
<1> DEFINE T == ThreadsAt(s, I)
           sel == SelectedAt(s, I)
<1>1. /\ T \subseteq Threads
      /\ \A t \in T : /\ sel[t] \in Syncers(t)
                      /\ selected[t] = NotYet
                      /\ t \notin dead \cup suspended
                      /\ pc[t] \in BodyPcs
                      /\ Breaks[t] = "enable" => outcome[t] # "break"
      /\ line' = LinesWithout(T)
      /\ selected' = [t \in Threads |-> IF t \in T THEN sel[t] ELSE selected[t]]
      /\ nacked' = [t \in Threads |->
                      IF t \in T THEN {k \in Syncers(t) : Registered(t, k) /\ k # sel[t]}
                                 ELSE nacked[t]]
      /\ ignored' = ignored \cup {t \in T : Breaks[t] = "enable"}
      /\ wakeup' = wakeup \ T
      /\ fault' = fault
      /\ descheduled' = descheduled \ (T \cap wakeup \cap descheduled)
      /\ callback' = callback \ (T \cap wakeup \cap descheduled)
      /\ sleeping' = sleeping \ (T \cap wakeup \cap descheduled)
  BY SelectFacts
<1> HIDE DEF T, sel
<1>2. UNCHANGED <<pc, at, polled, outcome, expired, suspended, dead, pending>>
  BY DEF locals, others
<1>3. \A t \in T : sel[t] # NotYet /\ selected'[t] = sel[t]
  BY <1>1 DEF Syncers, NotYet, IInv, Typed
<1>4. \A u \in Threads : Syncers(u)' = Syncers(u)
  BY DEF Syncers
<1>5. /\ Lines' /\ line' \in [Semas -> Seq(Entry)]
      /\ \A z \in Semas : line'[z] # <<>> => value[z] = 0
  <2>1. \A u \in Threads : \A k \in Syncers(u) : Waits(u, k)' <=> u \notin T /\ Waits(u, k)
    BY <1>1, <1>3 DEF Waits
  <2> QED
    BY <1>1, <2>1, LinesLeave DEF IInv
<1>6. LineZero'
  <2> SUFFICES ASSUME NEW z \in Semas, line'[z] # <<>> PROVE value'[z] = 0
    BY DEF LineZero
  <2>1. value[z] = 0
    BY <1>5
  <2>2. CASE value'[z] = value[z]
    BY <2>1, <2>2
  <2>3. CASE z = s /\ \A i \in 1..Len(line[s]) : line[s][i][1] \in T
    <3>1. line'[z] \in Seq(Entry)
      BY <1>5
    <3>2. PICK t \in Threads, k \in Positions : In(line'[z], <<t, k>>)
      BY <3>1, EmptyLine
    <3>3. t \notin T /\ In(line[z], <<t, k>>)
      BY <1>1, <3>2, WithoutProps DEF IInv
    <3>4. PICK i \in 1..Len(line[z]) : line[z][i] = <<t, k>>
      BY <3>3 DEF In
    <3>5. line[z][i][1] = t
      BY <3>4
    <3> QED
      BY <2>3, <3>3, <3>4, <3>5
  <2> QED
    BY <2>2, <2>3 DEF T
<1>7. Typed' /\ TypedSets'
  BY <1>1, <1>2, <1>5 DEF IInv, Typed, TypedSets
<1>8. ASSUME NEW t \in T PROVE ThreadInv(t)'
  <2>0. /\ t \in Threads /\ ThreadInv(t) /\ Syncers(t)' = Syncers(t)
        /\ selected'[t] = sel[t] /\ sel[t] # NotYet /\ sel[t] \in Syncers(t)
        /\ nacked'[t] = {k \in Syncers(t) : Registered(t, k) /\ k # sel[t]}
    BY <1>1, <1>3, <1>4 DEF IInv
  <2>1. TypedThread(t)'
    BY <1>2, <2>0 DEF ThreadInv, TypedThread
  <2>2. Control(t)'
    <3>1. pc[t] \notin {"fast", "wind"}
      BY <1>1 DEF BodyPcs
    <3> QED
      BY <1>2, <2>0, <3>1 DEF ThreadInv, Control
  <2>3. Interrupts(t)'
    BY <1>1, <1>2, <2>0 DEF ThreadInv, Interrupts
  <2>4. Nacks(t)'
    BY <2>0 DEF Nacks, Registered
  <2>5. EnabledBreaks(t)'
    BY <1>1, <1>2, <2>0 DEF ThreadInv, EnabledBreaks
  <2>6. Wakeups(t)'
    BY <1>1, <1>2, <2>0 DEF ThreadInv, Wakeups
  <2>7. Blocked(t)'
    BY <1>1, <1>2, <2>0 DEF ThreadInv, Blocked
  <2> QED
    BY <2>1, <2>2, <2>3, <2>4, <2>5, <2>6, <2>7 DEF ThreadInv
<1>9. ASSUME NEW u \in Threads \ T PROVE ThreadInv(u)'
  <2>1. SameThread(u)
    BY <1>1, <1>2 DEF SameThread
  <2> QED
    BY <2>1, ThreadFrame DEF IInv
<1>10. Faults'
  BY <1>1 DEF IInv, Faults
<1> QED
  BY <1>5, <1>6, <1>7, <1>8, <1>9, <1>10 DEF IInv
LEMMA PostStep ==
    ASSUME IInv, NEW s \in Semas, Post(s)
    PROVE  IInv'
<1> DEFINE takers == {i \in Firsts(s) : ~Peeks(line[s][i])}
           upto == {i \in Firsts(s) : \A j \in takers : i <= j}
           T == ThreadsAt(s, upto)
           sel == SelectedAt(s, upto)
<1>1. /\ posts[s] < MaxPosts
      /\ posts' = [posts EXCEPT ![s] = @ + 1]
      /\ Select(s, upto)
      /\ value' = IF takers # {} \/ value[s] = Inf
                    THEN value ELSE [value EXCEPT ![s] = @ + 1]
      /\ UNCHANGED <<evts, stage, interrupted, needRetry, locals, retry, others>>
  BY DEF Post
<1>2. /\ takers \subseteq Firsts(s) /\ upto \subseteq Firsts(s)
      /\ Firsts(s) \subseteq 1..Len(line[s])
      /\ upto \in SUBSET (1..Len(line[s]))
  BY DEF Firsts
<1>3. /\ T \subseteq Threads
      /\ \A t \in T : /\ \E i \in upto : line[s][i] = <<t, sel[t]>>
                      /\ sel[t] \in Syncers(t)
                      /\ SemaOf(t, sel[t]) = s
                      /\ selected[t] = NotYet
      /\ selected' = [t \in Threads |-> IF t \in T THEN sel[t] ELSE selected[t]]
  <2>1. upto \in SUBSET (1..Len(line[s])) /\ Select(s, upto)
    BY <1>1, <1>2
  <2> HIDE DEF upto, takers
  <2>2. T \subseteq Threads
    BY ONLY IInv, s \in Semas, <2>1, SelectFacts
  <2>3. ASSUME NEW t \in T
        PROVE  /\ \E i \in upto : line[s][i] = <<t, sel[t]>>
               /\ sel[t] \in Syncers(t)
               /\ SemaOf(t, sel[t]) = s
               /\ selected[t] = NotYet
    <3>1. sel[t] \in Syncers(t) /\ SemaOf(t, sel[t]) = s /\ selected[t] = NotYet
      BY ONLY IInv, s \in Semas, t \in T, <2>1, SelectFacts
    <3>2. \E i \in upto : line[s][i] = <<t, sel[t]>>
      BY ONLY IInv, s \in Semas, t \in T, <2>1, SelectedEntry
    <3> QED
      BY ONLY <3>1, <3>2
  <2>4. selected' = [t \in Threads |-> IF t \in T THEN sel[t] ELSE selected[t]]
    BY ONLY IInv, s \in Semas, <2>1, SelectFacts
  <2> HIDE DEF T, sel
  <2> QED
    BY ONLY <2>2, <2>3, <2>4
<1>4. /\ value[s] \in Nat \cup {Inf} /\ posts[s] \in 0..MaxPosts /\ MaxPosts \in Nat
      /\ Inf \notin Int /\ InitValue[s] \in Nat /\ Len(line[s]) \in Nat
  BY SyncAssumption DEF IInv, Typed
<1>5. /\ posts' \in [Semas -> 0..MaxPosts]
      /\ posts'[s] = posts[s] + 1
      /\ \A z \in Semas : z # s => posts'[z] = posts[z]
  BY <1>1, <1>4 DEF IInv, Typed
<1>6. /\ value' \in [Semas -> Nat \cup {Inf}]
      /\ value'[s] = IF takers # {} \/ value[s] = Inf THEN value[s] ELSE value[s] + 1
      /\ \A z \in Semas : z # s => value'[z] = value[z]
  <2>1. CASE takers # {} \/ value[s] = Inf
    BY <1>1, <2>1 DEF IInv, Typed
  <2>2. CASE ~(takers # {} \/ value[s] = Inf)
    <3>1. value' = [value EXCEPT ![s] = value[s] + 1] /\ value[s] + 1 \in Nat
      BY <1>1, <1>4, <2>2
    <3> QED
      BY <2>2, <3>1 DEF IInv, Typed
  <2> QED
    BY <2>1, <2>2
<1>7. takers = {} => \A i \in 1..Len(line[s]) : line[s][i][1] \in T
  <2> SUFFICES ASSUME takers = {}, NEW i \in 1..Len(line[s])
               PROVE  line[s][i][1] \in T
    OBVIOUS
  <2>1. PICK j \in Firsts(s) : line[s][j][1] = line[s][i][1]
    BY FirstsCover
  <2>2. j \in upto
    OBVIOUS
  <2> QED
    BY <2>1, <2>2 DEF ThreadsAt
<1>8. \A t \in T : sel[t] \in Int /\ sel[t] > 0
  <2> HIDE DEF T, sel
  <2> SUFFICES ASSUME NEW t \in T PROVE sel[t] \in Int /\ sel[t] > 0
    OBVIOUS
  <2>1. Len(evts[t]) \in Nat /\ sel[t] \in 1..Len(evts[t])
    BY <1>3 DEF Syncers, IInv, Typed
  <2> QED
    BY <2>1
<1>9. ASSUME NEW z \in Semas, z # s PROVE Takers(z)' = Takers(z)
  <2> HIDE DEF T, sel
  <2> QED
    BY <1>1, <1>3, <1>9 DEF Takers, SemaOf, NotYet
<1>10. /\ IsFiniteSet(Takers(s)')
       /\ value'[s] # Inf => InitValue[s] + posts'[s] = value'[s] + Cardinality(Takers(s)')
  <2>1. /\ IsFiniteSet(Takers(s)) /\ Cardinality(Takers(s)) \in Nat
        /\ value[s] # Inf => InitValue[s] + posts[s] = value[s] + Cardinality(Takers(s))
    BY FS_CardinalityType DEF IInv, Units
  <2>2. Takers(s)' = Takers(s) \cup {t \in T : ~evts[t][sel[t]].peek}
    <3> HIDE DEF T, sel
    <3> QED
      BY <1>1, <1>3, <1>8 DEF Takers, SemaOf, NotYet
  <2>3. \A t \in T : ~evts[t][sel[t]].peek =>
           \E i \in takers : line[s][i][1] = t /\ \A j \in takers : i <= j
    <3> SUFFICES ASSUME NEW t \in T, ~evts[t][sel[t]].peek
                 PROVE  \E i \in takers : line[s][i][1] = t /\ \A j \in takers : i <= j
      OBVIOUS
    <3>1. PICK i \in upto : line[s][i] = <<t, sel[t]>>
      BY <1>3
    <3>2. line[s][i][1] = t /\ line[s][i][2] = sel[t]
      BY <3>1
    <3>3. ~Peeks(line[s][i])
      BY <3>2 DEF Peeks
    <3> QED
      BY <3>2, <3>3
  <2>4. CASE takers = {}
    <3>1. Takers(s)' = Takers(s)
      BY <2>2, <2>3, <2>4
    <3> HIDE DEF takers
    <3>2. value'[s] # Inf => value[s] \in Nat /\ value'[s] = value[s] + 1
      BY <1>4, <1>6, <2>4
    <3>3. IsFiniteSet(Takers(s)') /\ Cardinality(Takers(s)') = Cardinality(Takers(s))
      BY <2>1, <3>1
    <3>4. value[s] # Inf => InitValue[s] + posts[s] = value[s] + Cardinality(Takers(s))
      BY <2>1
    <3>5. ASSUME value'[s] # Inf
          PROVE  InitValue[s] + posts'[s] = value'[s] + Cardinality(Takers(s)')
      <4>1. PICK n \in Nat : n = Cardinality(Takers(s))
        BY <2>1
      <4>2. value[s] \in Nat /\ value'[s] = value[s] + 1 /\ InitValue[s] + posts[s] = value[s] + n
        BY <1>4, <3>2, <3>4, <3>5, <4>1
      <4>3. InitValue[s] + posts'[s] = value'[s] + n
        <5>1. /\ InitValue[s] \in Int /\ posts[s] \in Int /\ value[s] \in Int /\ n \in Int
              /\ posts'[s] = posts[s] + 1
          BY <1>4, <1>5, <4>2
        <5> QED
          BY ONLY <4>2, <5>1
      <4>4. Cardinality(Takers(s)') = n
        BY <3>3, <4>1
      <4> HIDE DEF T, sel
      <4> QED
        BY <4>3, <4>4
    <3> QED
      BY <3>3, <3>5
  <2>5. CASE takers # {}
    <3>1. PICK m \in takers : \A j \in takers : m <= j
      <4>1. takers \in SUBSET (1..Len(line[s]))
        BY <1>2
      <4> HIDE DEF takers
      <4> QED
        BY <1>4, <2>5, <4>1, FirstPosition
    <3>2. m \in 1..Len(line[s]) /\ m \in upto
      BY <1>2, <3>1
    <3> DEFINE w == line[s][m][1]
    <3>3. /\ w \in T
          /\ line[s][m] = <<w, line[s][m][2]>> /\ ~Peeks(line[s][m])
      BY <3>1, <3>2, EntryFacts DEF ThreadsAt
    <3>4. \A i \in upto : line[s][i][1] = w => i = m
      <4> SUFFICES ASSUME NEW i \in upto, line[s][i][1] = w PROVE i = m
        OBVIOUS
      <4>1. i \in Firsts(s) /\ m \in Firsts(s) /\ i \in 1..Len(line[s])
        BY <1>2, <3>1
      <4>2. ~(i \in 1..(m - 1)) /\ ~(m \in 1..(i - 1))
        BY <4>1 DEF Firsts
      <4> QED
        BY <1>4, <3>2, <4>1, <4>2
    <3>5. ~evts[w][sel[w]].peek
      <4>1. PICK i \in upto : line[s][i] = <<w, sel[w]>>
        BY <1>3, <3>3
      <4>2. i = m
        BY <3>4, <4>1
      <4>3. line[s][m][2] = sel[w]
        BY <4>1, <4>2
      <4> QED
        BY <3>3, <4>3 DEF Peeks
    <3>6. {t \in T : ~evts[t][sel[t]].peek} = {w}
      <4>1. ASSUME NEW t \in T, ~evts[t][sel[t]].peek PROVE t = w
        <5>1. PICK i \in takers : line[s][i][1] = t /\ \A j \in takers : i <= j
          BY <2>3, <4>1
        <5>2. i \in Int /\ m \in Int
          BY <1>2
        <5>3. i <= m /\ m <= i
          BY <3>1, <5>1
        <5>4. i = m
          BY <5>2, <5>3
        <5> QED
          BY <5>1, <5>4
      <4> QED
        BY <3>3, <3>5, <4>1
    <3>7. w \notin Takers(s)
      BY <1>3, <3>3 DEF Takers, NotYet
    <3>8. /\ IsFiniteSet(Takers(s) \cup {w})
          /\ Cardinality(Takers(s) \cup {w}) = Cardinality(Takers(s)) + 1
      BY <2>1, <3>7, FS_AddElement
    <3>9. Takers(s)' = Takers(s) \cup {w}
      BY <2>2, <3>6
    <3> HIDE DEF w, takers
    <3>10. IsFiniteSet(Takers(s)') /\ Cardinality(Takers(s)') = Cardinality(Takers(s)) + 1
      BY <3>8, <3>9
    <3>11. ASSUME value'[s] # Inf
           PROVE  InitValue[s] + posts'[s] = value'[s] + Cardinality(Takers(s)')
      <4>1. PICK n \in Nat : n = Cardinality(Takers(s))
        BY <2>1
      <4>2. value[s] \in Nat /\ value'[s] = value[s] /\ InitValue[s] + posts[s] = value[s] + n
        BY <1>4, <1>6, <2>1, <2>5, <3>11, <4>1
      <4>3. InitValue[s] + posts'[s] = value'[s] + (n + 1)
        <5>1. /\ InitValue[s] \in Int /\ posts[s] \in Int /\ value[s] \in Int /\ n \in Int
              /\ posts'[s] = posts[s] + 1
          BY <1>4, <1>5, <4>2
        <5> QED
          BY ONLY <4>2, <5>1
      <4> QED
        BY <3>10, <4>1, <4>3
    <3> QED
      BY <3>10, <3>11
  <2> QED
    BY <2>4, <2>5
<1>11. Units'
  <2>1. ASSUME NEW z \in Semas
        PROVE  /\ IsFiniteSet(Takers(z)')
               /\ value'[z] # Inf =>
                     InitValue[z] + posts'[z] = value'[z] + Cardinality(Takers(z)')
    <3>1. CASE z = s
      BY <1>10, <3>1
    <3>2. CASE z # s
      <4>1. /\ Takers(z)' = Takers(z) /\ value'[z] = value[z] /\ posts'[z] = posts[z]
        BY <1>5, <1>6, <1>9, <3>2
      <4> QED
        BY <4>1 DEF IInv, Units
    <3> QED
      BY <3>1, <3>2
  <2> QED
    BY <2>1 DEF Units
<1>12. value'[s] = value[s] \/ \A i \in 1..Len(line[s]) : line[s][i][1] \in T
  BY <1>6, <1>7
<1> HIDE DEF upto, takers
<1> QED
  BY <1>1, <1>2, <1>5, <1>6, <1>11, <1>12, SelectStep

LEMMA PostAllStep ==
    ASSUME IInv, NEW s \in Semas, PostAll(s)
    PROVE  IInv'
<1> DEFINE F == Firsts(s)
           T == ThreadsAt(s, F)
           sel == SelectedAt(s, F)
<1>1. /\ value' = [value EXCEPT ![s] = Inf]
      /\ Select(s, F)
      /\ UNCHANGED <<posts, evts, stage, interrupted, needRetry, locals, retry, others>>
  BY DEF PostAll
<1>2. F \in SUBSET (1..Len(line[s]))
  BY DEF Firsts
<1>3. /\ T \subseteq Threads
      /\ \A t \in T : /\ sel[t] \in Syncers(t)
                      /\ SemaOf(t, sel[t]) = s
                      /\ selected[t] = NotYet
      /\ selected' = [t \in Threads |-> IF t \in T THEN sel[t] ELSE selected[t]]
  <2>1. F \in SUBSET (1..Len(line[s])) /\ Select(s, F)
    BY <1>1, <1>2
  <2> HIDE DEF F
  <2>2. T \subseteq Threads
    BY ONLY IInv, s \in Semas, <2>1, SelectFacts
  <2>3. ASSUME NEW t \in T
        PROVE  sel[t] \in Syncers(t) /\ SemaOf(t, sel[t]) = s /\ selected[t] = NotYet
    BY ONLY IInv, s \in Semas, t \in T, <2>1, SelectFacts
  <2>4. selected' = [t \in Threads |-> IF t \in T THEN sel[t] ELSE selected[t]]
    BY ONLY IInv, s \in Semas, <2>1, SelectFacts
  <2> HIDE DEF T, sel
  <2> QED
    BY ONLY <2>2, <2>3, <2>4
<1>4. /\ value' \in [Semas -> Nat \cup {Inf}] /\ value'[s] = Inf
      /\ \A z \in Semas : z # s => value'[z] = value[z]
      /\ posts' \in [Semas -> 0..MaxPosts]
  BY <1>1 DEF IInv, Typed
<1>5. \A i \in 1..Len(line[s]) : line[s][i][1] \in T
  <2> TAKE i \in 1..Len(line[s])
  <2>1. PICK j \in Firsts(s) : line[s][j][1] = line[s][i][1]
    BY FirstsCover
  <2> QED
    BY <2>1 DEF ThreadsAt
<1>6. ASSUME NEW z \in Semas, z # s PROVE Takers(z)' = Takers(z)
  <2> HIDE DEF T, sel
  <2> QED
    BY <1>1, <1>3, <1>6 DEF Takers, SemaOf, NotYet
<1>7. IsFiniteSet(Takers(s)')
  <2>1. Takers(s)' \subseteq Takers(s) \cup T
    <3> HIDE DEF T, sel
    <3> QED
      BY <1>1, <1>3 DEF Takers, SemaOf, NotYet
  <2>2. IsFiniteSet(T)
    <3>1. Len(line[s]) \in Nat
      BY DEF IInv, Typed
    <3>2. IsFiniteSet(F)
      BY <1>2, <3>1, RankBijective
    <3> DEFINE f == [i \in F |-> line[s][i][1]]
    <3>3. f \in Surjection(F, T)
      BY DEF Surjection, ThreadsAt
    <3> HIDE DEF f, F, T
    <3> QED
      BY <3>2, <3>3, FS_Surjection
  <2>3. IsFiniteSet(Takers(s) \cup T)
    BY <2>2, FS_Union DEF IInv, Units
  <2> QED
    BY <2>1, <2>3, FS_Subset
<1>8. Units'
  <2>1. ASSUME NEW z \in Semas
        PROVE  /\ IsFiniteSet(Takers(z)')
               /\ value'[z] # Inf =>
                     InitValue[z] + posts'[z] = value'[z] + Cardinality(Takers(z)')
    <3>1. CASE z = s
      BY <1>4, <1>7, <3>1
    <3>2. CASE z # s
      BY <1>1, <1>4, <1>6, <3>2 DEF IInv, Units
    <3> QED
      BY <3>1, <3>2
  <2> QED
    BY <2>1 DEF Units
<1> HIDE DEF F
<1> QED
  BY <1>1, <1>2, <1>4, <1>5, <1>8, SelectStep
-----------------------------------------------------------------------------
(* The invariant. *)

\* random-rotate makes a sequence of the same events.
LEMMA RotationsTyped ==
    ASSUME NEW q \in Seq(Events), NEW r \in Rotations(q)
    PROVE  r \in Seq(Events)
<1>1. PICK m \in 0..(Len(q) - 1) : r = [i \in 1..Len(q) |-> q[((i + m - 1) % Len(q)) + 1]]
  BY DEF Rotations
<1>2. PICK n \in Nat : n = Len(q)
  OBVIOUS
<1>3. n > 0 /\ m \in Nat
  BY <1>2
<1>4. \A i \in 1..n : q[((i + m - 1) % n) + 1] \in Events
  <2> TAKE i \in 1..n
  <2>1. i + m - 1 \in Int /\ n \in Nat \ {0}
    BY <1>3
  <2>2. (i + m - 1) % n \in 0..(n - 1)
    BY <2>1
  <2>3. ((i + m - 1) % n) + 1 \in 1..n
    BY <1>3, <2>2
  <2> QED
    BY <1>2, <2>3
<1> QED
  BY <1>1, <1>2, <1>4

LEMMA InitStep ==
    ASSUME Init
    PROVE  IInv
<1>1. /\ value = InitValue
      /\ line = [s \in Semas |-> <<>>]
      /\ posts = [s \in Semas |-> 0]
      /\ stage = [t \in Threads |->
                    [k \in Syncers(t) |-> IF evts[t][k].nack THEN "guard" ELSE "sema"]]
      /\ selected = [t \in Threads |-> NotYet]
      /\ interrupted = [t \in Threads |-> {}]
      /\ nacked = [t \in Threads |-> {}]
      /\ pc = [t \in Threads |-> IF Breaks[t] = "enable" THEN "wind" ELSE "fast"]
      /\ at = [t \in Threads |-> 1]
      /\ outcome = [t \in Threads |-> "none"]
      /\ polled = {} /\ needRetry = {} /\ wakeup = {}
      /\ descheduled = {} /\ callback = {} /\ retry = {} /\ sleeping = {}
      /\ expired = {} /\ suspended = {} /\ dead = {} /\ pending = {} /\ ignored = {}
      /\ fault = "none"
  BY DEF Init
<1>2. evts \in [Threads -> Seq(Events)]
  <2>1. /\ evts \in [Threads -> UNION {Rotations(Args[t]) : t \in Threads}]
        /\ \A t \in Threads : evts[t] \in Rotations(Args[t])
    BY DEF Init
  <2>2. \A t \in Threads : evts[t] \in Seq(Events)
    BY <2>1, RotationsTyped, SyncAssumption
  <2> QED
    BY <2>1, <2>2
<1>3. Typed
  <2>1. /\ value \in [Semas -> Nat \cup {Inf}]
        /\ line \in [Semas -> Seq(Entry)]
        /\ posts \in [Semas -> 0..MaxPosts]
    BY <1>1, SyncAssumption
  <2>2. pc \in [Threads -> Pcs]
    BY <1>1 DEF Pcs
  <2> QED
    BY <1>1, <1>2, <2>1, <2>2 DEF Typed
<1>4. TypedSets
  BY <1>1 DEF TypedSets
<1>5. ASSUME NEW t \in Threads, NEW k \in Syncers(t)
      PROVE  stage[t][k] \in {"guard", "sema"}
  BY <1>1
<1>6. Lines
  <2>1. \A s \in Semas : line[s] = <<>>
    BY <1>1
  <2>2. \A t \in Threads : \A k \in Syncers(t) : ~Waits(t, k)
    BY <1>5 DEF Waits
  <2> QED
    BY <2>1, <2>2 DEF Lines, In, Once
<1>7. LineZero
  BY <1>1 DEF LineZero
<1>8. Units
  <2> SUFFICES ASSUME NEW s \in Semas
               PROVE  /\ IsFiniteSet(Takers(s))
                      /\ InitValue[s] + posts[s] = value[s] + Cardinality(Takers(s))
    BY DEF Units
  <2>1. Takers(s) = {}
    BY <1>1 DEF Takers, NotYet
  <2>2. IsFiniteSet(Takers(s)) /\ Cardinality(Takers(s)) = 0
    BY <2>1, FS_EmptySet
  <2> QED
    BY <1>1, <2>2
<1>9. ASSUME NEW t \in Threads PROVE ThreadInv(t)
  <2>1. /\ selected[t] = NotYet /\ interrupted[t] = {} /\ nacked[t] = {} /\ at[t] = 1
        /\ pc[t] \in {"fast", "wind"} /\ outcome[t] = "none"
        /\ stage[t] = [k \in Syncers(t) |-> IF evts[t][k].nack THEN "guard" ELSE "sema"]
    BY <1>1
  <2>2. TypedThread(t)
    <3>1. Len(evts[t]) \in Nat
      BY <1>2
    <3> QED
      BY <2>1, <3>1 DEF TypedThread, Stages
  <2>3. Control(t)
    BY <2>1 DEF Control, Fresh
  <2>4. Interrupts(t) /\ Nacks(t) /\ Wakeups(t) /\ Blocked(t)
    BY <1>1, <2>1 DEF Interrupts, Nacks, Wakeups, Blocked
  <2>5. EnabledBreaks(t)
    BY <1>1, <2>1 DEF EnabledBreaks, BodyPcs
  <2> QED
    BY <2>2, <2>3, <2>4, <2>5 DEF ThreadInv
<1> QED
  BY <1>1, <1>3, <1>4, <1>6, <1>7, <1>8, <1>9 DEF IInv, Faults

LEMMA NextStep ==
    ASSUME IInv, [Next]_vars
    PROVE  IInv'
<1>1. ASSUME NEW t \in Threads, ThreadStep(t) PROVE IInv'
  BY <1>1, FastPollStep, WindStep, LoopTimeoutStep, LoopCheckStep, SuspendSyncingStep,
     WokenStep, RetryWaitStep, PollStep, CallStep, UnwindStep, RaiseBreakStep DEF ThreadStep
<1>2. ASSUME NEW t \in Threads,
             Expire(t) \/ TimerWakes(t) \/ Suspend(t) \/ Resume(t) \/ Break(t) \/ Kill(t)
      PROVE  IInv'
  BY <1>2, ExpireStep, TimerWakesStep, SuspendStep, ResumeStep, BreakStep, KillStep
<1>3. ASSUME NEW s \in Semas, Post(s) \/ PostAll(s) PROVE IInv'
  BY <1>3, PostStep, PostAllStep
<1>4. ASSUME UNCHANGED vars PROVE IInv'
  <2>1. UNCHANGED <<value, line, posts, evts, stage, selected, interrupted, needRetry, wakeup,
                    nacked, pc, at, polled, outcome, descheduled, callback, retry, sleeping,
                    expired, suspended, dead, pending, ignored, fault>>
    BY <1>4 DEF vars, semas, syncing, locals, sched, others
  <2>2. Typed' /\ TypedSets'
    BY <2>1 DEF IInv, Typed, TypedSets
  <2>3. Lines' /\ LineZero' /\ Units'
    BY <2>1, SemasStay
  <2>4. \A u \in Threads : SameThread(u)
    BY <2>1 DEF SameThread
  <2>5. \A u \in Threads : ThreadInv(u)'
    BY <2>1, <2>4, ThreadFrame DEF IInv
  <2>6. Faults'
    BY <2>1 DEF IInv, Faults
  <2> QED
    BY <2>2, <2>3, <2>5, <2>6 DEF IInv
<1> QED
  BY <1>1, <1>2, <1>3, <1>4 DEF Next
LEMMA Inductive == Spec => []IInv
<1>1. Init => IInv
  BY InitStep
<1>2. IInv /\ [Next]_vars => IInv'
  BY NextStep
<1> QED
  BY <1>1, <1>2, PTL DEF Spec
-----------------------------------------------------------------------------
(* What it implies. *)

LEMMA ImpliesTypeOK ==
    ASSUME IInv
    PROVE  TypeOK
<1>1. \A s \in Semas : \A i \in 1..Len(line[s]) :
         line[s][i][1] \in Threads /\ line[s][i][2] \in Syncers(line[s][i][1])
  <2> TAKE s \in Semas
  <2> TAKE i \in 1..Len(line[s])
  <2>1. line[s] \in Seq(Entry)
    BY DEF IInv, Typed
  <2>2. line[s][i] \in Entry
    BY <2>1
  <2>3. PICK t \in Threads, k \in Positions : line[s][i] = <<t, k>>
    BY <2>2 DEF Entry
  <2>4. In(line[s], <<t, k>>)
    BY <2>3 DEF In
  <2>5. k \in Syncers(t)
    BY <2>4 DEF IInv, Lines
  <2>6. line[s][i][1] = t /\ line[s][i][2] = k
    BY <2>3
  <2> QED
    BY <2>5, <2>6
<1>2. \A t \in Threads :
         /\ evts[t] \in Seq(Events)
         /\ stage[t] \in [Syncers(t) -> Stages]
         /\ selected[t] \in Syncers(t) \cup {NotYet, NoneSyncer}
         /\ interrupted[t] \subseteq Syncers(t)
         /\ nacked[t] \subseteq Syncers(t)
         /\ at[t] \in 1..(Len(evts[t]) + 1)
  BY DEF IInv, Typed, ThreadInv, TypedThread
<1>3. \A S \in {needRetry, wakeup, descheduled, callback, retry, sleeping,
                expired, suspended, dead, pending, ignored} : S \subseteq Threads
  BY DEF IInv, TypedSets
<1> QED
  BY <1>1, <1>2, <1>3 DEF IInv, Typed, TypedSets, TypeOK

LEMMA ImpliesInLineExactly ==
    ASSUME IInv
    PROVE  InLineExactly
<1> SUFFICES ASSUME NEW s \in Semas, NEW t \in Threads, NEW k \in Syncers(t)
             PROVE  Cardinality(Entries(s, t, k)) =
                       IF SemaOf(t, k) = s /\ Waits(t, k) THEN 1 ELSE 0
  BY DEF InLineExactly, Waits
<1>1. k \in Positions
  BY DEF Syncers, Positions, IInv, Typed
<1>2. In(line[s], <<t, k>>) <=> SemaOf(t, k) = s /\ Waits(t, k)
  BY <1>1 DEF IInv, Lines
<1>3. CASE In(line[s], <<t, k>>)
  <2>1. PICK i \in 1..Len(line[s]) : line[s][i] = <<t, k>>
    BY <1>3 DEF In
  <2>2. \A j \in 1..Len(line[s]) : line[s][j] = <<t, k>> => j = i
    BY <2>1 DEF IInv, Lines, Once
  <2>3. Entries(s, t, k) = {i}
    BY <2>1, <2>2 DEF Entries
  <2>4. Cardinality(Entries(s, t, k)) = 1
    BY <2>3, FS_Singleton
  <2> QED
    BY <1>2, <1>3, <2>4
<1>4. CASE ~In(line[s], <<t, k>>)
  <2>1. Entries(s, t, k) = {}
    BY <1>4 DEF Entries, In
  <2>2. Cardinality(Entries(s, t, k)) = 0
    BY <2>1, FS_EmptySet
  <2> QED
    BY <1>2, <1>4, <2>2
<1> QED
  BY <1>3, <1>4

LEMMA ImpliesUnitsConserved ==
    ASSUME IInv
    PROVE  UnitsConserved
BY DEF IInv, Units, UnitsConserved

LEMMA ImpliesNacks ==
    ASSUME IInv
    PROVE  NackIffNotSelected
<1> SUFFICES ASSUME NEW t \in Threads, NEW k \in Syncers(t)
             PROVE  /\ k \in nacked[t] => selected[t] \notin {NotYet, k}
                    /\ /\ MakerCalled(t, k)
                       /\ selected[t] \notin {NotYet, k} \/ pc[t] = "returned" \/ t \in dead
                       /\ selected[t] # k
                       => k \in nacked[t]
  BY DEF NackIffNotSelected
<1>1. Nacks(t) /\ Control(t) /\ TypedThread(t)
  BY DEF IInv, ThreadInv
<1>2. MakerCalled(t, k) => Registered(t, k)
  BY DEF MakerCalled, Registered
<1>3. ASSUME MakerCalled(t, k), selected[t] # k,
             selected[t] \notin {NotYet, k} \/ pc[t] = "returned" \/ t \in dead
      PROVE  k \in nacked[t]
  <2>1. CASE selected[t] # NotYet
    BY <1>1, <1>2, <1>3, <2>1 DEF Nacks
  <2>2. CASE selected[t] = NotYet
    <3>1. stage[t][k] = "guard"
      BY <1>1, <1>3, <2>2 DEF Control, Fresh, MakerCalled
    <3> QED
      BY <1>3, <3>1 DEF MakerCalled
  <2> QED
    BY <2>1, <2>2
<1> QED
  BY <1>1, <1>3 DEF Nacks

LEMMA ImpliesBreakOrSelect ==
    ASSUME IInv
    PROVE  BreakOrSelect
BY DEF IInv, ThreadInv, EnabledBreaks, BreakOrSelect

LEMMA ImpliesBlocks ==
    ASSUME IInv, NoRetries
    PROVE  BlocksOnlyWhileNotReady
<1> SUFFICES ASSUME NEW t \in descheduled \ (suspended \cup dead), NEW k \in Syncers(t)
             PROVE  ~Positive(SemaOf(t, k))
  BY DEF BlocksOnlyWhileNotReady
<1>1. t \in Threads /\ ThreadInv(t)
  BY DEF IInv, TypedSets
<1>2. pc[t] = "waiting" /\ selected[t] = NotYet /\ interrupted[t] = {}
  BY <1>1 DEF ThreadInv, Blocked
<1>3. Waits(t, k)
  BY <1>1, <1>2 DEF ThreadInv, Control, Waits
<1>4. PICK s \in Semas : s = SemaOf(t, k)
  BY <1>1, SemaOfSyncer DEF IInv
<1>5. k \in Positions
  BY <1>1 DEF Syncers, Positions, IInv, Typed
<1>6. In(line[s], <<t, k>>)
  BY <1>1, <1>3, <1>4, <1>5 DEF IInv, Lines
<1>7. line[s] # <<>>
  BY <1>6 DEF In
<1>8. value[s] = 0
  BY <1>7 DEF IInv, LineZero
<1> QED
  BY <1>4, <1>8, SyncAssumption DEF Positive

-----------------------------------------------------------------------------
(* Theorems. *)

\* Whatever is posted, interrupted, retried, killed or timed out: a syncer is in
\* line exactly once while its sync is undecided and not interrupted and nowhere
\* otherwise, so syncing-done! finds nothing selected; and no unit of a semaphore
\* is lost or handed out twice.
THEOREM LinesAndUnits == Spec => [](TypeOK /\ InLineExactly /\ UnitsConserved)
<1>1. IInv => TypeOK /\ InLineExactly /\ UnitsConserved
  BY ImpliesTypeOK, ImpliesInLineExactly, ImpliesUnitsConserved
<1> QED
  BY <1>1, Inductive, PTL

\* No thread is rescheduled dead or while it is scheduled, and none is descheduled
\* twice (the internal-error calls of thread.rkt), as long as one of suspending,
\* killing and a finite timeout does not occur: with all three, a thread whose
\* timeout passed keeps the wakeup of suspend-syncing-thread when it is suspended
\* before it runs, and the kill callback then calls it on the dead thread.
THEOREM SyncSafe ==
    ASSUME NoLateWakeup
    PROVE  Spec => []SyncInv
<1>1. IInv => SyncInv
  BY ImpliesTypeOK, ImpliesInLineExactly, ImpliesUnitsConserved
     DEF IInv, Faults, NoInternalError, SyncInv
<1> QED
  BY <1>1, Inductive, PTL

\* The nack of an event is posted exactly if its maker was called and the sync
\* ended, by a selection, an escape, a timeout or a kill, without selecting it
\* (syncing-done!, syncing-abandon!).
THEOREM NacksExact == Spec => []NackIffNotSelected
<1>1. IInv => NackIffNotSelected
  BY ImpliesNacks
<1> QED
  BY <1>1, Inductive, PTL

\* sync/enable-break raises a break or selects an event, never both: the break
\* cell is ignored from the selection on (syncing-disable-break), and a pending
\* break has taken the sync out of every line (do-break-thread).
THEOREM BreakXorSelect == Spec => []BreakOrSelect
<1>1. IInv => BreakOrSelect
  BY ImpliesBreakOrSelect
<1> QED
  BY <1>1, Inductive, PTL

\* A thread that sync has descheduled waits for semaphores that are all zero
\* (suspend-syncing-thread), as long as no sync goes on after an interruption: not
\* with suspends, and not with breaks sent to a thread that has disabled them, which
\* may come between the test of need-retry? and the descheduling.
THEOREM BlocksRightly ==
    ASSUME NoRetries
    PROVE  Spec => []BlocksOnlyWhileNotReady
<1>1. IInv => BlocksOnlyWhileNotReady
  BY ImpliesBlocks
<1> QED
  BY <1>1, Inductive, PTL
=============================================================================
