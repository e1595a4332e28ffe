--------------------------- MODULE ParSweepProofs ---------------------------
(***************************************************************************)
(* Proofs about ParSweep, for any number of contexts and sweepers and for  *)
(* every heap: objects are copied only by their owner, each object is in   *)
(* the hands of one sweeper at a time, the count of running sweepers is    *)
(* exact, the sweep ends only when nothing is left to do, and together the *)
(* sweepers do what module Reach promises.                                 *)
(***************************************************************************)
EXTENDS ParSweep, FiniteSetTheorems, SequenceTheorems, TLAPS

\* What the sweep has to go through: objects that are kept, and dirty ones.
Kept == reached \cup OnCards

Shape ==
    /\ todo = [g \in Tgcs |-> todo[g]] /\ send = [g \in Tgcs |-> send[g]]
    /\ recv = [g \in Tgcs |-> recv[g]] /\ dirty \in [Tgcs -> Seq(Old)]
    /\ pend = [g \in Tgcs |-> pend[g]] /\ batch = [g \in Tgcs |-> batch[g]]
    /\ trig = [z \in Segments |-> trig[z]] /\ cur \in [Sweepers -> Nat]
    /\ \A g \in Tgcs : IsABag(todo[g]) /\ IsABag(send[g]) /\ IsABag(recv[g])

HeldKept == \A g \in Tgcs : Held(g) \subseteq Kept

\* An ephemeron at a trigger waits for a key that is not kept.
TriggersRight ==
    \A z \in Segments : \A e \in trig[z] :
        /\ e \in Ephemerons /\ e \in Kept /\ z = Segment[heap.key[e]]
        /\ heap.key[e] \notin reached \cup Old

FixedRight == \A o, x \in Objects : <<o, x>> \in fixed => x \in reached

\* Nothing is forgotten.
Covered == \A o \in Kept : Forwarded(o) \/ \E g \in Tgcs : o \in Held(g)

Quiet(g) ==
    /\ BagToSet(todo[g]) = {} /\ BagToSet(send[g]) = {}
    /\ pend[g] = {} /\ batch[g] = {} /\ dirty[g] = << >>

Resting(s) == pc[s] \in {"finish", "wait", "left", "alone"} \/ status[s] = "ready"

\* The control of a sweeper, and the contexts that it has finished with.
ControlOK(s) ==
    /\ cur[s] \in 1..Len(lists[s]) /\ status[s] \in {"sweeping", "waiting", "ready"}
    /\ pc[s] \in {"dirty", "pass", "eph", "finish"} => status[s] = "sweeping"
    /\ pc[s] = "wait" => status[s] \in {"waiting", "sweeping"}
    /\ pc[s] = "idle" => status[s] \in {"sweeping", "ready"}
    /\ status[s] = "waiting" => pc[s] \in {"wait", "left", "alone"}
    /\ status[s] = "ready" => pc[s] = "idle"
    /\ pc[s] \in {"left", "alone"} \/ status[s] = "ready" => running = 0 /\ ~AnyRanges(s)

PassOK(s) ==
    /\ pc[s] \in {"dirty", "pass", "eph"} => \A i \in 1..(cur[s] - 1) : Quiet(lists[s][i])
    /\ pc[s] \in {"pass", "eph"} => dirty[Ctx(s)] = << >>
    /\ pc[s] = "eph" /\ Ctx(s) \notin change =>
          BagToSet(todo[Ctx(s)]) = {} /\ BagToSet(send[Ctx(s)]) = {} /\ pend[Ctx(s)] = {}
    /\ Resting(s) => \A i \in 1..Len(lists[s]) : Quiet(lists[s][i])
    /\ pc[s] \notin {"dirty", "pass", "eph"} => cur[s] = 1
    /\ \A i \in 1..Len(lists[s]) : batch[lists[s][i]] # {} => pc[s] = "eph" /\ i = cur[s]

IInv ==
    /\ TypeOK /\ Shape /\ AssignedOnce /\ RunningExact
    /\ HeldKept /\ TriggersRight /\ FixedRight /\ Covered
    /\ \A s \in Used : ControlOK(s) /\ PassOK(s)
-----------------------------------------------------------------------------
(* Bags, as far as their members are concerned. *)

LEMMA SetBag ==
    ASSUME NEW S
    PROVE  BagToSet(SetToBag(S)) = S /\ IsABag(SetToBag(S))
  BY DEF BagToSet, SetToBag, IsABag

LEMMA NoBag == BagToSet(EmptyBag) = {} /\ IsABag(EmptyBag)
  BY DEF BagToSet, SetToBag, IsABag, EmptyBag

LEMMA OneBag ==
    ASSUME NEW x
    PROVE  BagToSet(One(x)) = {x} /\ IsABag(One(x)) /\ One(x)[x] = 1
  BY DEF One, BagToSet, SetToBag, IsABag

LEMMA PlusBag ==
    ASSUME NEW A, NEW B, IsABag(A), IsABag(B)
    PROVE  BagToSet(A (+) B) = BagToSet(A) \cup BagToSet(B) /\ IsABag(A (+) B)
  BY DEF BagToSet, IsABag, (+)

LEMMA MinusBag ==
    ASSUME NEW A, NEW x, IsABag(A)
    PROVE  /\ IsABag(A (-) One(x)) /\ BagToSet(A (-) One(x)) \subseteq BagToSet(A)
           /\ BagToSet(A) \subseteq BagToSet(A (-) One(x)) \cup {x}
<1>1. BagToSet(A) = DOMAIN A /\ \A y \in DOMAIN A : A[y] \in Nat /\ A[y] > 0
  BY DEF BagToSet, IsABag
<1> DEFINE D == [e \in DOMAIN A |-> IF e \in {x} THEN A[e] - 1 ELSE A[e]]
           M == [e \in {d \in DOMAIN D : D[d] > 0} |-> D[e]]
<1>2. A (-) One(x) = M
  BY DEF (-), One, SetToBag
<1>3. \A e \in DOMAIN A : D[e] \in Int /\ (e # x => D[e] = A[e])
  BY <1>1
<1>4. DOMAIN M = {d \in DOMAIN A : D[d] > 0} /\ \A d \in DOMAIN M : M[d] = D[d]
  OBVIOUS
<1>5. M = [d \in DOMAIN M |-> M[d]]
  OBVIOUS
<1> HIDE DEF D, M
<1>6. IsABag(M)
  BY <1>1, <1>3, <1>4, <1>5 DEF IsABag
<1> QED
  BY <1>1, <1>2, <1>3, <1>4, <1>6 DEF BagToSet

LEMMA RangeSeq ==
    ASSUME NEW S, NEW s \in Seq(S)
    PROVE  Range(s) \subseteq S
  BY ElementOfSeq, LenProperties DEF Range
-----------------------------------------------------------------------------
(* The heap. *)

LEMMA HeapFacts ==
    ASSUME TypeOK
    PROVE  /\ Ephemerons \subseteq Objects
           /\ heap.key \in [Ephemerons -> Objects] /\ heap.val \in [Ephemerons -> Objects]
           /\ heap.refs \in [Objects -> Seq(Objects)] /\ \A e \in Ephemerons : heap.refs[e] = << >>
           /\ heap.rooted \in [Tgcs -> SUBSET Collectable] /\ heap.dirty \in [Tgcs -> Seq(Old)]
           /\ OnCards \subseteq Old
<1>1. HeapOK(heap)
  BY SweepAssumption DEF TypeOK
<1>2. heap.dirty \in [Tgcs -> Seq(Old)]
  BY <1>1 DEF HeapOK
<1>3. OnCards \subseteq Old
  BY <1>2, RangeSeq DEF OnCards
<1> QED
  BY <1>1, <1>2, <1>3 DEF HeapOK, Ephemerons, Collectable

LEMMA IInvParts ==
    ASSUME IInv
    PROVE  /\ TypeOK /\ Shape /\ AssignedOnce /\ RunningExact
           /\ HeldKept /\ TriggersRight /\ FixedRight /\ Covered
           /\ \A s \in Used : ControlOK(s) /\ PassOK(s)
           /\ reached \subseteq Collectable /\ OnCards \subseteq Old /\ Kept \subseteq Objects
           /\ Old \subseteq Objects /\ Kept \subseteq reached \cup Old
<1>1. TypeOK /\ Old \subseteq Objects
  BY SweepAssumption DEF IInv
<1>2. OnCards \subseteq Old
  BY <1>1, HeapFacts
<1>3. reached \subseteq Collectable
  BY <1>1 DEF TypeOK, Collectable
<1> QED
  BY <1>1, <1>2, <1>3 DEF IInv, Kept, Collectable

LEMMA Referred ==
    ASSUME TypeOK, NEW S \in SUBSET Objects, NEW o \in S
    PROVE  /\ Range(heap.refs[o]) \subseteq Abstract!Children(S)
           /\ o \in Ephemerons /\ heap.key[o] \in S => heap.val[o] \in Abstract!Children(S)
<1>1. Graph.key = heap.key /\ Graph.val = heap.val /\ Graph.refs = References
  BY DEF Graph
<1>2. References[o] = Range(heap.refs[o])
  BY DEF References
<1>3. Range(heap.refs[o]) \subseteq Abstract!Children(S)
  BY <1>1, <1>2 DEF Abstract!Children
<1>4. ASSUME o \in Ephemerons, heap.key[o] \in S PROVE heap.val[o] \in Abstract!Children(S)
  BY <1>1, <1>4 DEF Abstract!Children, Ephemerons
<1> QED
  BY <1>3, <1>4

\* The context that a sweeper is working for is nobody else's.
LEMMA OwnContext ==
    ASSUME IInv, NEW s \in Used
    PROVE  /\ s \in Sweepers /\ cur[s] \in 1..Len(lists[s]) /\ Ctx(s) \in Tgcs
           /\ \A t \in Used : \A j \in 1..Len(lists[t]) : lists[t][j] \in Tgcs /\ (lists[t][j] = Ctx(s) => t = s /\ j = cur[s])
<1>1. s \in Sweepers /\ cur[s] \in 1..Len(lists[s]) /\ OnceEach(lists)
  BY IInvParts DEF Used, ControlOK, AssignedOnce
<1>2. \A t \in Sweepers : lists[t] \in Seq(Tgcs) /\ DOMAIN lists[t] = 1..Len(lists[t])
  BY <1>1, LenProperties DEF OnceEach
<1>3. \A t \in Sweepers : \A j \in 1..Len(lists[t]) : lists[t][j] \in Tgcs
  BY <1>2, ElementOfSeq
<1>4. Ctx(s) \in Tgcs
  BY <1>1, <1>3 DEF Ctx
<1>5. PICK u \in Sweepers : \E i \in DOMAIN lists[u] :
         \A t \in Sweepers : \A j \in DOMAIN lists[t] : lists[t][j] = Ctx(s) => t = u /\ j = i
  BY <1>1, <1>4 DEF OnceEach
<1>6. PICK i \in DOMAIN lists[u] :
         \A t \in Sweepers : \A j \in DOMAIN lists[t] : lists[t][j] = Ctx(s) => t = u /\ j = i
  BY <1>5
<1>7. u = s /\ i = cur[s]
  BY <1>1, <1>2, <1>6 DEF Ctx
<1> QED
  BY <1>1, <1>2, <1>3, <1>4, <1>6, <1>7 DEF Used
-----------------------------------------------------------------------------
(* Visiting an object: Relocate and CheckEphemeron. *)

\* Context g has visited o, and has X besides still to sweep.
Visited(g, o, X) ==
    /\ reached \subseteq reached' /\ reached' \subseteq Collectable
    /\ \A x \in reached' \ reached : Creator[x] = g /\ x \in Abstract!Children(reached \cup Old)
    /\ fixed \subseteq fixed' /\ fixed' \subseteq Objects \X Objects /\ FixedRight'
    /\ todo' = [h \in Tgcs |-> todo'[h]] /\ IsABag(todo'[g])
    /\ BagToSet(todo'[g]) = X \cup (reached' \ reached)
    /\ send' = [h \in Tgcs |-> send'[h]] /\ IsABag(send'[g])
    /\ BagToSet(send[g]) \subseteq BagToSet(send'[g])
    /\ BagToSet(send'[g]) \subseteq BagToSet(send[g]) \cup ({o} \X Tgcs)
    /\ pend' = [h \in Tgcs |-> pend'[h]] /\ pend[g] \subseteq pend'[g]
    /\ pend'[g] \subseteq Ephemerons /\ pend'[g] \subseteq Kept'
    /\ \A h \in Tgcs : h # g => todo'[h] = todo[h] /\ send'[h] = send[h] /\ pend'[h] = pend[h]
    /\ trig' = [z \in Segments |-> trig'[z]] /\ TriggersRight'
    /\ \A z \in Segments : \A e \in trig[z] : e \in trig'[z] \/ e \in pend'[g]
    /\ change \subseteq change' /\ change' \subseteq change \cup {g}
    /\ g \notin change' => reached' = reached /\ send' = send

LEMMA SendOne ==
    ASSUME Shape, NEW g \in Tgcs, NEW o, NEW h \in Tgcs,
           send' = [send EXCEPT ![g] = @ (+) One(<<o, h>>)]
    PROVE  /\ send' = [f \in Tgcs |-> send'[f]] /\ IsABag(send'[g])
           /\ BagToSet(send[g]) \subseteq BagToSet(send'[g])
           /\ BagToSet(send'[g]) \subseteq BagToSet(send[g]) \cup ({o} \X Tgcs)
           /\ \A f \in Tgcs : f # g => send'[f] = send[f]
           /\ <<o, h>> \in BagToSet(send'[g])
<1> DEFINE m == <<o, h>>
<1>1. m \in {o} \X Tgcs
  OBVIOUS
<1> HIDE DEF m
<1>2. send' = [send EXCEPT ![g] = @ (+) One(m)] /\ send = [f \in Tgcs |-> send[f]] /\ IsABag(send[g])
  BY DEF m, Shape
<1>3. send'[g] = send[g] (+) One(m)
  BY <1>2
<1>4. IsABag(send'[g]) /\ BagToSet(send'[g]) = BagToSet(send[g]) \cup {m}
  BY <1>2, <1>3, OneBag, PlusBag
<1>5. send' = [f \in Tgcs |-> send'[f]] /\ \A f \in Tgcs : f # g => send'[f] = send[f]
  BY <1>2
<1>6. m \in BagToSet(send'[g]) /\ BagToSet(send[g]) \subseteq BagToSet(send'[g])
      /\ BagToSet(send'[g]) \subseteq BagToSet(send[g]) \cup ({o} \X Tgcs)
  BY <1>1, <1>4
<1> QED
  BY <1>4, <1>5, <1>6 DEF m

\* The references of o in the fields fs are updated, or o is sent on.
LEMMA RelocateIs ==
    ASSUME IInv, heap' = heap, NEW g \in Tgcs, NEW o \in Kept, NEW fs \in Seq(Objects),
           NEW Y \in SUBSET reached, NEW rest, IsABag(rest),
           Range(fs) \subseteq Abstract!Children(reached \cup Old), Relocate(g, o, fs, Y, rest)
    PROVE  /\ Visited(g, o, BagToSet(rest)) /\ (g \notin change' => pend' = pend)
           /\ \A y \in Y : <<o, y>> \in fixed'
           /\ \/ \A x \in Range(fs) \ Old : <<o, x>> \in fixed'
              \/ \E h \in Tgcs : <<o, h>> \in BagToSet(send'[g])
<1>1. /\ TypeOK /\ Shape /\ TriggersRight /\ FixedRight /\ reached \subseteq Collectable /\ o \in Objects
      /\ Old \subseteq Objects /\ Range(fs) \subseteq Objects /\ Creator \in [Objects -> Tgcs]
  BY IInvParts, RangeSeq, SweepAssumption
<1> DEFINE open == Unfixed(o, Range(fs))
<1>2. open \subseteq Collectable /\ \A x \in Range(fs) \ Old : x \in open \/ <<o, x>> \in fixed
  BY <1>1 DEF Unfixed, Collectable
<1> HIDE DEF open
<1>3. PICK seen \in SUBSET MaybeMarked(open) :
        LET loc == Local(g, open, seen)
            new == loc \ reached
            far == open \ loc
            pulled == Pulled(new)
        IN
        /\ reached' = reached \cup new
        /\ fixed' = fixed \cup {<<o, x>> : x \in loc \cup Y}
        /\ todo' = [todo EXCEPT ![g] = rest (+) SetToBag(new)]
        /\ pend' = [pend EXCEPT ![g] = @ \cup UNION {trig[z] : z \in pulled}]
        /\ trig' = [z \in Segments |-> IF z \in pulled THEN {} ELSE trig[z]]
        /\ Flush(g, o, fs, far)
        /\ change' = IF new \cup far = {} THEN change ELSE change \cup {g}
  BY DEF Relocate, open
<1> DEFINE loc == Local(g, open, seen)
           new == loc \ reached
           far == open \ loc
           pulled == Pulled(new)
<1>4. /\ reached' = reached \cup new
      /\ fixed' = fixed \cup {<<o, x>> : x \in loc \cup Y}
      /\ todo' = [todo EXCEPT ![g] = rest (+) SetToBag(new)]
      /\ pend' = [pend EXCEPT ![g] = @ \cup UNION {trig[z] : z \in pulled}]
      /\ trig' = [z \in Segments |-> IF z \in pulled THEN {} ELSE trig[z]]
      /\ Flush(g, o, fs, far)
      /\ change' = IF new \cup far = {} THEN change ELSE change \cup {g}
  BY <1>3
<1>5. /\ loc \subseteq open /\ seen \subseteq reached /\ \A x \in new : Creator[x] = g /\ x \in Range(fs)
      /\ open \subseteq Range(fs)
  BY DEF Local, MaybeMarked, open, Unfixed
<1>6. pulled = {Segment[x] : x \in new} /\ pulled \subseteq Segments
  BY <1>1, <1>2, <1>5 DEF Pulled, Segments, Collectable
<1> HIDE DEF loc, new, pulled
<1>7. new = loc \ reached
  BY DEF new
<1>8. reached \subseteq reached' /\ reached' \subseteq Collectable /\ reached' \ reached = new
      /\ \A x \in reached' \ reached : Creator[x] = g /\ x \in Abstract!Children(reached \cup Old)
  BY <1>1, <1>2, <1>4, <1>5, <1>7
<1>9. fixed \subseteq fixed' /\ fixed' \subseteq Objects \X Objects
  BY <1>1, <1>2, <1>4, <1>5 DEF TypeOK, Collectable
<1>10. FixedRight'
  BY <1>1, <1>4, <1>7 DEF FixedRight
<1>11. /\ todo' = [h \in Tgcs |-> todo'[h]] /\ IsABag(todo'[g]) /\ BagToSet(todo'[g]) = BagToSet(rest) \cup new
       /\ \A h \in Tgcs : h # g => todo'[h] = todo[h]
  <2>1. todo'[g] = rest (+) SetToBag(new)
    BY <1>1, <1>4 DEF Shape
  <2>2. IsABag(todo'[g]) /\ BagToSet(todo'[g]) = BagToSet(rest) \cup new
    BY <2>1, SetBag, PlusBag
  <2> QED
    BY <1>1, <1>4, <2>2 DEF Shape
<1>12. /\ send' = [h \in Tgcs |-> send'[h]] /\ IsABag(send'[g])
       /\ BagToSet(send[g]) \subseteq BagToSet(send'[g])
       /\ BagToSet(send'[g]) \subseteq BagToSet(send[g]) \cup ({o} \X Tgcs)
       /\ \A h \in Tgcs : h # g => send'[h] = send[h]
       /\ far = {} => send' = send
       /\ far # {} => \E h \in Tgcs : <<o, h>> \in BagToSet(send'[g])
  <2>1. CASE far = {} /\ send' = send
    BY <1>1, <2>1 DEF Shape
  <2>2. CASE \E i \in DOMAIN fs :
               /\ fs[i] \in far /\ \A j \in DOMAIN fs : fs[j] \in far => j <= i
               /\ send' = [send EXCEPT ![g] = @ (+) One(<<o, Creator[fs[i]]>>)]
    <3>1. PICK i \in DOMAIN fs : /\ fs[i] \in far
                                 /\ send' = [send EXCEPT ![g] = @ (+) One(<<o, Creator[fs[i]]>>)]
      BY <2>2
    <3>2. fs[i] \in Objects /\ far # {}
      BY <1>2, <3>1 DEF Collectable
    <3> DEFINE h == Creator[fs[i]]
    <3>6. h \in Tgcs
      BY <1>1, <3>2
    <3> HIDE DEF h
    <3>7. send' = [send EXCEPT ![g] = @ (+) One(<<o, h>>)]
      BY <3>1 DEF h
    <3> QED
      BY <1>1, <3>2, <3>6, <3>7, SendOne
  <2> QED
    BY <1>4, <2>1, <2>2 DEF Flush
<1>13. /\ pend' = [h \in Tgcs |-> pend'[h]] /\ pend[g] \subseteq pend'[g]
       /\ pend'[g] \subseteq pend[g] \cup UNION {trig[z] : z \in Segments}
       /\ \A h \in Tgcs : h # g => pend'[h] = pend[h]
       /\ \A z \in pulled : trig[z] \subseteq pend'[g]
       /\ pulled = {} => pend' = pend
  <2> DEFINE woken == UNION {trig[z] : z \in pulled}
  <2>1. woken \subseteq UNION {trig[z] : z \in Segments} /\ \A z \in pulled : trig[z] \subseteq woken
    BY <1>6
  <2>2. pulled = {} => woken = {}
    OBVIOUS
  <2>3. pend' = [pend EXCEPT ![g] = @ \cup woken]
    BY <1>4
  <2> HIDE DEF woken
  <2>4. pend = [h \in Tgcs |-> pend[h]]
    BY <1>1 DEF Shape
  <2>5. pend'[g] = pend[g] \cup woken /\ \A h \in Tgcs : h # g => pend'[h] = pend[h]
    BY <2>3, <2>4
  <2>6. pend' = [h \in Tgcs |-> pend'[h]]
    BY <2>3, <2>4
  <2>7. woken = {} => pend' = pend
    BY <2>3, <2>4
  <2> QED
    BY <2>1, <2>2, <2>5, <2>6, <2>7
<1>14. pend'[g] \subseteq Ephemerons /\ pend'[g] \subseteq Kept' /\ Kept \subseteq Kept' /\ OnCards' = OnCards
  <2>1. pend[g] \subseteq Ephemerons
    BY <1>1 DEF TypeOK
  <2>2. OnCards' = OnCards
    BY DEF OnCards
  <2>3. Kept \subseteq Kept'
    BY <1>8, <2>2 DEF Kept
  <2>4. pend[g] \subseteq Kept
    BY IInvParts DEF HeldKept, Held
  <2> QED
    BY <1>1, <1>13, <2>1, <2>2, <2>3, <2>4 DEF TriggersRight
<1>15. trig' = [z \in Segments |-> trig'[z]] /\ \A z \in Segments : \A e \in trig[z] : e \in trig'[z] \/ e \in pend'[g]
  BY <1>4, <1>13
<1>16. TriggersRight'
  <2> SUFFICES ASSUME NEW z \in Segments, NEW e \in trig'[z]
               PROVE  /\ e \in Ephemerons' /\ e \in Kept' /\ z = Segment[heap'.key[e]]
                      /\ heap'.key[e] \notin reached' \cup Old
    BY DEF TriggersRight, Segments
  <2>1. z \notin pulled /\ e \in trig[z]
    BY <1>4
  <2>2. e \in Ephemerons /\ e \in Kept /\ z = Segment[heap.key[e]] /\ heap.key[e] \notin reached \cup Old
    BY <1>1, <2>1 DEF TriggersRight
  <2>3. heap.key[e] \notin new
    BY <1>6, <2>1, <2>2
  <2> QED
    BY <1>4, <1>14, <2>2, <2>3 DEF Ephemerons
<1>17. change \subseteq change' /\ change' \subseteq change \cup {g}
  BY <1>4
<1>18. g \notin change' => reached' = reached /\ send' = send /\ pend' = pend
  <2> SUFFICES ASSUME g \notin change' PROVE new = {} /\ far = {}
    BY <1>4, <1>6, <1>12, <1>13
  <2> QED
    BY <1>4
<1>19. \A y \in Y : <<o, y>> \in fixed'
  BY <1>4
<1>20. \/ \A x \in Range(fs) \ Old : <<o, x>> \in fixed'
       \/ \E h \in Tgcs : <<o, h>> \in BagToSet(send'[g])
  <2>1. CASE far = {}
    BY <1>2, <1>4, <2>1
  <2>2. CASE far # {}
    BY <1>12, <2>2
  <2> QED
    BY <2>1, <2>2
<1>21. Visited(g, o, BagToSet(rest))
  BY <1>8, <1>9, <1>10, <1>11, <1>12, <1>13, <1>14, <1>15, <1>16, <1>17, <1>18 DEF Visited
<1> QED
  BY <1>18, <1>19, <1>20, <1>21
LEMMA RangeNone == Range(<< >>) = {}
  BY DEF Range

LEMMA RangeOne ==
    ASSUME NEW v
    PROVE  Range(<<v>>) = {v}
  BY DEF Range

\* An ephemeron that was checked is up to date, waits for its key, or was sent on.
LEMMA CheckIs ==
    ASSUME IInv, heap' = heap, NEW g \in Tgcs, NEW e \in Kept, e \in Ephemerons,
           NEW isDirty \in BOOLEAN, CheckEphemeron(g, e, isDirty)
    PROVE  /\ Visited(g, e, BagToSet(todo[g]))
           /\ Forwarded(e)' \/ e \in pend'[g] \/ \E h \in Tgcs : <<e, h>> \in BagToSet(send'[g])
           /\ ~isDirty /\ g \notin change' => pend' = pend
<1> DEFINE k == heap.key[e]
           v == heap.val[e]
<1>1. /\ TypeOK /\ Shape /\ TriggersRight /\ FixedRight /\ reached \subseteq Collectable
      /\ Old \subseteq Objects /\ e \in Objects /\ k \in Objects /\ v \in Objects /\ e \in reached \cup Old
      /\ Creator \in [Objects -> Tgcs] /\ IsABag(todo[g]) /\ Kept \subseteq Objects
  <2>1. TypeOK /\ e \in reached \cup Old
    BY IInvParts
  <2>2. e \in Objects /\ k \in Objects /\ v \in Objects
    BY <2>1, HeapFacts
  <2> QED
    BY <2>1, <2>2, IInvParts, SweepAssumption DEF Shape
<1>2. Unfixed(e, {k}) = {} <=> k \in Old \/ <<e, k>> \in fixed
  BY DEF Unfixed
<1>3. Range(<<v>>) = {v} /\ <<v>> \in Seq(Objects)
  BY <1>1, RangeOne
<1>4. k \in reached \cup Old => v \in Abstract!Children(reached \cup Old)
  <2>1. reached \cup Old \in SUBSET Objects
    BY <1>1 DEF Collectable
  <2> QED
    BY <1>1, <2>1, Referred
<1>5. Ephemerons' = Ephemerons /\ heap'.key[e] = k /\ heap'.val[e] = v
  BY DEF Ephemerons
<1>6. ASSUME NEW Y \in SUBSET reached, Relocate(g, e, <<v>>, Y, todo[g]),
             k \in reached \cup Old, k \in Old \/ <<e, k>> \in fixed \/ k \in Y
      PROVE  /\ Visited(g, e, BagToSet(todo[g])) /\ (g \notin change' => pend' = pend)
             /\ Forwarded(e)' \/ \E h \in Tgcs : <<e, h>> \in BagToSet(send'[g])
  <2>1. Range(<<v>>) \subseteq Abstract!Children(reached \cup Old)
    BY <1>3, <1>4, <1>6
  <2> DEFINE fs == <<v>>
  <2>2. fs \in Seq(Objects) /\ Range(fs) \subseteq Abstract!Children(reached \cup Old)
    BY <1>3, <2>1
  <2>3. Range(fs) = {v} /\ Relocate(g, e, fs, Y, todo[g])
    BY <1>3, <1>6
  <2> HIDE DEF fs
  <2>4. /\ Visited(g, e, BagToSet(todo[g])) /\ (g \notin change' => pend' = pend)
        /\ \A y \in Y : <<e, y>> \in fixed'
        /\ \/ \A x \in {v} \ Old : <<e, x>> \in fixed'
           \/ \E h \in Tgcs : <<e, h>> \in BagToSet(send'[g])
    BY <1>1, <2>2, <2>3, RelocateIs
  <2>5. k \in reached' \cup Old /\ (k \in Old \/ <<e, k>> \in fixed')
    BY <1>6, <2>4 DEF Visited
  <2>6. ASSUME \A x \in {v} \ Old : <<e, x>> \in fixed' PROVE Forwarded(e)'
    BY <1>5, <2>5, <2>6 DEF Forwarded
  <2> QED
    BY <2>4, <2>6
<1>7. CASE Unfixed(e, {k}) = {} /\ Relocate(g, e, <<v>>, {}, todo[g])
  <2>1. k \in Old \/ <<e, k>> \in fixed
    BY <1>2, <1>7
  <2>2. k \in reached \cup Old
    BY <1>1, <2>1 DEF FixedRight
  <2> QED
    BY <1>6, <1>7, <2>1, <2>2
<1>8. CASE k \in reached /\ Relocate(g, e, <<v>>, {k}, todo[g])
  BY <1>6, <1>8
<1>9. CASE /\ Unfixed(e, {k}) # {} /\ k \notin reached
           /\ pend' = [pend EXCEPT ![g] = @ \cup {e}] /\ trig' = trig /\ isDirty
           /\ UNCHANGED <<reached, fixed, todo, send, change>>
  <2>1. e \in pend'[g] /\ pend' = [h \in Tgcs |-> pend'[h]] /\ pend'[g] = pend[g] \cup {e}
        /\ \A h \in Tgcs : h # g => pend'[h] = pend[h]
    BY <1>1, <1>9 DEF Shape
  <2>2. Kept' = Kept /\ OnCards' = OnCards
    BY <1>9 DEF Kept, OnCards
  <2>3. pend[g] \subseteq Ephemerons /\ pend[g] \subseteq Kept
    BY <1>1, IInvParts DEF TypeOK, HeldKept, Held
  <2>4. TriggersRight' /\ FixedRight'
    BY <1>1, <1>9, <2>2 DEF TriggersRight, FixedRight, Segments, Ephemerons
  <2>5. /\ todo' = todo /\ send' = send /\ IsABag(send[g]) /\ reached' \ reached = {} /\ fixed \subseteq Objects \X Objects
        /\ todo = [h \in Tgcs |-> todo[h]] /\ send = [h \in Tgcs |-> send[h]] /\ trig = [z \in Segments |-> trig[z]]
    BY <1>1, <1>9 DEF Shape, TypeOK
  <2>6. Visited(g, e, BagToSet(todo[g]))
    BY <1>1, <1>9, <2>1, <2>2, <2>3, <2>4, <2>5 DEF Visited
  <2> QED
    BY <1>9, <2>1, <2>6
<1>10. CASE /\ Unfixed(e, {k}) # {} /\ k \notin reached
            /\ trig' = [trig EXCEPT ![Segment[k]] = @ \cup {e}] /\ pend' = pend /\ ~isDirty
            /\ UNCHANGED <<reached, fixed, todo, send, change>>
  <2>1. k \notin reached \cup Old /\ Segment[k] \in Segments
    BY <1>1, <1>2, <1>10 DEF Segments
  <2>2. Kept' = Kept /\ OnCards' = OnCards
    BY <1>10 DEF Kept, OnCards
  <2>3. pend[g] \subseteq Ephemerons /\ pend[g] \subseteq Kept
    BY <1>1, IInvParts DEF TypeOK, HeldKept, Held
  <2>4. /\ todo' = todo /\ send' = send /\ IsABag(send[g]) /\ reached' \ reached = {} /\ fixed \subseteq Objects \X Objects
        /\ todo = [h \in Tgcs |-> todo[h]] /\ send = [h \in Tgcs |-> send[h]] /\ pend = [h \in Tgcs |-> pend[h]]
    BY <1>1, <1>10 DEF Shape, TypeOK
  <2>5. /\ trig' = [z \in Segments |-> trig'[z]]
        /\ \A z \in Segments : trig'[z] = IF z = Segment[k] THEN trig[z] \cup {e} ELSE trig[z]
    BY <1>1, <1>10, <2>1 DEF Shape
  <2>6. TriggersRight'
    <3> SUFFICES ASSUME NEW z \in Segments, NEW x \in trig'[z]
                 PROVE  /\ x \in Ephemerons /\ x \in Kept /\ z = Segment[heap.key[x]]
                        /\ heap.key[x] \notin reached \cup Old
      BY <1>10, <2>2 DEF TriggersRight, Ephemerons, Segments
    <3>1. x \in trig[z] \/ (z = Segment[k] /\ x = e)
      BY <2>5
    <3> QED
      BY <1>1, <2>1, <3>1 DEF TriggersRight
  <2>7. FixedRight'
    BY <1>1, <1>10 DEF FixedRight
  <2>8. Visited(g, e, BagToSet(todo[g]))
    BY <1>1, <1>10, <2>2, <2>3, <2>4, <2>5, <2>6, <2>7 DEF Visited
  <2>9. Forwarded(e)'
    BY <1>5, <1>10, <2>1, <2>5 DEF Forwarded
  <2> QED
    BY <1>10, <2>8, <2>9
<1>11. CASE /\ send' = [send EXCEPT ![g] = @ (+) One(<<e, Creator[k]>>)]
            /\ change' = change \cup {g}
            /\ UNCHANGED <<reached, fixed, todo, pend, trig>>
  <2>1. /\ send' = [f \in Tgcs |-> send'[f]] /\ IsABag(send'[g])
        /\ BagToSet(send[g]) \subseteq BagToSet(send'[g])
        /\ BagToSet(send'[g]) \subseteq BagToSet(send[g]) \cup ({e} \X Tgcs)
        /\ \A f \in Tgcs : f # g => send'[f] = send[f]
        /\ <<e, Creator[k]>> \in BagToSet(send'[g]) /\ Creator[k] \in Tgcs
    BY <1>1, <1>11, SendOne
  <2>2. Kept' = Kept /\ OnCards' = OnCards
    BY <1>11 DEF Kept, OnCards
  <2>3. pend[g] \subseteq Ephemerons /\ pend[g] \subseteq Kept
    BY <1>1, IInvParts DEF TypeOK, HeldKept, Held
  <2>4. /\ todo' = todo /\ reached' \ reached = {} /\ fixed \subseteq Objects \X Objects
        /\ todo = [h \in Tgcs |-> todo[h]] /\ pend = [h \in Tgcs |-> pend[h]] /\ trig = [z \in Segments |-> trig[z]]
    BY <1>1, <1>11 DEF Shape, TypeOK
  <2>5. TriggersRight' /\ FixedRight'
    BY <1>1, <1>11, <2>2 DEF TriggersRight, FixedRight, Segments, Ephemerons
  <2>6. Visited(g, e, BagToSet(todo[g]))
    BY <1>1, <1>11, <2>1, <2>2, <2>3, <2>4, <2>5 DEF Visited
  <2> QED
    BY <1>11, <2>1, <2>6
<1> HIDE DEF k, v
<1>12. \/ /\ Unfixed(e, {k}) = {}
          /\ Relocate(g, e, <<v>>, {}, todo[g])
       \/ /\ k \in reached
          /\ Relocate(g, e, <<v>>, {k}, todo[g])
       \/ /\ Unfixed(e, {k}) # {} /\ k \notin reached
          /\ IF isDirty
             THEN pend' = [pend EXCEPT ![g] = @ \cup {e}] /\ trig' = trig
             ELSE trig' = [trig EXCEPT ![Segment[k]] = @ \cup {e}] /\ pend' = pend
          /\ UNCHANGED <<reached, fixed, todo, send, change>>
       \/ /\ send' = [send EXCEPT ![g] = @ (+) One(<<e, Creator[k]>>)]
          /\ change' = change \cup {g}
          /\ UNCHANGED <<reached, fixed, todo, pend, trig>>
  BY DEF CheckEphemeron, k, v
<1> QED
  BY <1>7, <1>8, <1>9, <1>10, <1>11, <1>12
-----------------------------------------------------------------------------
(* A visit keeps the invariant. *)

\* What was up to date stays so, or its key turned up and it is checked again.
LEMMA StaysForwarded ==
    ASSUME IInv, heap' = heap, NEW g \in Tgcs, NEW o, NEW X, Visited(g, o, X), NEW x \in Kept, Forwarded(x)
    PROVE  Forwarded(x)' \/ x \in pend'[g]
<1>1. Ephemerons' = Ephemerons /\ fixed \subseteq fixed' /\ reached \subseteq reached'
  BY DEF Ephemerons, Visited
<1>2. CASE x \notin Ephemerons
  BY <1>1, <1>2 DEF Forwarded
<1>3. CASE x \in Ephemerons /\ heap.key[x] \in reached \cup Old
  BY <1>1, <1>3 DEF Forwarded
<1>4. CASE x \in Ephemerons /\ heap.key[x] \notin reached \cup Old
  <2>1. x \in trig[Segment[heap.key[x]]]
    BY <1>4 DEF Forwarded
  <2>2. heap.key[x] \in Objects
    BY <1>4, IInvParts, HeapFacts
  <2>3. Segment[heap.key[x]] \in Segments
    BY <2>2 DEF Segments
  <2>4. x \in trig'[Segment[heap.key[x]]] \/ x \in pend'[g]
    BY <2>1, <2>3 DEF Visited
  <2>5. ASSUME x \in trig'[Segment[heap.key[x]]] PROVE heap.key[x] \notin reached' \cup Old
    BY <2>3, <2>5 DEF Visited, TriggersRight, Segments
  <2> QED
    BY <1>1, <1>4, <2>4, <2>5 DEF Forwarded
<1> QED
  BY <1>2, <1>3, <1>4

\* The part of a visit that is not in Visited: where o was taken from.
Taken(s, o, X) ==
    LET g == Ctx(s) IN
    /\ UNCHANGED <<heap, control, pc, cur, recv>>
    /\ dirty' \in [Tgcs -> Seq(Old)] /\ batch' = [h \in Tgcs |-> batch'[h]]
    /\ \A h \in Tgcs : h # g => dirty'[h] = dirty[h] /\ batch'[h] = batch[h]
    /\ X \subseteq BagToSet(todo[g]) /\ BagToSet(todo[g]) \subseteq X \cup {o}
    /\ Range(dirty'[g]) \subseteq Range(dirty[g]) /\ Range(dirty[g]) \subseteq Range(dirty'[g]) \cup {o}
    /\ batch'[g] \subseteq batch[g] /\ batch[g] \subseteq batch'[g] \cup {o}
    /\ pc[s] \in {"pass", "eph"} => dirty' = dirty
    /\ pc[s] = "eph" => X = BagToSet(todo[g]) /\ (g \notin change' => pend' = pend)
    /\ pc[s] \in {"dirty", "pass"} => batch' = batch

\* Sweeper s visits an object.
Visit(s) ==
    \E o \in Kept : \E X :
        /\ pc[s] \in {"dirty", "pass", "eph"} /\ Visited(Ctx(s), o, X) /\ Taken(s, o, X)
        /\ Forwarded(o)' \/ o \in Held(Ctx(s))'

LEMMA VisitStep ==
    ASSUME IInv, NEW s \in Used, pc[s] \in {"dirty", "pass", "eph"}, NEW o \in Kept, NEW X,
           Visited(Ctx(s), o, X), Taken(s, o, X), Forwarded(o)' \/ o \in Held(Ctx(s))'
    PROVE  IInv'
<1>0. PICK g \in Tgcs : g = Ctx(s)
  BY OwnContext
<1>1. /\ TypeOK /\ Shape /\ AssignedOnce /\ RunningExact
      /\ HeldKept /\ TriggersRight /\ FixedRight /\ Covered
      /\ \A t \in Used : ControlOK(t) /\ PassOK(t)
      /\ Kept \subseteq Objects /\ reached \subseteq Collectable /\ Old \subseteq Objects
  BY IInvParts
<1>2. /\ s \in Sweepers /\ cur[s] \in 1..Len(lists[s]) /\ g \in Tgcs
      /\ \A t \in Used : \A j \in 1..Len(lists[t]) : lists[t][j] \in Tgcs /\ (lists[t][j] = g => t = s /\ j = cur[s])
  BY <1>0, OwnContext
<1>3. Visited(g, o, X) /\ Taken(s, o, X)
  BY <1>0
<1>4. /\ heap' = heap /\ lists' = lists /\ status' = status /\ running' = running /\ asleep' = asleep
      /\ pc' = pc /\ cur' = cur /\ recv' = recv
  BY DEF Taken, control
<1>5. Used' = Used /\ Ephemerons' = Ephemerons /\ OnCards' = OnCards /\ Segments' = Segments
      /\ \A t : Ctx(t)' = Ctx(t)
  BY <1>4 DEF Used, Ephemerons, OnCards, Segments, Ctx
<1>6. \A t : AnyRanges(t)' <=> AnyRanges(t)
  BY <1>4 DEF AnyRanges
<1>7. /\ X \subseteq BagToSet(todo[g]) /\ BagToSet(todo[g]) \subseteq X \cup {o}
      /\ dirty' \in [Tgcs -> Seq(Old)] /\ batch' = [h \in Tgcs |-> batch'[h]]
      /\ \A h \in Tgcs : h # g => dirty'[h] = dirty[h] /\ batch'[h] = batch[h]
      /\ Range(dirty'[g]) \subseteq Range(dirty[g]) /\ Range(dirty[g]) \subseteq Range(dirty'[g]) \cup {o}
      /\ batch'[g] \subseteq batch[g] /\ batch[g] \subseteq batch'[g] \cup {o}
      /\ pc[s] \in {"pass", "eph"} => dirty' = dirty
      /\ pc[s] = "eph" => X = BagToSet(todo[g]) /\ (g \notin change' => pend' = pend)
      /\ pc[s] \in {"dirty", "pass"} => batch' = batch
  BY <1>0 DEF Taken
<1>8. /\ reached \subseteq reached' /\ reached' \subseteq Collectable
      /\ fixed' \subseteq Objects \X Objects /\ FixedRight'
      /\ todo' = [h \in Tgcs |-> todo'[h]] /\ IsABag(todo'[g])
      /\ BagToSet(todo'[g]) = X \cup (reached' \ reached)
      /\ send' = [h \in Tgcs |-> send'[h]] /\ IsABag(send'[g])
      /\ BagToSet(send[g]) \subseteq BagToSet(send'[g])
      /\ BagToSet(send'[g]) \subseteq BagToSet(send[g]) \cup ({o} \X Tgcs)
      /\ pend' = [h \in Tgcs |-> pend'[h]] /\ pend[g] \subseteq pend'[g]
      /\ pend'[g] \subseteq Ephemerons /\ pend'[g] \subseteq Kept'
      /\ \A h \in Tgcs : h # g => todo'[h] = todo[h] /\ send'[h] = send[h] /\ pend'[h] = pend[h]
      /\ trig' = [z \in Segments |-> trig'[z]] /\ TriggersRight'
      /\ change \subseteq change' /\ change' \subseteq change \cup {g}
      /\ g \notin change' => reached' = reached /\ send' = send
  BY <1>3 DEF Visited
<1>9. Kept \subseteq Kept' /\ reached' \subseteq Kept'
  BY <1>5, <1>8 DEF Kept
<1>10. \A h \in Tgcs : h # g => Held(h)' = Held(h)
  BY <1>4, <1>7, <1>8 DEF Held
<1>11. Held(g)' \subseteq Kept'
  <2>1. Held(g) \subseteq Kept
    BY <1>1, <1>2 DEF HeldKept
  <2>2. BagToSet(todo'[g]) \subseteq Kept'
    BY <1>7, <1>8, <1>9, <2>1 DEF Held
  <2>3. \A m \in BagToSet(send'[g]) : m[1] \in Kept'
    <3> SUFFICES ASSUME NEW m \in BagToSet(send'[g]) PROVE m[1] \in Kept'
      OBVIOUS
    <3>1. CASE m \in BagToSet(send[g])
      BY <1>9, <2>1, <3>1 DEF Held
    <3>2. CASE m \in {o} \X Tgcs
      BY <1>9, <3>2
    <3> QED
      BY <1>8, <3>1, <3>2
  <2>4. recv'[g] = recv[g] /\ BagToSet(recv[g]) \subseteq Kept'
    BY <1>4, <1>9, <2>1 DEF Held
  <2>5. batch'[g] \subseteq Kept' /\ Range(dirty'[g]) \subseteq Kept'
    BY <1>7, <1>9, <2>1 DEF Held
  <2> QED
    BY <1>8, <2>2, <2>3, <2>4, <2>5 DEF Held
<1>12. HeldKept'
  BY <1>1, <1>9, <1>10, <1>11 DEF HeldKept
<1>13. Covered'
  <2> SUFFICES ASSUME NEW x \in Kept' PROVE Forwarded(x)' \/ \E h \in Tgcs : x \in Held(h)'
    BY DEF Covered
  <2>1. CASE x \in Kept /\ Forwarded(x)
    <3>1. Forwarded(x)' \/ x \in pend'[g]
      BY <1>2, <1>3, <1>4, <2>1, StaysForwarded
    <3> QED
      BY <1>2, <3>1 DEF Held
  <2>2. CASE x = o
    <3>1. Held(Ctx(s))' = Held(g)'
      BY <1>5, <1>0 DEF Held
    <3> QED
      BY <1>2, <2>2, <3>1
  <2>3. CASE x \in Kept /\ x # o /\ \E h \in Tgcs : x \in Held(h)
    <3>1. PICK h \in Tgcs : x \in Held(h)
      BY <2>3
    <3>2. CASE h # g
      BY <1>10, <3>1, <3>2
    <3>3. CASE h = g
      <4>1. x \in Held(g)
        BY <3>1, <3>3
      <4>2. CASE x \in BagToSet(todo[g])
        BY <1>2, <1>7, <1>8, <2>3, <4>2 DEF Held
      <4>3. CASE x \in {m[1] : m \in BagToSet(send[g])}
        BY <1>2, <1>8, <4>3 DEF Held
      <4>4. CASE x \in BagToSet(recv[g]) \/ x \in pend[g]
        BY <1>2, <1>4, <1>8, <4>4 DEF Held
      <4>5. CASE x \in batch[g] \/ x \in Range(dirty[g])
        BY <1>2, <1>7, <2>3, <4>5 DEF Held
      <4> QED
        BY <4>1, <4>2, <4>3, <4>4, <4>5 DEF Held
    <3> QED
      BY <3>2, <3>3
  <2>4. CASE x \notin Kept
    <3>1. x \in reached' \ reached
      BY <1>5, <2>4 DEF Kept
    <3> QED
      BY <1>2, <1>8, <3>1 DEF Held
  <2> QED
    BY <1>1, <2>1, <2>2, <2>3, <2>4 DEF Covered
<1>14. Shape'
  BY <1>1, <1>4, <1>5, <1>7, <1>8 DEF Shape
<1>15. TypeOK'
  <2>1. \A h \in Tgcs :
        /\ BagToSet(todo'[h]) \subseteq Objects /\ BagToSet(recv'[h]) \subseteq Objects
        /\ BagToSet(send'[h]) \subseteq Objects \X Tgcs
        /\ pend'[h] \subseteq Ephemerons /\ batch'[h] \subseteq Ephemerons
    <3> SUFFICES ASSUME NEW h \in Tgcs
                 PROVE  /\ BagToSet(todo'[h]) \subseteq Objects /\ BagToSet(recv'[h]) \subseteq Objects
                        /\ BagToSet(send'[h]) \subseteq Objects \X Tgcs
                        /\ pend'[h] \subseteq Ephemerons /\ batch'[h] \subseteq Ephemerons
      OBVIOUS
    <3>1. /\ BagToSet(todo[h]) \subseteq Objects /\ BagToSet(recv[h]) \subseteq Objects
          /\ BagToSet(send[h]) \subseteq Objects \X Tgcs
          /\ pend[h] \subseteq Ephemerons /\ batch[h] \subseteq Ephemerons
      BY <1>1 DEF TypeOK
    <3>2. CASE h # g
      BY <1>4, <1>7, <1>8, <3>1, <3>2
    <3>3. CASE h = g
      <4>1. BagToSet(todo'[h]) \subseteq Objects
        BY <1>7, <1>8, <3>1, <3>3 DEF Collectable
      <4>2. {o} \X Tgcs \subseteq Objects \X Tgcs
        BY <1>1
      <4>3. BagToSet(send'[h]) \subseteq Objects \X Tgcs
        BY <1>8, <3>1, <3>3, <4>2
      <4> QED
        BY <1>4, <1>7, <1>8, <3>1, <3>3, <4>1, <4>3
    <3> QED
      BY <3>2, <3>3
  <2>2. change' \subseteq Tgcs
    BY <1>1, <1>2, <1>8 DEF TypeOK
  <2> QED
    BY <1>1, <1>4, <1>5, <1>8, <2>1, <2>2 DEF TypeOK, Collectable
<1>16. AssignedOnce' /\ RunningExact'
  BY <1>1, <1>4, <1>5, <1>6 DEF AssignedOnce, RunningExact
<1>17. \A h \in Tgcs : h # g =>
        /\ todo'[h] = todo[h] /\ send'[h] = send[h] /\ pend'[h] = pend[h]
        /\ dirty'[h] = dirty[h] /\ batch'[h] = batch[h]
  BY <1>7, <1>8
<1>18. ASSUME NEW t \in Used PROVE ControlOK(t)'
  BY <1>1, <1>4, <1>6 DEF ControlOK
<1>19. ASSUME NEW t \in Used PROVE PassOK(t)'
  <2>1. /\ pc[t] \in {"dirty", "pass", "eph"} => \A i \in 1..(cur[t] - 1) : Quiet(lists[t][i])
        /\ pc[t] \in {"pass", "eph"} => dirty[Ctx(t)] = << >>
        /\ pc[t] = "eph" /\ Ctx(t) \notin change =>
              BagToSet(todo[Ctx(t)]) = {} /\ BagToSet(send[Ctx(t)]) = {} /\ pend[Ctx(t)] = {}
        /\ Resting(t) => \A i \in 1..Len(lists[t]) : Quiet(lists[t][i])
        /\ pc[t] \notin {"dirty", "pass", "eph"} => cur[t] = 1
        /\ \A i \in 1..Len(lists[t]) : batch[lists[t][i]] # {} => pc[t] = "eph" /\ i = cur[t]
    BY <1>1 DEF PassOK
  <2>2. cur[t] \in 1..Len(lists[t]) /\ Ctx(t) = lists[t][cur[t]] /\ lists[t] \in Seq(Tgcs) /\ Ctx(t) \in Tgcs
    BY <1>1, OwnContext DEF ControlOK, Ctx, TypeOK, Used
  <2>3. \A i \in 1..Len(lists[t]) : lists[t][i] \in Tgcs
    BY <1>2
  <2>4. Resting(t)' <=> Resting(t)
    BY <1>4 DEF Resting
  <2>5. CASE t # s
    <3>1. \A i \in 1..Len(lists[t]) : lists[t][i] # g
      BY <1>2, <2>5
    <3>2. Ctx(t) # g
      BY <2>2, <3>1
    <3>3. /\ todo'[Ctx(t)] = todo[Ctx(t)] /\ send'[Ctx(t)] = send[Ctx(t)] /\ pend'[Ctx(t)] = pend[Ctx(t)]
          /\ dirty'[Ctx(t)] = dirty[Ctx(t)] /\ (Ctx(t) \in change <=> Ctx(t) \in change')
      BY <1>7, <1>8, <2>2, <3>2
    <3>4. \A i \in 1..Len(lists[t]) : (Quiet(lists[t][i])' <=> Quiet(lists[t][i]))
      <4> SUFFICES ASSUME NEW i \in 1..Len(lists[t]) PROVE Quiet(lists[t][i])' <=> Quiet(lists[t][i])
        OBVIOUS
      <4>1. PICK h \in Tgcs : h = lists[t][i] /\ h # g /\ h = lists'[t][i]
        BY <1>4, <2>3, <3>1
      <4> QED
        BY <1>17, <4>1 DEF Quiet
    <3>5. \A i \in 1..Len(lists[t]) : batch'[lists[t][i]] = batch[lists[t][i]]
      BY <1>7, <2>3, <3>1
    <3>6. pc'[t] \in {"dirty", "pass", "eph"} => \A i \in 1..(cur'[t] - 1) : Quiet(lists[t][i])'
      BY <1>4, <2>1, <2>2, <3>4
    <3>7. Resting(t)' => \A i \in 1..Len(lists'[t]) : Quiet(lists[t][i])'
      BY <1>4, <2>1, <2>4, <3>4
    <3> QED
      BY <1>4, <1>5, <2>1, <3>3, <3>5, <3>6, <3>7 DEF PassOK
  <2>6. CASE t = s
    <3>1. \A i \in 1..Len(lists[t]) : i # cur[t] => lists[t][i] # g
      BY <1>2, <2>6
    <3>2. \A i \in 1..(cur[t] - 1) : i \in 1..Len(lists[t]) /\ i # cur[t]
      BY <2>2
    <3>3. \A i \in 1..(cur[t] - 1) : (Quiet(lists[t][i])' <=> Quiet(lists[t][i]))
      <4> SUFFICES ASSUME NEW i \in 1..(cur[t] - 1) PROVE Quiet(lists[t][i])' <=> Quiet(lists[t][i])
        OBVIOUS
      <4>1. PICK h \in Tgcs : h = lists[t][i] /\ h # g /\ h = lists'[t][i]
        BY <1>4, <2>3, <3>1, <3>2
      <4> QED
        BY <1>17, <4>1 DEF Quiet
    <3>4. ~Resting(t)
      BY <1>1, <2>6 DEF Resting, ControlOK
    <3>5. Ctx(t) = g
      BY <1>0, <2>6
    <3>6. pc[t] = "eph" /\ g \notin change' =>
              BagToSet(todo'[g]) = {} /\ BagToSet(send'[g]) = {} /\ pend'[g] = {}
      <4> SUFFICES ASSUME pc[t] = "eph", g \notin change'
                   PROVE  BagToSet(todo'[g]) = {} /\ BagToSet(send'[g]) = {} /\ pend'[g] = {}
        OBVIOUS
      <4>1. g \notin change /\ reached' = reached /\ send' = send /\ pend' = pend /\ X = BagToSet(todo[g])
        BY <1>7, <1>8, <2>6
      <4> QED
        BY <1>8, <2>1, <3>5, <4>1
    <3>7. \A i \in 1..Len(lists[t]) : batch'[lists[t][i]] # {} => batch[lists[t][i]] # {}
      BY <1>7, <2>3
    <3>8. pc'[t] \in {"dirty", "pass", "eph"} => \A i \in 1..(cur'[t] - 1) : Quiet(lists[t][i])'
      BY <1>4, <2>1, <3>3
    <3>9. pc'[t] \in {"pass", "eph"} => dirty'[Ctx(t)] = << >>
      BY <1>4, <1>7, <2>1, <2>6
    <3> QED
      BY <1>4, <1>5, <2>1, <2>4, <3>4, <3>5, <3>6, <3>7, <3>8, <3>9 DEF PassOK
  <2> QED
    BY <2>5, <2>6
<1> QED
  BY <1>5, <1>8, <1>12, <1>13, <1>14, <1>15, <1>16, <1>18, <1>19 DEF IInv
LEMMA TailRange ==
    ASSUME NEW S, NEW q \in Seq(S), q # << >>
    PROVE  /\ Head(q) \in Range(q) /\ Tail(q) \in Seq(S)
           /\ Range(Tail(q)) \subseteq Range(q) /\ Range(q) \subseteq Range(Tail(q)) \cup {Head(q)}
<1>1. /\ Len(q) \in Nat /\ Len(q) >= 1 /\ DOMAIN q = 1..Len(q) /\ Head(q) = q[1]
      /\ Tail(q) \in Seq(S) /\ Len(Tail(q)) = Len(q) - 1 /\ DOMAIN Tail(q) = 1..Len(q) - 1
      /\ \A i \in 1..Len(q) - 1 : Tail(q)[i] = q[i + 1]
  BY EmptySeq, LenProperties, HeadTailProperties
<1>2. Head(q) \in Range(q)
  BY <1>1 DEF Range
<1>3. ASSUME NEW x \in Range(Tail(q)) PROVE x \in Range(q)
  <2>1. PICK i \in 1..Len(q) - 1 : x = q[i + 1]
    BY <1>1, <1>3 DEF Range
  <2>2. i + 1 \in 1..Len(q)
    BY <1>1
  <2> QED
    BY <1>1, <2>1, <2>2 DEF Range
<1>4. ASSUME NEW x \in Range(q), x # Head(q) PROVE x \in Range(Tail(q))
  <2>1. PICK i \in 1..Len(q) : x = q[i]
    BY <1>1, <1>4 DEF Range
  <2>2. i - 1 \in 1..Len(q) - 1 /\ (i - 1) + 1 = i
    BY <1>1, <1>4, <2>1
  <2>3. Tail(q)[i - 1] = q[i]
    BY <1>1, <2>2
  <2> QED
    BY <1>1, <2>1, <2>2, <2>3 DEF Range
<1> QED
  BY <1>1, <1>2, <1>3, <1>4

LEMMA Placed ==
    ASSUME NEW s, NEW g, g = Ctx(s), lists' = lists, cur' = cur, NEW o,
           o \in pend'[g] \/ \E h \in Tgcs : <<o, h>> \in BagToSet(send'[g])
    PROVE  o \in Held(Ctx(s))'
<1>1. Ctx(s)' = g
  BY DEF Ctx
<1>2. CASE o \in pend'[g]
  BY <1>1, <1>2 DEF Held
<1>3. CASE \E h \in Tgcs : <<o, h>> \in BagToSet(send'[g])
  <2>1. PICK h \in Tgcs : <<o, h>> \in BagToSet(send'[g])
    BY <1>3
  <2>2. <<o, h>>[1] = o
    OBVIOUS
  <2> QED
    BY <1>1, <2>1, <2>2 DEF Held
<1> QED
  BY <1>2, <1>3

\* The fields of a plain object are relocated.
LEMMA VisitPlain ==
    ASSUME IInv, heap' = heap, NEW g \in Tgcs, NEW o \in Kept, o \notin Ephemerons, NEW rest, IsABag(rest),
           Relocate(g, o, heap.refs[o], {}, rest)
    PROVE  /\ Visited(g, o, BagToSet(rest))
           /\ Forwarded(o)' \/ \E h \in Tgcs : <<o, h>> \in BagToSet(send'[g])
<1> DEFINE fs == heap.refs[o]
<1>1. o \in reached \cup Old /\ reached \cup Old \in SUBSET Objects /\ o \in Objects /\ TypeOK
  BY IInvParts DEF Collectable
<1>2. fs \in Seq(Objects) /\ Range(fs) \subseteq Abstract!Children(reached \cup Old)
  BY <1>1, HeapFacts, Referred
<1>3. Relocate(g, o, fs, {}, rest) /\ fs = heap'.refs[o]
  OBVIOUS
<1>4. o \notin Ephemerons'
  BY DEF Ephemerons
<1> HIDE DEF fs
<1>5. /\ Visited(g, o, BagToSet(rest))
      /\ \/ \A x \in Range(fs) \ Old : <<o, x>> \in fixed'
         \/ \E h \in Tgcs : <<o, h>> \in BagToSet(send'[g])
  BY <1>2, <1>3, RelocateIs
<1>6. ASSUME \A x \in Range(fs) \ Old : <<o, x>> \in fixed' PROVE Forwarded(o)'
  BY <1>3, <1>4, <1>6 DEF Forwarded
<1> QED
  BY <1>5, <1>6

LEMMA VisitSweepDirty ==
    ASSUME IInv, NEW s \in Used, SweepDirty(s)
    PROVE  Visit(s)
<1>1. PICK g \in Tgcs : g = Ctx(s)
  BY OwnContext
<1>2. /\ pc[s] = "dirty" /\ dirty[g] # << >>
      /\ dirty' = [dirty EXCEPT ![g] = Tail(@)]
      /\ UNCHANGED <<heap, control, pc, cur, recv, batch>>
  BY <1>1 DEF SweepDirty
<1>0. dirty \in [Tgcs -> Seq(Old)]
  BY IInvParts DEF Shape
<1>3. PICK o \in Old : o = Head(dirty[g])
  BY <1>0, <1>2, HeadTailProperties
<1>4. IF o \in Ephemerons THEN CheckEphemeron(g, o, TRUE) ELSE Relocate(g, o, heap.refs[o], {}, todo[g])
  BY <1>1, <1>3 DEF SweepDirty
<1>5. TypeOK /\ Shape /\ HeldKept /\ dirty \in [Tgcs -> Seq(Old)] /\ IsABag(todo[g])
  BY IInvParts DEF Shape
<1>6. /\ o \in Range(dirty[g]) /\ Tail(dirty[g]) \in Seq(Old)
      /\ Range(Tail(dirty[g])) \subseteq Range(dirty[g]) /\ Range(dirty[g]) \subseteq Range(Tail(dirty[g])) \cup {o}
  BY <1>2, <1>5, <1>3, TailRange
<1>7. o \in Kept
  BY <1>5, <1>6 DEF HeldKept, Held
<1>8. dirty' \in [Tgcs -> Seq(Old)] /\ dirty'[g] = Tail(dirty[g]) /\ \A h \in Tgcs : h # g => dirty'[h] = dirty[h]
  BY <1>2, <1>5, <1>6
<1>9. /\ Visited(g, o, BagToSet(todo[g]))
      /\ Forwarded(o)' \/ o \in pend'[g] \/ \E h \in Tgcs : <<o, h>> \in BagToSet(send'[g])
  <2>1. CASE o \in Ephemerons
    BY <1>2, <1>4, <1>7, <2>1, CheckIs
  <2>2. CASE o \notin Ephemerons
    BY <1>2, <1>4, <1>5, <1>7, <2>2, VisitPlain
  <2> QED
    BY <2>1, <2>2
<1>10. batch' = batch /\ batch = [h \in Tgcs |-> batch[h]]
  BY <1>2, <1>5 DEF Shape
<1>11. Taken(s, o, BagToSet(todo[g]))
  BY <1>1, <1>2, <1>6, <1>8, <1>10 DEF Taken
<1>12. Forwarded(o)' \/ o \in Held(Ctx(s))'
  BY <1>1, <1>2, <1>9, Placed DEF control
<1>13. Visited(Ctx(s), o, BagToSet(todo[g])) /\ pc[s] \in {"dirty", "pass", "eph"}
  BY <1>1, <1>2, <1>9
<1> QED
  BY <1>7, <1>11, <1>12, <1>13 DEF Visit

LEMMA VisitSweep ==
    ASSUME IInv, NEW s \in Used, Sweep(s)
    PROVE  Visit(s)
<1>1. PICK g \in Tgcs : g = Ctx(s)
  BY OwnContext
<1>2. pc[s] = "pass" /\ UNCHANGED <<heap, control, pc, cur, dirty, recv, batch>>
  BY DEF Sweep
<1>3. PICK o \in BagToSet(todo[g]) :
        IF o \in Ephemerons
        THEN /\ todo' = [todo EXCEPT ![g] = @ (-) One(o)]
             /\ pend' = [pend EXCEPT ![g] = @ \cup {o}]
             /\ UNCHANGED <<reached, fixed, send, trig, change>>
        ELSE Relocate(g, o, heap.refs[o], {}, todo[g] (-) One(o))
  BY <1>1 DEF Sweep
<1>4. /\ TypeOK /\ Shape /\ HeldKept /\ TriggersRight /\ FixedRight /\ dirty \in [Tgcs -> Seq(Old)] /\ IsABag(todo[g])
      /\ batch = [h \in Tgcs |-> batch[h]] /\ reached \subseteq Collectable
  BY IInvParts DEF Shape
<1>5. o \in Kept
  BY <1>3, <1>4 DEF HeldKept, Held
<1> DEFINE rest == todo[g] (-) One(o)
<1>6. IsABag(rest) /\ BagToSet(rest) \subseteq BagToSet(todo[g]) /\ BagToSet(todo[g]) \subseteq BagToSet(rest) \cup {o}
  BY <1>4, MinusBag
<1>7. /\ Visited(g, o, BagToSet(rest))
      /\ Forwarded(o)' \/ o \in pend'[g] \/ \E h \in Tgcs : <<o, h>> \in BagToSet(send'[g])
  <2>1. CASE o \in Ephemerons
    <3>1. /\ todo' = [todo EXCEPT ![g] = rest] /\ pend' = [pend EXCEPT ![g] = @ \cup {o}]
          /\ reached' = reached /\ fixed' = fixed /\ send' = send /\ trig' = trig /\ change' = change
          /\ heap' = heap
      BY <1>2, <1>3, <2>1
    <3> HIDE DEF rest
    <3>2. o \in pend'[g] /\ pend' = [h \in Tgcs |-> pend'[h]] /\ pend'[g] = pend[g] \cup {o}
          /\ \A h \in Tgcs : h # g => pend'[h] = pend[h]
      BY <1>4, <3>1 DEF Shape
    <3>3. todo'[g] = rest /\ todo' = [h \in Tgcs |-> todo'[h]] /\ \A h \in Tgcs : h # g => todo'[h] = todo[h]
      BY <1>4, <3>1 DEF Shape
    <3>4. Kept' = Kept /\ OnCards' = OnCards /\ Ephemerons' = Ephemerons /\ Segments' = Segments
      BY <3>1 DEF Kept, OnCards, Ephemerons, Segments
    <3>5. pend[g] \subseteq Ephemerons /\ pend[g] \subseteq Kept
      BY <1>4 DEF TypeOK, HeldKept, Held
    <3>6. TriggersRight' /\ FixedRight'
      BY <1>4, <3>1, <3>4 DEF TriggersRight, FixedRight
    <3>7. /\ IsABag(send[g]) /\ fixed \subseteq Objects \X Objects /\ reached' \ reached = {}
          /\ send = [h \in Tgcs |-> send[h]] /\ trig = [z \in Segments |-> trig[z]]
      BY <1>4, <3>1 DEF Shape, TypeOK
    <3> QED
      BY <1>4, <1>5, <1>6, <2>1, <3>1, <3>2, <3>3, <3>4, <3>5, <3>6, <3>7 DEF Visited
  <2>2. CASE o \notin Ephemerons
    <3>1. Relocate(g, o, heap.refs[o], {}, rest)
      BY <1>3, <2>2
    <3> HIDE DEF rest
    <3> QED
      BY <1>2, <1>5, <1>6, <2>2, <3>1, VisitPlain
  <2> QED
    BY <2>1, <2>2
<1> HIDE DEF rest
<1>8. Taken(s, o, BagToSet(rest))
  BY <1>1, <1>2, <1>4, <1>6 DEF Taken
<1>9. Forwarded(o)' \/ o \in Held(Ctx(s))'
  BY <1>1, <1>2, <1>7, Placed DEF control
<1>10. Visited(Ctx(s), o, BagToSet(rest)) /\ pc[s] \in {"dirty", "pass", "eph"}
  BY <1>1, <1>2, <1>7
<1> QED
  BY <1>5, <1>8, <1>9, <1>10 DEF Visit

LEMMA VisitCheckPending ==
    ASSUME IInv, NEW s \in Used, CheckPending(s)
    PROVE  Visit(s)
<1>1. PICK g \in Tgcs : g = Ctx(s)
  BY OwnContext
<1>2. pc[s] = "eph" /\ UNCHANGED <<heap, control, pc, cur, dirty, recv>>
  BY DEF CheckPending
<1>3. PICK e \in batch[g] : batch' = [batch EXCEPT ![g] = @ \ {e}] /\ CheckEphemeron(g, e, FALSE)
  BY <1>1 DEF CheckPending
<1>4. TypeOK /\ Shape /\ HeldKept /\ dirty \in [Tgcs -> Seq(Old)]
  BY IInvParts DEF Shape
<1>5. e \in Kept /\ e \in Ephemerons
  BY <1>4 DEF HeldKept, Held, TypeOK
<1>6. /\ Visited(g, e, BagToSet(todo[g])) /\ (g \notin change' => pend' = pend)
      /\ Forwarded(e)' \/ e \in pend'[g] \/ \E h \in Tgcs : <<e, h>> \in BagToSet(send'[g])
  BY <1>2, <1>3, <1>5, CheckIs
<1>7. batch' = [h \in Tgcs |-> batch'[h]] /\ batch'[g] = batch[g] \ {e} /\ \A h \in Tgcs : h # g => batch'[h] = batch[h]
  BY <1>3, <1>4 DEF Shape
<1>8. Taken(s, e, BagToSet(todo[g]))
  BY <1>1, <1>2, <1>4, <1>6, <1>7 DEF Taken
<1>9. Forwarded(e)' \/ e \in Held(Ctx(s))'
  BY <1>1, <1>2, <1>6, Placed DEF control
<1>10. Visited(Ctx(s), e, BagToSet(todo[g])) /\ pc[s] \in {"dirty", "pass", "eph"}
  BY <1>1, <1>2, <1>6
<1> QED
  BY <1>5, <1>8, <1>9, <1>10 DEF Visit

LEMMA StepVisit ==
    ASSUME IInv, NEW s \in Used, SweepDirty(s) \/ Sweep(s) \/ CheckPending(s)
    PROVE  Visit(s) /\ IInv'
<1>1. Visit(s)
  BY VisitSweepDirty, VisitSweep, VisitCheckPending
<1>2. Visit(s) => IInv'
  BY VisitStep DEF Visit
<1> QED
  BY <1>1, <1>2
-----------------------------------------------------------------------------
(* Counting the sweepers that are running. *)

Active == {s \in Used : \/ pc[s] \in {"dirty", "pass", "eph", "finish"}
                        \/ pc[s] \in {"idle", "wait"} /\ status[s] = "sweeping"}

LEMMA UsedFinite ==
    /\ IsFiniteSet(Used) /\ Used \subseteq Sweepers
    /\ \A S \in SUBSET Used : IsFiniteSet(S) /\ Cardinality(S) \in 0..MaxSweepers + 1
<1>1. MaxSweepers \in Nat /\ 0 \in Int /\ MaxSweepers \in Int /\ Used \subseteq 0..MaxSweepers
  BY SweepAssumption DEF Used, Sweepers
<1>2. IsFiniteSet(0..MaxSweepers) /\ Cardinality(0..MaxSweepers) = MaxSweepers + 1
  BY <1>1, FS_Interval
<1>3. ASSUME NEW S \in SUBSET (0..MaxSweepers)
      PROVE  IsFiniteSet(S) /\ Cardinality(S) \in 0..MaxSweepers + 1
  <2>1. IsFiniteSet(S) /\ Cardinality(S) <= Cardinality(0..MaxSweepers)
    BY <1>2, FS_Subset
  <2>2. Cardinality(S) \in Nat
    BY <2>1, FS_CardinalityType
  <2> QED
    BY <1>1, <1>2, <2>1, <2>2
<1> QED
  BY <1>1, <1>3 DEF Sweepers

LEMMA Running ==
    ASSUME IInv
    PROVE  /\ running = Cardinality(Active) /\ Active \subseteq Used /\ IsFiniteSet(Active)
           /\ running \in Nat /\ (running = 0 <=> Active = {})
           /\ \A s \in Used : status[s] = "waiting" => ~AnyRanges(s)
<1>1. running = Cardinality(Active) /\ \A s \in Used : status[s] = "waiting" => ~AnyRanges(s)
  BY IInvParts DEF RunningExact, Active
<1>2. Active \subseteq Used
  BY DEF Active
<1>3. IsFiniteSet(Active)
  BY <1>2, UsedFinite
<1>4. Cardinality(Active) \in Nat /\ (Cardinality(Active) = 0 <=> Active = {})
  BY <1>3, FS_CardinalityType, FS_EmptySet
<1> QED
  BY <1>1, <1>2, <1>3, <1>4

\* A step of sweeper s that moves no object.
LEMMA ControlStep ==
    ASSUME IInv, NEW s \in Used, UNCHANGED <<heap, lists, reached, fixed, stacks>>,
           status' \in [Sweepers -> {"none", "ready", "sweeping", "waiting"}], asleep' \subseteq Used,
           pc' \in [Sweepers -> {"idle", "dirty", "pass", "eph", "finish", "wait", "left", "alone"}],
           cur' \in [Sweepers -> Nat], change' \subseteq Tgcs,
           \A h \in Tgcs : h # Ctx(s) => (h \in change' <=> h \in change),
           \A t \in Used : t # s => pc'[t] = pc[t] /\ cur'[t] = cur[t] /\ status'[t] = status[t],
           \A t \in Used : t # s /\ (pc[t] \in {"left", "alone"} \/ status[t] = "ready") => running' = 0,
           running' = Cardinality(Active'), status'[s] = "waiting" => ~AnyRanges(s),
           ControlOK(s)', PassOK(s)'
    PROVE  IInv'
<1>1. /\ TypeOK /\ Shape /\ AssignedOnce /\ RunningExact
      /\ HeldKept /\ TriggersRight /\ FixedRight /\ Covered
      /\ \A t \in Used : ControlOK(t) /\ PassOK(t)
  BY IInvParts
<1>2. /\ s \in Sweepers
      /\ \A t \in Used : \A j \in 1..Len(lists[t]) : lists[t][j] \in Tgcs /\ (lists[t][j] = Ctx(s) => t = s /\ j = cur[s])
  BY OwnContext
<1>3. /\ heap' = heap /\ lists' = lists /\ reached' = reached /\ fixed' = fixed /\ todo' = todo /\ dirty' = dirty
      /\ send' = send /\ recv' = recv /\ pend' = pend /\ batch' = batch /\ trig' = trig
  BY DEF stacks
<1>4. Used' = Used /\ Ephemerons' = Ephemerons /\ OnCards' = OnCards /\ Segments' = Segments /\ Kept' = Kept
  BY <1>3 DEF Used, Ephemerons, OnCards, Segments, Kept
<1>5. \A t : AnyRanges(t)' <=> AnyRanges(t)
  BY <1>3 DEF AnyRanges
<1>6. \A g : Held(g)' = Held(g)
  BY <1>3 DEF Held
<1>7. \A o : Forwarded(o)' <=> Forwarded(o)
  BY <1>3, <1>4 DEF Forwarded
<1>8. HeldKept' /\ Covered'
  BY <1>1, <1>4, <1>6, <1>7 DEF HeldKept, Covered
<1>9. TriggersRight' /\ FixedRight'
  BY <1>1, <1>3, <1>4 DEF TriggersRight, FixedRight
<1>10. Shape' /\ AssignedOnce'
  BY <1>1, <1>3, <1>4 DEF Shape, AssignedOnce
<1>11. running' = Cardinality(Active)' /\ running' \in 0..MaxSweepers + 1
  <2>1. Active' \subseteq Used
    BY <1>4 DEF Active
  <2> QED
    BY <2>1, UsedFinite
<1>12. TypeOK'
  BY <1>1, <1>3, <1>4, <1>11 DEF TypeOK
<1>13. RunningExact'
  <2>1. \A t \in Used : status'[t] = "waiting" => ~AnyRanges(t)
    BY <1>1 DEF RunningExact
  <2> QED
    BY <1>4, <1>5, <1>11, <2>1 DEF RunningExact, Active
<1>14. ASSUME NEW t \in Used, t # s PROVE ControlOK(t)'
  <2>1. ControlOK(t) /\ pc'[t] = pc[t] /\ cur'[t] = cur[t] /\ status'[t] = status[t]
    BY <1>1, <1>14
  <2>2. pc[t] \in {"left", "alone"} \/ status[t] = "ready" => running' = 0
    BY <1>14
  <2> QED
    BY <1>3, <1>5, <2>1, <2>2 DEF ControlOK
<1>15. ASSUME NEW t \in Used, t # s PROVE PassOK(t)'
  <2>1. PassOK(t) /\ pc'[t] = pc[t] /\ cur'[t] = cur[t] /\ status'[t] = status[t]
    BY <1>1, <1>15
  <2>2. Ctx(t)' = Ctx(t) /\ (Resting(t)' <=> Resting(t)) /\ Ctx(t) \in Tgcs
    BY <1>3, <2>1, OwnContext DEF Ctx, Resting
  <2>3. Ctx(t) # Ctx(s)
    BY <1>2, <1>15, OwnContext DEF Ctx
  <2>4. Ctx(t) \in change' <=> Ctx(t) \in change
    BY <2>2, <2>3
  <2>5. \A i : Quiet(lists[t][i])' <=> Quiet(lists[t][i])
    BY <1>3 DEF Quiet
  <2> QED
    BY <1>3, <2>1, <2>2, <2>4, <2>5 DEF PassOK
<1> QED
  BY <1>4, <1>8, <1>9, <1>10, <1>12, <1>13, <1>14, <1>15 DEF IInv
LEMMA SelfFacts ==
    ASSUME IInv, NEW s \in Used
    PROVE  /\ s \in Sweepers /\ ControlOK(s) /\ PassOK(s) /\ asleep \subseteq Used /\ change \subseteq Tgcs
           /\ status \in [Sweepers -> {"none", "ready", "sweeping", "waiting"}] /\ cur \in [Sweepers -> Nat]
           /\ pc \in [Sweepers -> {"idle", "dirty", "pass", "eph", "finish", "wait", "left", "alone"}]
           /\ Used \subseteq Sweepers /\ lists[s] \in Seq(Tgcs) /\ Len(lists[s]) \in Nat
           /\ s \in Active => running # 0
           /\ running # 0 => \A t \in Used : pc[t] \notin {"left", "alone"} /\ status[t] # "ready"
<1>1. /\ s \in Sweepers /\ ControlOK(s) /\ PassOK(s) /\ asleep \subseteq Used /\ change \subseteq Tgcs
      /\ status \in [Sweepers -> {"none", "ready", "sweeping", "waiting"}] /\ cur \in [Sweepers -> Nat]
      /\ pc \in [Sweepers -> {"idle", "dirty", "pass", "eph", "finish", "wait", "left", "alone"}]
      /\ Used \subseteq Sweepers /\ lists[s] \in Seq(Tgcs)
  BY IInvParts DEF TypeOK, Shape, Used
<1>2. Len(lists[s]) \in Nat
  BY <1>1, LenProperties
<1>3. s \in Active => running # 0
  BY Running
<1>4. running # 0 => \A t \in Used : pc[t] \notin {"left", "alone"} /\ status[t] # "ready"
  BY IInvParts DEF ControlOK
<1> QED
  BY <1>1, <1>2, <1>3, <1>4

LEMMA StepStart ==
    ASSUME IInv, NEW s \in Used, Start(s)
    PROVE  IInv'
<1>1. /\ pc[s] = "idle" /\ status[s] = "sweeping" /\ pc' = [pc EXCEPT ![s] = "dirty"]
      /\ UNCHANGED <<heap, lists, reached, fixed, stacks>>
      /\ status' = status /\ running' = running /\ asleep' = asleep /\ cur' = cur /\ change' = change
  BY DEF Start, Goto, control
<1>2. /\ s \in Sweepers /\ ControlOK(s) /\ PassOK(s) /\ asleep \subseteq Used /\ change \subseteq Tgcs
      /\ status \in [Sweepers -> {"none", "ready", "sweeping", "waiting"}] /\ cur \in [Sweepers -> Nat]
      /\ pc \in [Sweepers -> {"idle", "dirty", "pass", "eph", "finish", "wait", "left", "alone"}]
      /\ Used \subseteq Sweepers /\ s \in Active => running # 0
  BY SelfFacts
<1>3. /\ pc' \in [Sweepers -> {"idle", "dirty", "pass", "eph", "finish", "wait", "left", "alone"}]
      /\ pc'[s] = "dirty" /\ \A t \in Used : t # s => pc'[t] = pc[t]
  BY <1>1, <1>2
<1>4. Active' = Active
  BY <1>1, <1>2, <1>3 DEF Active, Used
<1>5. running' = Cardinality(Active')
  BY <1>1, <1>4, Running
<1>6. ControlOK(s)'
  BY <1>1, <1>2, <1>3 DEF ControlOK, AnyRanges
<1>7. PassOK(s)'
  <2>1. cur[s] = 1 /\ \A i \in 1..Len(lists[s]) : batch[lists[s][i]] = {}
    BY <1>1, <1>2 DEF PassOK
  <2>2. batch' = batch
    BY <1>1 DEF stacks
  <2> QED
    BY <1>1, <1>3, <2>1, <2>2 DEF PassOK, Resting
<1>8. \A t \in Used : pc[t] \in {"left", "alone"} \/ status[t] = "ready" => running' = 0
  BY <1>1, IInvParts DEF ControlOK
<1> QED
  BY <1>1, <1>2, <1>3, <1>5, <1>6, <1>7, <1>8, ControlStep

LEMMA StepDirtyDone ==
    ASSUME IInv, NEW s \in Used, DirtyDone(s)
    PROVE  IInv'
<1>1. /\ pc[s] = "dirty" /\ dirty[Ctx(s)] = << >> /\ pc' = [pc EXCEPT ![s] = "pass"]
      /\ UNCHANGED <<heap, lists, reached, fixed, stacks>>
      /\ status' = status /\ running' = running /\ asleep' = asleep /\ cur' = cur /\ change' = change \ {Ctx(s)}
  BY DEF DirtyDone, Goto, control
<1>2. /\ s \in Sweepers /\ ControlOK(s) /\ PassOK(s) /\ asleep \subseteq Used /\ change \subseteq Tgcs
      /\ status \in [Sweepers -> {"none", "ready", "sweeping", "waiting"}] /\ cur \in [Sweepers -> Nat]
      /\ pc \in [Sweepers -> {"idle", "dirty", "pass", "eph", "finish", "wait", "left", "alone"}]
      /\ Used \subseteq Sweepers
  BY SelfFacts
<1>3. /\ pc' \in [Sweepers -> {"idle", "dirty", "pass", "eph", "finish", "wait", "left", "alone"}]
      /\ pc'[s] = "pass" /\ \A t \in Used : t # s => pc'[t] = pc[t]
  BY <1>1, <1>2
<1>4. Active' = Active
  BY <1>1, <1>2, <1>3 DEF Active, Used
<1>5. running' = Cardinality(Active')
  BY <1>1, <1>4, Running
<1>6. ControlOK(s)'
  BY <1>1, <1>2, <1>3 DEF ControlOK, AnyRanges
<1>7. PassOK(s)'
  <2>1. /\ \A i \in 1..(cur[s] - 1) : Quiet(lists[s][i])
        /\ \A i \in 1..Len(lists[s]) : batch[lists[s][i]] = {}
    BY <1>1, <1>2 DEF PassOK
  <2>2. batch' = batch /\ dirty' = dirty /\ Ctx(s)' = Ctx(s) /\ lists' = lists
    BY <1>1 DEF stacks, Ctx
  <2>3. \A i : Quiet(lists[s][i])' <=> Quiet(lists[s][i])
    BY <1>1 DEF Quiet, stacks
  <2>4. ~Resting(s)'
    BY <1>1, <1>2, <1>3 DEF Resting, ControlOK
  <2> QED
    BY <1>1, <1>3, <2>1, <2>2, <2>3, <2>4 DEF PassOK
<1>8. \A t \in Used : pc[t] \in {"left", "alone"} \/ status[t] = "ready" => running' = 0
  BY <1>1, IInvParts DEF ControlOK
<1>9. status'[s] # "waiting" /\ change' \subseteq Tgcs /\ \A h \in Tgcs : h # Ctx(s) => (h \in change' <=> h \in change)
  BY <1>1, <1>2 DEF ControlOK
<1> QED
  BY <1>1, <1>2, <1>3, <1>5, <1>6, <1>7, <1>8, <1>9, ControlStep

LEMMA StepAgain ==
    ASSUME IInv, NEW s \in Used, Again(s)
    PROVE  IInv'
<1>1. /\ pc[s] = "eph" /\ batch[Ctx(s)] = {}
      /\ UNCHANGED <<heap, lists, reached, fixed, stacks>>
      /\ status' = status /\ running' = running /\ asleep' = asleep
      /\ \/ /\ Ctx(s) \in change /\ change' = change \ {Ctx(s)}
            /\ pc' = [pc EXCEPT ![s] = "pass"] /\ cur' = cur
         \/ /\ Ctx(s) \notin change /\ change' = change
            /\ cur' = [cur EXCEPT ![s] = IF @ = Len(lists[s]) THEN 1 ELSE @ + 1]
            /\ pc' = [pc EXCEPT ![s] = IF cur[s] = Len(lists[s]) THEN "finish" ELSE "dirty"]
  BY DEF Again, Goto, control
<1>2. /\ s \in Sweepers /\ ControlOK(s) /\ PassOK(s) /\ asleep \subseteq Used /\ change \subseteq Tgcs
      /\ status \in [Sweepers -> {"none", "ready", "sweeping", "waiting"}] /\ cur \in [Sweepers -> Nat]
      /\ pc \in [Sweepers -> {"idle", "dirty", "pass", "eph", "finish", "wait", "left", "alone"}]
      /\ Used \subseteq Sweepers /\ Len(lists[s]) \in Nat
  BY SelfFacts
<1>3. /\ pc' \in [Sweepers -> {"idle", "dirty", "pass", "eph", "finish", "wait", "left", "alone"}]
      /\ pc'[s] \in {"pass", "dirty", "finish"} /\ \A t \in Used : t # s => pc'[t] = pc[t] /\ cur'[t] = cur[t]
      /\ cur' \in [Sweepers -> Nat] /\ change' \subseteq change
      /\ \A h \in Tgcs : h # Ctx(s) => (h \in change' <=> h \in change)
  <2>1. CASE cur' = cur /\ pc' = [pc EXCEPT ![s] = "pass"] /\ change' = change \ {Ctx(s)}
    BY <1>2, <2>1
  <2>2. CASE /\ cur' = [cur EXCEPT ![s] = IF @ = Len(lists[s]) THEN 1 ELSE @ + 1] /\ change' = change
             /\ pc' = [pc EXCEPT ![s] = IF cur[s] = Len(lists[s]) THEN "finish" ELSE "dirty"]
    BY <1>2, <2>2
  <2> QED
    BY <1>1, <2>1, <2>2
<1>4. Active' = Active
  BY <1>1, <1>2, <1>3 DEF Active, Used
<1>5. running' = Cardinality(Active')
  BY <1>1, <1>4, Running
<1>6. lists' = lists /\ batch' = batch /\ dirty' = dirty /\ \A i : Quiet(lists[s][i])' <=> Quiet(lists[s][i])
  BY <1>1 DEF Quiet, stacks
<1>7. /\ \A i \in 1..(cur[s] - 1) : Quiet(lists[s][i])
      /\ dirty[Ctx(s)] = << >> /\ cur[s] \in 1..Len(lists[s]) /\ status[s] = "sweeping"
      /\ Ctx(s) \notin change =>
            BagToSet(todo[Ctx(s)]) = {} /\ BagToSet(send[Ctx(s)]) = {} /\ pend[Ctx(s)] = {}
      /\ \A i \in 1..Len(lists[s]) : batch[lists[s][i]] = {}
  BY <1>1, <1>2 DEF PassOK, ControlOK, Ctx
<1>8. ControlOK(s)' /\ PassOK(s)'
  <2>1. CASE cur' = cur /\ pc' = [pc EXCEPT ![s] = "pass"]
    <3>1. pc'[s] = "pass" /\ cur'[s] = cur[s] /\ status'[s] = "sweeping" /\ Ctx(s)' = Ctx(s) /\ ~Resting(s)'
      BY <1>1, <1>2, <1>7, <2>1 DEF Ctx, Resting
    <3>2. ControlOK(s)'
      BY <1>6, <1>7, <3>1 DEF ControlOK
    <3> QED
      BY <1>6, <1>7, <3>1, <3>2 DEF PassOK
  <2>2. CASE Ctx(s) \notin change /\ cur[s] = Len(lists[s]) /\ cur'[s] = 1 /\ pc'[s] = "finish"
    <3>1. Quiet(Ctx(s)) /\ Ctx(s) = lists[s][cur[s]]
      BY <1>1, <1>7, <2>2 DEF Quiet, Ctx
    <3>2. \A i \in 1..Len(lists[s]) : Quiet(lists[s][i])
      BY <1>2, <1>7, <2>2, <3>1
    <3>3. ControlOK(s)'
      BY <1>1, <1>2, <1>6, <1>7, <2>2 DEF ControlOK
    <3> QED
      BY <1>6, <1>7, <2>2, <3>2, <3>3 DEF PassOK
  <2>3. CASE Ctx(s) \notin change /\ cur[s] # Len(lists[s]) /\ cur'[s] = cur[s] + 1 /\ pc'[s] = "dirty"
    <3>1. Quiet(Ctx(s)) /\ Ctx(s) = lists[s][cur[s]]
      BY <1>1, <1>7, <2>3 DEF Quiet, Ctx
    <3>2. \A i \in 1..(cur'[s] - 1) : i \in 1..(cur[s] - 1) \/ i = cur[s]
      BY <1>2, <1>7, <2>3
    <3>3. \A i \in 1..(cur'[s] - 1) : Quiet(lists[s][i])
      BY <1>7, <3>1, <3>2
    <3>4. ControlOK(s)'
      BY <1>1, <1>2, <1>6, <1>7, <2>3 DEF ControlOK
    <3>5. ~Resting(s)'
      BY <1>1, <1>7, <2>3 DEF Resting
    <3> QED
      BY <1>6, <1>7, <2>3, <3>3, <3>4, <3>5 DEF PassOK
  <2> QED
    BY <1>1, <1>2, <2>1, <2>2, <2>3
<1>9. \A t \in Used : pc[t] \in {"left", "alone"} \/ status[t] = "ready" => running' = 0
  BY <1>1, IInvParts DEF ControlOK
<1>10. status'[s] # "waiting"
  BY <1>1, <1>7
<1> QED
  BY <1>1, <1>2, <1>3, <1>5, <1>8, <1>9, <1>10, ControlStep
\* Deciding that there is more to do, that everyone is done, or to wait.
LEMMA StepFinishPass ==
    ASSUME IInv, NEW s \in Used, FinishPass(s)
    PROVE  IInv'
<1>1. /\ pc[s] = "finish" /\ Decide(s, running - 1)
      /\ UNCHANGED <<heap, lists, reached, fixed, stacks>> /\ cur' = cur /\ change' = change
  BY DEF FinishPass
<1>2. /\ s \in Sweepers /\ ControlOK(s) /\ PassOK(s) /\ asleep \subseteq Used /\ change \subseteq Tgcs
      /\ status \in [Sweepers -> {"none", "ready", "sweeping", "waiting"}] /\ cur \in [Sweepers -> Nat]
      /\ pc \in [Sweepers -> {"idle", "dirty", "pass", "eph", "finish", "wait", "left", "alone"}]
      /\ Used \subseteq Sweepers
      /\ s \in Active => running # 0
      /\ running # 0 => \A t \in Used : pc[t] \notin {"left", "alone"} /\ status[t] # "ready"
  BY SelfFacts
<1>3. /\ s \in Active /\ running # 0 /\ status[s] = "sweeping" /\ cur[s] = 1 /\ cur[s] \in 1..Len(lists[s])
      /\ \A i \in 1..Len(lists[s]) : Quiet(lists[s][i]) /\ batch[lists[s][i]] = {}
  BY <1>1, <1>2 DEF Active, ControlOK, PassOK, Resting
<1>4. /\ lists' = lists /\ batch' = batch /\ (AnyRanges(s)' <=> AnyRanges(s)) /\ Used' = Used
      /\ \A i : Quiet(lists[s][i])' <=> Quiet(lists[s][i])
  BY <1>1 DEF Quiet, stacks, AnyRanges, Used
<1>5. /\ running = Cardinality(Active) /\ running \in Nat
      /\ Cardinality(Active \ {s}) = running - 1
  BY <1>3, Running, FS_RemoveElement
<1>6. \A t \in Used : pc[t] \notin {"left", "alone"} /\ status[t] # "ready"
  BY <1>2, <1>3
<1>7. CASE AnyRanges(s) /\ running' = (running - 1) + 1 /\ pc' = [pc EXCEPT ![s] = "dirty"] /\ UNCHANGED <<asleep, status>>
  <2>1. /\ pc' \in [Sweepers -> {"idle", "dirty", "pass", "eph", "finish", "wait", "left", "alone"}]
        /\ pc'[s] = "dirty" /\ \A t \in Used : t # s => pc'[t] = pc[t]
    BY <1>2, <1>7
  <2>2. Active' = Active /\ running' = running
    BY <1>1, <1>3, <1>4, <1>5, <1>7, <2>1 DEF Active
  <2>3. ControlOK(s)'
    BY <1>1, <1>2, <1>3, <1>4, <1>7, <2>1 DEF ControlOK
  <2>4. PassOK(s)'
    <3>1. ~Resting(s)' /\ cur'[s] = 1
      BY <1>1, <1>3, <1>7, <2>1 DEF Resting
    <3> QED
      BY <1>3, <1>4, <2>1, <3>1 DEF PassOK
  <2> QED
    BY <1>1, <1>2, <1>3, <1>5, <1>6, <1>7, <2>1, <2>2, <2>3, <2>4, ControlStep
<1>8. CASE /\ ~AnyRanges(s) /\ running - 1 = 0 /\ running' = running - 1 /\ asleep' = {} /\ status' = status
           /\ pc' = [pc EXCEPT ![s] = "left"]
  <2>1. /\ pc' \in [Sweepers -> {"idle", "dirty", "pass", "eph", "finish", "wait", "left", "alone"}]
        /\ pc'[s] = "left" /\ \A t \in Used : t # s => pc'[t] = pc[t]
    BY <1>2, <1>8
  <2>2. Active' = Active \ {s}
    BY <1>4, <1>8, <2>1 DEF Active
  <2>3. ControlOK(s)'
    BY <1>1, <1>2, <1>3, <1>4, <1>8, <2>1 DEF ControlOK
  <2>4. PassOK(s)'
    BY <1>1, <1>3, <1>4, <1>8, <2>1 DEF PassOK
  <2> QED
    BY <1>1, <1>2, <1>5, <1>6, <1>8, <2>1, <2>2, <2>3, <2>4, ControlStep
<1>9. CASE /\ ~AnyRanges(s) /\ running - 1 # 0 /\ running' = running - 1 /\ asleep' = asleep \cup {s}
           /\ status' = [status EXCEPT ![s] = "waiting"] /\ pc' = [pc EXCEPT ![s] = "wait"]
  <2>1. /\ pc' \in [Sweepers -> {"idle", "dirty", "pass", "eph", "finish", "wait", "left", "alone"}]
        /\ pc'[s] = "wait" /\ \A t \in Used : t # s => pc'[t] = pc[t]
    BY <1>2, <1>9
  <2>2. /\ status' \in [Sweepers -> {"none", "ready", "sweeping", "waiting"}]
        /\ status'[s] = "waiting" /\ \A t \in Used : t # s => status'[t] = status[t]
    BY <1>2, <1>9
  <2>3. Active' = Active \ {s}
    BY <1>4, <2>1, <2>2 DEF Active
  <2>4. ControlOK(s)'
    BY <1>1, <1>3, <1>4, <2>1, <2>2 DEF ControlOK
  <2>5. PassOK(s)'
    BY <1>1, <1>3, <1>4, <2>1, <2>2 DEF PassOK
  <2>6. asleep' \subseteq Used /\ running' = Cardinality(Active') /\ ~AnyRanges(s)
    BY <1>2, <1>5, <1>9, <2>3
  <2> QED
    BY <1>1, <1>2, <1>6, <2>1, <2>2, <2>4, <2>5, <2>6, ControlStep
<1> QED
  BY <1>1, <1>7, <1>8, <1>9 DEF Decide, Goto

LEMMA StepWake ==
    ASSUME IInv, NEW s \in Used, Wake(s)
    PROVE  IInv'
<1>1. /\ pc[s] = "wait" /\ UNCHANGED <<heap, lists, reached, fixed, stacks>> /\ cur' = cur /\ change' = change
  BY DEF Wake
<1>2. /\ s \in Sweepers /\ ControlOK(s) /\ PassOK(s) /\ asleep \subseteq Used /\ change \subseteq Tgcs
      /\ status \in [Sweepers -> {"none", "ready", "sweeping", "waiting"}] /\ cur \in [Sweepers -> Nat]
      /\ pc \in [Sweepers -> {"idle", "dirty", "pass", "eph", "finish", "wait", "left", "alone"}]
      /\ Used \subseteq Sweepers
  BY SelfFacts
<1>3. /\ cur[s] = 1 /\ cur[s] \in 1..Len(lists[s]) /\ status[s] \in {"waiting", "sweeping"}
      /\ \A i \in 1..Len(lists[s]) : Quiet(lists[s][i]) /\ batch[lists[s][i]] = {}
      /\ status[s] = "waiting" => ~AnyRanges(s)
  BY <1>1, <1>2, Running DEF ControlOK, PassOK, Resting
<1>4. /\ lists' = lists /\ batch' = batch /\ (AnyRanges(s)' <=> AnyRanges(s)) /\ Used' = Used
      /\ \A i : Quiet(lists[s][i])' <=> Quiet(lists[s][i])
  BY <1>1 DEF Quiet, stacks, AnyRanges, Used
<1>5. running = Cardinality(Active) /\ running \in Nat
  BY Running
<1>6. \A t \in Used : pc[t] \in {"left", "alone"} \/ status[t] = "ready" => running = 0
  BY IInvParts DEF ControlOK
<1>7. CASE status[s] # "waiting" /\ pc' = [pc EXCEPT ![s] = "dirty"] /\ UNCHANGED <<running, asleep, status>>
  <2>1. /\ pc' \in [Sweepers -> {"idle", "dirty", "pass", "eph", "finish", "wait", "left", "alone"}]
        /\ pc'[s] = "dirty" /\ \A t \in Used : t # s => pc'[t] = pc[t]
    BY <1>2, <1>7
  <2>2. Active' = Active
    BY <1>1, <1>3, <1>4, <1>7, <2>1 DEF Active
  <2>3. ControlOK(s)'
    BY <1>1, <1>2, <1>3, <1>4, <1>7, <2>1 DEF ControlOK
  <2>4. PassOK(s)'
    <3>1. ~Resting(s)' /\ cur'[s] = 1
      BY <1>1, <1>3, <1>7, <2>1 DEF Resting
    <3> QED
      BY <1>3, <1>4, <2>1, <3>1 DEF PassOK
  <2> QED
    BY <1>1, <1>2, <1>3, <1>5, <1>6, <1>7, <2>1, <2>2, <2>3, <2>4, ControlStep
<1>8. CASE /\ status[s] = "waiting" /\ running = 0
           /\ pc' = [pc EXCEPT ![s] = "left"] /\ UNCHANGED <<running, asleep, status>>
  <2>1. /\ pc' \in [Sweepers -> {"idle", "dirty", "pass", "eph", "finish", "wait", "left", "alone"}]
        /\ pc'[s] = "left" /\ \A t \in Used : t # s => pc'[t] = pc[t]
    BY <1>2, <1>8
  <2>2. Active' = Active
    BY <1>1, <1>4, <1>8, <2>1 DEF Active
  <2>3. ControlOK(s)'
    BY <1>1, <1>2, <1>3, <1>4, <1>8, <2>1 DEF ControlOK
  <2>4. PassOK(s)'
    BY <1>1, <1>3, <1>4, <1>8, <2>1 DEF PassOK
  <2> QED
    BY <1>1, <1>2, <1>3, <1>5, <1>6, <1>8, <2>1, <2>2, <2>3, <2>4, ControlStep
<1>9. CASE status[s] = "waiting" /\ running # 0 /\ Decide(s, running)
  <2>1. /\ running' = running /\ asleep' = asleep \cup {s}
        /\ status' = [status EXCEPT ![s] = "waiting"] /\ pc' = [pc EXCEPT ![s] = "wait"]
    BY <1>3, <1>9 DEF Decide, Goto
  <2>2. pc' = pc /\ status' = status
    BY <1>1, <1>2, <1>9, <2>1
  <2>3. Active' = Active
    BY <1>4, <2>2 DEF Active
  <2>4. ControlOK(s)'
    BY <1>1, <1>2, <1>4, <2>1, <2>2 DEF ControlOK
  <2>5. PassOK(s)'
    BY <1>1, <1>3, <1>4, <2>2 DEF PassOK
  <2> QED
    BY <1>1, <1>2, <1>3, <1>5, <1>6, <2>1, <2>2, <2>3, <2>4, <2>5, ControlStep
<1> QED
  BY <1>7, <1>8, <1>9 DEF Wake, Goto

LEMMA StepSpurious ==
    ASSUME IInv, NEW s \in Used, Spurious(s)
    PROVE  IInv'
<1>1. /\ UNCHANGED <<heap, lists, reached, fixed, stacks>> /\ pc' = pc /\ cur' = cur /\ change' = change
      /\ status' = status /\ running' = running /\ asleep' = asleep \ {s}
  BY DEF Spurious
<1>2. /\ s \in Sweepers /\ ControlOK(s) /\ PassOK(s) /\ asleep \subseteq Used /\ change \subseteq Tgcs
      /\ status \in [Sweepers -> {"none", "ready", "sweeping", "waiting"}] /\ cur \in [Sweepers -> Nat]
      /\ pc \in [Sweepers -> {"idle", "dirty", "pass", "eph", "finish", "wait", "left", "alone"}]
  BY SelfFacts
<1>3. running' = Cardinality(Active') /\ \A t \in Used : status[t] = "waiting" => ~AnyRanges(t)
  BY <1>1, Running DEF Active, Used
<1>4. ControlOK(s)'
  BY <1>1, <1>2 DEF ControlOK, AnyRanges, stacks
<1>5. PassOK(s)'
  BY <1>1, <1>2 DEF PassOK, Quiet, Resting, Ctx, stacks
<1>6. \A t \in Used : pc[t] \in {"left", "alone"} \/ status[t] = "ready" => running' = 0
  BY <1>1, IInvParts DEF ControlOK
<1> QED
  BY <1>1, <1>2, <1>3, <1>4, <1>5, <1>6, ControlStep

LEMMA StepLeave ==
    ASSUME IInv, NEW s \in Used, Ready(s) \/ Finish(s)
    PROVE  IInv'
<1>1. /\ pc[s] = "left" /\ UNCHANGED <<heap, lists, reached, fixed, stacks>> /\ cur' = cur /\ change' = change
      /\ running' = running /\ asleep' = asleep
      /\ \/ status' = [status EXCEPT ![s] = "ready"] /\ pc' = [pc EXCEPT ![s] = "idle"]
         \/ status' = status /\ pc' = [pc EXCEPT ![s] = "alone"]
  BY DEF Ready, Finish, Goto, control
<1>2. /\ s \in Sweepers /\ ControlOK(s) /\ PassOK(s) /\ asleep \subseteq Used /\ change \subseteq Tgcs
      /\ status \in [Sweepers -> {"none", "ready", "sweeping", "waiting"}] /\ cur \in [Sweepers -> Nat]
      /\ pc \in [Sweepers -> {"idle", "dirty", "pass", "eph", "finish", "wait", "left", "alone"}]
      /\ Used \subseteq Sweepers
  BY SelfFacts
<1>3. /\ cur[s] = 1 /\ cur[s] \in 1..Len(lists[s]) /\ running = 0 /\ ~AnyRanges(s)
      /\ status[s] \in {"sweeping", "waiting", "ready"} /\ status[s] # "ready"
      /\ \A i \in 1..Len(lists[s]) : Quiet(lists[s][i]) /\ batch[lists[s][i]] = {}
  BY <1>1, <1>2 DEF ControlOK, PassOK, Resting
<1>4. /\ lists' = lists /\ batch' = batch /\ (AnyRanges(s)' <=> AnyRanges(s)) /\ Used' = Used
      /\ \A i : Quiet(lists[s][i])' <=> Quiet(lists[s][i])
  BY <1>1 DEF Quiet, stacks, AnyRanges, Used
<1>5. /\ pc' \in [Sweepers -> {"idle", "dirty", "pass", "eph", "finish", "wait", "left", "alone"}]
      /\ status' \in [Sweepers -> {"none", "ready", "sweeping", "waiting"}]
      /\ \A t \in Used : t # s => pc'[t] = pc[t] /\ status'[t] = status[t]
      /\ \/ pc'[s] = "idle" /\ status'[s] = "ready"
         \/ pc'[s] = "alone" /\ status'[s] = status[s]
  BY <1>1, <1>2
<1>6. Active' = Active
  BY <1>1, <1>3, <1>4, <1>5 DEF Active
<1>7. running' = Cardinality(Active')
  BY <1>1, <1>6, Running
<1>8. ControlOK(s)'
  BY <1>1, <1>3, <1>4, <1>5 DEF ControlOK
<1>9. PassOK(s)'
  BY <1>1, <1>3, <1>4, <1>5 DEF PassOK
<1> QED
  BY <1>1, <1>2, <1>3, <1>5, <1>7, <1>8, <1>9, ControlStep
-----------------------------------------------------------------------------
(* Sending and receiving. *)

LEMMA EmptyIff ==
    ASSUME NEW B, IsABag(B)
    PROVE  BagToSet(B) = {} <=> B = EmptyBag
<1>1. B = [x \in DOMAIN B |-> B[x]] /\ BagToSet(B) = DOMAIN B
  BY DEF IsABag, BagToSet
<1>2. EmptyBag = [x \in {} |-> 1]
  BY DEF EmptyBag, SetToBag
<1> QED
  BY <1>1, <1>2

LEMMA DeliveredIs ==
    ASSUME IInv, NEW g \in Tgcs, NEW h \in Tgcs
    PROVE  /\ IsABag(Delivered(g)[h])
           /\ BagToSet(Delivered(g)[h]) = BagToSet(recv[h]) \cup {o \in Objects : <<o, h>> \in BagToSet(send[g])}
<1> DEFINE D == {m[1] : m \in {m \in BagToSet(send[g]) : m[2] = h}}
           M == [o \in D |-> send[g][<<o, h>>]]
<1>1. IsABag(send[g]) /\ IsABag(recv[h]) /\ BagToSet(send[g]) \subseteq Objects \X Tgcs
  BY IInvParts DEF Shape, TypeOK
<1>2. D = {o \in Objects : <<o, h>> \in BagToSet(send[g])}
  <2>1. ASSUME NEW o \in D PROVE o \in Objects /\ <<o, h>> \in BagToSet(send[g])
    <3>1. PICK m \in BagToSet(send[g]) : m[2] = h /\ m[1] = o
      BY <2>1
    <3>2. m = <<o, h>> /\ o \in Objects
      BY <1>1, <3>1
    <3> QED
      BY <3>1, <3>2
  <2>2. ASSUME NEW o \in Objects, <<o, h>> \in BagToSet(send[g]) PROVE o \in D
    <3>1. PICK m \in BagToSet(send[g]) : m = <<o, h>>
      BY <2>2
    <3>2. m[1] = o /\ m[2] = h
      BY <3>1
    <3> QED
      BY <3>2
  <2> HIDE DEF D
  <2> QED
    BY <2>1, <2>2
<1>3. Delivered(g)[h] = recv[h] (+) M
  BY DEF Delivered
<1> HIDE DEF D
<1>4. \A o \in D : M[o] \in {n \in Nat : n > 0}
  BY <1>1, <1>2 DEF IsABag, BagToSet
<1>5. IsABag(M) /\ BagToSet(M) = D
  BY <1>4 DEF IsABag, BagToSet
<1> HIDE DEF M
<1> QED
  BY <1>1, <1>2, <1>3, <1>5, PlusBag

LEMMA SweeperIs ==
    ASSUME IInv, NEW h \in Tgcs
    PROVE  /\ SweeperOf(h) \in Used
           /\ \A t \in Used : h \in Range(lists[t]) <=> t = SweeperOf(h)
<1>1. OnceEach(lists)
  BY IInvParts DEF AssignedOnce
<1>2. PICK u \in Sweepers : \E i \in DOMAIN lists[u] :
         /\ lists[u][i] = h
         /\ \A t \in Sweepers : \A j \in DOMAIN lists[t] : lists[t][j] = h => t = u /\ j = i
  BY <1>1 DEF OnceEach
<1>3. PICK i \in DOMAIN lists[u] :
         /\ lists[u][i] = h
         /\ \A t \in Sweepers : \A j \in DOMAIN lists[t] : lists[t][j] = h => t = u /\ j = i
  BY <1>2
<1>4. h \in Range(lists[u]) /\ \A t \in Used : h \in Range(lists[t]) => t = u
  BY <1>3 DEF Range, Used
<1>5. u \in Used
  <2>1. lists[u] \in Seq(Tgcs)
    BY <1>1 DEF OnceEach
  <2>2. lists[u] # << >>
    BY <1>3, <2>1, EmptySeq, LenProperties
  <2> QED
    BY <2>2 DEF Used
<1>6. SweeperOf(h) = u
  BY <1>4, <1>5 DEF SweeperOf
<1> QED
  BY <1>4, <1>5, <1>6
\* The sweepers that are given work are counted, and those that are not have none.
LEMMA Waken ==
    ASSUME IInv, NEW s \in Used, NEW g \in Tgcs, g = Ctx(s), pc[s] = "pass", NEW W, W = WakenBy(g),
           lists' = lists, pc' = [pc EXCEPT ![s] = "eph"],
           running' = running + CountWaken(g), recv' = [Delivered(g) EXCEPT ![g] = EmptyBag],
           status' = [t \in Sweepers |-> IF t \in W THEN "sweeping" ELSE status[t]]
    PROVE  /\ W \subseteq Used /\ s \notin W /\ \A t \in W : pc[t] = "wait" /\ status[t] = "waiting"
           /\ running' \in 0..MaxSweepers + 1 /\ running # 0 /\ RunningExact'
<1>1. /\ s \in Sweepers /\ Used \subseteq Sweepers /\ (s \in Active => running # 0) /\ ControlOK(s)
      /\ running # 0 => \A t \in Used : pc[t] \notin {"left", "alone"} /\ status[t] # "ready"
      /\ pc \in [Sweepers -> {"idle", "dirty", "pass", "eph", "finish", "wait", "left", "alone"}]
  BY SelfFacts
<1>2. s \in Active /\ status[s] = "sweeping" /\ running # 0
  BY <1>1 DEF Active, ControlOK
<1>3. BagToSet(send[g]) \subseteq Objects \X Tgcs /\ \A t \in Used : ControlOK(t)
  BY IInvParts DEF TypeOK
<1>4. Sent(g) \subseteq Tgcs
  BY <1>3 DEF Sent
<1>5. W \subseteq Used /\ \A t \in W : status[t] = "waiting"
  BY <1>4, SweeperIs DEF WakenBy
<1>6. s \notin W /\ \A t \in W : pc[t] = "wait"
  BY <1>1, <1>2, <1>3, <1>5 DEF ControlOK
<1>7. Used' = Used /\ pc'[s] = "eph" /\ \A t \in Used : t # s => pc'[t] = pc[t]
  BY <1>1 DEF Used
<1>8. \A t \in Used : status'[t] = IF t \in W THEN "sweeping" ELSE status[t]
  BY <1>1
<1>9. Active' = Active \cup W
  BY <1>2, <1>5, <1>6, <1>7, <1>8 DEF Active
<1>10. Active \cap W = {}
  BY <1>5, <1>6 DEF Active
<1>11. Cardinality(Active \cup W) = running + Cardinality(W) /\ Cardinality(Active \cup W) \in 0..MaxSweepers + 1
  <2>1. /\ IsFiniteSet(Active) /\ IsFiniteSet(W) /\ Active \cup W \in SUBSET Used /\ running = Cardinality(Active)
        /\ running \in Nat
    BY <1>5, Running, UsedFinite
  <2>2. Cardinality(Active \cup W) = Cardinality(Active) + Cardinality(W) - Cardinality(Active \cap W)
    BY <2>1, FS_Union
  <2>3. Cardinality(Active \cap W) = 0 /\ Cardinality(W) \in Nat
    BY <1>10, <2>1, FS_EmptySet, FS_CardinalityType
  <2> QED
    BY <2>1, <2>2, <2>3, UsedFinite
<1>12. running' = Cardinality(Active') /\ running' \in 0..MaxSweepers + 1
  BY <1>9, <1>11 DEF CountWaken
<1>13. ASSUME NEW t \in Used, status'[t] = "waiting" PROVE ~AnyRanges(t)'
  <2>1. t \notin W /\ status[t] = "waiting" /\ t # s /\ ~AnyRanges(t)
    BY <1>2, <1>8, <1>13, Running
  <2> SUFFICES ASSUME NEW h \in Range(lists[t]) PROVE recv'[h] = EmptyBag
    BY DEF AnyRanges
  <2>2. h \in Tgcs
    <3>1. lists[t] \in Seq(Tgcs)
      BY <1>1, IInvParts DEF TypeOK
    <3> QED
      BY <3>1, RangeSeq
  <2>3. recv[h] = EmptyBag
    BY <2>1 DEF AnyRanges
  <2>4. t = SweeperOf(h)
    BY <2>2, SweeperIs
  <2>5. h \notin Sent(g)
    BY <2>1, <2>4 DEF WakenBy
  <2>6. \A o \in Objects : <<o, h>> \notin BagToSet(send[g])
    <3> SUFFICES ASSUME NEW o \in Objects, NEW m \in BagToSet(send[g]), m = <<o, h>> PROVE FALSE
      OBVIOUS
    <3>1. m[2] = h
      OBVIOUS
    <3> QED
      BY <2>5, <3>1 DEF Sent
  <2>7. IsABag(Delivered(g)[h]) /\ BagToSet(Delivered(g)[h]) = {}
    BY <2>2, <2>3, <2>6, DeliveredIs, NoBag
  <2>8. Delivered(g)[h] = EmptyBag
    BY <2>7, EmptyIff
  <2>9. DOMAIN Delivered(g) = Tgcs
    BY DEF Delivered
  <2> QED
    BY <2>2, <2>8, <2>9
<1>14. RunningExact'
  BY <1>7, <1>12, <1>13 DEF RunningExact, Active
<1> QED
  BY <1>2, <1>5, <1>6, <1>12, <1>14

LEMMA StepExchange ==
    ASSUME IInv, NEW s \in Used, Exchange(s)
    PROVE  IInv'
<1>1. PICK g \in Tgcs : g = Ctx(s)
  BY OwnContext
<1>2. PICK W : W = WakenBy(g)
  OBVIOUS
<1>3. PICK got : got = Delivered(g)[g]
  OBVIOUS
<1>4. /\ pc[s] = "pass" /\ (todo[g] = EmptyBag \/ g \in change)
      /\ send' = [send EXCEPT ![g] = EmptyBag]
      /\ recv' = [Delivered(g) EXCEPT ![g] = EmptyBag]
      /\ todo' = [todo EXCEPT ![g] = @ (+) got]
      /\ running' = running + CountWaken(g)
      /\ status' = [t \in Sweepers |-> IF t \in W THEN "sweeping" ELSE status[t]]
      /\ asleep' = asleep \ W
      /\ change' = (IF got = EmptyBag THEN change ELSE change \cup {g})
      /\ batch' = [batch EXCEPT ![g] = IF g \in change' THEN {} ELSE pend[g]]
      /\ pend' = [pend EXCEPT ![g] = IF g \in change' THEN @ ELSE {}]
      /\ pc' = [pc EXCEPT ![s] = "eph"]
      /\ heap' = heap /\ lists' = lists /\ cur' = cur /\ reached' = reached /\ fixed' = fixed
      /\ dirty' = dirty /\ trig' = trig
  BY <1>1, <1>2, <1>3 DEF Exchange, Goto
<1>5. /\ TypeOK /\ Shape /\ AssignedOnce
      /\ HeldKept /\ TriggersRight /\ FixedRight /\ Covered
      /\ \A t \in Used : ControlOK(t) /\ PassOK(t)
  BY IInvParts
<1>6. /\ s \in Sweepers /\ cur[s] \in 1..Len(lists[s]) /\ lists[s][cur[s]] = g
      /\ \A t \in Used : \A j \in 1..Len(lists[t]) : lists[t][j] \in Tgcs /\ (lists[t][j] = g => t = s /\ j = cur[s])
  BY <1>1, OwnContext DEF Ctx
<1>7. /\ W \subseteq Used /\ s \notin W /\ \A t \in W : pc[t] = "wait" /\ status[t] = "waiting"
      /\ running' \in 0..MaxSweepers + 1 /\ running # 0 /\ RunningExact'
  BY <1>1, <1>2, <1>4, Waken
<1>8. Used' = Used /\ Ephemerons' = Ephemerons /\ OnCards' = OnCards /\ Segments' = Segments /\ Kept' = Kept
  BY <1>4 DEF Used, Ephemerons, OnCards, Segments, Kept
<1>9. batch[g] = {} /\ dirty[g] = << >>
  BY <1>1, <1>4, <1>5, <1>6 DEF PassOK
(* The stacks afterwards. *)
<1>10. /\ IsABag(todo[g]) /\ IsABag(got) /\ \A h \in Tgcs : IsABag(Delivered(g)[h])
       /\ \A h \in Tgcs : BagToSet(Delivered(g)[h]) = BagToSet(recv[h]) \cup {o \in Objects : <<o, h>> \in BagToSet(send[g])}
       /\ BagToSet(got) = BagToSet(recv[g]) \cup {o \in Objects : <<o, g>> \in BagToSet(send[g])}
  BY <1>3, <1>5, DeliveredIs DEF Shape
<1>11. /\ recv' = [h \in Tgcs |-> recv'[h]] /\ recv'[g] = EmptyBag
       /\ \A h \in Tgcs : h # g => recv'[h] = Delivered(g)[h]
  <2>1. Delivered(g) = [h \in Tgcs |-> Delivered(g)[h]]
    BY DEF Delivered
  <2> QED
    BY <1>4, <2>1
<1>12. /\ todo' = [h \in Tgcs |-> todo'[h]] /\ todo'[g] = todo[g] (+) got
       /\ \A h \in Tgcs : h # g => todo'[h] = todo[h]
  BY <1>4, <1>5 DEF Shape
<1>13. IsABag(todo'[g]) /\ BagToSet(todo'[g]) = BagToSet(todo[g]) \cup BagToSet(got)
  BY <1>10, <1>12, PlusBag
<1>14. /\ send' = [h \in Tgcs |-> send'[h]] /\ send'[g] = EmptyBag
       /\ \A h \in Tgcs : h # g => send'[h] = send[h]
  BY <1>4, <1>5 DEF Shape
<1>15. /\ pend' = [h \in Tgcs |-> pend'[h]] /\ pend'[g] = (IF g \in change' THEN pend[g] ELSE {})
       /\ \A h \in Tgcs : h # g => pend'[h] = pend[h]
  <2> DEFINE P == IF g \in change' THEN pend[g] ELSE {}
  <2>1. pend' = [pend EXCEPT ![g] = P] /\ pend = [h \in Tgcs |-> pend[h]]
    BY <1>4, <1>5 DEF Shape
  <2> HIDE DEF P
  <2>2. pend' = [h \in Tgcs |-> pend'[h]] /\ pend'[g] = P /\ \A h \in Tgcs : h # g => pend'[h] = pend[h]
    BY <2>1
  <2> QED
    BY <2>2 DEF P
<1>16. /\ batch' = [h \in Tgcs |-> batch'[h]] /\ batch'[g] = (IF g \in change' THEN {} ELSE pend[g])
       /\ \A h \in Tgcs : h # g => batch'[h] = batch[h]
  <2> DEFINE P == IF g \in change' THEN {} ELSE pend[g]
  <2>1. batch' = [batch EXCEPT ![g] = P] /\ batch = [h \in Tgcs |-> batch[h]]
    BY <1>4, <1>5 DEF Shape
  <2> HIDE DEF P
  <2>2. batch' = [h \in Tgcs |-> batch'[h]] /\ batch'[g] = P /\ \A h \in Tgcs : h # g => batch'[h] = batch[h]
    BY <2>1
  <2> QED
    BY <2>2 DEF P
<1>17. pend'[g] \cup batch'[g] = pend[g]
  BY <1>15, <1>16
<1>18. change \subseteq change' /\ change' \subseteq change \cup {g} /\ (g \notin change' => got = EmptyBag /\ g \notin change)
  BY <1>4
<1>19. g \notin change' => BagToSet(todo'[g]) = {} /\ pend'[g] = {}
  <2> SUFFICES ASSUME g \notin change' PROVE BagToSet(todo'[g]) = {} /\ pend'[g] = {}
    OBVIOUS
  <2>1. todo[g] = EmptyBag /\ got = EmptyBag
    BY <1>4, <1>18
  <2> QED
    BY <1>13, <1>15, <2>1, NoBag
(* The parts of the invariant. *)
<1>20. Shape'
  <2>1. \A h \in Tgcs : IsABag(todo'[h]) /\ IsABag(send'[h]) /\ IsABag(recv'[h])
    BY <1>5, <1>10, <1>11, <1>12, <1>13, <1>14, NoBag DEF Shape
  <2> QED
    BY <1>4, <1>5, <1>8, <1>11, <1>12, <1>14, <1>15, <1>16, <2>1 DEF Shape
<1>21. TypeOK'
  <2>1. ASSUME NEW h \in Tgcs
        PROVE  /\ BagToSet(todo'[h]) \subseteq Objects /\ BagToSet(recv'[h]) \subseteq Objects
               /\ BagToSet(send'[h]) \subseteq Objects \X Tgcs
               /\ pend'[h] \subseteq Ephemerons /\ batch'[h] \subseteq Ephemerons
    <3>1. /\ BagToSet(todo[h]) \subseteq Objects /\ BagToSet(recv[h]) \subseteq Objects
          /\ BagToSet(send[h]) \subseteq Objects \X Tgcs
          /\ pend[h] \subseteq Ephemerons /\ batch[h] \subseteq Ephemerons
      BY <1>5 DEF TypeOK
    <3>2. CASE h # g
      BY <1>10, <1>11, <1>12, <1>14, <1>15, <1>16, <3>1, <3>2
    <3>3. CASE h = g
      BY <1>10, <1>11, <1>13, <1>14, <1>17, <3>1, <3>3, NoBag
    <3> QED
      BY <3>2, <3>3
  <2>2. pc' \in [Sweepers -> {"idle", "dirty", "pass", "eph", "finish", "wait", "left", "alone"}]
    BY <1>4, <1>5 DEF TypeOK
  <2>3. status' \in [Sweepers -> {"none", "ready", "sweeping", "waiting"}]
    BY <1>4, <1>5 DEF TypeOK
  <2>4. change' \subseteq Tgcs /\ asleep' \subseteq Used
    BY <1>4, <1>5, <1>18 DEF TypeOK
  <2>5. heap \in Heaps /\ lists \in [Sweepers -> Seq(Tgcs)] /\ reached \subseteq Objects \ Old /\ fixed \subseteq Objects \X Objects
    BY <1>5 DEF TypeOK
  <2> QED
    BY <1>4, <1>7, <1>8, <2>1, <2>2, <2>3, <2>4, <2>5 DEF TypeOK
<1>22. HeldKept'
  <2> SUFFICES ASSUME NEW h \in Tgcs PROVE Held(h)' \subseteq Kept
    BY <1>8 DEF HeldKept
  <2>1. Held(h) \subseteq Kept /\ \A o \in Objects : <<o, h>> \in BagToSet(send[g]) => o \in Kept
    <3>1. Held(h) \subseteq Kept /\ Held(g) \subseteq Kept
      BY <1>5 DEF HeldKept
    <3>2. ASSUME NEW o \in Objects, NEW m \in BagToSet(send[g]), m = <<o, h>> PROVE o \in Kept
      <4>1. m[1] = o
        BY <3>2
      <4> QED
        BY <3>1, <4>1 DEF Held
    <3> QED
      BY <3>1, <3>2
  <2>2. /\ BagToSet(todo[h]) \subseteq Kept /\ BagToSet(recv[h]) \subseteq Kept /\ pend[h] \subseteq Kept /\ batch[h] \subseteq Kept
        /\ Range(dirty[h]) \subseteq Kept /\ {m[1] : m \in BagToSet(send[h])} \subseteq Kept
    BY <2>1 DEF Held
  <2>3. BagToSet(todo'[h]) \subseteq Kept
    BY <1>10, <1>12, <1>13, <2>1, <2>2
  <2>4. {m[1] : m \in BagToSet(send'[h])} \subseteq Kept
    BY <1>14, <2>2, NoBag
  <2>5. BagToSet(recv'[h]) \subseteq Kept
    BY <1>10, <1>11, <2>1, <2>2, NoBag
  <2>6. pend'[h] \subseteq Kept /\ batch'[h] \subseteq Kept
    BY <1>15, <1>16, <2>2
  <2> QED
    BY <1>4, <2>2, <2>3, <2>4, <2>5, <2>6 DEF Held
<1>23. Covered'
  <2> SUFFICES ASSUME NEW x \in Kept PROVE Forwarded(x)' \/ \E h \in Tgcs : x \in Held(h)'
    BY <1>8 DEF Covered
  <2>1. CASE Forwarded(x)
    BY <1>4, <1>8, <2>1 DEF Forwarded
  <2>2. CASE \E h \in Tgcs : x \in Held(h)
    <3>1. PICK h \in Tgcs : x \in Held(h)
      BY <2>2
    <3>2. CASE h # g
      <4>1. BagToSet(recv[h]) \subseteq BagToSet(recv'[h])
        BY <1>10, <1>11, <3>2
      <4>2. x \in Held(h)'
        BY <1>4, <1>12, <1>14, <1>15, <1>16, <3>1, <3>2, <4>1 DEF Held
      <4> QED
        BY <4>2
    <3>3. CASE h = g /\ x \in {m[1] : m \in BagToSet(send[g])}
      <4>1. PICK m \in BagToSet(send[g]) : x = m[1]
        BY <3>3
      <4>2. BagToSet(send[g]) \subseteq Objects \X Tgcs
        BY <1>5 DEF TypeOK
      <4>3. PICK f \in Tgcs : m = <<x, f>> /\ x \in Objects
        BY <4>1, <4>2
      <4>4. f = g => x \in BagToSet(todo'[g])
        BY <1>10, <1>13, <4>1, <4>3
      <4>5. f # g => x \in BagToSet(recv'[f])
        BY <1>10, <1>11, <4>1, <4>3
      <4> QED
        BY <4>3, <4>4, <4>5 DEF Held
    <3>4. CASE h = g /\ x \notin {m[1] : m \in BagToSet(send[g])}
      <4>1. x \in BagToSet(todo[g]) \cup BagToSet(recv[g]) \cup pend[g]
        BY <1>9, <3>1, <3>4, RangeNone DEF Held
      <4>2. x \in BagToSet(todo'[g]) \cup pend'[g] \cup batch'[g]
        BY <1>10, <1>13, <1>17, <4>1
      <4> QED
        BY <4>2 DEF Held
    <3> QED
      BY <3>2, <3>3, <3>4
  <2> QED
    BY <1>5, <2>1, <2>2 DEF Covered
<1>24. TriggersRight' /\ FixedRight' /\ AssignedOnce'
  BY <1>4, <1>5, <1>8 DEF TriggersRight, FixedRight, AssignedOnce
<1>25. \A t \in Used : /\ status'[t] = IF t \in W THEN "sweeping" ELSE status[t]
                       /\ pc'[t] = IF t = s THEN "eph" ELSE pc[t]
  BY <1>4, <1>5 DEF TypeOK, Used
<1>26. ASSUME NEW t \in Used PROVE ControlOK(t)'
  <2>1. ControlOK(t) /\ pc[t] \notin {"left", "alone"} /\ status[t] # "ready"
    BY <1>5, <1>7 DEF ControlOK
  <2>2. pc'[t] \notin {"left", "alone"} /\ status'[t] # "ready"
    BY <1>25, <2>1
  <2>3. status[s] = "sweeping"
    BY <1>4, <1>5 DEF ControlOK
  <2> QED
    BY <1>4, <1>7, <1>25, <2>1, <2>2, <2>3 DEF ControlOK
<1>27. ASSUME NEW t \in Used PROVE PassOK(t)'
  <2>1. /\ pc[t] \in {"dirty", "pass", "eph"} => \A i \in 1..(cur[t] - 1) : Quiet(lists[t][i])
        /\ pc[t] \in {"pass", "eph"} => dirty[Ctx(t)] = << >>
        /\ pc[t] = "eph" /\ Ctx(t) \notin change =>
              BagToSet(todo[Ctx(t)]) = {} /\ BagToSet(send[Ctx(t)]) = {} /\ pend[Ctx(t)] = {}
        /\ Resting(t) => \A i \in 1..Len(lists[t]) : Quiet(lists[t][i])
        /\ pc[t] \notin {"dirty", "pass", "eph"} => cur[t] = 1
        /\ \A i \in 1..Len(lists[t]) : batch[lists[t][i]] # {} => pc[t] = "eph" /\ i = cur[t]
    BY <1>5 DEF PassOK
  <2>2. cur[t] \in 1..Len(lists[t]) /\ Ctx(t) = lists[t][cur[t]] /\ Ctx(t)' = Ctx(t) /\ Ctx(t) \in Tgcs
    BY <1>4, <1>5, OwnContext DEF ControlOK, Ctx
  <2>3. \A h \in Tgcs : h # g =>
            /\ todo'[h] = todo[h] /\ send'[h] = send[h] /\ pend'[h] = pend[h]
            /\ dirty'[h] = dirty[h] /\ batch'[h] = batch[h] /\ (h \in change' <=> h \in change)
    BY <1>4, <1>12, <1>14, <1>15, <1>16, <1>18
  <2>4. \A i \in 1..Len(lists[t]) : t # s \/ i # cur[t] => lists[t][i] # g /\ lists[t][i] \in Tgcs
    BY <1>6
  <2>5. \A i \in 1..Len(lists[t]) : t # s \/ i # cur[t] => (Quiet(lists[t][i])' <=> Quiet(lists[t][i]))
    <3> SUFFICES ASSUME NEW i \in 1..Len(lists[t]), t # s \/ i # cur[t]
                 PROVE  Quiet(lists[t][i])' <=> Quiet(lists[t][i])
      OBVIOUS
    <3>1. PICK h \in Tgcs : h = lists[t][i] /\ h # g /\ h = lists'[t][i]
      BY <1>4, <2>4
    <3> QED
      BY <2>3, <3>1 DEF Quiet
  <2>6. \A i \in 1..(cur[t] - 1) : i \in 1..Len(lists[t]) /\ i # cur[t]
    BY <2>2
  <2>7. CASE t # s
    <3>1. Resting(t)' => Resting(t)
      BY <1>25, <2>7 DEF Resting
    <3>2. Ctx(t) # g /\ pc'[t] = pc[t]
      BY <1>25, <2>2, <2>4, <2>7
    <3>3. \A i \in 1..Len(lists[t]) : batch'[lists[t][i]] = batch[lists[t][i]]
      BY <2>3, <2>4, <2>7
    <3>4. pc'[t] \in {"dirty", "pass", "eph"} => \A i \in 1..(cur[t] - 1) : Quiet(lists[t][i])'
      BY <2>1, <2>5, <2>6, <3>2
    <3>5. Resting(t)' => \A i \in 1..Len(lists[t]) : Quiet(lists[t][i])'
      BY <2>1, <2>5, <2>7, <3>1
    <3>6. /\ pc'[t] \in {"pass", "eph"} => dirty'[Ctx(t)'] = << >>
          /\ pc'[t] = "eph" /\ Ctx(t)' \notin change' =>
                BagToSet(todo'[Ctx(t)']) = {} /\ BagToSet(send'[Ctx(t)']) = {} /\ pend'[Ctx(t)'] = {}
      BY <2>1, <2>2, <2>3, <3>2
    <3>7. /\ pc'[t] \notin {"dirty", "pass", "eph"} => cur'[t] = 1
          /\ \A i \in 1..Len(lists[t]) : batch'[lists[t][i]] # {} => pc'[t] = "eph" /\ i = cur'[t]
      BY <1>4, <2>1, <3>2, <3>3
    <3> QED
      BY <1>4, <3>4, <3>5, <3>6, <3>7 DEF PassOK
  <2>8. CASE t = s
    <3>1. pc'[t] = "eph" /\ pc[t] = "pass" /\ status'[t] = "sweeping" /\ Ctx(t) = g
      BY <1>1, <1>4, <1>5, <1>7, <1>25, <2>8 DEF ControlOK
    <3>2. ~Resting(t)'
      BY <3>1 DEF Resting
    <3>3. \A i \in 1..Len(lists[t]) : batch'[lists[t][i]] # {} => i = cur[t]
      BY <2>1, <2>3, <2>4, <3>1
    <3>4. \A i \in 1..(cur[t] - 1) : Quiet(lists[t][i])'
      BY <2>1, <2>5, <2>6, <3>1
    <3>5. dirty'[g] = << >> /\ (g \notin change' => BagToSet(todo'[g]) = {} /\ BagToSet(send'[g]) = {} /\ pend'[g] = {})
      BY <1>4, <1>9, <1>14, <1>19, NoBag
    <3> QED
      BY <1>4, <2>2, <3>1, <3>2, <3>3, <3>4, <3>5 DEF PassOK
  <2> QED
    BY <2>7, <2>8
<1> QED
  BY <1>7, <1>8, <1>20, <1>21, <1>22, <1>23, <1>24, <1>26, <1>27 DEF IInv
-----------------------------------------------------------------------------
(* The theorems.  That setup_sweepers gives every context to one sweeper is  *)
(* what a fold over the threads computes; it is a hypothesis here, and TLC   *)
(* checks it for the setups of its instance.                                 *)

SetupsAssignOnce == \A u \in Setups : OnceEach(SetupSweepers(u))

LEMMA InitIInv ==
    ASSUME SetupsAssignOnce, Init
    PROVE  IInv
<1>1. /\ heap \in Heaps /\ OnceEach(lists)
      /\ status = [s \in Sweepers |-> IF s \in Used THEN "sweeping" ELSE "none"]
      /\ running = Cardinality(Used) /\ asleep = {}
      /\ pc = [s \in Sweepers |-> IF s = MainSweeper THEN "dirty" ELSE "idle"]
      /\ cur = [s \in Sweepers |-> 1]
      /\ reached = UNION {heap.rooted[g] : g \in Tgcs} /\ fixed = {}
      /\ todo = [g \in Tgcs |-> SetToBag(heap.rooted[g])] /\ dirty = heap.dirty
      /\ send = [g \in Tgcs |-> EmptyBag] /\ recv = [g \in Tgcs |-> EmptyBag]
      /\ pend = [g \in Tgcs |-> {}] /\ batch = [g \in Tgcs |-> {}]
      /\ trig = [z \in Segments |-> {}] /\ change = {}
  BY DEF Init, SetupsAssignOnce
<1>2. HeapOK(heap) /\ MaxSweepers \in Nat /\ Used \subseteq Sweepers
  BY <1>1, SweepAssumption DEF Used
<1>3. heap.rooted \in [Tgcs -> SUBSET (Objects \ Old)] /\ heap.dirty \in [Tgcs -> Seq(Old)]
  BY <1>2 DEF HeapOK
<1>4. /\ \A g \in Tgcs : BagToSet(todo[g]) = heap.rooted[g] /\ IsABag(todo[g])
      /\ \A g \in Tgcs : BagToSet(send[g]) = {} /\ IsABag(send[g]) /\ BagToSet(recv[g]) = {} /\ IsABag(recv[g])
  BY <1>1, SetBag, NoBag
<1>5. reached \subseteq Objects \ Old
  BY <1>1, <1>3
<1>6. running \in 0..MaxSweepers + 1
  BY <1>1, UsedFinite
<1>7. TypeOK
  <2>1. /\ lists \in [Sweepers -> Seq(Tgcs)]
        /\ status \in [Sweepers -> {"none", "ready", "sweeping", "waiting"}]
        /\ pc \in [Sweepers -> {"idle", "dirty", "pass", "eph", "finish", "wait", "left", "alone"}]
    BY <1>1 DEF OnceEach
  <2>2. \A g \in Tgcs :
          /\ BagToSet(todo[g]) \subseteq Objects /\ BagToSet(recv[g]) \subseteq Objects
          /\ BagToSet(send[g]) \subseteq Objects \X Tgcs
          /\ pend[g] \subseteq Ephemerons /\ batch[g] \subseteq Ephemerons
    BY <1>1, <1>3, <1>4
  <2> QED
    BY <1>1, <1>5, <1>6, <2>1, <2>2 DEF TypeOK
<1>8. Shape
  BY <1>1, <1>3, <1>4 DEF Shape
<1>9. RunningExact
  <2>1. Used = {s \in Used : \/ pc[s] \in {"dirty", "pass", "eph", "finish"}
                             \/ pc[s] \in {"idle", "wait"} /\ status[s] = "sweeping"}
    BY <1>1, <1>2
  <2>2. \A s \in Used : status[s] # "waiting"
    BY <1>1, <1>2
  <2> QED
    BY <1>1, <2>1, <2>2 DEF RunningExact
<1>10. \A g \in Tgcs : Held(g) = heap.rooted[g] \cup Range(heap.dirty[g])
  BY <1>1, <1>4 DEF Held
<1>11. HeldKept /\ Covered
  BY <1>1, <1>10 DEF HeldKept, Covered, Kept, OnCards
<1>12. TriggersRight /\ FixedRight
  BY <1>1 DEF TriggersRight, FixedRight
<1>13. ASSUME NEW s \in Used PROVE ControlOK(s) /\ PassOK(s)
  <2>1. /\ s \in Sweepers /\ cur[s] = 1 /\ status[s] = "sweeping" /\ pc[s] \in {"dirty", "idle"}
    BY <1>1, <1>2
  <2>2. Len(lists[s]) \in Nat /\ Len(lists[s]) # 0 /\ \A i \in 1..Len(lists[s]) : lists[s][i] \in Tgcs
    <3>1. lists[s] \in Seq(Tgcs) /\ lists[s] # << >>
      BY <1>1, <2>1 DEF OnceEach, Used
    <3> QED
      BY <3>1, LenProperties, EmptySeq, ElementOfSeq
  <2>3. \A i \in 1..Len(lists[s]) : batch[lists[s][i]] = {}
    BY <1>1, <2>2
  <2>4. ControlOK(s)
    BY <2>1, <2>2 DEF ControlOK
  <2>5. PassOK(s)
    BY <2>1, <2>3 DEF PassOK, Resting
  <2> QED
    BY <2>4, <2>5
<1> QED
  BY <1>1, <1>7, <1>8, <1>9, <1>11, <1>12, <1>13 DEF IInv, AssignedOnce

LEMMA StutterIInv ==
    ASSUME IInv, UNCHANGED vars
    PROVE  IInv'
<1>1. /\ heap' = heap /\ lists' = lists /\ status' = status /\ running' = running /\ asleep' = asleep
      /\ pc' = pc /\ cur' = cur /\ reached' = reached /\ fixed' = fixed /\ todo' = todo /\ dirty' = dirty
      /\ send' = send /\ recv' = recv /\ pend' = pend /\ batch' = batch /\ trig' = trig /\ change' = change
  BY DEF vars, control, stacks
<1>2. /\ Used' = Used /\ Ephemerons' = Ephemerons /\ OnCards' = OnCards /\ Segments' = Segments /\ Kept' = Kept
      /\ \A t : (AnyRanges(t)' <=> AnyRanges(t)) /\ Ctx(t)' = Ctx(t) /\ (Resting(t)' <=> Resting(t))
      /\ \A g : Held(g)' = Held(g) /\ (Quiet(g)' <=> Quiet(g))
  BY <1>1 DEF Used, Ephemerons, OnCards, Segments, Kept, AnyRanges, Ctx, Resting, Held, Quiet
<1>3. \A o : Forwarded(o)' <=> Forwarded(o)
  BY <1>1, <1>2 DEF Forwarded
<1>4. TypeOK' /\ Shape' /\ AssignedOnce' /\ RunningExact'
  BY <1>1, <1>2 DEF IInv, TypeOK, Shape, AssignedOnce, RunningExact
<1>5. HeldKept' /\ TriggersRight' /\ FixedRight' /\ Covered'
  BY <1>1, <1>2, <1>3 DEF IInv, HeldKept, TriggersRight, FixedRight, Covered
<1>6. \A s \in Used' : ControlOK(s)' /\ PassOK(s)'
  <2> SUFFICES ASSUME NEW s \in Used PROVE ControlOK(s)' /\ PassOK(s)'
    BY <1>2
  <2>1. \A i : Quiet(lists[s][i])' <=> Quiet(lists[s][i])
    BY <1>1 DEF Quiet
  <2> QED
    BY <1>1, <1>2, <2>1 DEF IInv, ControlOK, PassOK
<1> QED
  BY <1>4, <1>5, <1>6 DEF IInv

LEMMA NextIInv ==
    ASSUME IInv, [Next]_vars
    PROVE  IInv'
<1>1. ASSUME NEW s \in Used, Work(s) \/ Spurious(s) PROVE IInv'
  BY <1>1, StepStart, StepVisit, StepDirtyDone, StepExchange, StepAgain,
     StepFinishPass, StepWake, StepLeave, StepSpurious DEF Work
<1> QED
  BY <1>1, StutterIInv DEF Next

LEMMA AlwaysIInv == SetupsAssignOnce => (Spec => []IInv)
<1>1. SetupsAssignOnce /\ Init => IInv
  BY InitIInv
<1>2. IInv /\ [Next]_vars => IInv'
  BY NextIInv
<1> QED
  BY <1>1, <1>2, PTL DEF Spec

\* Once a sweeper has left, nobody has anything left to do.
LEMMA NothingLeft ==
    ASSUME IInv, NEW s \in Used, pc[s] \in {"left", "alone"}
    PROVE  (\A g \in Tgcs : Held(g) = {}) /\ \A o \in Kept : Forwarded(o)
<1>1. running = 0 /\ Active = {}
  BY IInvParts, Running DEF ControlOK
<1>2. ASSUME NEW t \in Used PROVE Resting(t) /\ ~AnyRanges(t)
  <2>1. ControlOK(t) /\ t \notin Active /\ pc \in [Sweepers -> {"idle", "dirty", "pass", "eph", "finish", "wait", "left", "alone"}]
        /\ t \in Sweepers
    BY <1>1, <1>2, SelfFacts
  <2>2. pc[t] \in {"left", "alone"} \/ status[t] = "ready" \/ (pc[t] = "wait" /\ status[t] = "waiting")
    BY <2>1 DEF Active, ControlOK
  <2>3. status[t] = "waiting" => ~AnyRanges(t)
    BY Running
  <2> QED
    BY <2>1, <2>2, <2>3 DEF Resting, ControlOK
<1>3. ASSUME NEW g \in Tgcs PROVE Held(g) = {}
  <2>1. PICK t \in Used : g \in Range(lists[t])
    BY SweeperIs
  <2>2. recv[g] = EmptyBag
    BY <1>2, <2>1 DEF AnyRanges
  <2>3. lists[t] \in Seq(Tgcs) /\ DOMAIN lists[t] = 1..Len(lists[t])
    BY SelfFacts, LenProperties
  <2>4. PICK i \in 1..Len(lists[t]) : g = lists[t][i]
    BY <2>1, <2>3 DEF Range
  <2>5. Quiet(g)
    BY <1>2, <2>4, IInvParts DEF PassOK
  <2> QED
    BY <2>2, <2>5, NoBag, RangeNone DEF Quiet, Held
<1>4. \A o \in Kept : Forwarded(o)
  BY <1>3, IInvParts DEF Covered
<1> QED
  BY <1>3, <1>4

LEMMA MainUsed ==
    ASSUME IInv
    PROVE  MainSweeper \in Used
<1>1. MainTgc \in Range(lists[MainSweeper]) /\ MainSweeper \in Sweepers
  BY IInvParts, SweepAssumption DEF AssignedOnce, OnceEach, Sweepers, MainSweeper
<1>2. lists[MainSweeper] # << >>
  BY <1>1, RangeNone
<1> QED
  BY <1>1, <1>2 DEF Used

\* The sweep ends only when nothing is left to do and every reference is
\* updated: what run_sweeper concludes from num_running_sweepers being 0, for
\* any number of contexts and sweepers, any heap and any order of messages.
THEOREM EndsWhenDone == SetupsAssignOnce => (Spec => []SweepComplete)
<1>1. IInv => SweepComplete
  <2> SUFFICES ASSUME IInv PROVE DoneMeansDone /\ AllForwarded
    BY DEF SweepComplete
  <2>1. DoneMeansDone
    BY NothingLeft DEF DoneMeansDone
  <2>2. AllForwarded
    <3> SUFFICES ASSUME Alone PROVE \A o \in reached \cup OnCards : Forwarded(o)
      BY DEF AllForwarded
    <3>1. MainSweeper \in Used /\ pc[MainSweeper] = "alone"
      BY MainUsed DEF Alone
    <3> QED
      BY <3>1, NothingLeft DEF Kept
  <2> QED
    BY <2>1, <2>2
<1> QED
  BY <1>1, AlwaysIInv, PTL
LEMMA VisitReaches ==
    ASSUME IInv, NEW s \in Used, Visit(s)
    PROVE  /\ pc[s] \in {"dirty", "pass", "eph"} /\ heap' = heap /\ pc' = pc
           /\ reached \subseteq reached' /\ reached' \subseteq Collectable
           /\ \A x \in reached' \ reached :
                 /\ Creator[x] = Ctx(s) /\ todo'[Ctx(s)] # todo[Ctx(s)]
                 /\ x \in Abstract!Children(reached \cup Old)
<1>1. PICK g \in Tgcs : g = Ctx(s)
  BY OwnContext
<1>2. PICK o \in Kept : \E X : pc[s] \in {"dirty", "pass", "eph"} /\ Visited(g, o, X) /\ Taken(s, o, X)
  BY <1>1 DEF Visit
<1>3. PICK X : pc[s] \in {"dirty", "pass", "eph"} /\ Visited(g, o, X) /\ Taken(s, o, X)
  BY <1>2
<1>4. /\ reached \subseteq reached' /\ reached' \subseteq Collectable
      /\ \A x \in reached' \ reached : Creator[x] = g /\ x \in Abstract!Children(reached \cup Old)
      /\ BagToSet(todo'[g]) = X \cup (reached' \ reached)
  BY <1>3 DEF Visited
<1>5. BagToSet(todo[g]) \subseteq reached \cup Old
  BY IInvParts DEF HeldKept, Held
<1>6. \A x \in reached' \ reached : todo'[g] # todo[g]
  BY <1>4, <1>5 DEF Collectable
<1> QED
  BY <1>1, <1>3, <1>4, <1>6 DEF Taken

LEMMA OtherSteps ==
    ASSUME IInv, NEW s \in Used,
           \/ Start(s) \/ DirtyDone(s) \/ Exchange(s) \/ Again(s) \/ FinishPass(s)
           \/ Wake(s) \/ Ready(s) \/ Spurious(s)
    PROVE  heap' = heap /\ reached' = reached /\ Alone' = Alone
<1>1. heap' = heap /\ reached' = reached
  BY DEF Start, DirtyDone, Exchange, Again, FinishPass, Wake, Ready, Spurious
<1>2. pc \in [Sweepers -> {"idle", "dirty", "pass", "eph", "finish", "wait", "left", "alone"}] /\ s \in Sweepers
  BY SelfFacts
<1>3. pc' = pc \/ (pc[s] # "alone" /\ \E l : l # "alone" /\ pc' = [pc EXCEPT ![s] = l])
  <2>1. CASE Start(s) \/ DirtyDone(s) \/ Exchange(s) \/ Again(s) \/ Ready(s) \/ Spurious(s)
    BY <2>1 DEF Start, DirtyDone, Exchange, Again, Ready, Spurious, Goto
  <2>2. CASE FinishPass(s)
    BY <2>2 DEF FinishPass, Decide, Goto
  <2>3. CASE Wake(s)
    BY <2>3 DEF Wake, Decide, Goto
  <2> QED
    BY <2>1, <2>2, <2>3
<1>4. pc'[MainSweeper] = "alone" <=> pc[MainSweeper] = "alone"
  <2>1. MainSweeper \in Sweepers
    BY SweepAssumption DEF MainSweeper, Sweepers
  <2> QED
    BY <1>2, <1>3, <2>1
<1>5. Alone' = Alone
  BY <1>4 DEF Alone
<1> QED
  BY <1>1, <1>5

\* Objects are copied and marked only in the context that owns them, so the
\* sweepers need no lock on an object.
THEOREM CopiedByOwner == SetupsAssignOnce => (Spec => OwnerOnly)
<1> DEFINE A == \A x \in reached' \ reached : \E s \in Used :
                  /\ pc[s] \in {"dirty", "pass", "eph"}
                  /\ Ctx(s) = Creator[x]
                  /\ <<todo[Ctx(s)], pend[Ctx(s)], batch[Ctx(s)], dirty[Ctx(s)]>>
                       # <<todo'[Ctx(s)], pend'[Ctx(s)], batch'[Ctx(s)], dirty'[Ctx(s)]>>
<1>1. IInv /\ [Next]_vars => [A]_vars
  <2> SUFFICES ASSUME IInv, Next PROVE A
    OBVIOUS
  <2> SUFFICES ASSUME NEW x \in reached' \ reached
               PROVE  \E s \in Used :
                  /\ pc[s] \in {"dirty", "pass", "eph"}
                  /\ Ctx(s) = Creator[x]
                  /\ <<todo[Ctx(s)], pend[Ctx(s)], batch[Ctx(s)], dirty[Ctx(s)]>>
                       # <<todo'[Ctx(s)], pend'[Ctx(s)], batch'[Ctx(s)], dirty'[Ctx(s)]>>
    OBVIOUS
  <2>1. PICK s \in Used : Work(s) \/ Spurious(s)
    BY DEF Next
  <2>2. ~(Start(s) \/ DirtyDone(s) \/ Exchange(s) \/ Again(s) \/ FinishPass(s)
          \/ Wake(s) \/ Ready(s) \/ Spurious(s) \/ Finish(s))
    BY OtherSteps DEF Finish
  <2>3. Visit(s)
    BY <2>1, <2>2, StepVisit DEF Work
  <2>4. pc[s] \in {"dirty", "pass", "eph"} /\ Creator[x] = Ctx(s) /\ todo'[Ctx(s)] # todo[Ctx(s)]
    BY <2>3, VisitReaches
  <2> QED
    BY <2>4
<1> QED
  BY <1>1, AlwaysIInv, PTL DEF Spec, OwnerOnly

\* With nothing left to do, every reference of a kept object leads to one.
LEMMA ClosedAtEnd ==
    ASSUME IInv, NEW s \in Used, pc[s] = "left"
    PROVE  Abstract!Closed(reached)
<1> DEFINE S == reached \cup Old
<1>1. /\ TypeOK /\ FixedRight /\ S \subseteq Objects /\ \A o \in Kept : Forwarded(o)
  BY IInvParts, NothingLeft DEF Collectable
<1>2. HeapOK(heap)
  BY <1>1, SweepAssumption DEF TypeOK
<1>3. \A o \in S : o \in Kept \/ (o \in Old /\ o \notin OnCards)
  BY DEF Kept
<1>4. /\ heap.key \in [Ephemerons -> Objects] /\ heap.val \in [Ephemerons -> Objects]
      /\ heap.refs \in [Objects -> Seq(Objects)] /\ \A e \in Ephemerons : heap.refs[e] = << >>
  BY <1>1, HeapFacts
<1>5. \A o \in Old : o \notin OnCards =>
         IF o \in Ephemerons THEN heap.key[o] \in Old /\ heap.val[o] \in Old ELSE Range(heap.refs[o]) \subseteq Old
  BY <1>2 DEF HeapOK, OnCards, Ephemerons
<1>6. ASSUME NEW e \in S, e \in Ephemerons, heap.key[e] \in S PROVE heap.val[e] \in S
  <2>1. CASE e \in Old /\ e \notin OnCards
    BY <1>5, <1>6, <2>1
  <2>2. CASE e \in Kept
    <3>1. heap.val[e] \in Old \/ <<e, heap.val[e]>> \in fixed
      BY <1>1, <1>6, <2>2 DEF Forwarded
    <3>2. e \in Objects /\ heap.val[e] \in Objects
      BY <1>1, <1>4, <1>6
    <3> QED
      BY <1>1, <3>1, <3>2 DEF FixedRight
  <2> QED
    BY <1>3, <2>1, <2>2
<1>7. ASSUME NEW o \in S, NEW x \in Range(heap.refs[o]) PROVE x \in S
  <2>1. o \notin Ephemerons
    BY <1>4, <1>7, RangeNone
  <2>2. CASE o \in Old /\ o \notin OnCards
    BY <1>5, <1>7, <2>1, <2>2
  <2>3. CASE o \in Kept
    <3>1. x \in Old \/ <<o, x>> \in fixed
      BY <1>1, <1>7, <2>1, <2>3 DEF Forwarded
    <3>2. o \in Objects /\ x \in Objects
      BY <1>1, <1>4, <1>7, RangeSeq
    <3> QED
      BY <1>1, <3>1, <3>2 DEF FixedRight
  <2> QED
    BY <1>3, <2>2, <2>3
<1>8. Graph.key = heap.key /\ Graph.val = heap.val /\ Graph.refs = References
  BY DEF Graph
<1>9. \A o \in S : References[o] = Range(heap.refs[o])
  BY <1>1 DEF References
<1>10. DOMAIN heap.key = Ephemerons
  BY DEF Ephemerons
<1> HIDE DEF S
<1>11. Abstract!Children(S) \subseteq S
  <2> SUFFICES ASSUME NEW x \in Abstract!Children(S) PROVE x \in S
    OBVIOUS
  <2>1. CASE \E e \in S : e \in Ephemerons /\ heap.key[e] \in S /\ x = heap.val[e]
    BY <1>6, <2>1
  <2>2. CASE \E o \in S : x \in Range(heap.refs[o])
    BY <1>7, <2>2
  <2> QED
    BY <1>8, <1>9, <1>10, <2>1, <2>2 DEF Abstract!Children
<1> QED
  BY <1>11 DEF Abstract!Closed, S

\* The sweepers together do what module Reach promises: they keep only what the
\* kept objects refer to, and say that they are done only when everything is
\* kept that should be.
THEOREM SweepRefinesReach == SetupsAssignOnce => (Spec => ImplementsReach)
<1>1. ASSUME SetupsAssignOnce, Init PROVE Abstract!Init
  <2>1. IInv
    BY <1>1, InitIInv
  <2>2. reached \subseteq Collectable
    BY <2>1, IInvParts
  <2>3. pc[MainSweeper] = "dirty"
    BY <1>1, SweepAssumption DEF Init, MainSweeper, Sweepers
  <2> QED
    BY <2>2, <2>3 DEF Abstract!Init, Alone
<1>2. ASSUME IInv, [Next]_vars PROVE [Abstract!Keep \/ Abstract!Finish]_<<Graph, reached, Alone>>
  <2>1. CASE UNCHANGED vars
    BY <2>1 DEF vars, Graph, References, Alone
  <2>2. ASSUME NEW s \in Used, Work(s) \/ Spurious(s)
        PROVE  [Abstract!Keep \/ Abstract!Finish]_<<Graph, reached, Alone>>
    <3>1. CASE \/ Start(s) \/ DirtyDone(s) \/ Exchange(s) \/ Again(s) \/ FinishPass(s)
               \/ Wake(s) \/ Ready(s) \/ Spurious(s)
      BY <1>2, <3>1, OtherSteps DEF Graph, References
    <3>2. CASE SweepDirty(s) \/ Sweep(s) \/ CheckPending(s)
      <4>1. Visit(s)
        BY <1>2, <3>2, StepVisit
      <4>2. /\ pc[s] \in {"dirty", "pass", "eph"} /\ heap' = heap /\ pc' = pc
            /\ reached \subseteq reached' /\ reached' \subseteq Collectable
            /\ \A x \in reached' \ reached : x \in Abstract!Children(reached \cup Old)
        BY <1>2, <4>1, VisitReaches
      <4>3. ~Alone
        <5>1. s \in Active
          BY <4>2 DEF Active
        <5>2. running # 0
          BY <1>2, <5>1, SelfFacts
        <5>3. MainSweeper \in Used
          BY <1>2, MainUsed
        <5> QED
          BY <1>2, <5>2, <5>3, SelfFacts DEF Alone
      <4>4. Alone' = Alone /\ Graph' = Graph
        BY <4>2 DEF Alone, Graph, References
      <4>5. Abstract!Keep
        BY <4>2, <4>3, <4>4 DEF Abstract!Keep
      <4> QED
        BY <4>5
    <3>3. CASE Finish(s)
      <4>1. /\ pc[s] = "left" /\ s = MainSweeper /\ pc' = [pc EXCEPT ![s] = "alone"]
            /\ heap' = heap /\ reached' = reached
        BY <3>3 DEF Finish, Goto
      <4>2. pc'[s] = "alone"
        BY <1>2, <4>1, SelfFacts
      <4>3. ~Alone /\ Alone' = TRUE /\ Graph' = Graph
        BY <4>1, <4>2 DEF Alone, Graph, References
      <4>4. Abstract!Closed(reached)
        BY <1>2, <4>1, ClosedAtEnd
      <4>5. Abstract!Finish
        BY <4>1, <4>3, <4>4 DEF Abstract!Finish
      <4> QED
        BY <4>5
    <3> QED
      BY <2>2, <3>1, <3>2, <3>3 DEF Work
  <2> QED
    BY <1>2, <2>1, <2>2 DEF Next
<1>3. SetupsAssignOnce /\ Init => Abstract!Init
  BY <1>1
<1>4. IInv /\ [Next]_vars => [Abstract!Keep \/ Abstract!Finish]_<<Graph, reached, Alone>>
  BY <1>2
<1> QED
  BY <1>3, <1>4, AlwaysIInv, PTL DEF Spec, ImplementsReach, Abstract!Spec
-----------------------------------------------------------------------------
(* One sweeper at a time. *)

\* Object o is in the place <<k, a, b>>: a stack of context a (its send stack
\* has a part for each context b), or the triggers of segment a.
At(k, a, b, o) ==
    \/ k = "todo"  /\ b = a /\ a \in Tgcs /\ o \in BagToSet(todo[a])
    \/ k = "recv"  /\ b = a /\ a \in Tgcs /\ o \in BagToSet(recv[a])
    \/ k = "pend"  /\ b = a /\ a \in Tgcs /\ o \in pend[a]
    \/ k = "batch" /\ b = a /\ a \in Tgcs /\ o \in batch[a]
    \/ k = "dirty" /\ b = a /\ a \in Tgcs /\ o \in Range(dirty[a])
    \/ k = "send"  /\ a \in Tgcs /\ b \in Tgcs /\ <<o, b>> \in BagToSet(send[a])
    \/ k = "trig"  /\ b = a /\ a \in Segments /\ o \in trig[a]

\* An object that lies on one card at most is in one place at most.
InOnePlace ==
    \A o \in Objects \ Overlapping : \A k, a, b, l, c, d :
        At(k, a, b, o) /\ At(l, c, d, o) => k = l /\ a = c /\ b = d

\* It is there once.
BagsOnce ==
    \A g \in Tgcs : \A o \in Objects \ Overlapping :
        /\ o \in BagToSet(todo[g]) => todo[g][o] = 1
        /\ o \in BagToSet(recv[g]) => recv[g][o] = 1
        /\ \A h \in Tgcs : <<o, h>> \in BagToSet(send[g]) => send[g][<<o, h>>] = 1

CardsOnce ==
    \A g \in Tgcs : \A i, j \in 1..Len(dirty[g]) :
        dirty[g][i] = dirty[g][j] /\ dirty[g][i] \notin Overlapping => i = j

PlaceInv == InOnePlace /\ BagsOnce /\ CardsOnce

LEMMA CopiesSet ==
    ASSUME NEW S, NEW x \in S
    PROVE  SetToBag(S)[x] = 1
  BY DEF SetToBag

LEMMA CopiesPlus ==
    ASSUME NEW A, NEW B, IsABag(A), IsABag(B), NEW x
    PROVE  /\ x \in BagToSet(A) /\ x \notin BagToSet(B) => (A (+) B)[x] = A[x]
           /\ x \in BagToSet(B) /\ x \notin BagToSet(A) => (A (+) B)[x] = B[x]
<1>1. BagToSet(A) = DOMAIN A /\ BagToSet(B) = DOMAIN B
  BY DEF BagToSet
<1>2. (\A y \in DOMAIN A : A[y] \in Nat) /\ (\A y \in DOMAIN B : B[y] \in Nat)
  BY DEF IsABag
<1>3. x \in DOMAIN A \cup DOMAIN B =>
        (A (+) B)[x] = (IF x \in DOMAIN A THEN A[x] ELSE 0) + (IF x \in DOMAIN B THEN B[x] ELSE 0)
  BY DEF (+)
<1> QED
  BY <1>1, <1>2, <1>3

LEMMA CopiesMinus ==
    ASSUME NEW A, NEW x, IsABag(A)
    PROVE  /\ x \in BagToSet(A) /\ A[x] = 1 => x \notin BagToSet(A (-) One(x))
           /\ \A y \in BagToSet(A (-) One(x)) : y # x => (A (-) One(x))[y] = A[y]
<1>1. BagToSet(A) = DOMAIN A /\ \A y \in DOMAIN A : A[y] \in Nat /\ A[y] > 0
  BY DEF BagToSet, IsABag
<1> DEFINE D == [e \in DOMAIN A |-> IF e \in {x} THEN A[e] - 1 ELSE A[e]]
           M == [e \in {d \in DOMAIN D : D[d] > 0} |-> D[e]]
<1>2. A (-) One(x) = M
  BY DEF (-), One, SetToBag
<1>3. \A e \in DOMAIN A : (e # x => D[e] = A[e]) /\ (e = x => D[e] = A[e] - 1)
  BY <1>1
<1>4. DOMAIN M = {d \in DOMAIN A : D[d] > 0} /\ \A d \in DOMAIN M : M[d] = D[d]
  OBVIOUS
<1> HIDE DEF D, M
<1> QED
  BY <1>1, <1>2, <1>3, <1>4 DEF BagToSet

\* An ephemeron lies on one card.
LEMMA EphemeronsApart ==
    ASSUME TypeOK
    PROVE  Ephemerons \cap Overlapping = {} /\ Overlapping \subseteq Objects
<1>1. HeapOK(heap)
  BY SweepAssumption DEF TypeOK
<1>2. \A g \in Tgcs : \A i, j \in DOMAIN heap.dirty[g] :
          heap.dirty[g][i] = heap.dirty[g][j] /\ heap.dirty[g][i] \in DOMAIN heap.key => i = j
  BY <1>1 DEF HeapOK
<1>3. heap.dirty \in [Tgcs -> Seq(Old)]
  BY <1>1 DEF HeapOK
<1>4. \A g \in Tgcs : DOMAIN heap.dirty[g] = 1..Len(heap.dirty[g]) /\ Len(heap.dirty[g]) \in Nat
  BY <1>3, LenProperties
<1>5. ASSUME NEW o \in Ephemerons, o \in Overlapping PROVE FALSE
  <2>1. PICK g \in Tgcs : \E i, j \in DOMAIN heap.dirty[g] :
                    i < j /\ heap.dirty[g][i] = o /\ heap.dirty[g][j] = o
    BY <1>5 DEF Overlapping
  <2>2. PICK i \in DOMAIN heap.dirty[g], j \in DOMAIN heap.dirty[g] :
                    i < j /\ heap.dirty[g][i] = o /\ heap.dirty[g][j] = o
    BY <2>1
  <2>3. i \in Int /\ j \in Int
    BY <1>4
  <2>4. i = j
    BY <1>2, <1>5, <2>2 DEF Ephemerons
  <2> QED
    BY <2>2, <2>3, <2>4
<1> QED
  BY <1>5, SweepAssumption DEF Overlapping

\* What a visit of v by context g does with the stacks: v may be put in one
\* place, <<l, c, d>>, and ephemerons whose trigger is pulled become pending.
Put(g, v, l, c, d) ==
    \A k, a, b, o : k \in {"send", "pend", "trig"} /\ At(k, a, b, o)' =>
        \/ At(k, a, b, o)
        \/ o = v /\ k = l /\ a = c /\ b = d
        \/ k = "pend" /\ a = g /\ b = g /\ \E z : At("trig", z, z, o) /\ ~At("trig", z, z, o)'

Spread(g, v) ==
    /\ \E l, c, d : Put(g, v, l, c, d)
    /\ send' = send \/ \E h \in Tgcs : send' = [send EXCEPT ![g] = @ (+) One(<<v, h>>)]

\* What is newly reached joins rest.
Grown(g, rest) ==
    /\ \A o \in BagToSet(rest) : o \notin reached' \ reached => todo'[g][o] = rest[o]
    /\ \A o \in reached' \ reached : o \notin BagToSet(rest) => todo'[g][o] = 1

LEMMA SendAt ==
    ASSUME Shape, NEW g \in Tgcs, NEW v, NEW h \in Tgcs, send' = [send EXCEPT ![g] = @ (+) One(<<v, h>>)]
    PROVE  \A a, b, o : At("send", a, b, o)' => At("send", a, b, o) \/ (o = v /\ a = g /\ b = h)
<1>1. send'[g] = send[g] (+) One(<<v, h>>) /\ \A f \in Tgcs : f # g => send'[f] = send[f]
  BY DEF Shape
<1>2. IsABag(send[g])
  BY DEF Shape
<1>3. BagToSet(send'[g]) = BagToSet(send[g]) \cup {<<v, h>>}
  BY <1>1, <1>2, OneBag, PlusBag
<1>4. ASSUME NEW a, NEW b, NEW o, At("send", a, b, o)'
      PROVE  At("send", a, b, o) \/ (o = v /\ a = g /\ b = h)
  <2>1. a \in Tgcs /\ b \in Tgcs /\ <<o, b>> \in BagToSet(send'[a])
    BY <1>4 DEF At
  <2>2. <<o, b>> = <<v, h>> => o = v /\ b = h
    OBVIOUS
  <2>3. <<o, b>> \in BagToSet(send[a]) \/ (a = g /\ o = v /\ b = h)
    BY <1>1, <1>3, <2>1, <2>2
  <2> QED
    BY <2>1, <2>3 DEF At
<1> QED
  BY <1>4

LEMMA RelocateSpread ==
    ASSUME IInv, heap' = heap, NEW g \in Tgcs, NEW v \in Objects, NEW fs \in Seq(Objects), NEW Y,
           NEW rest, IsABag(rest), Relocate(g, v, fs, Y, rest)
    PROVE  Spread(g, v) /\ Grown(g, rest)
<1>1. Shape /\ Creator \in [Objects -> Tgcs] /\ Range(fs) \subseteq Objects /\ DOMAIN fs = 1..Len(fs)
  BY IInvParts, RangeSeq, SweepAssumption, LenProperties
<1> DEFINE open == Unfixed(v, Range(fs))
<1>2. PICK seen \in SUBSET MaybeMarked(open) :
        LET loc == Local(g, open, seen)
            new == loc \ reached
            far == open \ loc
            pulled == Pulled(new)
        IN
        /\ reached' = reached \cup new
        /\ todo' = [todo EXCEPT ![g] = rest (+) SetToBag(new)]
        /\ pend' = [pend EXCEPT ![g] = @ \cup UNION {trig[z] : z \in pulled}]
        /\ trig' = [z \in Segments |-> IF z \in pulled THEN {} ELSE trig[z]]
        /\ Flush(g, v, fs, far)
  BY DEF Relocate
<1>3. PICK new, pulled, far :
        /\ new \cap reached = {} /\ new \subseteq Objects /\ pulled = {Segment[x] : x \in new}
        /\ reached' = reached \cup new
        /\ todo' = [todo EXCEPT ![g] = rest (+) SetToBag(new)]
        /\ pend' = [pend EXCEPT ![g] = @ \cup UNION {trig[z] : z \in pulled}]
        /\ trig' = [z \in Segments |-> IF z \in pulled THEN {} ELSE trig[z]]
        /\ Flush(g, v, fs, far)
  <2> DEFINE n == Local(g, open, seen) \ reached
             p == Pulled(n)
             f == open \ Local(g, open, seen)
  <2>1. /\ n \cap reached = {} /\ n \subseteq Objects /\ p = {Segment[x] : x \in n}
    BY <1>1 DEF Pulled, Local, Unfixed
  <2>2. /\ reached' = reached \cup n
        /\ todo' = [todo EXCEPT ![g] = rest (+) SetToBag(n)]
        /\ pend' = [pend EXCEPT ![g] = @ \cup UNION {trig[z] : z \in p}]
        /\ trig' = [z \in Segments |-> IF z \in p THEN {} ELSE trig[z]]
        /\ Flush(g, v, fs, f)
    BY <1>2
  <2> HIDE DEF n, p, f
  <2> QED
    BY <2>1, <2>2
<1> HIDE DEF open
<1>4. pulled \subseteq Segments
  BY <1>3 DEF Segments
<1>5. send' = send \/ \E h \in Tgcs : send' = [send EXCEPT ![g] = @ (+) One(<<v, h>>)]
  <2>1. CASE UNCHANGED send
    BY <2>1
  <2>2. CASE \E i \in DOMAIN fs : send' = [send EXCEPT ![g] = @ (+) One(<<v, Creator[fs[i]]>>)]
    <3>1. PICK i \in DOMAIN fs : send' = [send EXCEPT ![g] = @ (+) One(<<v, Creator[fs[i]]>>)]
      BY <2>2
    <3>2. Creator[fs[i]] \in Tgcs
      BY <1>1, ElementOfSeq
    <3> QED
      BY <3>1, <3>2
  <2> QED
    BY <1>3, <2>1, <2>2 DEF Flush
<1>6. Grown(g, rest)
  <2>1. todo'[g] = rest (+) SetToBag(new) /\ reached' \ reached = new
    BY <1>1, <1>3 DEF Shape
  <2>2. BagToSet(SetToBag(new)) = new /\ IsABag(SetToBag(new)) /\ \A x \in new : SetToBag(new)[x] = 1
    BY SetBag, CopiesSet
  <2> QED
    BY <2>1, <2>2, CopiesPlus DEF Grown
<1>7. /\ pend'[g] = pend[g] \cup UNION {trig[z] : z \in pulled}
      /\ \A h \in Tgcs : h # g => pend'[h] = pend[h]
  BY <1>1, <1>3 DEF Shape
<1>8. \A z \in Segments : trig'[z] = IF z \in pulled THEN {} ELSE trig[z]
  BY <1>3
<1>9. Segments' = Segments
  BY DEF Segments
<1>10. PICK h \in Tgcs : \A a, b, o : At("send", a, b, o)' => At("send", a, b, o) \/ (o = v /\ a = g /\ b = h)
  <2>1. CASE send' = send
    BY <2>1 DEF At
  <2>2. CASE \E h \in Tgcs : send' = [send EXCEPT ![g] = @ (+) One(<<v, h>>)]
    <3>1. PICK h \in Tgcs : send' = [send EXCEPT ![g] = @ (+) One(<<v, h>>)]
      BY <2>2
    <3>2. \A a, b, o : At("send", a, b, o)' => At("send", a, b, o) \/ (o = v /\ a = g /\ b = h)
      BY <1>1, <3>1, SendAt
    <3> QED
      BY <3>2
  <2> QED
    BY <1>5, <2>1, <2>2
<1>11. ASSUME NEW a, NEW b, NEW o, At("pend", a, b, o)'
       PROVE  \/ At("pend", a, b, o)
              \/ a = g /\ b = g /\ \E z : At("trig", z, z, o) /\ ~At("trig", z, z, o)'
  <2>1. b = a /\ a \in Tgcs /\ o \in pend'[a]
    BY <1>11 DEF At
  <2>2. CASE o \in pend[a]
    BY <2>1, <2>2 DEF At
  <2>3. CASE o \notin pend[a]
    <3>1. a = g /\ \E z \in pulled : o \in trig[z]
      BY <1>7, <2>1, <2>3
    <3>2. PICK z \in pulled : o \in trig[z]
      BY <3>1
    <3>3. At("trig", z, z, o) /\ ~At("trig", z, z, o)'
      BY <1>4, <1>8, <3>2 DEF At
    <3> QED
      BY <2>1, <3>1, <3>3
  <2> QED
    BY <2>2, <2>3
<1>12. ASSUME NEW a, NEW b, NEW o, At("trig", a, b, o)' PROVE At("trig", a, b, o)
  BY <1>8, <1>9, <1>12 DEF At
<1>13. \A k, a, b, o : k \in {"send", "pend", "trig"} /\ At(k, a, b, o)' =>
          \/ At(k, a, b, o)
          \/ o = v /\ k = "send" /\ a = g /\ b = h
          \/ k = "pend" /\ a = g /\ b = g /\ \E z : At("trig", z, z, o) /\ ~At("trig", z, z, o)'
  BY <1>10, <1>11, <1>12
<1>14. Put(g, v, "send", g, h)
  BY <1>13 DEF Put
<1> QED
  BY <1>5, <1>6, <1>14 DEF Spread

LEMMA CheckSpread ==
    ASSUME IInv, heap' = heap, NEW g \in Tgcs, NEW e \in Ephemerons, NEW isDirty \in BOOLEAN,
           CheckEphemeron(g, e, isDirty)
    PROVE  Spread(g, e) /\ Grown(g, todo[g])
<1> DEFINE k == heap.key[e]
           fs == <<heap.val[e]>>
<1>1. /\ Shape /\ e \in Objects /\ k \in Objects /\ fs \in Seq(Objects) /\ IsABag(todo[g])
      /\ Creator \in [Objects -> Tgcs]
  <2>1. TypeOK /\ Shape
    BY IInvParts
  <2>2. e \in Objects /\ k \in Objects /\ heap.val[e] \in Objects
    BY <2>1, HeapFacts
  <2> QED
    BY <2>1, <2>2, SweepAssumption DEF Shape
<1>2. Segments' = Segments /\ Segment[k] \in Segments
  BY <1>1 DEF Segments
<1>3. CASE \E Y : Relocate(g, e, fs, Y, todo[g])
  <2> HIDE DEF fs
  <2> QED
    BY <1>1, <1>3, RelocateSpread
<1>4. ASSUME reached' = reached, todo' = todo PROVE Grown(g, todo[g])
  BY <1>4 DEF Grown
<1>5. CASE /\ pend' = [pend EXCEPT ![g] = @ \cup {e}] /\ trig' = trig
           /\ UNCHANGED <<reached, fixed, todo, send, change>>
  <2>1. pend'[g] = pend[g] \cup {e} /\ \A h \in Tgcs : h # g => pend'[h] = pend[h]
    BY <1>1, <1>5 DEF Shape
  <2>2. \A a, b, o : At("pend", a, b, o)' => At("pend", a, b, o) \/ (o = e /\ a = g /\ b = g)
    BY <2>1 DEF At
  <2>3. \A a, b, o : (At("send", a, b, o)' <=> At("send", a, b, o)) /\ (At("trig", a, b, o)' <=> At("trig", a, b, o))
    BY <1>2, <1>5 DEF At
  <2>4. Put(g, e, "pend", g, g)
    BY <2>2, <2>3 DEF Put
  <2> QED
    BY <1>4, <1>5, <2>4 DEF Spread
<1>6. CASE /\ trig' = [trig EXCEPT ![Segment[k]] = @ \cup {e}] /\ pend' = pend
           /\ UNCHANGED <<reached, fixed, todo, send, change>>
  <2>1. PICK w \in Segments : w = Segment[k]
    BY <1>2
  <2>2. trig'[w] = trig[w] \cup {e} /\ \A z \in Segments : z # w => trig'[z] = trig[z]
    BY <1>1, <1>6, <2>1 DEF Shape
  <2>3. \A a, b, o : At("trig", a, b, o)' => At("trig", a, b, o) \/ (o = e /\ a = w /\ b = w)
    BY <1>2, <2>2 DEF At
  <2>4. \A a, b, o : (At("send", a, b, o)' <=> At("send", a, b, o)) /\ (At("pend", a, b, o)' <=> At("pend", a, b, o))
    BY <1>6 DEF At
  <2>5. Put(g, e, "trig", w, w)
    BY <2>3, <2>4 DEF Put
  <2> QED
    BY <1>4, <1>6, <2>5 DEF Spread
<1>7. CASE /\ send' = [send EXCEPT ![g] = @ (+) One(<<e, Creator[k]>>)]
           /\ UNCHANGED <<reached, fixed, todo, pend, trig>>
  <2>1. PICK h \in Tgcs : h = Creator[k]
    BY <1>1
  <2>2. send' = [send EXCEPT ![g] = @ (+) One(<<e, h>>)]
    BY <1>7, <2>1
  <2>3. \A a, b, o : At("send", a, b, o)' => At("send", a, b, o) \/ (o = e /\ a = g /\ b = h)
    BY <1>1, <2>2, SendAt
  <2>4. \A a, b, o : (At("trig", a, b, o)' <=> At("trig", a, b, o)) /\ (At("pend", a, b, o)' <=> At("pend", a, b, o))
    BY <1>2, <1>7 DEF At
  <2>5. Put(g, e, "send", g, h)
    BY <2>3, <2>4 DEF Put
  <2> QED
    BY <1>4, <1>7, <2>2, <2>5 DEF Spread
<1> QED
  BY <1>3, <1>5, <1>6, <1>7 DEF CheckEphemeron

\* v has been taken from the one place where it was.
Removed(g, v, rest) ==
    /\ BagToSet(rest) \subseteq BagToSet(todo[g]) /\ Range(dirty'[g]) \subseteq Range(dirty[g])
    /\ batch'[g] \subseteq batch[g]
    /\ \A h \in Tgcs : h # g => dirty'[h] = dirty[h] /\ batch'[h] = batch[h]
    /\ \A o \in BagToSet(rest) : o \notin Overlapping => rest[o] = todo[g][o]
    /\ v \notin Overlapping =>
          \/ v \in BagToSet(todo[g]) /\ v \notin BagToSet(rest)
          \/ v \in Range(dirty[g]) /\ v \notin Range(dirty'[g])
          \/ v \in batch[g] /\ v \notin batch'[g]

LEMMA VisitPlaces ==
    ASSUME IInv, PlaceInv, NEW g \in Tgcs, NEW v \in Kept, NEW rest, heap' = heap, recv' = recv,
           Visited(g, v, BagToSet(rest)), Removed(g, v, rest), Spread(g, v), Grown(g, rest)
    PROVE  InOnePlace' /\ BagsOnce'
<1>1. /\ TypeOK /\ Shape /\ HeldKept /\ TriggersRight /\ InOnePlace /\ BagsOnce
      /\ reached \subseteq Collectable /\ Kept \subseteq reached \cup Old /\ v \in Objects /\ Old \subseteq Objects
  BY IInvParts DEF PlaceInv
<1>2. /\ Overlapping' = Overlapping /\ Segments' = Segments
  BY DEF Overlapping, Segments
<1>3. PICK new : /\ new = reached' \ reached /\ new \cap Kept = {}
                 /\ BagToSet(todo'[g]) = BagToSet(rest) \cup new
                 /\ \A h \in Tgcs : h # g => todo'[h] = todo[h]
  <2>1. reached' \subseteq Collectable
    BY DEF Visited
  <2>2. (reached' \ reached) \cap Kept = {}
    BY <1>1, <2>1 DEF Collectable
  <2> QED
    BY <2>2 DEF Visited
\* An object that is somewhere is kept.
<1>4. ASSUME NEW k, NEW a, NEW b, NEW o, At(k, a, b, o) PROVE o \in Kept
  <2>1. CASE k = "trig"
    BY <1>1, <1>4, <2>1 DEF At, TriggersRight
  <2>2. CASE k = "send"
    <3>1. a \in Tgcs /\ b \in Tgcs /\ <<o, b>> \in BagToSet(send[a])
      BY <1>4, <2>2 DEF At
    <3>2. PICK m \in BagToSet(send[a]) : m[1] = o
      <4>1. <<o, b>>[1] = o
        OBVIOUS
      <4> QED
        BY <3>1, <4>1
    <3>3. o \in Held(a)
      BY <3>2 DEF Held
    <3> QED
      BY <1>1, <3>1, <3>3 DEF HeldKept
  <2>3. CASE k \notin {"trig", "send"}
    <3>1. a \in Tgcs /\ o \in Held(a)
      BY <1>4, <2>3 DEF At, Held
    <3> QED
      BY <1>1, <3>1 DEF HeldKept
  <2> QED
    BY <2>1, <2>2, <2>3
<1>5. PICK l, c, d : Put(g, v, l, c, d)
  BY DEF Spread
\* Where an object may be afterwards.
<1>6. ASSUME NEW k, NEW a, NEW b, NEW o, At(k, a, b, o)'
      PROVE  \/ At(k, a, b, o)
             \/ o = v /\ k = l /\ a = c /\ b = d
             \/ o \in new /\ k = "todo" /\ a = g /\ b = g
             \/ k = "pend" /\ a = g /\ b = g /\ \E z : At("trig", z, z, o) /\ ~At("trig", z, z, o)'
  <2>1. CASE k \in {"send", "pend", "trig"}
    BY <1>5, <1>6, <2>1 DEF Put
  <2>2. CASE k \notin {"send", "pend", "trig"}
    BY <1>3, <1>6, <2>2 DEF At, Removed
  <2> QED
    BY <2>1, <2>2
\* Where v was.
<1>7. ASSUME v \notin Overlapping
      PROVE  \E k : k # "trig" /\ At(k, g, g, v) /\ ~At(k, g, g, v)'
  <2>1. CASE v \in BagToSet(todo[g]) /\ v \notin BagToSet(rest)
    <3>1. At("todo", g, g, v) /\ ~At("todo", g, g, v)'
      BY <1>3, <2>1 DEF At
    <3> QED
      BY <3>1
  <2>2. CASE v \in Range(dirty[g]) /\ v \notin Range(dirty'[g])
    <3>1. At("dirty", g, g, v) /\ ~At("dirty", g, g, v)'
      BY <2>2 DEF At
    <3> QED
      BY <3>1
  <2>3. CASE v \in batch[g] /\ v \notin batch'[g]
    <3>1. At("batch", g, g, v) /\ ~At("batch", g, g, v)'
      BY <2>3 DEF At
    <3> QED
      BY <3>1
  <2> QED
    BY <1>7, <2>1, <2>2, <2>3 DEF Removed
<1>8. InOnePlace'
  <2> SUFFICES ASSUME NEW o \in Objects, o \notin Overlapping,
                      NEW k, NEW a, NEW b, NEW p, NEW q, NEW r, At(k, a, b, o)', At(p, q, r, o)'
               PROVE  k = p /\ a = q /\ b = r
    BY <1>2 DEF InOnePlace
  <2>1. \A k1, a1, b1, k2, a2, b2 : At(k1, a1, b1, o) /\ At(k2, a2, b2, o) => k1 = k2 /\ a1 = a2 /\ b1 = b2
    BY <1>1 DEF InOnePlace
  <2>2. CASE o \in new
    <3>1. \A k1, a1, b1 : ~At(k1, a1, b1, o)
      BY <1>3, <1>4, <2>2
    <3>2. o # v
      BY <1>3, <2>2
    <3> QED
      BY <1>6, <3>1, <3>2
  <2>3. CASE o \notin new /\ o # v
    <3>1. ASSUME NEW k1, NEW a1, NEW b1, At(k1, a1, b1, o)'
          PROVE  \/ At(k1, a1, b1, o)
                 \/ k1 = "pend" /\ a1 = g /\ b1 = g /\ \E z : At("trig", z, z, o) /\ ~At("trig", z, z, o)'
      BY <1>6, <2>3, <3>1
    <3>2. CASE \E z : At("trig", z, z, o) /\ ~At("trig", z, z, o)'
      <4>1. PICK z : At("trig", z, z, o) /\ ~At("trig", z, z, o)'
        BY <3>2
      <4>2. ASSUME NEW k1, NEW a1, NEW b1, At(k1, a1, b1, o)' PROVE k1 = "pend" /\ a1 = g /\ b1 = g
        <5>1. CASE At(k1, a1, b1, o)
          <6>1. k1 = "trig" /\ a1 = z /\ b1 = z
            BY <2>1, <4>1, <5>1
          <6> QED
            BY <4>1, <4>2, <6>1
        <5> QED
          BY <3>1, <4>2, <5>1
      <4> QED
        BY <4>2
    <3>3. CASE ~ \E z : At("trig", z, z, o) /\ ~At("trig", z, z, o)'
      <4>1. At(k, a, b, o) /\ At(p, q, r, o)
        BY <3>1, <3>3
      <4> QED
        BY <2>1, <4>1
    <3> QED
      BY <3>2, <3>3
  <2>4. CASE o = v /\ o \notin new
    <3>1. PICK n : n # "trig" /\ At(n, g, g, v) /\ ~At(n, g, g, v)'
      BY <1>7, <2>4
    <3>2. ASSUME NEW k1, NEW a1, NEW b1, At(k1, a1, b1, o)' PROVE k1 = l /\ a1 = c /\ b1 = d
      <4>1. ~At(k1, a1, b1, o)
        <5> SUFFICES ASSUME At(k1, a1, b1, o) PROVE FALSE
          OBVIOUS
        <5>1. k1 = n /\ a1 = g /\ b1 = g
          BY <2>1, <2>4, <3>1
        <5> QED
          BY <2>4, <3>1, <3>2, <5>1
      <4>2. ~ \E z : At("trig", z, z, o)
        BY <2>1, <2>4, <3>1
      <4> QED
        BY <1>6, <2>4, <3>2, <4>1, <4>2
    <3> QED
      BY <3>2
  <2> QED
    BY <2>2, <2>3, <2>4
<1>9. BagsOnce'
  <2> SUFFICES ASSUME NEW h \in Tgcs, NEW o \in Objects, o \notin Overlapping
               PROVE  /\ o \in BagToSet(todo'[h]) => todo'[h][o] = 1
                      /\ \A f \in Tgcs : <<o, f>> \in BagToSet(send'[h]) => send'[h][<<o, f>>] = 1
    BY <1>1, <1>2 DEF BagsOnce
  <2>1. ASSUME o \in BagToSet(todo'[h]) PROVE todo'[h][o] = 1
    <3>1. CASE h # g
      BY <1>1, <1>3, <2>1, <3>1 DEF BagsOnce
    <3>2. CASE h = g /\ o \in new
      <4>1. o \notin BagToSet(rest)
        <5> SUFFICES ASSUME o \in BagToSet(rest) PROVE FALSE
          OBVIOUS
        <5>1. At("todo", g, g, o)
          BY DEF At, Removed
        <5> QED
          BY <1>3, <1>4, <3>2, <5>1
      <4> QED
        BY <1>3, <3>2, <4>1 DEF Grown
    <3>3. CASE h = g /\ o \notin new
      <4>1. o \in BagToSet(rest) /\ o \in BagToSet(todo[g])
        BY <1>3, <2>1, <3>3 DEF Removed
      <4>2. todo'[g][o] = rest[o] /\ rest[o] = todo[g][o]
        BY <1>3, <3>3, <4>1 DEF Grown, Removed
      <4> QED
        BY <1>1, <3>3, <4>1, <4>2 DEF BagsOnce
    <3> QED
      BY <3>1, <3>2, <3>3
  <2>2. ASSUME NEW f \in Tgcs, <<o, f>> \in BagToSet(send'[h]) PROVE send'[h][<<o, f>>] = 1
    <3>0. <<o, f>> \in BagToSet(send[h]) => send[h][<<o, f>>] = 1
      BY <1>1 DEF BagsOnce
    <3>1. CASE send'[h] = send[h]
      BY <2>2, <3>0, <3>1
    <3>2. CASE h = g /\ \E t \in Tgcs : send' = [send EXCEPT ![g] = @ (+) One(<<v, t>>)]
      <4>1. PICK t \in Tgcs : send' = [send EXCEPT ![g] = @ (+) One(<<v, t>>)]
        BY <3>2
      <4>2. PICK m, n : m = <<v, t>> /\ n = <<o, f>>
        OBVIOUS
      <4>3. send'[g] = send[g] (+) One(m) /\ IsABag(send[g])
        BY <1>1, <4>1, <4>2 DEF Shape
      <4>4. BagToSet(One(m)) = {m} /\ IsABag(One(m)) /\ One(m)[m] = 1
        BY OneBag
      <4>5. CASE n # m
        <5>1. n \in BagToSet(send[g])
          BY <2>2, <3>2, <4>2, <4>3, <4>4, <4>5, PlusBag
        <5>2. (send[g] (+) One(m))[n] = send[g][n]
          BY <4>3, <4>4, <4>5, <5>1, CopiesPlus
        <5> QED
          BY <3>0, <3>2, <4>2, <4>3, <5>1, <5>2
      <4>6. CASE n = m
        <5>1. o = v
          BY <4>2, <4>6
        <5>2. m \notin BagToSet(send[g])
          <6> SUFFICES ASSUME m \in BagToSet(send[g]) PROVE FALSE
            OBVIOUS
          <6>1. At("send", g, t, v)
            BY <4>2 DEF At
          <6>2. PICK k : At(k, g, g, v) /\ ~At(k, g, g, v)'
            BY <1>7, <5>1
          <6>3. k = "send" /\ t = g
            BY <1>1, <5>1, <6>1, <6>2 DEF InOnePlace
          <6>4. BagToSet(send'[g]) = BagToSet(send[g]) \cup {m}
            BY <4>3, <4>4, PlusBag
          <6> QED
            BY <4>2, <6>2, <6>3, <6>4 DEF At
        <5>3. (send[g] (+) One(m))[m] = One(m)[m]
          BY <4>3, <4>4, <5>2, CopiesPlus
        <5> QED
          BY <3>2, <4>2, <4>3, <4>4, <4>6, <5>3
      <4> QED
        BY <4>5, <4>6
    <3>3. h # g => send'[h] = send[h]
      BY DEF Visited
    <3> QED
      BY <3>1, <3>2, <3>3 DEF Spread
  <2> QED
    BY <2>1, <2>2
<1> QED
  BY <1>8, <1>9

LEMMA TailOnce ==
    ASSUME NEW S, NEW q \in Seq(S), q # << >>, NEW V,
           \A i, j \in 1..Len(q) : q[i] = q[j] /\ q[i] \notin V => i = j
    PROVE  /\ Head(q) \notin V => Head(q) \notin Range(Tail(q))
           /\ \A i, j \in 1..Len(Tail(q)) : Tail(q)[i] = Tail(q)[j] /\ Tail(q)[i] \notin V => i = j
<1>1. /\ Len(q) \in Nat /\ Len(q) >= 1 /\ Head(q) = q[1]
      /\ Len(Tail(q)) = Len(q) - 1 /\ DOMAIN Tail(q) = 1..Len(q) - 1
      /\ \A i \in 1..Len(q) - 1 : Tail(q)[i] = q[i + 1]
  BY EmptySeq, LenProperties, HeadTailProperties
<1>2. ASSUME NEW i \in 1..Len(q) - 1 PROVE i + 1 \in 1..Len(q) /\ i + 1 # 1 /\ 1 \in 1..Len(q)
  BY <1>1
<1>3. ASSUME Head(q) \notin V, Head(q) \in Range(Tail(q)) PROVE FALSE
  <2>1. PICK i \in 1..Len(q) - 1 : Head(q) = Tail(q)[i]
    BY <1>1, <1>3 DEF Range
  <2>2. q[i + 1] = q[1] /\ q[1] \notin V
    BY <1>1, <1>3, <2>1
  <2> QED
    BY <1>2, <2>2
<1>4. ASSUME NEW i \in 1..Len(q) - 1, NEW j \in 1..Len(q) - 1, Tail(q)[i] = Tail(q)[j], Tail(q)[i] \notin V
      PROVE  i = j
  <2>1. q[i + 1] = q[j + 1] /\ q[i + 1] \notin V
    BY <1>1, <1>4
  <2>2. i + 1 = j + 1
    BY <1>2, <2>1
  <2>3. i \in Int /\ j \in Int
    OBVIOUS
  <2> QED
    BY ONLY <2>2, <2>3
<1> QED
  BY <1>1, <1>3, <1>4

LEMMA PlacesSweepDirty ==
    ASSUME IInv, PlaceInv, NEW s \in Used, SweepDirty(s)
    PROVE  PlaceInv'
<1>1. PICK g \in Tgcs : g = Ctx(s)
  BY OwnContext
<1>2. /\ pc[s] = "dirty" /\ dirty[g] # << >>
      /\ dirty' = [dirty EXCEPT ![g] = Tail(@)]
      /\ heap' = heap /\ recv' = recv /\ batch' = batch
  BY <1>1 DEF SweepDirty
<1>3. Shape /\ HeldKept /\ dirty \in [Tgcs -> Seq(Old)] /\ IsABag(todo[g]) /\ Kept \subseteq Objects /\ CardsOnce /\ TypeOK
  BY IInvParts DEF Shape, PlaceInv
<1>4. PICK o \in Old : o = Head(dirty[g])
  BY <1>2, <1>3, HeadTailProperties
<1>5. IF o \in Ephemerons THEN CheckEphemeron(g, o, TRUE) ELSE Relocate(g, o, heap.refs[o], {}, todo[g])
  BY <1>1, <1>4 DEF SweepDirty
<1>6. /\ o \in Range(dirty[g]) /\ Range(Tail(dirty[g])) \subseteq Range(dirty[g])
  BY <1>2, <1>3, <1>4, TailRange
<1>7. o \in Kept /\ o \in Objects
  BY <1>3, <1>6 DEF HeldKept, Held
<1>8. dirty'[g] = Tail(dirty[g]) /\ \A h \in Tgcs : h # g => dirty'[h] = dirty[h]
  BY <1>2, <1>3
<1>9. Visited(g, o, BagToSet(todo[g])) /\ Spread(g, o) /\ Grown(g, todo[g])
  <2>1. CASE o \in Ephemerons
    BY <1>2, <1>5, <1>7, <2>1, CheckIs, CheckSpread
  <2>2. CASE o \notin Ephemerons
    <3>1. heap.refs[o] \in Seq(Objects) /\ Relocate(g, o, heap.refs[o], {}, todo[g])
      BY <1>3, <1>5, <1>7, <2>2, HeapFacts
    <3> QED
      BY <1>2, <1>3, <1>7, <2>2, <3>1, VisitPlain, RelocateSpread
  <2> QED
    BY <2>1, <2>2
<1>10. Overlapping' = Overlapping
  BY <1>2 DEF Overlapping
<1>11. \A i, j \in 1..Len(dirty[g]) : dirty[g][i] = dirty[g][j] /\ dirty[g][i] \notin Overlapping => i = j
  BY <1>3 DEF CardsOnce
<1>12. /\ o \notin Overlapping => o \notin Range(dirty'[g])
       /\ \A i, j \in 1..Len(dirty'[g]) : dirty'[g][i] = dirty'[g][j] /\ dirty'[g][i] \notin Overlapping => i = j
  <2>1. PICK q \in Seq(Old) : q = dirty[g]
    BY <1>3
  <2>2. \A i, j \in 1..Len(q) : q[i] = q[j] /\ q[i] \notin Overlapping => i = j
    BY <1>11, <2>1
  <2>3. /\ Head(q) \notin Overlapping => Head(q) \notin Range(Tail(q))
        /\ \A i, j \in 1..Len(Tail(q)) : Tail(q)[i] = Tail(q)[j] /\ Tail(q)[i] \notin Overlapping => i = j
    BY <1>2, <2>1, <2>2, TailOnce
  <2> QED
    BY <1>4, <1>8, <2>1, <2>3
<1>13. CardsOnce'
  BY <1>3, <1>8, <1>10, <1>12 DEF CardsOnce
<1>14. Removed(g, o, todo[g])
  BY <1>2, <1>6, <1>8, <1>12 DEF Removed
<1>15. InOnePlace' /\ BagsOnce'
  BY <1>2, <1>7, <1>9, <1>14, VisitPlaces
<1> QED
  BY <1>13, <1>15 DEF PlaceInv

LEMMA PlacesSweep ==
    ASSUME IInv, PlaceInv, NEW s \in Used, Sweep(s)
    PROVE  PlaceInv'
<1>1. PICK g \in Tgcs : g = Ctx(s)
  BY OwnContext
<1>2. heap' = heap /\ recv' = recv /\ batch' = batch /\ dirty' = dirty
  BY DEF Sweep
<1>3. PICK o \in BagToSet(todo[g]) :
        IF o \in Ephemerons
        THEN /\ todo' = [todo EXCEPT ![g] = @ (-) One(o)]
             /\ pend' = [pend EXCEPT ![g] = @ \cup {o}]
             /\ UNCHANGED <<reached, fixed, send, trig, change>>
        ELSE Relocate(g, o, heap.refs[o], {}, todo[g] (-) One(o))
  BY <1>1 DEF Sweep
<1>4. /\ TypeOK /\ Shape /\ HeldKept /\ TriggersRight /\ FixedRight /\ IsABag(todo[g]) /\ Kept \subseteq Objects
      /\ BagsOnce /\ CardsOnce /\ reached \subseteq Collectable
  BY IInvParts DEF Shape, PlaceInv
<1>5. o \in Kept /\ o \in Objects
  BY <1>3, <1>4 DEF HeldKept, Held
<1>6. PICK rest : rest = todo[g] (-) One(o)
  OBVIOUS
<1>7. /\ IsABag(rest) /\ BagToSet(rest) \subseteq BagToSet(todo[g]) /\ BagToSet(todo[g]) \subseteq BagToSet(rest) \cup {o}
  BY <1>4, <1>6, MinusBag
<1>8. /\ todo[g][o] = 1 => o \notin BagToSet(rest)
      /\ \A y \in BagToSet(rest) : y # o => rest[y] = todo[g][y]
  BY <1>3, <1>4, <1>6, CopiesMinus
<1>9. o \notin Overlapping => o \notin BagToSet(rest)
  BY <1>3, <1>4, <1>5, <1>8 DEF BagsOnce
<1>10. Removed(g, o, rest)
  BY <1>2, <1>3, <1>7, <1>8, <1>9 DEF Removed
<1>11. CASE o \notin Ephemerons
  <2>1. heap.refs[o] \in Seq(Objects) /\ Relocate(g, o, heap.refs[o], {}, rest)
    BY <1>3, <1>4, <1>5, <1>6, <1>11, HeapFacts
  <2>2. Visited(g, o, BagToSet(rest)) /\ Spread(g, o) /\ Grown(g, rest)
    BY <1>2, <1>5, <1>7, <1>11, <2>1, VisitPlain, RelocateSpread
  <2>3. InOnePlace' /\ BagsOnce'
    BY <1>2, <1>5, <1>10, <2>2, VisitPlaces
  <2>4. CardsOnce'
    BY <1>2, <1>4 DEF CardsOnce, Overlapping
  <2> QED
    BY <2>3, <2>4 DEF PlaceInv
<1>12. CASE o \in Ephemerons
  <2>1. /\ todo' = [todo EXCEPT ![g] = rest] /\ pend' = [pend EXCEPT ![g] = @ \cup {o}]
        /\ reached' = reached /\ fixed' = fixed /\ send' = send /\ trig' = trig /\ change' = change
    BY <1>3, <1>6, <1>12
  <2>2. pend'[g] = pend[g] \cup {o} /\ pend' = [h \in Tgcs |-> pend'[h]] /\ \A h \in Tgcs : h # g => pend'[h] = pend[h]
    BY <1>4, <2>1 DEF Shape
  <2>3. todo'[g] = rest /\ todo' = [h \in Tgcs |-> todo'[h]] /\ \A h \in Tgcs : h # g => todo'[h] = todo[h]
    BY <1>4, <2>1 DEF Shape
  <2>4. Kept' = Kept /\ OnCards' = OnCards /\ Ephemerons' = Ephemerons /\ Segments' = Segments
    BY <1>2, <2>1 DEF Kept, OnCards, Ephemerons, Segments
  <2>5. pend[g] \subseteq Ephemerons /\ pend[g] \subseteq Kept
    BY <1>4 DEF TypeOK, HeldKept, Held
  <2>6. TriggersRight' /\ FixedRight'
    BY <1>2, <1>4, <2>1, <2>4 DEF TriggersRight, FixedRight
  <2>7. /\ IsABag(send[g]) /\ fixed \subseteq Objects \X Objects /\ reached' \ reached = {}
        /\ send = [h \in Tgcs |-> send[h]] /\ trig = [z \in Segments |-> trig[z]]
    BY <1>4, <2>1 DEF Shape, TypeOK
  <2>8. Visited(g, o, BagToSet(rest))
    BY <1>4, <1>5, <1>7, <1>12, <2>1, <2>2, <2>3, <2>4, <2>5, <2>6, <2>7 DEF Visited
  <2>9. \A a, b, x : At("pend", a, b, x)' => At("pend", a, b, x) \/ (x = o /\ a = g /\ b = g)
    BY <2>2 DEF At
  <2>10. \A a, b, x : (At("send", a, b, x)' <=> At("send", a, b, x)) /\ (At("trig", a, b, x)' <=> At("trig", a, b, x))
    BY <2>1, <2>4 DEF At
  <2>11. Put(g, o, "pend", g, g)
    BY <2>9, <2>10 DEF Put
  <2>12. Spread(g, o) /\ Grown(g, rest)
    BY <2>1, <2>3, <2>7, <2>11 DEF Spread, Grown
  <2>13. InOnePlace' /\ BagsOnce'
    BY <1>2, <1>5, <1>10, <2>8, <2>12, VisitPlaces
  <2>14. CardsOnce'
    BY <1>2, <1>4 DEF CardsOnce, Overlapping
  <2> QED
    BY <2>13, <2>14 DEF PlaceInv
<1> QED
  BY <1>11, <1>12

LEMMA PlacesCheckPending ==
    ASSUME IInv, PlaceInv, NEW s \in Used, CheckPending(s)
    PROVE  PlaceInv'
<1>1. PICK g \in Tgcs : g = Ctx(s)
  BY OwnContext
<1>2. heap' = heap /\ dirty' = dirty /\ recv' = recv
  BY DEF CheckPending
<1>3. PICK e \in batch[g] : batch' = [batch EXCEPT ![g] = @ \ {e}] /\ CheckEphemeron(g, e, FALSE)
  BY <1>1 DEF CheckPending
<1>4. TypeOK /\ Shape /\ HeldKept /\ CardsOnce
  BY IInvParts DEF PlaceInv
<1>5. e \in Kept /\ e \in Ephemerons
  BY <1>4 DEF HeldKept, Held, TypeOK
<1>6. Visited(g, e, BagToSet(todo[g])) /\ Spread(g, e) /\ Grown(g, todo[g])
  BY <1>2, <1>3, <1>5, CheckIs, CheckSpread
<1>7. batch'[g] = batch[g] \ {e} /\ \A h \in Tgcs : h # g => batch'[h] = batch[h]
  BY <1>3, <1>4 DEF Shape
<1>8. Removed(g, e, todo[g])
  BY <1>2, <1>3, <1>7 DEF Removed
<1>9. InOnePlace' /\ BagsOnce'
  BY <1>2, <1>5, <1>6, <1>8, VisitPlaces
<1>10. CardsOnce'
  BY <1>2, <1>4 DEF CardsOnce, Overlapping
<1> QED
  BY <1>9, <1>10 DEF PlaceInv

LEMMA DeliveredCopies ==
    ASSUME IInv, NEW g \in Tgcs, NEW h \in Tgcs, NEW o \in Objects
    PROVE  /\ o \in BagToSet(recv[h]) /\ <<o, h>> \notin BagToSet(send[g]) => Delivered(g)[h][o] = recv[h][o]
           /\ o \notin BagToSet(recv[h]) /\ <<o, h>> \in BagToSet(send[g]) => Delivered(g)[h][o] = send[g][<<o, h>>]
<1> DEFINE D == {m[1] : m \in {m \in BagToSet(send[g]) : m[2] = h}}
           M == [x \in D |-> send[g][<<x, h>>]]
<1>1. IsABag(send[g]) /\ IsABag(recv[h]) /\ BagToSet(send[g]) \subseteq Objects \X Tgcs
  BY IInvParts DEF Shape, TypeOK
<1>2. \A x : x \in D <=> <<x, h>> \in BagToSet(send[g])
  <2>1. ASSUME NEW x \in D PROVE <<x, h>> \in BagToSet(send[g])
    <3>1. PICK m \in BagToSet(send[g]) : m[2] = h /\ m[1] = x
      BY <2>1
    <3>2. m = <<x, h>>
      BY <1>1, <3>1
    <3> QED
      BY <3>1, <3>2
  <2>2. ASSUME NEW x, <<x, h>> \in BagToSet(send[g]) PROVE x \in D
    <3>1. PICK m \in BagToSet(send[g]) : m = <<x, h>>
      BY <2>2
    <3>2. m[1] = x /\ m[2] = h
      BY <3>1
    <3> QED
      BY <3>2
  <2> HIDE DEF D
  <2> QED
    BY <2>1, <2>2
<1>3. Delivered(g)[h] = recv[h] (+) M
  BY DEF Delivered
<1> HIDE DEF D
<1>4. \A x \in D : M[x] \in {n \in Nat : n > 0}
  BY <1>1, <1>2 DEF IsABag, BagToSet
<1>5. IsABag(M) /\ BagToSet(M) = D /\ (o \in D => M[o] = send[g][<<o, h>>])
  BY <1>4 DEF IsABag, BagToSet
<1> HIDE DEF M
<1>6. /\ o \in BagToSet(recv[h]) /\ o \notin BagToSet(M) => (recv[h] (+) M)[o] = recv[h][o]
      /\ o \in BagToSet(M) /\ o \notin BagToSet(recv[h]) => (recv[h] (+) M)[o] = M[o]
  BY <1>1, <1>5, CopiesPlus
<1> QED
  BY <1>2, <1>3, <1>5, <1>6

LEMMA PlacesExchange ==
    ASSUME IInv, PlaceInv, NEW s \in Used, Exchange(s)
    PROVE  PlaceInv'
<1>1. PICK g \in Tgcs : g = Ctx(s)
  BY OwnContext
<1>2. PICK got : got = Delivered(g)[g]
  OBVIOUS
<1>3. /\ pc[s] = "pass"
      /\ send' = [send EXCEPT ![g] = EmptyBag]
      /\ recv' = [Delivered(g) EXCEPT ![g] = EmptyBag]
      /\ todo' = [todo EXCEPT ![g] = @ (+) got]
      /\ batch' = [batch EXCEPT ![g] = IF g \in change' THEN {} ELSE pend[g]]
      /\ pend' = [pend EXCEPT ![g] = IF g \in change' THEN @ ELSE {}]
      /\ heap' = heap /\ dirty' = dirty /\ trig' = trig
  BY <1>1, <1>2 DEF Exchange
<1>4. /\ TypeOK /\ Shape /\ InOnePlace /\ BagsOnce /\ CardsOnce /\ PassOK(s)
  BY IInvParts DEF PlaceInv
<1>5. Segments' = Segments /\ Overlapping' = Overlapping
  BY <1>3 DEF Segments, Overlapping
<1>6. batch[g] = {}
  <2>1. cur[s] \in 1..Len(lists[s]) /\ lists[s][cur[s]] = g
    BY <1>1, OwnContext DEF Ctx
  <2> QED
    BY <1>3, <1>4, <2>1 DEF PassOK
<1>7. /\ IsABag(todo[g]) /\ IsABag(got)
      /\ \A h \in Tgcs : BagToSet(Delivered(g)[h]) = BagToSet(recv[h]) \cup {o \in Objects : <<o, h>> \in BagToSet(send[g])}
      /\ BagToSet(got) = BagToSet(recv[g]) \cup {o \in Objects : <<o, g>> \in BagToSet(send[g])}
  BY <1>2, <1>4, DeliveredIs DEF Shape
<1>8. recv'[g] = EmptyBag /\ \A h \in Tgcs : h # g => recv'[h] = Delivered(g)[h]
  <2>1. Delivered(g) = [h \in Tgcs |-> Delivered(g)[h]]
    BY DEF Delivered
  <2> QED
    BY <1>3, <2>1
<1>9. todo'[g] = todo[g] (+) got /\ \A h \in Tgcs : h # g => todo'[h] = todo[h]
  BY <1>3, <1>4 DEF Shape
<1>10. BagToSet(todo'[g]) = BagToSet(todo[g]) \cup BagToSet(got)
  BY <1>7, <1>9, PlusBag
<1>11. send'[g] = EmptyBag /\ \A h \in Tgcs : h # g => send'[h] = send[h]
  BY <1>3, <1>4 DEF Shape
<1>12. pend'[g] = (IF g \in change' THEN pend[g] ELSE {}) /\ \A h \in Tgcs : h # g => pend'[h] = pend[h]
  BY <1>3, <1>4 DEF Shape
<1>13. batch'[g] = (IF g \in change' THEN {} ELSE pend[g]) /\ \A h \in Tgcs : h # g => batch'[h] = batch[h]
  BY <1>3, <1>4 DEF Shape
\* Where an object came from.
<1>14. ASSUME NEW o \in Objects, NEW k, NEW a, NEW b, At(k, a, b, o)'
       PROVE  \/ At(k, a, b, o) /\ k \notin {"send", "recv", "pend"}
              \/ At(k, a, b, o) /\ k = "send" /\ a # g
              \/ At(k, a, b, o) /\ k \in {"recv", "pend"} /\ a # g
              \/ k = "todo" /\ a = g /\ b = g /\ (At("recv", g, g, o) \/ At("send", g, g, o))
              \/ k = "recv" /\ b = a /\ a # g /\ At("send", g, a, o)
              \/ k = "pend" /\ a = g /\ b = g /\ At("pend", g, g, o) /\ g \in change'
              \/ k = "batch" /\ a = g /\ b = g /\ At("pend", g, g, o) /\ g \notin change'
  <2>1. CASE k = "todo"
    <3>1. b = a /\ a \in Tgcs /\ o \in BagToSet(todo'[a])
      BY <1>14, <2>1 DEF At
    <3>2. CASE a # g
      BY <1>9, <2>1, <3>1, <3>2 DEF At
    <3>3. CASE a = g
      <4>1. o \in BagToSet(todo[g]) \/ o \in BagToSet(recv[g]) \/ <<o, g>> \in BagToSet(send[g])
        BY <1>7, <1>10, <3>1, <3>3
      <4> QED
        BY <2>1, <3>1, <3>3, <4>1 DEF At
    <3> QED
      BY <3>2, <3>3
  <2>2. CASE k = "recv"
    <3>1. b = a /\ a \in Tgcs /\ o \in BagToSet(recv'[a])
      BY <1>14, <2>2 DEF At
    <3>2. a # g
      BY <1>8, <3>1, NoBag
    <3>3. o \in BagToSet(recv[a]) \/ <<o, a>> \in BagToSet(send[g])
      BY <1>7, <1>8, <3>1, <3>2
    <3> QED
      BY <2>2, <3>1, <3>2, <3>3 DEF At
  <2>3. CASE k = "send"
    <3>1. a \in Tgcs /\ b \in Tgcs /\ <<o, b>> \in BagToSet(send'[a])
      BY <1>14, <2>3 DEF At
    <3>2. a # g
      BY <1>11, <3>1, NoBag
    <3> QED
      BY <1>11, <2>3, <3>1, <3>2 DEF At
  <2>4. CASE k = "pend"
    BY <1>12, <1>14, <2>4 DEF At
  <2>5. CASE k = "batch"
    BY <1>13, <1>14, <2>5 DEF At
  <2>6. CASE k \in {"dirty", "trig"}
    BY <1>3, <1>5, <1>14, <2>6 DEF At
  <2> QED
    BY <1>14, <2>1, <2>2, <2>3, <2>4, <2>5, <2>6 DEF At
<1>15. InOnePlace'
  <2> SUFFICES ASSUME NEW o \in Objects, o \notin Overlapping,
                      NEW k, NEW a, NEW b, NEW p, NEW q, NEW r, At(k, a, b, o)', At(p, q, r, o)'
               PROVE  k = p /\ a = q /\ b = r
    BY <1>5 DEF InOnePlace
  <2>1. \A k1, a1, b1, k2, a2, b2 : At(k1, a1, b1, o) /\ At(k2, a2, b2, o) => k1 = k2 /\ a1 = a2 /\ b1 = b2
    BY <1>4 DEF InOnePlace
  <2>2. ~At("batch", g, g, o)
    BY <1>6 DEF At
  <2>3. \A k1, a1, b1 : At(k1, a1, b1, o) /\ k1 # "send" => b1 = a1
    BY DEF At
  <2>4. PICK l, c, d : At(l, c, d, o)
    BY <1>14
  <2>5. \A k1, a1, b1 : At(k1, a1, b1, o) <=> k1 = l /\ a1 = c /\ b1 = d
    BY <2>1, <2>4
  <2>6. CASE l = "send" /\ c = g
    <3>1. ASSUME NEW k1, NEW a1, NEW b1, At(k1, a1, b1, o)'
          PROVE  IF d = g THEN k1 = "todo" /\ a1 = g /\ b1 = g ELSE k1 = "recv" /\ a1 = d /\ b1 = d
      BY <1>14, <2>5, <2>6, <3>1
    <3> QED
      BY <3>1
  <2>7. CASE l = "recv" /\ c = g
    <3>1. ASSUME NEW k1, NEW a1, NEW b1, At(k1, a1, b1, o)' PROVE k1 = "todo" /\ a1 = g /\ b1 = g
      BY <1>14, <2>5, <2>7, <3>1
    <3> QED
      BY <3>1
  <2>8. CASE l = "pend" /\ c = g
    <3>1. ASSUME NEW k1, NEW a1, NEW b1, At(k1, a1, b1, o)'
          PROVE  k1 = (IF g \in change' THEN "pend" ELSE "batch") /\ a1 = g /\ b1 = g
      BY <1>14, <2>5, <2>8, <3>1
    <3> QED
      BY <3>1
  <2>9. CASE l \notin {"send", "recv", "pend"} \/ c # g
    <3>1. ASSUME NEW k1, NEW a1, NEW b1, At(k1, a1, b1, o)' PROVE k1 = l /\ a1 = c /\ b1 = d
      BY <1>14, <2>5, <2>9, <3>1
    <3> QED
      BY <3>1
  <2> QED
    BY <2>6, <2>7, <2>8, <2>9
<1>16. BagsOnce'
  <2> SUFFICES ASSUME NEW h \in Tgcs, NEW o \in Objects, o \notin Overlapping
               PROVE  /\ o \in BagToSet(todo'[h]) => todo'[h][o] = 1
                      /\ o \in BagToSet(recv'[h]) => recv'[h][o] = 1
                      /\ \A f \in Tgcs : <<o, f>> \in BagToSet(send'[h]) => send'[h][<<o, f>>] = 1
    BY <1>5 DEF BagsOnce
  <2>1. /\ \A f \in Tgcs : o \in BagToSet(todo[f]) => todo[f][o] = 1
        /\ \A f \in Tgcs : o \in BagToSet(recv[f]) => recv[f][o] = 1
        /\ \A f, t \in Tgcs : <<o, t>> \in BagToSet(send[f]) => send[f][<<o, t>>] = 1
    BY <1>4 DEF BagsOnce
  <2>2. \A f \in Tgcs : /\ ~(o \in BagToSet(recv[f]) /\ <<o, f>> \in BagToSet(send[g]))
                        /\ ~(o \in BagToSet(todo[g]) /\ o \in BagToSet(recv[f]))
                        /\ ~(o \in BagToSet(todo[g]) /\ <<o, f>> \in BagToSet(send[g]))
    <3> SUFFICES ASSUME NEW f \in Tgcs
                 PROVE  /\ ~(o \in BagToSet(recv[f]) /\ <<o, f>> \in BagToSet(send[g]))
                        /\ ~(o \in BagToSet(todo[g]) /\ o \in BagToSet(recv[f]))
                        /\ ~(o \in BagToSet(todo[g]) /\ <<o, f>> \in BagToSet(send[g]))
      OBVIOUS
    <3>1. /\ o \in BagToSet(recv[f]) => At("recv", f, f, o)
          /\ o \in BagToSet(todo[g]) => At("todo", g, g, o)
          /\ <<o, f>> \in BagToSet(send[g]) => At("send", g, f, o)
      BY DEF At
    <3>2. \A k1, a1, b1, k2, a2, b2 : At(k1, a1, b1, o) /\ At(k2, a2, b2, o) => k1 = k2
      BY <1>4 DEF InOnePlace
    <3>3. ~(At("recv", f, f, o) /\ At("send", g, f, o)) /\ ~(At("todo", g, g, o) /\ At("recv", f, f, o))
          /\ ~(At("todo", g, g, o) /\ At("send", g, f, o))
      BY <3>2
    <3> QED
      BY <3>1, <3>3
  <2>3. ASSUME NEW f \in Tgcs, o \in BagToSet(Delivered(g)[f]) PROVE Delivered(g)[f][o] = 1
    <3>1. o \in BagToSet(recv[f]) \/ <<o, f>> \in BagToSet(send[g])
      BY <1>7, <2>3
    <3>2. CASE o \in BagToSet(recv[f])
      <4>1. Delivered(g)[f][o] = recv[f][o]
        BY <2>2, <3>2, DeliveredCopies
      <4> QED
        BY <2>1, <3>2, <4>1
    <3>3. CASE o \notin BagToSet(recv[f])
      <4>1. Delivered(g)[f][o] = send[g][<<o, f>>]
        BY <3>1, <3>3, DeliveredCopies
      <4> QED
        BY <2>1, <3>1, <3>3, <4>1
    <3> QED
      BY <3>2, <3>3
  <2>4. ASSUME o \in BagToSet(recv'[h]) PROVE recv'[h][o] = 1
    BY <1>8, <2>3, <2>4, NoBag
  <2>5. ASSUME NEW f \in Tgcs, <<o, f>> \in BagToSet(send'[h]) PROVE send'[h][<<o, f>>] = 1
    BY <1>11, <2>1, <2>5, NoBag
  <2>6. ASSUME o \in BagToSet(todo'[h]) PROVE todo'[h][o] = 1
    <3>1. CASE h # g
      BY <1>9, <2>1, <2>6, <3>1
    <3>2. CASE h = g /\ o \in BagToSet(got)
      <4>1. o \notin BagToSet(todo[g])
        BY <1>7, <2>2, <3>2
      <4>2. (todo[g] (+) got)[o] = got[o]
        BY <1>7, <3>2, <4>1, CopiesPlus
      <4>3. got[o] = 1
        BY <1>2, <2>3, <3>2
      <4> QED
        BY <1>9, <3>2, <4>2, <4>3
    <3>3. CASE h = g /\ o \notin BagToSet(got)
      <4>1. o \in BagToSet(todo[g])
        BY <1>10, <2>6, <3>3
      <4>2. (todo[g] (+) got)[o] = todo[g][o]
        BY <1>7, <3>3, <4>1, CopiesPlus
      <4> QED
        BY <1>9, <2>1, <3>3, <4>1, <4>2
    <3> QED
      BY <3>1, <3>2, <3>3
  <2> QED
    BY <2>4, <2>5, <2>6
<1>17. CardsOnce'
  BY <1>3, <1>4, <1>5 DEF CardsOnce
<1> QED
  BY <1>15, <1>16, <1>17 DEF PlaceInv

LEMMA PlacesSame ==
    ASSUME PlaceInv, UNCHANGED <<heap, stacks>>
    PROVE  PlaceInv'
<1>1. /\ heap' = heap /\ todo' = todo /\ dirty' = dirty /\ send' = send /\ recv' = recv
      /\ pend' = pend /\ batch' = batch /\ trig' = trig
  BY DEF stacks
<1>2. Overlapping' = Overlapping /\ Segments' = Segments
  BY <1>1 DEF Overlapping, Segments
<1>3. \A k, a, b, o : At(k, a, b, o)' <=> At(k, a, b, o)
  BY <1>1, <1>2 DEF At
<1>4. InOnePlace'
  BY <1>2, <1>3 DEF PlaceInv, InOnePlace
<1>5. BagsOnce' /\ CardsOnce'
  BY <1>1, <1>2 DEF PlaceInv, BagsOnce, CardsOnce
<1> QED
  BY <1>4, <1>5 DEF PlaceInv

LEMMA NextPlaces ==
    ASSUME IInv, PlaceInv, [Next]_vars
    PROVE  PlaceInv'
<1>1. ASSUME NEW s \in Used, Work(s) \/ Spurious(s) PROVE PlaceInv'
  <2>1. CASE SweepDirty(s) \/ Sweep(s) \/ CheckPending(s) \/ Exchange(s)
    BY <2>1, PlacesSweepDirty, PlacesSweep, PlacesCheckPending, PlacesExchange
  <2>2. CASE Start(s) \/ DirtyDone(s) \/ Again(s) \/ FinishPass(s) \/ Wake(s) \/ Ready(s) \/ Finish(s) \/ Spurious(s)
    <3>1. UNCHANGED <<heap, stacks>>
      BY <2>2 DEF Start, DirtyDone, Again, FinishPass, Wake, Ready, Finish, Spurious
    <3> QED
      BY <3>1, PlacesSame
  <2> QED
    BY <1>1, <2>1, <2>2 DEF Work
<1>2. CASE UNCHANGED vars
  BY <1>2, PlacesSame DEF vars
<1> QED
  BY <1>1, <1>2 DEF Next

LEMMA InitPlaces ==
    ASSUME Init
    PROVE  PlaceInv
<1>1. /\ heap \in Heaps
      /\ todo = [g \in Tgcs |-> SetToBag(heap.rooted[g])] /\ dirty = heap.dirty
      /\ send = [g \in Tgcs |-> EmptyBag] /\ recv = [g \in Tgcs |-> EmptyBag]
      /\ pend = [g \in Tgcs |-> {}] /\ batch = [g \in Tgcs |-> {}]
      /\ trig = [z \in Segments |-> {}]
  BY DEF Init
<1>2. HeapOK(heap)
  BY <1>1, SweepAssumption
<1>3. /\ heap.rooted \in [Tgcs -> SUBSET (Objects \ Old)] /\ heap.dirty \in [Tgcs -> Seq(Old)]
      /\ \A g \in Tgcs : \A o \in heap.rooted[g] \cup Range(heap.dirty[g]) : Creator[o] = g
  BY <1>2 DEF HeapOK
<1>4. \A g \in Tgcs : /\ BagToSet(todo[g]) = heap.rooted[g] /\ BagToSet(send[g]) = {} /\ BagToSet(recv[g]) = {}
                      /\ \A o \in heap.rooted[g] : todo[g][o] = 1
  BY <1>1, SetBag, NoBag, CopiesSet
<1>5. \A g \in Tgcs : Range(dirty[g]) \subseteq Old
  BY <1>1, <1>3, RangeSeq
<1>6. ASSUME NEW k, NEW a, NEW b, NEW o, At(k, a, b, o)
      PROVE  /\ a \in Tgcs /\ b = a /\ Creator[o] = a
             /\ \/ k = "todo" /\ o \notin Old
                \/ k = "dirty" /\ o \in Old
  BY <1>1, <1>3, <1>4, <1>5, <1>6 DEF At
<1>7. InOnePlace
  BY <1>6 DEF InOnePlace
<1>8. BagsOnce
  BY <1>4 DEF BagsOnce
<1>9. CardsOnce
  <2> SUFFICES ASSUME NEW g \in Tgcs, NEW i \in 1..Len(dirty[g]), NEW j \in 1..Len(dirty[g]),
                      dirty[g][i] = dirty[g][j], dirty[g][i] \notin Overlapping, i # j
               PROVE  FALSE
    BY DEF CardsOnce
  <2>1. heap.dirty[g] \in Seq(Old) /\ dirty[g] = heap.dirty[g]
    BY <1>1, <1>3
  <2>2. DOMAIN heap.dirty[g] = 1..Len(heap.dirty[g]) /\ dirty[g][i] \in Old
    BY <2>1, LenProperties, ElementOfSeq
  <2>3. i < j \/ j < i
    OBVIOUS
  <2> QED
    BY <2>1, <2>2, <2>3 DEF Overlapping
<1> QED
  BY <1>7, <1>8, <1>9 DEF PlaceInv

\* Each context is swept by one sweeper and each object is in the hands of one
\* at a time ("an object is swept by only one sweeper at a time", c/gc.c), and
\* the count of running sweepers is exact, for every heap and every order of the
\* sweepers' steps.
THEOREM SweepSafe == SetupsAssignOnce => (Spec => []SweepInv)
<1>1. Init => PlaceInv
  BY InitPlaces
<1>2. IInv /\ PlaceInv /\ [Next]_vars => PlaceInv'
  BY NextPlaces
<1>3. IInv /\ PlaceInv => SweepInv
  <2> SUFFICES ASSUME IInv, PlaceInv PROVE OneSweeperAtATime
    BY IInvParts DEF SweepInv
  <2>1. TypeOK /\ TriggersRight /\ InOnePlace /\ HeldKept /\ Kept \subseteq Objects
    BY IInvParts DEF PlaceInv
  <2>2. ASSUME NEW g \in Tgcs, NEW o \in Held(g) PROVE \E k, b : k # "trig" /\ At(k, g, b, o)
    <3>1. CASE o \in {m[1] : m \in BagToSet(send[g])}
      <4>1. PICK m \in BagToSet(send[g]) : o = m[1]
        BY <3>1
      <4>2. BagToSet(send[g]) \subseteq Objects \X Tgcs
        BY <2>1 DEF TypeOK
      <4>3. m[2] \in Tgcs /\ m = <<o, m[2]>>
        BY <4>1, <4>2
      <4>4. At("send", g, m[2], o)
        BY <4>3 DEF At
      <4> QED
        BY <4>4
    <3>2. CASE o \notin {m[1] : m \in BagToSet(send[g])}
      <4>1. At("todo", g, g, o) \/ At("recv", g, g, o) \/ At("pend", g, g, o) \/ At("batch", g, g, o) \/ At("dirty", g, g, o)
        BY <2>2, <3>2 DEF At, Held
      <4> QED
        BY <4>1
    <3> QED
      BY <3>1, <3>2
  <2>3. ASSUME NEW g \in Tgcs, NEW h \in Tgcs, (Held(g) \cap Held(h)) \ Overlapping # {} PROVE g = h
    <3>1. PICK o : o \in Held(g) /\ o \in Held(h) /\ o \notin Overlapping
      BY <2>3
    <3>2. o \in Objects
      BY <2>1, <3>1 DEF HeldKept
    <3>3. (\E k, b : At(k, g, b, o)) /\ (\E k, b : At(k, h, b, o))
      BY <2>2, <3>1
    <3> QED
      BY <2>1, <3>1, <3>2, <3>3 DEF InOnePlace
  <2>4. ASSUME NEW g \in Tgcs, NEW z \in Segments, NEW o \in Held(g), o \in trig[z] PROVE FALSE
    <3>1. o \in Objects /\ o \notin Overlapping
      BY <2>1, <2>4, EphemeronsApart DEF TriggersRight
    <3>2. At("trig", z, z, o)
      BY <2>4 DEF At
    <3>3. PICK k, b : k # "trig" /\ At(k, g, b, o)
      BY <2>2, <2>4
    <3> QED
      BY <2>1, <3>1, <3>2, <3>3 DEF InOnePlace
  <2> QED
    BY <2>3, <2>4 DEF OneSweeperAtATime
<1> QED
  BY <1>1, <1>2, <1>3, AlwaysIInv, PTL DEF Spec
=============================================================================
