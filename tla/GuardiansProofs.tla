-------------------------- MODULE GuardiansProofs --------------------------
(***************************************************************************)
(* Proofs about Guardians, for every set of heaps with any number of       *)
(* objects, segments and guardian entries: what is retained, which entry   *)
(* ends on which list and which weak references are broken is what the     *)
(* heap alone determines.                                                  *)
(*                                                                         *)
(* The sets that the properties compare with are least sets, so each is    *)
(* shown in two halves: what is reached is included in every set that is   *)
(* closed (an invariant about all closed sets, true at every step), and    *)
(* what is reached at the end is closed itself (from what is still to be   *)
(* swept, checked or looked at again).                                     *)
(***************************************************************************)
EXTENDS Guardians, FiniteSetTheorems, TLAPS

HoldSide == {"pend_hold_ls", "trigger_hold", "recheck_hold", "held"}
FinalSide == {"final_ls", "pend_final_ls", "trigger_final", "recheck_final",
              "maybe_final_ordered_ls", "delivered", "dropped"}
Rechecks == {"recheck_hold", "recheck_final"}

\* What has been reached but not traced further is still on one of the lists of
\* the sweep, and an ephemeron waits at a segment only for a key that is not reached.
Traced ==
    /\ \A o \in reached \ Ephemerons : o \in todo \/ heap.refs[o] \subseteq reached
    /\ \A e \in Ephemerons \cap reached :
           e \in todo \/ e \in pend \/ e \in trig \/ (heap.key[e] \in reached /\ heap.val[e] \in reached)
    /\ \A e \in trig : heap.key[e] \notin reached

\* What it says of entry n that it is on list l when the objects R are reached.
Triggers == {"trigger_hold", "trigger_final"}
EntryOK(n, l, R) ==
    /\ l \in Triggers => Tconc(n) \notin R
    /\ l \in {"final_ls", "maybe_final_ordered_ls", "held", "delivered", "dropped"} => Tconc(n) \in R
    /\ l = "held" => Holds(n) \subseteq R
    /\ l = "delivered" => Represents(n) \in R
    /\ l = "dropped" => Kind(n) = "ftype"
    /\ l \in HoldSide => Obj(n) \in R

Listed ==
    \A n \in Entries :
        /\ pc = "first" <=> list[n] = "new"
        /\ EntryOK(n, list[n], reached)
        /\ list[n] = "delivered" /\ Kind(n) = "ordered" => do_ordered
        /\ list[n] = "maybe_final_ordered_ls" => Kind(n) = "ordered" /\ ~do_ordered

\* A round in which nothing has been relocated leaves nothing to sweep and nothing
\* to look at again.
Quiet == pc = "loop" \/ (pc \in {"final", "hold", "done"} /\ ~relocate_rep)

RoundOK ==
    /\ Quiet => Swept /\ \A n \in Entries :
           list[n] \notin Rechecks /\ (list[n] = "pend_final_ls" => Tconc(n) \notin reached)
    /\ pc = "final" /\ On("final_ls") # {} => relocate_rep
    /\ pc \in {"hold", "done"} => On("final_ls") = {}
    /\ pc = "first" => ~do_ordered
    /\ pc = "done" => /\ ~relocate_rep /\ broken = Bwp
                      /\ On("pend_hold_ls") = {} /\ On("maybe_final_ordered_ls") = {}

\* Whatever is closed and includes the roots includes what is reached.
Within ==
    /\ heap.roots \subseteq reached
    /\ \A S \in SUBSET Objects :
           heap.roots \subseteq S /\ ClosedWithGuardians(S) => reached \subseteq S

\* The first sweep reaches what is accessible, and the entries are told apart by
\* that; only ordered ones change sides.
Sides ==
    /\ pc = "first" =>
           \A S \in SUBSET Objects : heap.roots \subseteq S /\ Closed(S) => reached \subseteq S
    /\ \A n \in Entries :
           /\ list[n] \in FinalSide => Obj(n) \notin Accessible
           /\ list[n] \in HoldSide /\ Kind(n) # "ordered" => Obj(n) \in Accessible

\* The references counted are at least those of the entries not handled yet, and
\* none is left when an entry is delivered.
Live == {n \in Entries : Kind(n) = "ftype" /\ list[n] \notin {"delivered", "dropped"}}
Counted ==
    /\ count \in Nat /\ count >= Cardinality(Live)
    /\ \A n \in Entries : Kind(n) = "ftype" /\ Delivered(n) => count = 0

\* Until the ordered entries are delivered, what is reached is what may keep an
\* ordered entry's object.
OrderedWithin ==
    \A S \in SUBSET Objects : heap.roots \subseteq S /\ ClosedOrdered(S) =>
        /\ ~do_ordered => reached \subseteq S
        /\ \A n \in Entries : list[n] \in HoldSide /\ Kind(n) = "ordered" => Obj(n) \in S

\* While an ordered entry is delayed, what its representative refers to is reached.
Delayed ==
    \A n \in Entries : list[n] = "maybe_final_ordered_ls" =>
        \/ Rep(n) \in Ephemerons \cup reached
        \/ heap.refs[Rep(n)] \subseteq reached

\* R is what was reached when the ordered entries became final.  If no guardian is
\* reached after that, what they deliver leads to R only, which none of them is in.
SettledEntry(n, l, R) ==
    /\ l \in {"final_ls", "pend_hold_ls"} /\ Tconc(n) \in R =>
           Kind(n) = "ordered" /\ (Rep(n) \in Ephemerons \/ heap.refs[Rep(n)] \subseteq R)
    /\ l \in {"final_ls", "delivered"} /\ Kind(n) = "ordered" => Obj(n) \notin R
    /\ l = "delivered" => IF Kind(n) = "ordered"
                          THEN Rep(n) \in Ephemerons \/ heap.refs[Rep(n)] \subseteq R
                          ELSE Represents(n) \in R
    /\ l \in Triggers \cup Rechecks \cup {"pend_final_ls"} => Tconc(n) \notin R

Settled(R) ==
    /\ R \subseteq reached /\ ClosedStrongly(R)
    /\ \A x \in reached, n \in Entries : Tconc(n) \in From({x}) => Tconc(n) \in R
    /\ \A n \in Entries : SettledEntry(n, list[n], R)

OrderedSettled == do_ordered /\ NoLateGuardian => \E R \in SUBSET Objects : Settled(R)

IInv ==
    /\ heap \in Heaps /\ TypeOK
    /\ Traced /\ Listed /\ RoundOK /\ Within /\ Sides /\ Counted /\ OrderedWithin /\ Delayed
    /\ OrderedSettled
-----------------------------------------------------------------------------
(* Least sets. *)

LEMMA AccessibleIs ==
    ASSUME NEW o
    PROVE  o \in Accessible <=>
             /\ o \in Objects
             /\ \A S \in SUBSET Objects : heap.roots \subseteq S /\ Closed(S) => o \in S
  BY DEF Accessible, Least

LEMMA FromIs ==
    ASSUME NEW X, NEW o
    PROVE  o \in From(X) <=>
             /\ o \in Objects
             /\ \A S \in SUBSET Objects : X \subseteq S /\ ClosedStrongly(S) => o \in S
  BY DEF From, Least

LEMMA RetainedIs ==
    ASSUME IInv, ClosedWithGuardians(reached)
    PROVE  reached = Least(heap.roots, ClosedWithGuardians)
<1>1. reached \in SUBSET Objects
  BY DEF IInv, TypeOK
<1> QED
  BY <1>1 DEF IInv, Within, Least
-----------------------------------------------------------------------------
(* The heap. *)

LEMMA HeapFacts ==
    ASSUME heap \in Heaps
    PROVE  /\ heap.roots \subseteq Objects /\ Ephemerons \subseteq Objects
           /\ \A o \in Objects : heap.refs[o] \subseteq Objects
           /\ \A e \in Ephemerons : heap.key[e] \in Objects /\ heap.val[e] \in Objects
           /\ \A n \in Entries : Obj(n) \in Objects /\ Rep(n) \in Objects /\ Kind(n) \in Kinds
           /\ DOMAIN heap.weak \cap Ephemerons = {}
  BY HeapAssumption DEF Ephemerons, Obj, Rep, Kind

LEMMA HeapSets ==
    ASSUME heap \in Heaps, NEW n \in Entries
    PROVE  /\ {Represents(n)} \subseteq Objects /\ Holds(n) \subseteq Objects
           /\ InOld(Rep(n)) \subseteq Objects
  BY HeapFacts DEF Represents, Holds, InOld

LEMMA SameEntry ==
    ASSUME heap' = heap, NEW n
    PROVE  /\ Obj(n)' = Obj(n) /\ Rep(n)' = Rep(n) /\ Tconc(n)' = Tconc(n) /\ Kind(n)' = Kind(n)
           /\ Holds(n)' = Holds(n) /\ Represents(n)' = Represents(n)
  BY DEF Obj, Rep, Tconc, Kind, Holds, Represents

LEMMA SameClosed ==
    ASSUME heap' = heap, NEW S
    PROVE  (Closed(S)' <=> Closed(S)) /\ (ClosedStrongly(S)' <=> ClosedStrongly(S))
  BY DEF Closed, ClosedStrongly, Children, Ephemerons

LEMMA SameAccessible ==
    ASSUME heap' = heap, NEW o
    PROVE  o \in Accessible' <=> o \in Accessible
<1>1. o \in Accessible' <=>
        /\ o \in Objects
        /\ \A S \in SUBSET Objects : heap'.roots \subseteq S /\ Closed(S)' => o \in S
  BY DEF Accessible, Least
<1>2. \A S : Closed(S)' <=> Closed(S)
  BY SameClosed
<1> QED
  BY <1>1, <1>2, AccessibleIs

LEMMA SameFrom ==
    ASSUME heap' = heap, NEW X
    PROVE  From(X)' = From(X)
<1>1. \A S : ClosedStrongly(S)' <=> ClosedStrongly(S)
  BY SameClosed
<1> QED
  BY <1>1 DEF From, Least

LEMMA SameNoLate ==
    ASSUME heap' = heap
    PROVE  NoLateGuardian' <=> NoLateGuardian
<1>1. \A X : From(X)' = From(X)
  BY SameFrom
<1> QED
  BY <1>1 DEF NoLateGuardian, Ephemerons, Tconc, Kind, Rep

\* A set that is closed later was closed before: the more entries are delivered,
\* the more a closed set includes.
LEMMA ClosedBefore ==
    ASSUME heap' = heap, NEW S,
           \A n \in Entries : list[n] = "delivered" => list'[n] = "delivered"
    PROVE  /\ ClosedWithGuardians(S)' => ClosedWithGuardians(S)
           /\ ClosedOrdered(S)' => ClosedOrdered(S)
  BY SameClosed DEF ClosedWithGuardians, ClosedOrdered, Obj, Rep, Tconc, Kind
-----------------------------------------------------------------------------
(* One step that reaches X. *)

\* The lists of the sweep.
LEMMA RelocateTraced ==
    ASSUME heap \in Heaps, TypeOK, Traced, heap' = heap,
           NEW X \in SUBSET Objects, NEW D, NEW P, NEW lst, Relocate(X, D, P, lst),
           D \subseteq reached, P \subseteq Ephemerons \cap reached,
           \A o \in reached \ Ephemerons : o \in D \/ heap.refs[o] \subseteq reached \cup X,
           \A e \in Ephemerons \cap reached : e \in D \/ e \in P \/ e \in trig
               \/ (heap.key[e] \in reached \cup X /\ heap.val[e] \in reached \cup X)
    PROVE  /\ Traced' /\ todo' \subseteq reached' /\ reached' \subseteq Objects
           /\ pend' \subseteq (Ephemerons \cap reached)' /\ trig' \subseteq (Ephemerons \cap reached)'
<1> DEFINE triggered == {e \in trig : Segment[heap.key[e]] \in Pulled(X)}
<1>1. /\ reached' = reached \cup X /\ todo' = D \cup (X \ reached)
      /\ pend' = P \cup triggered /\ trig' = trig \ triggered
  BY DEF Relocate
<1>2. Ephemerons' = Ephemerons
  BY DEF Ephemerons
<1>3. \A e \in trig \ triggered : heap.key[e] \notin reached \cup X
  BY DEF Pulled, Traced
<1>4. triggered \subseteq trig
  OBVIOUS
<1> HIDE DEF triggered
<1>5. \A o \in reached' \ Ephemerons : o \in todo' \/ heap.refs[o] \subseteq reached'
  BY <1>1
<1>6. \A e \in Ephemerons \cap reached' :
        e \in todo' \/ e \in pend' \/ e \in trig' \/ (heap.key[e] \in reached' /\ heap.val[e] \in reached')
  BY <1>1
<1>7. Traced'
  BY <1>1, <1>2, <1>3, <1>5, <1>6 DEF Traced
<1> QED
  BY <1>1, <1>2, <1>4, <1>7 DEF TypeOK

\* The list an entry is on after the triggers were pulled.
LEMMA RecheckedIs ==
    ASSUME NEW lst, NEW X, NEW n \in Entries, list' = Rechecked(lst, Pulled(X))
    PROVE  /\ list'[n] # lst[n] => \/ lst[n] = "trigger_hold" /\ list'[n] = "recheck_hold"
                                   \/ lst[n] = "trigger_final" /\ list'[n] = "recheck_final"
           /\ lst[n] \in Triggers /\ Tconc(n) \in X \ reached => list'[n] # lst[n]
           /\ X = {} => list'[n] = lst[n]
<1>1. list'[n] = CASE lst[n] = "trigger_hold" /\ Segment[Tconc(n)] \in Pulled(X) -> "recheck_hold"
                   [] lst[n] = "trigger_final" /\ Segment[Tconc(n)] \in Pulled(X) -> "recheck_final"
                   [] OTHER -> lst[n]
  BY DEF Rechecked
<1>2. Tconc(n) \in X \ reached => Segment[Tconc(n)] \in Pulled(X)
  BY DEF Pulled
<1>3. X = {} => Pulled(X) = {}
  BY DEF Pulled
<1> QED
  BY <1>1, <1>2, <1>3 DEF Triggers

\* What the lists say of the entries, if it is right for the entries that are moved.
LEMMA EntriesStep ==
    ASSUME TypeOK, Listed, heap' = heap, NEW X \in SUBSET Objects, NEW lst \in [Entries -> Lists],
           reached' = reached \cup X, list' = Rechecked(lst, Pulled(X)),
           \A n \in Entries : lst[n] = list[n] \/ EntryOK(n, lst[n], reached)
                                \/ (lst[n] \notin Triggers /\ EntryOK(n, lst[n], reached \cup X))
    PROVE  list' \in [Entries -> Lists] /\ \A n \in Entries : EntryOK(n, list[n], reached)'
<1>1. list' \in [Entries -> Lists]
  BY DEF Rechecked, Lists
<1>2. ASSUME NEW n \in Entries PROVE EntryOK(n, list'[n], reached')
  <2>1. EntryOK(n, lst[n], reached) \/ (lst[n] \notin Triggers /\ EntryOK(n, lst[n], reached \cup X))
    BY DEF Listed
  <2>2. /\ list'[n] # lst[n] => \/ lst[n] = "trigger_hold" /\ list'[n] = "recheck_hold"
                                \/ lst[n] = "trigger_final" /\ list'[n] = "recheck_final"
        /\ lst[n] \in Triggers /\ Tconc(n) \in X \ reached => list'[n] # lst[n]
    BY RecheckedIs
  <2> QED
    BY <2>1, <2>2 DEF EntryOK, Triggers, HoldSide
<1>3. \A n \in Entries : EntryOK(n, list[n], reached)' <=> EntryOK(n, list'[n], reached')
  BY SameEntry DEF EntryOK
<1> QED
  BY <1>1, <1>2, <1>3

LEMMA WithinStep ==
    ASSUME Within, heap' = heap, NEW X, reached' = reached \cup X,
           \A n \in Entries : list[n] = "delivered" => list'[n] = "delivered",
           \A S \in SUBSET Objects : reached \subseteq S /\ ClosedWithGuardians(S)' => X \subseteq S
    PROVE  Within'
  BY ClosedBefore DEF Within

LEMMA OrderedWithinStep ==
    ASSUME OrderedWithin, heap' = heap, NEW X, reached' = reached \cup X,
           \A n \in Entries : list[n] = "delivered" => list'[n] = "delivered",
           do_ordered => do_ordered',
           ~do_ordered' => \A S \in SUBSET Objects :
                reached \subseteq S /\ heap.roots \subseteq S /\ ClosedOrdered(S)' => X \subseteq S,
           \A n \in Entries : list'[n] \in HoldSide /\ Kind(n) = "ordered" =>
                list[n] \in HoldSide \/ (~do_ordered /\ Obj(n) \in reached)
    PROVE  OrderedWithin'
<1> SUFFICES ASSUME NEW S \in SUBSET Objects, heap.roots \subseteq S, ClosedOrdered(S)'
             PROVE  /\ ~do_ordered' => reached' \subseteq S
                    /\ \A n \in Entries : list'[n] \in HoldSide /\ Kind(n) = "ordered" => Obj(n) \in S
  BY SameEntry DEF OrderedWithin
<1>1. ClosedOrdered(S)
  BY ClosedBefore
<1>2. /\ ~do_ordered => reached \subseteq S
      /\ \A n \in Entries : list[n] \in HoldSide /\ Kind(n) = "ordered" => Obj(n) \in S
  BY <1>1 DEF OrderedWithin
<1> QED
  BY <1>2

LEMMA SidesStep ==
    ASSUME Sides, heap' = heap, pc' # "first",
           \A n \in Entries :
               /\ list'[n] \in FinalSide => list[n] \in FinalSide
               /\ list'[n] \in HoldSide /\ Kind(n) # "ordered" => list[n] \in HoldSide
    PROVE  Sides'
  BY SameEntry, SameAccessible DEF Sides
-----------------------------------------------------------------------------
(* What ordered entries lead to. *)

LEMMA FromItself ==
    ASSUME NEW x \in Objects
    PROVE  x \in From({x})
  BY FromIs

LEMMA FromRefs ==
    ASSUME NEW o \in Objects, o \notin Ephemerons, NEW x \in heap.refs[o]
    PROVE  From({x}) \subseteq From({o})
<1>1. \A S \in SUBSET Objects : {o} \subseteq S /\ ClosedStrongly(S) => {x} \subseteq S
  BY DEF ClosedStrongly
<1>2. \A y : y \in From({x}) => y \in From({o})
  BY <1>1, FromIs
<1> QED
  BY <1>2

\* What is in a closed set leads only there.
LEMMA FromWithin ==
    ASSUME NEW R \in SUBSET Objects, ClosedStrongly(R), NEW X \in SUBSET R
    PROVE  From(X) \subseteq R
<1>1. \A y : y \in From(X) => y \in R
  BY FromIs
<1> QED
  BY <1>1

LEMMA FromRep ==
    ASSUME NEW R \in SUBSET Objects, ClosedStrongly(R), NEW x \in Objects,
           x \in Ephemerons \/ heap.refs[x] \subseteq R
    PROVE  From({x}) \subseteq {x} \cup R
<1>1. ClosedStrongly({x} \cup R)
  BY DEF ClosedStrongly
<1> QED
  BY <1>1, FromWithin

\* A guardian that is reached after the ordered entries became final was reached before.
LEMMA SettledTconc ==
    ASSUME TypeOK, NEW R, Settled(R), NEW n \in Entries, Tconc(n) \in reached
    PROVE  Tconc(n) \in R
<1>1. Tconc(n) \in From({Tconc(n)})
  BY FromItself DEF TypeOK
<1> QED
  BY <1>1 DEF Settled

LEMMA SettledStep ==
    ASSUME OrderedSettled, heap' = heap, do_ordered' = do_ordered, NEW X, NEW lst,
           reached' = reached \cup X, list' = Rechecked(lst, Pulled(X)),
           \A R \in SUBSET Objects : do_ordered /\ NoLateGuardian /\ Settled(R) =>
               /\ \A x \in X, n \in Entries : Tconc(n) \in From({x}) => Tconc(n) \in R
               /\ \A n \in Entries : lst[n] = list[n] \/ SettledEntry(n, lst[n], R)
    PROVE  OrderedSettled'
<1> SUFFICES ASSUME do_ordered, NoLateGuardian
             PROVE  \E R \in SUBSET Objects : Settled(R)'
  BY SameNoLate DEF OrderedSettled
<1>1. PICK R \in SUBSET Objects : Settled(R)
  BY DEF OrderedSettled
<1>2. /\ \A x \in X, n \in Entries : Tconc(n) \in From({x}) => Tconc(n) \in R
      /\ \A n \in Entries : lst[n] = list[n] \/ SettledEntry(n, lst[n], R)
  BY <1>1
<1>3. R \subseteq reached' /\ ClosedStrongly(R)'
  BY <1>1, SameClosed DEF Settled
<1>4. \A x \in reached', n \in Entries : Tconc(n) \in From({x}) => Tconc(n) \in R
  BY <1>1, <1>2 DEF Settled
<1>5. \A x \in reached', n \in Entries : Tconc(n)' \in From({x})' => Tconc(n)' \in R
  BY <1>4, SameEntry, SameFrom
<1>6. ASSUME NEW n \in Entries PROVE SettledEntry(n, list'[n], R)
  <2>1. SettledEntry(n, lst[n], R)
    BY <1>1, <1>2 DEF Settled
  <2>2. list'[n] # lst[n] => \/ lst[n] = "trigger_hold" /\ list'[n] = "recheck_hold"
                             \/ lst[n] = "trigger_final" /\ list'[n] = "recheck_final"
    BY RecheckedIs
  <2> QED
    BY <2>1, <2>2 DEF SettledEntry, Triggers, Rechecks
<1>7. \A n \in Entries : SettledEntry(n, list[n], R)' <=> SettledEntry(n, list'[n], R)
  BY SameEntry DEF SettledEntry, Ephemerons
<1> QED
  BY <1>3, <1>5, <1>6, <1>7 DEF Settled

\* A step that moves entries and reaches nothing.
LEMMA NothingPulled ==
    ASSUME NEW f, list' = f, f \in [Entries -> Lists]
    PROVE  list' = Rechecked(f, Pulled({})) /\ reached = reached \cup {}
<1>1. Pulled({}) = {}
  BY DEF Pulled
<1> QED
  BY <1>1 DEF Rechecked
LEMMA CountedStep ==
    ASSUME Counted, heap' = heap, count' = count,
           \A n \in Entries :
               /\ list[n] \in {"delivered", "dropped"} => list'[n] \in {"delivered", "dropped"}
               /\ Kind(n) = "ftype" /\ list'[n] = "delivered" => list[n] = "delivered"
    PROVE  Counted'
<1>1. Live' \subseteq Live
  BY SameEntry DEF Live
<1>2. IsFiniteSet(Live)
  BY FS_Subset, HeapAssumption DEF Live
<1>3. Cardinality(Live') <= Cardinality(Live) /\ Cardinality(Live') \in Nat /\ Cardinality(Live) \in Nat
  BY <1>1, <1>2, FS_Subset, FS_CardinalityType
<1> QED
  BY <1>3, SameEntry DEF Counted, Delivered

LEMMA DelayedStep ==
    ASSUME Delayed, heap' = heap, reached \subseteq reached',
           \A n \in Entries : list'[n] = "maybe_final_ordered_ls" => list[n] = "maybe_final_ordered_ls"
    PROVE  Delayed'
  BY SameEntry DEF Delayed, Ephemerons

LEMMA InitIInv == Init => IInv
<1> SUFFICES ASSUME Init PROVE IInv
  OBVIOUS
<1>1. heap \in Heaps /\ pc = "first" /\ reached = heap.roots /\ todo = heap.roots
  BY DEF Init
<1>2. pend = {} /\ trig = {} /\ broken = {} /\ ~do_ordered /\ ~relocate_rep /\ count = heap.count
  BY DEF Init
<1>3. list = [n \in Entries |-> "new"]
  BY DEF Init
<1>4. TypeOK
  BY <1>1, <1>2, <1>3, HeapAssumption DEF TypeOK, Lists, Init
<1>5. Traced
  BY <1>1, <1>2 DEF Traced
<1>6. Listed
  BY <1>1, <1>3 DEF Listed, EntryOK, Triggers, HoldSide
<1>7. RoundOK
  BY <1>1, <1>2 DEF RoundOK, Quiet
<1>8. Within /\ Sides
  BY <1>1, <1>3 DEF Within, Sides, FinalSide, HoldSide
<1>9. Counted
  <2>1. Live \subseteq {n \in Entries : heap.entry[n].kind = "ftype"}
    BY DEF Live, Kind
  <2>2. IsFiniteSet({n \in Entries : heap.entry[n].kind = "ftype"})
    BY FS_Subset, HeapAssumption
  <2>3. /\ Cardinality(Live) <= Cardinality({n \in Entries : heap.entry[n].kind = "ftype"})
        /\ Cardinality(Live) \in Nat /\ Cardinality({n \in Entries : heap.entry[n].kind = "ftype"}) \in Nat
    BY <2>1, <2>2, FS_Subset, FS_CardinalityType
  <2>4. count \in Nat /\ count >= Cardinality({n \in Entries : heap.entry[n].kind = "ftype"})
    BY <1>1, <1>2, HeapAssumption
  <2> QED
    BY <2>3, <2>4, <1>3 DEF Counted, Delivered
<1>10. OrderedWithin /\ Delayed /\ OrderedSettled
  BY <1>1, <1>2, <1>3 DEF OrderedWithin, Delayed, OrderedSettled, HoldSide
<1> QED
  BY <1>1, <1>4, <1>5, <1>6, <1>7, <1>8, <1>9, <1>10 DEF IInv
-----------------------------------------------------------------------------
(* The sweep: it moves no entries but those to look at again. *)

LEMMA SweepReaches ==
    ASSUME IInv, Sweeping, UNCHANGED <<heap, control, broken, count>>,
           NEW X \in SUBSET Objects, NEW D, NEW P, Relocate(X, D, P, list),
           D \subseteq reached, P \subseteq Ephemerons \cap reached,
           \A o \in reached \ Ephemerons : o \in D \/ heap.refs[o] \subseteq reached \cup X,
           \A e \in Ephemerons \cap reached : e \in D \/ e \in P \/ e \in trig
               \/ (heap.key[e] \in reached \cup X /\ heap.val[e] \in reached \cup X),
           \A S \in SUBSET Objects : reached \subseteq S /\ Closed(S) => X \subseteq S,
           \A R \in SUBSET Objects : NoLateGuardian /\ Settled(R) =>
               \A x \in X, n \in Entries : Tconc(n) \in From({x}) => Tconc(n) \in R
    PROVE  IInv'
<1>1. /\ heap \in Heaps /\ TypeOK /\ Traced /\ Listed /\ RoundOK /\ Within /\ Sides /\ Counted
      /\ OrderedWithin /\ Delayed /\ OrderedSettled
  BY DEF IInv
<1>2. heap' = heap /\ pc' = pc /\ do_ordered' = do_ordered /\ relocate_rep' = relocate_rep
      /\ broken' = broken /\ count' = count /\ pc \in {"first", "sweep"}
  BY DEF control, Sweeping
<1>3. reached' = reached \cup X /\ list' = Rechecked(list, Pulled(X)) /\ list \in [Entries -> Lists]
  BY <1>1 DEF Relocate, TypeOK
<1>4. \A n \in Entries : list'[n] # list[n] =>
            \/ list[n] = "trigger_hold" /\ list'[n] = "recheck_hold"
            \/ list[n] = "trigger_final" /\ list'[n] = "recheck_final"
  BY <1>3, RecheckedIs
<1>5. list' \in [Entries -> Lists] /\ \A n \in Entries : EntryOK(n, list[n], reached)'
  BY <1>1, <1>2, <1>3, EntriesStep
<1>6. /\ Traced' /\ todo' \subseteq reached' /\ reached' \subseteq Objects
      /\ pend' \subseteq (Ephemerons \cap reached)' /\ trig' \subseteq (Ephemerons \cap reached)'
  BY <1>1, <1>2, RelocateTraced
<1>7. TypeOK'
  BY <1>1, <1>2, <1>3, <1>5, <1>6 DEF TypeOK
<1>8. Listed'
  BY <1>1, <1>2, <1>4, <1>5, SameEntry DEF Listed
<1>9. RoundOK'
  BY <1>1, <1>2 DEF RoundOK, Quiet
<1>10. Within'
  <2>1. \A S \in SUBSET Objects : reached \subseteq S /\ ClosedWithGuardians(S)' => X \subseteq S
    BY <1>2, SameClosed DEF ClosedWithGuardians
  <2> QED
    BY <2>1, <1>1, <1>2, <1>3, <1>4, WithinStep
<1>11. Sides'
  <2>1. \A n \in Entries : list'[n] \in FinalSide <=> list[n] \in FinalSide
    BY <1>4 DEF FinalSide
  <2>2. \A n \in Entries : list'[n] \in HoldSide <=> list[n] \in HoldSide
    BY <1>4 DEF HoldSide
  <2>3. pc' = "first" =>
           \A S \in SUBSET Objects : heap'.roots \subseteq S /\ Closed(S)' => reached' \subseteq S
    BY <1>1, <1>2, <1>3, SameClosed DEF Sides
  <2> QED
    BY <1>1, <1>2, <2>1, <2>2, <2>3, SameEntry, SameAccessible DEF Sides
<1>12. Counted'
  BY <1>1, <1>2, <1>4, CountedStep
<1>13. OrderedWithin'
  <2>1. \A S \in SUBSET Objects : reached \subseteq S /\ ClosedOrdered(S)' => X \subseteq S
    BY <1>2, SameClosed DEF ClosedOrdered
  <2>2. \A n \in Entries : list'[n] \in HoldSide <=> list[n] \in HoldSide
    BY <1>4 DEF HoldSide
  <2> QED
    BY <2>1, <2>2, <1>1, <1>2, <1>3, <1>4, OrderedWithinStep
<1>14. Delayed'
  BY <1>1, <1>2, <1>3, <1>4, DelayedStep
<1>15. OrderedSettled'
  BY <1>1, <1>2, <1>3, SettledStep
<1> QED
  BY <1>1, <1>2, <1>6, <1>7, <1>8, <1>9, <1>10, <1>11, <1>12, <1>13, <1>14, <1>15 DEF IInv
LEMMA ChildrenVal ==
    ASSUME NEW S, NEW d \in S, d \in Ephemerons, heap.key[d] \in S
    PROVE  heap.val[d] \in Children(S)
  BY DEF Children

LEMMA SweepStep == IInv /\ Sweep => IInv'
<1> SUFFICES ASSUME IInv, Sweep PROVE IInv'
  OBVIOUS
<1>1. Sweeping /\ UNCHANGED <<heap, control, broken, count>>
  BY DEF Sweep
<1>2. heap \in Heaps /\ TypeOK /\ Traced
  BY DEF IInv
<1>3. PICK o \in todo : Relocate(IF o \in Ephemerons THEN {} ELSE heap.refs[o],
                                 todo \ {o}, pend \cup ({o} \cap Ephemerons), list)
  BY DEF Sweep
<1> DEFINE X == IF o \in Ephemerons THEN {} ELSE heap.refs[o]
           D == todo \ {o}
           P == pend \cup ({o} \cap Ephemerons)
<1>4. o \in reached /\ o \in Objects
  BY <1>2 DEF TypeOK
<1>5. X \in SUBSET Objects
  BY <1>2, <1>4, HeapFacts
<1>6. Relocate(X, D, P, list) /\ D \subseteq reached /\ P \subseteq Ephemerons \cap reached
  BY <1>2, <1>3, <1>4 DEF TypeOK
<1>7. \A x \in reached \ Ephemerons : x \in D \/ heap.refs[x] \subseteq reached \cup X
  BY <1>2 DEF Traced
<1>8. \A e \in Ephemerons \cap reached : e \in D \/ e \in P \/ e \in trig
         \/ (heap.key[e] \in reached \cup X /\ heap.val[e] \in reached \cup X)
  BY <1>2 DEF Traced
<1>9. \A S \in SUBSET Objects : reached \subseteq S /\ Closed(S) => X \subseteq S
  BY <1>4 DEF Closed, Children
<1>10. \A R \in SUBSET Objects : NoLateGuardian /\ Settled(R) =>
          \A x \in X, n \in Entries : Tconc(n) \in From({x}) => Tconc(n) \in R
  BY <1>4, FromRefs DEF Settled
<1> HIDE DEF X, D, P
<1> QED
  BY <1>1, <1>5, <1>6, <1>7, <1>8, <1>9, <1>10, SweepReaches

LEMMA CheckEphemeronStep == IInv /\ CheckEphemeron => IInv'
<1> SUFFICES ASSUME IInv, CheckEphemeron PROVE IInv'
  OBVIOUS
<1>1. Sweeping /\ UNCHANGED <<heap, control, broken, count>> /\ todo = {}
  BY DEF CheckEphemeron
<1>2. /\ heap \in Heaps /\ TypeOK /\ Traced /\ Listed /\ RoundOK /\ Within /\ Sides /\ Counted
      /\ OrderedWithin /\ Delayed /\ OrderedSettled
  BY DEF IInv
<1>3. PICK e \in pend :
        IF heap.key[e] \in reached
        THEN Relocate({heap.val[e]}, todo, pend \ {e}, list)
        ELSE /\ pend' = pend \ {e}
             /\ trig' = trig \cup {e}
             /\ UNCHANGED <<reached, todo, list>>
  BY DEF CheckEphemeron
<1>4. e \in reached /\ e \in Ephemerons
  BY <1>2 DEF TypeOK
<1>5. CASE heap.key[e] \in reached
  <2> DEFINE X == {heap.val[e]}
             P == pend \ {e}
  <2>1. X \in SUBSET Objects
    BY <1>2, <1>4, HeapFacts
  <2>2. Relocate(X, todo, P, list) /\ todo \subseteq reached /\ P \subseteq Ephemerons \cap reached
    BY <1>2, <1>3, <1>5 DEF TypeOK
  <2>3. \A x \in reached \ Ephemerons : x \in todo \/ heap.refs[x] \subseteq reached \cup X
    BY <1>2 DEF Traced
  <2>4. \A d \in Ephemerons \cap reached : d \in todo \/ d \in P \/ d \in trig
           \/ (heap.key[d] \in reached \cup X /\ heap.val[d] \in reached \cup X)
    BY <1>2, <1>5 DEF Traced
  <2>5. \A S \in SUBSET Objects : reached \subseteq S /\ Closed(S) => X \subseteq S
    <3>1. ASSUME NEW S \in SUBSET Objects, reached \subseteq S, Closed(S) PROVE heap.val[e] \in S
      <4>1. e \in {d \in S \cap Ephemerons : heap.key[d] \in S}
        BY <1>4, <1>5, <3>1
      <4>2. heap.val[e] \in Children(S)
        BY <4>1, ChildrenVal
      <4> QED
        BY <4>2, <3>1 DEF Closed
    <3> QED
      BY <3>1
  <2>6. \A R \in SUBSET Objects : NoLateGuardian /\ Settled(R) =>
            \A x \in X, n \in Entries : Tconc(n) \in From({x}) => Tconc(n) \in R
    BY <1>4 DEF NoLateGuardian
  <2> HIDE DEF X, P
  <2> QED
    BY <1>1, <2>1, <2>2, <2>3, <2>4, <2>5, <2>6, SweepReaches
<1>6. CASE heap.key[e] \notin reached
  <2>1. pend' = pend \ {e} /\ trig' = trig \cup {e} /\ reached' = reached /\ todo' = todo /\ list' = list
    BY <1>3, <1>6
  <2>2. heap' = heap /\ pc' = pc /\ do_ordered' = do_ordered /\ relocate_rep' = relocate_rep
        /\ broken' = broken /\ count' = count /\ pc \in {"first", "sweep"}
    BY <1>1 DEF control, Sweeping
  <2>3. TypeOK'
    BY <1>2, <1>4, <2>1, <2>2 DEF TypeOK, Ephemerons
  <2>4. Traced'
    BY <1>2, <1>4, <1>6, <2>1, <2>2 DEF Traced, Ephemerons
  <2>5. Listed' /\ Delayed' /\ RoundOK'
    BY <1>2, <2>1, <2>2, SameEntry DEF Listed, EntryOK, Delayed, Ephemerons, RoundOK, Quiet
  <2>6. Within' /\ OrderedWithin'
    <3>1. {} \in SUBSET Objects /\ reached' = reached \cup {}
      BY <2>1
    <3>2. Within'
      BY <3>1, <1>2, <2>1, <2>2, WithinStep
    <3>3. OrderedWithin'
      BY <3>1, <1>2, <2>1, <2>2, OrderedWithinStep
    <3> QED
      BY <3>2, <3>3
  <2>7. Sides'
    BY <1>2, <2>1, <2>2, SameEntry, SameAccessible, SameClosed DEF Sides
  <2>8. Counted'
    BY <1>2, <2>1, <2>2, CountedStep
  <2>9. OrderedSettled'
    <3>1. list' = Rechecked(list, Pulled({})) /\ reached' = reached \cup {}
      BY <1>2, <2>1, NothingPulled DEF TypeOK
    <3> QED
      BY <3>1, <1>2, <2>2, SettledStep
  <2> QED
    BY <1>2, <2>2, <2>3, <2>4, <2>5, <2>6, <2>7, <2>8, <2>9 DEF IInv
<1> QED
  BY <1>5, <1>6
-----------------------------------------------------------------------------
(* The guardian phase: steps that reach nothing. *)

\* What such a step must show when it only moves entries between lists.
LEMMA MoveStep ==
    ASSUME IInv, heap' = heap, do_ordered' = do_ordered, count' = count \/ Counted',
           UNCHANGED <<reached, todo, pend, trig>>, broken' \subseteq reached,
           NEW f \in [Entries -> Lists], list' = f,
           pc' \in {"loop", "final", "hold", "sweep", "done", "aborted"}, pc # "first",
           relocate_rep' \in BOOLEAN,
           \A n \in Entries : f[n] = list[n] \/
               /\ list[n] \notin {"delivered", "dropped"} /\ f[n] \notin {"new", "delivered", "maybe_final_ordered_ls"}
               /\ EntryOK(n, f[n], reached)
               /\ f[n] \in FinalSide => list[n] \in FinalSide
               /\ f[n] \in HoldSide => list[n] \in HoldSide \/ (~do_ordered /\ Kind(n) = "ordered")
               /\ \A R \in SUBSET Objects : do_ordered /\ Settled(R) => SettledEntry(n, f[n], R),
           RoundOK'
    PROVE  IInv'
<1>1. /\ heap \in Heaps /\ TypeOK /\ Traced /\ Listed /\ RoundOK /\ Within /\ Sides /\ Counted
      /\ OrderedWithin /\ Delayed /\ OrderedSettled
  BY DEF IInv
<1>2. reached' = reached \cup {} /\ {} \in SUBSET Objects /\ list' = Rechecked(f, Pulled({}))
  BY NothingPulled
<1>3. \A n \in Entries : f[n] = list[n] \/ EntryOK(n, f[n], reached)
  OBVIOUS
<1>4. \A n \in Entries : EntryOK(n, list[n], reached)'
  BY <1>1, <1>2, <1>3, EntriesStep
<1>5. TypeOK'
  BY <1>1 DEF TypeOK, Ephemerons, Counted
<1>6. Traced'
  BY <1>1 DEF Traced, Ephemerons
<1>7. Listed'
  BY <1>1, <1>4, SameEntry DEF Listed
<1>8. Within'
  BY <1>1, <1>2, WithinStep
<1>9. Sides'
  BY <1>1, SidesStep
<1>10. Counted'
  BY <1>1, CountedStep
<1>11. OrderedWithin'
  <2>1. \A n \in Entries : list'[n] \in HoldSide /\ Kind(n) = "ordered" =>
                list[n] \in HoldSide \/ (~do_ordered /\ Obj(n) \in reached)
    BY <1>1 DEF EntryOK
  <2> QED
    BY <2>1, <1>1, <1>2, OrderedWithinStep
<1>12. Delayed'
  BY <1>1, DelayedStep
<1>13. OrderedSettled'
  BY <1>1, <1>2, SettledStep
<1> QED
  BY <1>1, <1>5, <1>6, <1>7, <1>8, <1>9, <1>10, <1>11, <1>12, <1>13 DEF IInv
\* partition_guardians, after the first sweep: what is reached then is closed, so it
\* is what is accessible.
LEMMA PartitionStep == IInv /\ Partition => IInv'
<1> SUFFICES ASSUME IInv, Partition PROVE IInv'
  OBVIOUS
<1>1. /\ heap \in Heaps /\ TypeOK /\ Traced /\ Listed /\ RoundOK /\ Within /\ Sides /\ Counted
      /\ OrderedWithin /\ Delayed /\ OrderedSettled
  BY DEF IInv
<1>2. /\ pc = "first" /\ todo = {} /\ pend = {} /\ pc' = "loop"
      /\ heap' = heap /\ do_ordered' = do_ordered /\ relocate_rep' = relocate_rep
      /\ reached' = reached /\ todo' = todo /\ pend' = pend /\ trig' = trig
      /\ broken' = broken /\ count' = count
  BY DEF Partition, Swept
<1>3. list' = [n \in Entries |-> Partitioned(n)] /\ ~do_ordered
  BY <1>1, <1>2 DEF Partition, RoundOK
<1>4. \A n \in Entries : list[n] = "new" /\ list'[n] = Partitioned(n)
  BY <1>1, <1>2, <1>3 DEF Listed
<1>5. \A n \in Entries :
        /\ Obj(n) \in reached => list'[n] = "pend_hold_ls"
        /\ Obj(n) \notin reached /\ Tconc(n) \in reached => list'[n] = "final_ls"
        /\ Obj(n) \notin reached /\ Tconc(n) \notin reached => list'[n] = "pend_final_ls"
  BY <1>4 DEF Partitioned
<1>6. TypeOK'
  <2>1. list' \in [Entries -> Lists]
    BY <1>3 DEF Partitioned, Lists
  <2> QED
    BY <1>1, <1>2, <2>1 DEF TypeOK, Ephemerons
<1>7. Traced'
  BY <1>1, <1>2 DEF Traced, Ephemerons
<1>8. Listed'
  <2>1. \A n \in Entries : EntryOK(n, list'[n], reached')
    BY <1>2, <1>5 DEF EntryOK, Triggers, HoldSide
  <2> QED
    BY <1>2, <1>5, <2>1, SameEntry DEF Listed, EntryOK
<1>9. RoundOK'
  BY <1>1, <1>2, <1>5, SameEntry DEF RoundOK, Quiet, Swept, Rechecks
<1>10. Within'
  <2>1. reached' = reached \cup {}
    BY <1>2
  <2> QED
    BY <1>1, <1>2, <1>4, <2>1, WithinStep
<1>11. Sides'
  <2>1. Closed(reached)
    BY <1>1, <1>2 DEF Traced, Closed, Children
  <2>2. \A o \in Objects : o \in Accessible <=> o \in reached
    BY <1>1, <1>2, <2>1, AccessibleIs DEF Sides, Within, TypeOK
  <2>3. \A n \in Entries : Obj(n) \in Accessible <=> Obj(n) \in reached
    BY <1>1, <2>2, HeapFacts
  <2> QED
    BY <1>2, <1>5, <2>3, SameEntry, SameAccessible DEF Sides, FinalSide, HoldSide
<1>12. Counted'
  BY <1>1, <1>2, <1>4, <1>5, CountedStep
<1>13. OrderedWithin'
  <2>1. reached' = reached \cup {} /\ {} \in SUBSET Objects
    BY <1>2
  <2>2. \A n \in Entries : list'[n] \in HoldSide => Obj(n) \in reached
    BY <1>5 DEF HoldSide
  <2> QED
    BY <1>1, <1>2, <1>3, <1>4, <2>1, <2>2, OrderedWithinStep
<1>14. Delayed' /\ OrderedSettled'
  BY <1>2, <1>3, <1>5 DEF Delayed, OrderedSettled
<1> QED
  BY <1>1, <1>2, <1>6, <1>7, <1>8, <1>9, <1>10, <1>11, <1>12, <1>13, <1>14 DEF IInv

\* Steps that change only the place in the loop.
LEMMA LoopStep == IInv /\ Loop => IInv'
<1> SUFFICES ASSUME IInv, Loop PROVE IInv'
  OBVIOUS
<1>1. TypeOK /\ RoundOK
  BY DEF IInv
<1>2. /\ pc = "loop" /\ pc' = "final" /\ relocate_rep' = (On("final_ls") # {})
      /\ heap' = heap /\ do_ordered' = do_ordered /\ count' = count /\ list' = list
      /\ reached' = reached /\ todo' = todo /\ pend' = pend /\ trig' = trig /\ broken' = broken
  BY DEF Loop
<1>3. list \in [Entries -> Lists] /\ broken' \subseteq reached
  BY <1>1, <1>2 DEF TypeOK
<1>4. RoundOK'
  BY <1>1, <1>2, SameEntry DEF RoundOK, Quiet, Swept, On
<1> QED
  BY <1>2, <1>3, <1>4, MoveStep

LEMMA FinalDoneStep == IInv /\ FinalDone => IInv'
<1> SUFFICES ASSUME IInv, FinalDone PROVE IInv'
  OBVIOUS
<1>1. TypeOK /\ RoundOK
  BY DEF IInv
<1>2. /\ pc = "final" /\ On("final_ls") = {} /\ pc' = "hold" /\ relocate_rep' = relocate_rep
      /\ heap' = heap /\ do_ordered' = do_ordered /\ count' = count /\ list' = list
      /\ reached' = reached /\ todo' = todo /\ pend' = pend /\ trig' = trig /\ broken' = broken
  BY DEF FinalDone
<1>3. list \in [Entries -> Lists] /\ broken' \subseteq reached /\ relocate_rep' \in BOOLEAN
  BY <1>1, <1>2 DEF TypeOK
<1>4. RoundOK'
  BY <1>1, <1>2, SameEntry DEF RoundOK, Quiet, Swept, On
<1> QED
  BY <1>2, <1>3, <1>4, MoveStep

LEMMA AgainStep == IInv /\ Again => IInv'
<1> SUFFICES ASSUME IInv, Again PROVE IInv'
  OBVIOUS
<1>1. TypeOK /\ RoundOK
  BY DEF IInv
<1>2. /\ pc = "hold" /\ pc' = "sweep" /\ relocate_rep' = relocate_rep
      /\ heap' = heap /\ do_ordered' = do_ordered /\ count' = count /\ list' = list
      /\ reached' = reached /\ todo' = todo /\ pend' = pend /\ trig' = trig /\ broken' = broken
  BY DEF Again
<1>3. list \in [Entries -> Lists] /\ broken' \subseteq reached /\ relocate_rep' \in BOOLEAN
  BY <1>1, <1>2 DEF TypeOK
<1>4. RoundOK'
  BY <1>2 DEF RoundOK, Quiet
<1> QED
  BY <1>2, <1>3, <1>4, MoveStep

LEMMA BreakStep == IInv /\ Break => IInv'
<1> SUFFICES ASSUME IInv, Break PROVE IInv'
  OBVIOUS
<1>1. TypeOK /\ RoundOK /\ Listed
  BY DEF IInv
<1>2. /\ pc = "hold" /\ pc' = "done" /\ relocate_rep' = relocate_rep /\ ~relocate_rep
      /\ heap' = heap /\ do_ordered' = do_ordered /\ count' = count /\ list' = list
      /\ reached' = reached /\ todo' = todo /\ pend' = pend /\ trig' = trig /\ broken' = Bwp
  BY DEF Break
<1>3. On("pend_hold_ls") = {} /\ (do_ordered \/ On("maybe_final_ordered_ls") = {})
  BY DEF Break
<1>4. list \in [Entries -> Lists] /\ broken' \subseteq reached /\ relocate_rep' \in BOOLEAN
  BY <1>1, <1>2 DEF TypeOK, Bwp
<1>5. On("maybe_final_ordered_ls") = {}
  BY <1>1, <1>3 DEF Listed, On
<1>6. broken' = Bwp'
  BY <1>2 DEF Bwp
<1>7. RoundOK'
  BY <1>1, <1>2, <1>3, <1>5, <1>6, SameEntry DEF RoundOK, Quiet, Swept, On
<1> QED
  BY <1>2, <1>4, <1>7, MoveStep

\* Entries to look at again.
LEMMA ResortStep == IInv /\ Resort => IInv'
<1> SUFFICES ASSUME IInv, Resort PROVE IInv'
  OBVIOUS
<1>1. TypeOK /\ RoundOK /\ Listed
  BY DEF IInv
<1>2. /\ pc = "sweep" /\ Swept /\ pc' = "loop" /\ relocate_rep' = relocate_rep
      /\ heap' = heap /\ do_ordered' = do_ordered /\ count' = count
      /\ reached' = reached /\ todo' = todo /\ pend' = pend /\ trig' = trig /\ broken' = broken
  BY DEF Resort
<1> DEFINE f == [n \in Entries |-> Resorted(n)]
<1>3. list' = f
  BY DEF Resort
<1>4. \A n \in Entries :
        /\ list[n] = "recheck_hold" => f[n] = "pend_hold_ls"
        /\ list[n] \in {"recheck_final", "pend_final_ls"} /\ Tconc(n) \in reached => f[n] = "final_ls"
        /\ list[n] \in {"recheck_final", "pend_final_ls"} /\ Tconc(n) \notin reached => f[n] = "trigger_final"
        /\ list[n] \notin {"recheck_hold", "recheck_final", "pend_final_ls"} => f[n] = list[n]
  BY DEF Resorted
<1>5. f \in [Entries -> Lists] /\ broken' \subseteq reached /\ relocate_rep' \in BOOLEAN
  BY <1>1, <1>2, <1>4 DEF TypeOK, Lists
<1> HIDE DEF f
<1>6. RoundOK'
  BY <1>1, <1>2, <1>3, <1>4, SameEntry DEF RoundOK, Quiet, Swept, Rechecks
<1>7. ASSUME NEW n \in Entries, f[n] # list[n]
      PROVE  /\ list[n] \notin {"delivered", "dropped"} /\ f[n] \notin {"new", "delivered", "maybe_final_ordered_ls"}
             /\ EntryOK(n, f[n], reached)
             /\ f[n] \in FinalSide => list[n] \in FinalSide
             /\ f[n] \in HoldSide => list[n] \in HoldSide
  <2>1. EntryOK(n, list[n], reached)
    BY <1>1 DEF Listed
  <2> QED
    BY <1>4, <1>7, <2>1 DEF EntryOK, FinalSide, HoldSide, Triggers
<1>8. ASSUME NEW n \in Entries, f[n] # list[n], NEW R \in SUBSET Objects, Settled(R)
      PROVE  SettledEntry(n, f[n], R)
  <2>1. SettledEntry(n, list[n], R) /\ R \subseteq reached
    BY <1>8 DEF Settled
  <2>2. Tconc(n) \in reached => Tconc(n) \in R
    BY <1>1, <1>8, SettledTconc
  <2> QED
    BY <1>4, <1>8, <2>1, <2>2 DEF SettledEntry, Triggers, Rechecks
<1> QED
  BY <1>2, <1>3, <1>5, <1>6, <1>7, <1>8, MoveStep
\* The ordered entries become final: what is reached is swept, so it leads nowhere
\* else, and so do their representatives.
LEMMA SwitchStep == IInv /\ Switch => IInv'
<1> SUFFICES ASSUME IInv, Switch PROVE IInv'
  OBVIOUS
<1>1. /\ heap \in Heaps /\ TypeOK /\ Traced /\ Listed /\ RoundOK /\ Within /\ Sides /\ Counted
      /\ OrderedWithin /\ Delayed /\ OrderedSettled
  BY DEF IInv
<1>2. /\ pc = "hold" /\ pc' = "sweep" /\ ~relocate_rep /\ ~do_ordered /\ do_ordered' = TRUE
      /\ relocate_rep' = TRUE /\ heap' = heap /\ reached' = reached /\ todo' = todo /\ pend' = pend
      /\ trig' = trig /\ broken' = broken /\ count' = count
  BY DEF Switch
<1>3. On("pend_hold_ls") = {}
  BY DEF Switch
<1> DEFINE f == [n \in Entries |-> IF list[n] = "maybe_final_ordered_ls" THEN Ordered(n) ELSE list[n]]
<1>4. list' = f
  BY DEF Switch
<1>5. \A n \in Entries :
        /\ list[n] = "maybe_final_ordered_ls" /\ Obj(n) \in reached => f[n] = "pend_hold_ls"
        /\ list[n] = "maybe_final_ordered_ls" /\ Obj(n) \notin reached => f[n] = "final_ls"
        /\ list[n] # "maybe_final_ordered_ls" => f[n] = list[n]
  BY DEF Ordered
<1>6. f \in [Entries -> Lists]
  BY <1>1, <1>5 DEF TypeOK, Lists
<1> HIDE DEF f
<1>7. list' = Rechecked(f, Pulled({})) /\ reached' = reached \cup {} /\ {} \in SUBSET Objects
  BY <1>2, <1>4, <1>6, NothingPulled
<1>8. \A n \in Entries : EntryOK(n, list[n], reached)'
  <2>1. \A n \in Entries : f[n] = list[n] \/ EntryOK(n, f[n], reached)
    BY <1>1, <1>5 DEF Listed, EntryOK, Triggers, HoldSide
  <2> QED
    BY <1>1, <1>2, <1>6, <1>7, <2>1, EntriesStep
<1>9. TypeOK'
  BY <1>1, <1>2, <1>4, <1>6 DEF TypeOK, Ephemerons
<1>10. Traced'
  BY <1>1, <1>2 DEF Traced, Ephemerons
<1>11. Listed'
  BY <1>1, <1>2, <1>4, <1>5, <1>8, SameEntry DEF Listed
<1>12. RoundOK'
  BY <1>2 DEF RoundOK, Quiet
<1>13. Within'
  BY <1>1, <1>2, <1>4, <1>5, <1>7, WithinStep
<1>14. Sides'
  <2>1. \A n \in Entries : list[n] = "maybe_final_ordered_ls" => Kind(n) = "ordered"
    BY <1>1 DEF Listed
  <2>2. \A n \in Entries :
            /\ list'[n] \in FinalSide => list[n] \in FinalSide
            /\ list'[n] \in HoldSide /\ Kind(n) # "ordered" => list[n] \in HoldSide
    BY <1>4, <1>5, <2>1 DEF FinalSide, HoldSide
  <2> QED
    BY <1>1, <1>2, <2>2, SidesStep
<1>15. Counted'
  BY <1>1, <1>2, <1>4, <1>5, CountedStep
<1>16. OrderedWithin'
  <2>1. \A n \in Entries : list'[n] \in HoldSide => list[n] \in HoldSide \/ Obj(n) \in reached
    BY <1>4, <1>5 DEF HoldSide
  <2> QED
    BY <1>1, <1>2, <1>4, <1>5, <1>7, <2>1, OrderedWithinStep
<1>17. Delayed'
  BY <1>1, <1>2, <1>4, <1>5, DelayedStep
<1>18. OrderedSettled'
  <2>1. Swept /\ On("final_ls") = {}
    BY <1>1, <1>2 DEF RoundOK, Quiet
  <2>2. \A n \in Entries : list[n] \notin Rechecks /\ (list[n] = "pend_final_ls" => Tconc(n) \notin reached)
    BY <1>1, <1>2 DEF RoundOK, Quiet
  <2>3. reached \in SUBSET Objects /\ ClosedStrongly(reached)
    BY <1>1, <2>1 DEF Traced, TypeOK, ClosedStrongly, Swept
  <2>4. \A x \in reached, n \in Entries : Tconc(n) \in From({x}) => Tconc(n) \in reached
    BY <2>3, FromWithin
  <2>5. ASSUME NEW n \in Entries PROVE SettledEntry(n, f[n], reached)
    <3>1. EntryOK(n, list[n], reached) /\ (list[n] = "delivered" => Kind(n) # "ordered")
      BY <1>1, <1>2 DEF Listed
    <3>2. list[n] = "maybe_final_ordered_ls" =>
             Kind(n) = "ordered" /\ (Rep(n) \in Ephemerons \/ heap.refs[Rep(n)] \subseteq reached)
      BY <1>1, <2>1 DEF Delayed, Listed, Traced, Swept
    <3>3. list[n] \notin {"final_ls", "pend_hold_ls"}
      BY <1>3, <2>1 DEF On
    <3> QED
      BY <1>5, <2>2, <3>1, <3>2, <3>3 DEF SettledEntry, EntryOK, Triggers, Rechecks
  <2>6. ClosedStrongly(reached)'
    <3>1. ClosedStrongly(reached)' <=> ClosedStrongly(reached)
      BY <1>2 DEF ClosedStrongly, Ephemerons
    <3> QED
      BY <3>1, <2>3
  <2>7. \A x \in reached', n \in Entries : Tconc(n)' \in From({x})' => Tconc(n)' \in reached
    BY <1>2, <2>4, SameEntry, SameFrom
  <2>8. \A n \in Entries : SettledEntry(n, list[n], reached)' <=> SettledEntry(n, list'[n], reached)
    BY <1>2, SameEntry DEF SettledEntry, Ephemerons
  <2>9. \A n \in Entries : SettledEntry(n, list[n], reached)'
    BY <2>5, <2>8, <1>4
  <2>10. Settled(reached)'
    BY <1>2, <2>6, <2>7, <2>9 DEF Settled
  <2>11. reached' \in SUBSET Objects
    BY <1>2, <2>3
  <2> QED
    BY <2>10, <2>11 DEF OrderedSettled
<1> QED
  BY <1>1, <1>2, <1>9, <1>10, <1>11, <1>12, <1>13, <1>14, <1>15, <1>16, <1>17, <1>18 DEF IInv
-----------------------------------------------------------------------------
(* The guardian phase: steps that reach what stands for an entry's object. *)

LEMMA ReachStep ==
    ASSUME IInv, heap' = heap, do_ordered' = do_ordered, broken' = broken,
           pc' = pc, pc \in {"final", "hold"}, relocate_rep' = TRUE,
           NEW X \in SUBSET Objects, NEW n \in Entries, Tconc(n) \in reached,
           NEW l \in {"maybe_final_ordered_ls", "delivered", "held"},
           Relocate(X, todo, pend, [list EXCEPT ![n] = l]),
           list[n] \in {"final_ls", "pend_hold_ls"}, l = "held" <=> list[n] = "pend_hold_ls",
           EntryOK(n, l, reached \cup X),
           l = "maybe_final_ordered_ls" =>
               /\ Kind(n) = "ordered" /\ ~do_ordered
               /\ Rep(n) \in Ephemerons \cup reached \cup X \/ heap.refs[Rep(n)] \subseteq reached \cup X,
           l = "delivered" /\ Kind(n) = "ordered" => do_ordered,
           Counted',
           \A S \in SUBSET Objects : reached \subseteq S /\ ClosedWithGuardians(S)' => X \subseteq S,
           ~do_ordered => \A S \in SUBSET Objects : reached \subseteq S /\ ClosedOrdered(S)' => X \subseteq S,
           \A R \in SUBSET Objects : do_ordered /\ NoLateGuardian /\ Settled(R) =>
               /\ \A x \in X, m \in Entries : Tconc(m) \in From({x}) => Tconc(m) \in R
               /\ SettledEntry(n, l, R)
    PROVE  IInv'
<1>1. /\ heap \in Heaps /\ TypeOK /\ Traced /\ Listed /\ RoundOK /\ Within /\ Sides /\ Counted
      /\ OrderedWithin /\ Delayed /\ OrderedSettled
  BY DEF IInv
<1> DEFINE lst == [list EXCEPT ![n] = l]
<1>2. list \in [Entries -> Lists] /\ lst \in [Entries -> Lists] /\ lst[n] = l
      /\ \A m \in Entries : m # n => lst[m] = list[m]
  BY <1>1 DEF TypeOK, Lists
<1>3. reached' = reached \cup X /\ list' = Rechecked(lst, Pulled(X))
  BY DEF Relocate
<1>4. \A e \in Ephemerons \cap reached : e \in todo \/ e \in pend \/ e \in trig
               \/ (heap.key[e] \in reached \cup X /\ heap.val[e] \in reached \cup X)
  BY <1>1 DEF Traced
<1>5. \A o \in reached \ Ephemerons : o \in todo \/ heap.refs[o] \subseteq reached \cup X
  BY <1>1 DEF Traced
<1>6. /\ Traced' /\ todo' \subseteq reached' /\ reached' \subseteq Objects
      /\ pend' \subseteq (Ephemerons \cap reached)' /\ trig' \subseteq (Ephemerons \cap reached)'
  BY <1>1, <1>4, <1>5, RelocateTraced DEF TypeOK
<1> HIDE DEF lst
<1>7. list'[n] = l /\ \A m \in Entries : list'[m] # lst[m] =>
            \/ lst[m] = "trigger_hold" /\ list'[m] = "recheck_hold"
            \/ lst[m] = "trigger_final" /\ list'[m] = "recheck_final"
  BY <1>2, <1>3, RecheckedIs
<1>8. \A m \in Entries : m # n /\ list'[m] # list[m] =>
            \/ list[m] = "trigger_hold" /\ list'[m] = "recheck_hold"
            \/ list[m] = "trigger_final" /\ list'[m] = "recheck_final"
  BY <1>2, <1>7
<1>9. list' \in [Entries -> Lists] /\ \A m \in Entries : EntryOK(m, list[m], reached)'
  <2>1. \A m \in Entries : lst[m] = list[m] \/ (lst[m] \notin Triggers /\ EntryOK(m, lst[m], reached \cup X))
    BY <1>2 DEF Triggers
  <2> QED
    BY <1>1, <1>2, <1>3, <2>1, EntriesStep
<1>10. TypeOK'
  BY <1>1, <1>3, <1>6, <1>9 DEF TypeOK, Counted
<1>11. Listed'
  <2>1. ASSUME NEW m \in Entries
        PROVE  /\ pc' = "first" <=> list'[m] = "new"
               /\ list'[m] = "delivered" /\ Kind(m) = "ordered" => do_ordered
               /\ list'[m] = "maybe_final_ordered_ls" => Kind(m) = "ordered" /\ ~do_ordered
    <3>1. CASE m = n
      BY <3>1, <1>7
    <3>2. CASE m # n
      BY <3>2, <1>1, <1>8 DEF Listed
    <3> QED
      BY <3>1, <3>2
  <2> QED
    BY <2>1, <1>9, SameEntry DEF Listed
<1>12. RoundOK'
  <2>1. pc = "hold" => On("final_ls")' = {}
    BY <1>1, <1>7, <1>8 DEF RoundOK, On
  <2> QED
    BY <2>1 DEF RoundOK, Quiet
<1>13. \A m \in Entries : list[m] = "delivered" => list'[m] = "delivered"
  BY <1>7, <1>8
<1>14. Within'
  BY <1>1, <1>3, <1>13, WithinStep
<1>15. \A m \in Entries :
          /\ list'[m] \in FinalSide => list[m] \in FinalSide
          /\ list'[m] \in HoldSide => list[m] \in HoldSide
  BY <1>7, <1>8 DEF FinalSide, HoldSide
<1>16. Sides'
  BY <1>1, <1>15, SidesStep
<1>17. OrderedWithin'
  BY <1>1, <1>3, <1>13, <1>15, OrderedWithinStep
<1>18. Delayed'
  <2>1. ASSUME NEW m \in Entries, list'[m] = "maybe_final_ordered_ls"
        PROVE  Rep(m) \in Ephemerons \cup reached' \/ heap.refs[Rep(m)] \subseteq reached'
    <3>1. CASE m = n
      BY <3>1, <2>1, <1>3, <1>7
    <3>2. CASE m # n
      BY <3>2, <2>1, <1>1, <1>3, <1>8 DEF Delayed
    <3> QED
      BY <3>1, <3>2
  <2> QED
    BY <2>1, SameEntry DEF Delayed, Ephemerons
<1>19. OrderedSettled'
  <2>1. \A R \in SUBSET Objects : do_ordered /\ NoLateGuardian /\ Settled(R) =>
            /\ \A x \in X, m \in Entries : Tconc(m) \in From({x}) => Tconc(m) \in R
            /\ \A m \in Entries : lst[m] = list[m] \/ SettledEntry(m, lst[m], R)
    BY <1>2
  <2> QED
    BY <1>1, <1>3, <2>1, SettledStep
<1> QED
  BY <1>1, <1>6, <1>10, <1>11, <1>12, <1>14, <1>16, <1>17, <1>18, <1>19 DEF IInv
\* An ftype entry is handled: its reference is no longer counted.
LEMMA CountedDown ==
    ASSUME Counted, heap' = heap, NEW n \in Entries, Kind(n) = "ftype",
           list[n] \notin {"delivered", "dropped"}, list'[n] \in {"delivered", "dropped"},
           \A m \in Entries : m # n =>
               /\ list'[m] = "delivered" <=> list[m] = "delivered"
               /\ list'[m] = "dropped" <=> list[m] = "dropped",
           count' = count - 1,
           IF list'[n] = "delivered" THEN count <= 1 ELSE count > 1
    PROVE  Counted'
<1>1. n \in Live /\ Live' = Live \ {n}
  BY SameEntry DEF Live
<1>2. IsFiniteSet(Live)
  BY FS_Subset, HeapAssumption DEF Live
<1>3. Cardinality(Live') = Cardinality(Live) - 1 /\ Cardinality(Live) \in Nat /\ Cardinality(Live') \in Nat
  <2>1. IsFiniteSet(Live')
    BY <1>1, <1>2, FS_Subset
  <2> QED
    BY <1>1, <1>2, <2>1, FS_RemoveElement, FS_CardinalityType
<1>4. count \in Nat /\ count >= Cardinality(Live)
  BY DEF Counted
<1>5. count' \in Nat /\ count' >= Cardinality(Live') /\ (list'[n] = "delivered" => count' = 0)
  BY <1>3, <1>4
<1>6. ASSUME NEW m \in Entries, Kind(m) = "ftype", list'[m] = "delivered" PROVE count' = 0
  <2>1. CASE m = n
    BY <2>1, <1>5, <1>6
  <2>2. CASE m # n
    <3>1. count = 0
      BY <2>2, <1>6 DEF Counted, Delivered
    <3> QED
      BY <3>1, <1>3, <1>4
  <2> QED
    BY <2>1, <2>2
<1> QED
  BY <1>5, <1>6, SameEntry DEF Counted, Delivered

LEMMA FinalStep == IInv /\ Final => IInv'
<1> SUFFICES ASSUME IInv, Final PROVE IInv'
  OBVIOUS
<1>1. /\ heap \in Heaps /\ TypeOK /\ Traced /\ Listed /\ RoundOK /\ Within /\ Sides /\ Counted
      /\ OrderedWithin /\ Delayed /\ OrderedSettled
  BY DEF IInv
<1>2. /\ pc = "final" /\ heap' = heap /\ do_ordered' = do_ordered
      /\ relocate_rep' = relocate_rep /\ broken' = broken
  BY DEF Final
<1>3. PICK n \in On("final_ls") :
        Uncount(n) \/ HoldOrdered(n) \/ DelayOrdered(n) \/ SweepForwarded(n) \/ Deliver(n)
  BY DEF Final
<1>4. n \in Entries /\ list[n] = "final_ls" /\ relocate_rep' = TRUE /\ relocate_rep = TRUE
  BY <1>1, <1>2, <1>3 DEF On, RoundOK, TypeOK
<1>5. EntryOK(n, "final_ls", reached) /\ Tconc(n) \in reached
  BY <1>1, <1>4 DEF Listed, EntryOK
<1>6. list \in [Entries -> Lists] /\ broken' \subseteq reached /\ relocate_rep' \in BOOLEAN
  BY <1>1, <1>2, <1>4 DEF TypeOK
<1>7. Obj(n) \in Objects /\ Rep(n) \in Objects /\ Kind(n) \in Kinds
  BY <1>1, <1>4, HeapFacts
<1>8. CASE Uncount(n)
  <2> DEFINE f == [list EXCEPT ![n] = "dropped"]
  <2>1. /\ Kind(n) = "ftype" /\ count > 1 /\ count' = count - 1 /\ list' = f /\ pc' = pc
        /\ reached' = reached /\ todo' = todo /\ pend' = pend /\ trig' = trig
    BY <1>8 DEF Uncount, Move
  <2>2. f \in [Entries -> Lists] /\ f[n] = "dropped" /\ \A m \in Entries : m # n => f[m] = list[m]
    BY <1>4, <1>6 DEF Lists
  <2> HIDE DEF f
  <2>3. Counted'
    BY <1>1, <1>2, <1>4, <2>1, <2>2, CountedDown
  <2>4. RoundOK'
    BY <1>2, <1>4, <2>1 DEF RoundOK, Quiet
  <2>5. EntryOK(n, "dropped", reached)
    BY <1>5, <2>1 DEF EntryOK, Triggers, HoldSide
  <2>6. /\ "dropped" \in FinalSide /\ "final_ls" \in FinalSide /\ "dropped" \notin HoldSide
        /\ \A R : SettledEntry(n, "dropped", R)
    BY DEF FinalSide, HoldSide, SettledEntry, Triggers, Rechecks
  <2> QED
    BY <1>2, <1>4, <1>6, <2>1, <2>2, <2>3, <2>4, <2>5, <2>6, MoveStep
<1>9. CASE HoldOrdered(n)
  <2> DEFINE f == [list EXCEPT ![n] = "pend_hold_ls"]
  <2>1. /\ Kind(n) = "ordered" /\ ~do_ordered /\ Obj(n) \in reached /\ list' = f /\ pc' = pc
        /\ count' = count /\ reached' = reached /\ todo' = todo /\ pend' = pend /\ trig' = trig
    BY <1>9 DEF HoldOrdered, Move
  <2>2. f \in [Entries -> Lists] /\ f[n] = "pend_hold_ls" /\ \A m \in Entries : m # n => f[m] = list[m]
    BY <1>4, <1>6 DEF Lists
  <2> HIDE DEF f
  <2>3. RoundOK'
    BY <1>2, <1>4, <2>1 DEF RoundOK, Quiet
  <2>4. EntryOK(n, "pend_hold_ls", reached) /\ "pend_hold_ls" \notin FinalSide
    BY <2>1 DEF EntryOK, Triggers, FinalSide
  <2> QED
    BY <1>2, <1>4, <1>6, <2>1, <2>2, <2>3, <2>4, MoveStep
<1>10. CASE DelayOrdered(n)
  <2> DEFINE X == InOld(Rep(n))
             l == "maybe_final_ordered_ls"
  <2>1. /\ Kind(n) = "ordered" /\ ~do_ordered /\ Relocate(X, todo, pend, [list EXCEPT ![n] = l])
        /\ pc' = pc /\ count' = count
    BY <1>10 DEF DelayOrdered
  <2>2. X \in SUBSET Objects
    BY <1>1, <1>4, HeapSets
  <2>3. X \subseteq heap.refs[Rep(n)] /\ (Rep(n) \in Ephemerons => X = {})
    BY DEF InOld
  <2>4. Rep(n) \in Ephemerons \cup reached \cup X \/ heap.refs[Rep(n)] \subseteq reached \cup X
    BY DEF InOld
  <2>5. EntryOK(n, l, reached \cup X)
    BY <1>5 DEF EntryOK, Triggers, HoldSide
  <2>6. Counted'
    <3>1. \A m \in Entries :
            /\ list[m] \in {"delivered", "dropped"} => list'[m] \in {"delivered", "dropped"}
            /\ list'[m] = "delivered" => list[m] = "delivered"
      <4>1. list' = Rechecked([list EXCEPT ![n] = l], Pulled(X))
        BY <2>1 DEF Relocate
      <4>2. \A m \in Entries : list'[m] # [list EXCEPT ![n] = l][m] => list'[m] \in Rechecks
                                  /\ [list EXCEPT ![n] = l][m] \in Triggers
        BY <4>1, RecheckedIs DEF Rechecks, Triggers
      <4> QED
        BY <1>4, <1>6, <4>2 DEF Rechecks, Triggers
    <3> QED
      BY <1>1, <1>2, <2>1, <3>1, CountedStep
  <2>7. \A S \in SUBSET Objects : reached \subseteq S /\ ClosedWithGuardians(S)' => X \subseteq S
    <3>1. ASSUME NEW S \in SUBSET Objects, reached \subseteq S, ClosedWithGuardians(S)' PROVE X \subseteq S
      <4>1. Tconc(n)' \in S /\ Kind(n)' = "ordered" /\ Rep(n)' = Rep(n)
        BY <1>2, <1>5, <2>1, <3>1, SameEntry
      <4>2. Closed(S) /\ Rep(n) \in S
        BY <1>2, <1>4, <3>1, <4>1, SameClosed DEF ClosedWithGuardians
      <4>3. Rep(n) \notin Ephemerons => heap.refs[Rep(n)] \subseteq S
        BY <4>2 DEF Closed, Children
      <4> QED
        BY <2>3, <4>3
    <3> QED
      BY <3>1
  <2>8. \A S \in SUBSET Objects : reached \subseteq S /\ ClosedOrdered(S)' => X \subseteq S
    <3>1. ASSUME NEW S \in SUBSET Objects, reached \subseteq S, ClosedOrdered(S)' PROVE X \subseteq S
      <4>1. Tconc(n)' \in S /\ Kind(n)' = "ordered" /\ Rep(n)' = Rep(n)
        BY <1>2, <1>5, <2>1, <3>1, SameEntry
      <4>2. heap'.refs[Rep(n)'] \subseteq S
        BY <1>4, <3>1, <4>1 DEF ClosedOrdered
      <4> QED
        BY <1>2, <2>3, <4>1, <4>2
    <3> QED
      BY <3>1
  <2>9. l \in {"maybe_final_ordered_ls", "delivered", "held"} /\ l = "maybe_final_ordered_ls"
    OBVIOUS
  <2> HIDE DEF X, l
  <2> QED
    BY <1>2, <1>4, <1>5, <2>1, <2>2, <2>4, <2>5, <2>6, <2>7, <2>8, <2>9, ReachStep
<1>11. CASE SweepForwarded(n)
  <2>1. /\ pc' = "aborted" /\ list' = list /\ count' = count
        /\ reached' = reached /\ todo' = todo /\ pend' = pend /\ trig' = trig
    BY <1>11 DEF SweepForwarded
  <2>2. RoundOK'
    BY <2>1 DEF RoundOK, Quiet
  <2> QED
    BY <1>2, <1>6, <2>1, <2>2, MoveStep
<1>12. CASE Deliver(n)
  <2> DEFINE X == {Represents(n)}
             l == "delivered"
  <2>1. /\ Kind(n) = "ordered" => do_ordered
        /\ Kind(n) = "ftype" => count <= 1
        /\ count' = IF Kind(n) = "ftype" THEN count - 1 ELSE count
        /\ Relocate(X, todo, pend, [list EXCEPT ![n] = l]) /\ pc' = pc
    BY <1>12 DEF Deliver
  <2>2. X \in SUBSET Objects
    BY <1>1, <1>4, HeapSets
  <2>3. /\ list'[n] = "delivered"
        /\ \A m \in Entries : m # n => /\ list'[m] = "delivered" <=> list[m] = "delivered"
                                       /\ list'[m] = "dropped" <=> list[m] = "dropped"
    <3>1. list' = Rechecked([list EXCEPT ![n] = l], Pulled(X))
      BY <2>1 DEF Relocate
    <3>2. \A m \in Entries : list'[m] # [list EXCEPT ![n] = l][m] =>
             list'[m] \in Rechecks /\ [list EXCEPT ![n] = l][m] \in Triggers
      BY <3>1, RecheckedIs DEF Rechecks, Triggers
    <3> QED
      BY <1>4, <1>6, <3>2 DEF Rechecks, Triggers
  <2>4. EntryOK(n, l, reached \cup X)
    BY <1>5 DEF EntryOK, Triggers, HoldSide
  <2>5. Counted'
    <3>1. CASE Kind(n) = "ftype"
      BY <3>1, <1>1, <1>2, <1>4, <2>1, <2>3, CountedDown
    <3>2. CASE Kind(n) # "ftype"
      BY <3>2, <1>1, <1>2, <1>4, <2>1, <2>3, CountedStep
    <3> QED
      BY <3>1, <3>2
  <2>6. \A S \in SUBSET Objects : reached \subseteq S /\ ClosedWithGuardians(S)' => X \subseteq S
    <3>1. ASSUME NEW S \in SUBSET Objects, reached \subseteq S, ClosedWithGuardians(S)' PROVE X \subseteq S
      <4>1. IF Kind(n)' = "ftype" THEN list'[n] = "delivered" => Obj(n)' \in S ELSE Rep(n)' \in S
        <5>1. Tconc(n)' \in S
          BY <1>2, <1>5, <3>1, SameEntry
        <5> QED
          BY <1>4, <3>1, <5>1 DEF ClosedWithGuardians
      <4> QED
        BY <1>2, <2>3, <4>1, SameEntry DEF Represents
    <3> QED
      BY <3>1
  <2>7. ~do_ordered => \A S \in SUBSET Objects : reached \subseteq S /\ ClosedOrdered(S)' => X \subseteq S
    <3>1. ASSUME ~do_ordered, NEW S \in SUBSET Objects, reached \subseteq S, ClosedOrdered(S)' PROVE X \subseteq S
      <4>1. Tconc(n)' \in S /\ Kind(n)' = Kind(n) /\ Kind(n) \in {"unordered", "ftype"}
        BY <1>2, <1>5, <1>7, <2>1, <3>1, SameEntry DEF Kinds
      <4>2. CASE Kind(n) = "unordered"
        <5>1. Rep(n)' \in S
          BY <1>4, <3>1, <4>1, <4>2 DEF ClosedOrdered
        <5> QED
          BY <5>1, <4>2, <1>2, SameEntry DEF Represents
      <4>3. CASE Kind(n) = "ftype"
        <5>1. Obj(n)' \in S
          BY <1>4, <2>3, <3>1, <4>1, <4>3 DEF ClosedOrdered
        <5> QED
          BY <5>1, <4>3, <1>2, SameEntry DEF Represents
      <4> QED
        BY <4>1, <4>2, <4>3
    <3> QED
      BY <3>1
  <2>8. \A R \in SUBSET Objects : do_ordered /\ NoLateGuardian /\ Settled(R) =>
            /\ \A x \in X, m \in Entries : Tconc(m) \in From({x}) => Tconc(m) \in R
            /\ SettledEntry(n, l, R)
    <3>1. ASSUME NEW R \in SUBSET Objects, do_ordered, NoLateGuardian, Settled(R)
          PROVE  /\ \A m \in Entries : Tconc(m) \in From({Represents(n)}) => Tconc(m) \in R
                 /\ SettledEntry(n, l, R)
      <4>1. Tconc(n) \in R /\ SettledEntry(n, "final_ls", R)
        BY <1>1, <1>4, <1>5, <3>1, SettledTconc DEF Settled
      <4>2. Kind(n) = "ordered" /\ (Rep(n) \in Ephemerons \/ heap.refs[Rep(n)] \subseteq R) /\ Obj(n) \notin R
        BY <4>1 DEF SettledEntry
      <4>3. Represents(n) = Rep(n) /\ ClosedStrongly(R)
        BY <3>1, <4>2 DEF Represents, Settled
      <4>4. From({Rep(n)}) \subseteq {Rep(n)} \cup R
        BY <1>7, <4>2, <4>3, FromRep
      <4>5. \A m \in Entries : Rep(n) # Tconc(m)
        BY <1>4, <3>1, <4>2 DEF NoLateGuardian
      <4>6. SettledEntry(n, l, R)
        BY <4>2 DEF SettledEntry, Triggers, Rechecks
      <4> QED
        BY <4>3, <4>4, <4>5, <4>6
    <3> QED
      BY <3>1
  <2>9. l \in {"maybe_final_ordered_ls", "delivered", "held"} /\ l = "delivered"
    OBVIOUS
  <2> HIDE DEF X, l
  <2> QED
    BY <1>2, <1>4, <1>5, <2>1, <2>2, <2>4, <2>5, <2>6, <2>7, <2>8, <2>9, ReachStep
<1> QED
  BY <1>3, <1>8, <1>9, <1>10, <1>11, <1>12
LEMMA HoldStep == IInv /\ Hold => IInv'
<1> SUFFICES ASSUME IInv, Hold PROVE IInv'
  OBVIOUS
<1>1. /\ heap \in Heaps /\ TypeOK /\ Traced /\ Listed /\ RoundOK /\ Within /\ Sides /\ Counted
      /\ OrderedWithin /\ Delayed /\ OrderedSettled
  BY DEF IInv
<1>2. /\ pc = "hold" /\ pc' = pc /\ heap' = heap /\ do_ordered' = do_ordered
      /\ broken' = broken /\ count' = count
  BY DEF Hold
<1>3. PICK n \in On("pend_hold_ls") :
        IF Tconc(n) \in reached
        THEN /\ Relocate(Holds(n), todo, pend, [list EXCEPT ![n] = "held"])
             /\ relocate_rep' = TRUE
        ELSE /\ Move(n, "trigger_hold")
             /\ UNCHANGED <<reached, todo, pend, trig, relocate_rep>>
  BY DEF Hold
<1>4. n \in Entries /\ list[n] = "pend_hold_ls" /\ list \in [Entries -> Lists]
      /\ broken' \subseteq reached /\ relocate_rep \in BOOLEAN
  BY <1>1, <1>2, <1>3 DEF On, TypeOK
<1>5. Obj(n) \in reached /\ Obj(n) \in Objects /\ Rep(n) \in Objects /\ Kind(n) \in Kinds
  BY <1>1, <1>4, HeapFacts DEF Listed, EntryOK, HoldSide
<1>6. CASE Tconc(n) \in reached
  <2> DEFINE X == Holds(n)
             l == "held"
  <2>1. Relocate(X, todo, pend, [list EXCEPT ![n] = l]) /\ relocate_rep' = TRUE
    BY <1>3, <1>6
  <2>2. X \in SUBSET Objects /\ X = IF Kind(n) = "ftype" THEN {} ELSE {Rep(n)}
    BY <1>1, <1>4, HeapSets DEF Holds
  <2>3. EntryOK(n, l, reached \cup X)
    BY <1>5, <1>6 DEF EntryOK, Triggers
  <2>4. Counted'
    <3>1. list' = Rechecked([list EXCEPT ![n] = l], Pulled(X))
      BY <2>1 DEF Relocate
    <3>2. \A m \in Entries : list'[m] # [list EXCEPT ![n] = l][m] =>
             list'[m] \in Rechecks /\ [list EXCEPT ![n] = l][m] \in Triggers
      BY <3>1, RecheckedIs DEF Rechecks, Triggers
    <3>3. \A m \in Entries :
            /\ list[m] \in {"delivered", "dropped"} => list'[m] \in {"delivered", "dropped"}
            /\ list'[m] = "delivered" => list[m] = "delivered"
      BY <1>4, <3>2 DEF Rechecks, Triggers
    <3> QED
      BY <1>1, <1>2, <3>3, CountedStep
  <2>5. \A S \in SUBSET Objects : reached \subseteq S /\ ClosedWithGuardians(S)' => X \subseteq S
    <3>1. ASSUME NEW S \in SUBSET Objects, reached \subseteq S, ClosedWithGuardians(S)' PROVE X \subseteq S
      <4>1. Tconc(n)' \in S
        BY <1>2, <1>6, <3>1, SameEntry
      <4>2. Kind(n)' # "ftype" => Rep(n)' \in S
        BY <1>4, <3>1, <4>1 DEF ClosedWithGuardians
      <4> QED
        BY <1>2, <2>2, <4>2, SameEntry
    <3> QED
      BY <3>1
  <2>6. \A S \in SUBSET Objects : reached \subseteq S /\ ClosedOrdered(S)' => X \subseteq S
    <3>1. ASSUME NEW S \in SUBSET Objects, reached \subseteq S, ClosedOrdered(S)', Kind(n) # "ftype"
          PROVE  Rep(n) \in S
      <4>1. Tconc(n)' \in S /\ Obj(n)' \in S /\ Kind(n)' = Kind(n) /\ Rep(n)' = Rep(n)
        BY <1>2, <1>5, <1>6, <3>1, SameEntry
      <4>2. CASE Kind(n) = "unordered"
        BY <1>4, <3>1, <4>1, <4>2 DEF ClosedOrdered
      <4>3. CASE Kind(n) = "ordered"
        BY <1>4, <3>1, <4>1, <4>3 DEF ClosedOrdered
      <4> QED
        BY <1>5, <3>1, <4>2, <4>3 DEF Kinds
    <3> QED
      BY <2>2, <3>1
  <2>7. \A R \in SUBSET Objects : do_ordered /\ NoLateGuardian /\ Settled(R) =>
            /\ \A x \in X, m \in Entries : Tconc(m) \in From({x}) => Tconc(m) \in R
            /\ SettledEntry(n, l, R)
    <3>1. ASSUME NEW R \in SUBSET Objects, NoLateGuardian, Settled(R)
          PROVE  /\ \A m \in Entries : Tconc(m) \in From({Rep(n)}) => Tconc(m) \in R
                 /\ SettledEntry(n, l, R)
      <4>1. Tconc(n) \in R /\ SettledEntry(n, "pend_hold_ls", R) /\ ClosedStrongly(R)
        BY <1>1, <1>4, <1>6, <3>1, SettledTconc DEF Settled
      <4>2. Kind(n) = "ordered" /\ (Rep(n) \in Ephemerons \/ heap.refs[Rep(n)] \subseteq R)
        BY <4>1 DEF SettledEntry
      <4>3. From({Rep(n)}) \subseteq {Rep(n)} \cup R
        BY <1>5, <4>1, <4>2, FromRep
      <4>4. \A m \in Entries : Rep(n) # Tconc(m)
        BY <1>4, <3>1, <4>2 DEF NoLateGuardian
      <4>5. SettledEntry(n, l, R)
        BY DEF SettledEntry, Triggers, Rechecks
      <4> QED
        BY <4>3, <4>4, <4>5
    <3> QED
      BY <2>2, <3>1
  <2>8. l \in {"maybe_final_ordered_ls", "delivered", "held"} /\ l = "held"
    OBVIOUS
  <2> HIDE DEF X, l
  <2> QED
    BY <1>2, <1>4, <1>6, <2>1, <2>2, <2>3, <2>4, <2>5, <2>6, <2>7, <2>8, ReachStep
<1>7. CASE Tconc(n) \notin reached
  <2> DEFINE f == [list EXCEPT ![n] = "trigger_hold"]
  <2>1. /\ list' = f /\ relocate_rep' = relocate_rep
        /\ reached' = reached /\ todo' = todo /\ pend' = pend /\ trig' = trig
    BY <1>3, <1>7 DEF Move
  <2>2. f \in [Entries -> Lists] /\ f[n] = "trigger_hold" /\ \A m \in Entries : m # n => f[m] = list[m]
    BY <1>4 DEF Lists
  <2> HIDE DEF f
  <2>3. RoundOK'
    <3>1. On("final_ls")' = {}
      BY <1>1, <1>2, <2>1, <2>2 DEF RoundOK, On
    <3>2. Quiet' => Quiet /\ Swept'
      BY <1>1, <1>2, <2>1 DEF RoundOK, Quiet, Swept
    <3>3. Quiet => \A m \in Entries :
             list'[m] \notin Rechecks /\ (list'[m] = "pend_final_ls" => Tconc(m) \notin reached)
      BY <1>1, <2>1, <2>2 DEF RoundOK, Rechecks
    <3> QED
      BY <1>2, <2>1, <3>1, <3>2, <3>3, SameEntry DEF RoundOK
  <2>4. EntryOK(n, "trigger_hold", reached)
    BY <1>5, <1>7 DEF EntryOK, Triggers
  <2>5. \A R \in SUBSET Objects : Settled(R) => SettledEntry(n, "trigger_hold", R)
    BY <1>7 DEF Settled, SettledEntry
  <2>6. "trigger_hold" \notin FinalSide /\ list[n] \in HoldSide
    BY <1>4 DEF FinalSide, HoldSide
  <2> QED
    BY <1>2, <1>4, <2>1, <2>2, <2>3, <2>4, <2>5, <2>6, MoveStep
<1> QED
  BY <1>6, <1>7

LEMMA StutterStep == IInv /\ UNCHANGED vars => IInv'
<1> SUFFICES ASSUME IInv, UNCHANGED vars PROVE IInv'
  OBVIOUS
<1>1. /\ heap \in Heaps /\ TypeOK /\ Traced /\ Listed /\ RoundOK /\ Within /\ Sides /\ Counted
      /\ OrderedWithin /\ Delayed /\ OrderedSettled
  BY DEF IInv
<1>2. /\ heap' = heap /\ pc' = pc /\ do_ordered' = do_ordered /\ relocate_rep' = relocate_rep
      /\ reached' = reached /\ todo' = todo /\ pend' = pend /\ trig' = trig /\ broken' = broken
      /\ list' = list /\ count' = count
  BY DEF vars, control
<1>3. list \in [Entries -> Lists] /\ broken' \subseteq reached /\ relocate_rep' \in BOOLEAN
  BY <1>1, <1>2 DEF TypeOK
<1>4. RoundOK'
  BY <1>1, <1>2, SameEntry DEF RoundOK, Quiet, Swept, On, Bwp
<1>5. CASE pc # "first"
  BY <1>1, <1>2, <1>3, <1>4, <1>5, MoveStep DEF TypeOK
<1>6. CASE pc = "first"
  <2>1. TypeOK' /\ Traced' /\ Listed' /\ Delayed'
    BY <1>1, <1>2, SameEntry DEF TypeOK, Traced, Listed, Delayed, EntryOK, Ephemerons
  <2>2. reached' = reached \cup {}
    BY <1>2
  <2>3. Within'
    BY <1>1, <1>2, <2>2, WithinStep
  <2>4. OrderedWithin'
    BY <1>1, <1>2, <2>2, OrderedWithinStep
  <2>5. Sides'
    BY <1>1, <1>2, SameEntry, SameAccessible, SameClosed DEF Sides
  <2>6. Counted'
    BY <1>1, <1>2, CountedStep
  <2>7. OrderedSettled'
    BY <1>1, <1>2, <1>6 DEF RoundOK, OrderedSettled
  <2> QED
    BY <1>1, <1>2, <1>4, <2>1, <2>3, <2>4, <2>5, <2>6, <2>7 DEF IInv
<1> QED
  BY <1>5, <1>6

LEMMA NextIInv == IInv /\ [Next]_vars => IInv'
<1> SUFFICES ASSUME IInv, [Next]_vars PROVE IInv'
  OBVIOUS
<1>1. CASE Finished
  BY <1>1, StutterStep DEF Finished
<1> QED
  BY <1>1, SweepStep, CheckEphemeronStep, PartitionStep, LoopStep, FinalStep, FinalDoneStep, HoldStep,
     SwitchStep, AgainStep, ResortStep, BreakStep, StutterStep DEF Next

LEMMA Inductive == Spec => []IInv
  BY InitIInv, NextIInv, PTL DEF Spec
-----------------------------------------------------------------------------
(* The end of the collection. *)

LEMMA AtDone ==
    ASSUME IInv, Done
    PROVE  /\ todo = {} /\ pend = {} /\ broken = Bwp
           /\ \A n \in Entries : Tconc(n) \in reached <=> list[n] \in {"held", "delivered", "dropped"}
<1>1. RoundOK /\ Listed /\ TypeOK
  BY DEF IInv
<1>2. pc = "done" /\ ~relocate_rep
  BY <1>1 DEF Done, RoundOK
<1>3. /\ Swept /\ broken = Bwp
      /\ \A n \in Entries : list[n] \notin Rechecks /\ (list[n] = "pend_final_ls" => Tconc(n) \notin reached)
  BY <1>1, <1>2 DEF RoundOK, Quiet
<1>4. \A n \in Entries : list[n] \notin {"final_ls", "pend_hold_ls", "maybe_final_ordered_ls", "new"}
  BY <1>1, <1>2 DEF RoundOK, On, Listed
<1>5. \A n \in Entries : EntryOK(n, list[n], reached) /\ list[n] \in Lists
  BY <1>1 DEF Listed, TypeOK
<1>6. \A n \in Entries : Tconc(n) \in reached => list[n] \in {"held", "delivered", "dropped"}
  BY <1>3, <1>4, <1>5 DEF EntryOK, Triggers, Rechecks, Lists
<1>7. \A n \in Entries : list[n] \in {"held", "delivered", "dropped"} => Tconc(n) \in reached
  BY <1>5 DEF EntryOK
<1> QED
  BY <1>3, <1>6, <1>7 DEF Swept

\* What the collection retains is exactly what the program can get at and what
\* the guardians that are retained hold: the triggers of a guardian's segment
\* suffice to find every entry whose guardian is reached late
\* (add_trigger_guardians_to_recheck and the loop of gc.c:1373-1557), and nothing
\* is relocated that need not be.
THEOREM RetentionExact == Spec => []RetainedExactly
<1>1. IInv => RetainedExactly
  <2> SUFFICES ASSUME IInv, Done PROVE reached = Least(heap.roots, ClosedWithGuardians)
    BY DEF RetainedExactly
  <2>1. todo = {} /\ pend = {}
    BY AtDone
  <2>2. \A n \in Entries : Tconc(n) \in reached => list[n] \in {"held", "delivered", "dropped"}
    BY AtDone
  <2>3. Closed(reached)
    BY <2>1 DEF IInv, Traced, Closed, Children
  <2>4. \A n \in Entries : EntryOK(n, list[n], reached)
    BY DEF IInv, Listed
  <2>5. \A n \in Entries : Tconc(n) \in reached =>
            IF Kind(n) = "ftype" THEN list[n] = "delivered" => Obj(n) \in reached
            ELSE Rep(n) \in reached
    BY <2>2, <2>4 DEF EntryOK, Holds, Represents
  <2>6. ClosedWithGuardians(reached)
    BY <2>3, <2>5 DEF ClosedWithGuardians
  <2> QED
    BY <2>6, RetainedIs
<1> QED
  BY <1>1, Inductive, PTL

\* A retained weak pair or ephemeron is broken if and only if what it refers to
\* weakly is not retained, and no ephemeron is left unchecked
\* (finish_pending_ephemerons, resweep_weak_pairs).
THEOREM BrokenCorrectly == Spec => []BrokenExactly
<1>1. IInv => BrokenExactly
  <2> SUFFICES ASSUME IInv, Done
               PROVE  /\ pend = {}
                      /\ \A e \in Ephemerons \cap reached : e \in broken <=> heap.key[e] \notin reached
                      /\ \A w \in DOMAIN heap.weak \cap reached : w \in broken <=> heap.weak[w] \notin reached
    BY DEF BrokenExactly
  <2>1. todo = {} /\ pend = {} /\ broken = Bwp
    BY AtDone
  <2>2. DOMAIN heap.weak \cap Ephemerons = {} /\ trig \subseteq Ephemerons
    BY HeapFacts DEF IInv, TypeOK
  <2>3. \A e \in Ephemerons \cap reached : e \in trig <=> heap.key[e] \notin reached
    BY <2>1 DEF IInv, Traced
  <2> QED
    BY <2>1, <2>2, <2>3 DEF Bwp
<1> QED
  BY <1>1, Inductive, PTL

\* What each list of entries means at the end: unordered entries and ftype pointers
\* are told apart by what is accessible without guardians and by the reference count.
LEMMA UnorderedSorted == IInv => UnorderedExactly
<1> SUFFICES ASSUME IInv, Done, NEW n \in Entries, Kind(n) # "ordered"
             PROVE  LET inaccessible == Obj(n) \notin Accessible /\ Tconc(n) \in reached
                    IN  /\ Delivered(n) => inaccessible
                        /\ inaccessible => Delivered(n) \/ (Kind(n) = "ftype" /\ list[n] = "dropped")
                        /\ Held(n) <=> Obj(n) \in Accessible /\ Tconc(n) \in reached
                        /\ Kind(n) = "ftype" /\ Delivered(n) => count = 0
  BY DEF UnorderedExactly
<1>1. Tconc(n) \in reached <=> list[n] \in {"held", "delivered", "dropped"}
  BY AtDone
<1>2. list[n] = "held" => Obj(n) \in Accessible
  BY DEF IInv, Sides, HoldSide
<1>3. list[n] \in {"delivered", "dropped"} => Obj(n) \notin Accessible
  BY DEF IInv, Sides, FinalSide
<1>4. list[n] = "dropped" => Kind(n) = "ftype"
  BY DEF IInv, Listed, EntryOK
<1>5. Kind(n) = "ftype" /\ Delivered(n) => count = 0
  BY DEF IInv, Counted
<1> QED
  BY <1>1, <1>2, <1>3, <1>4, <1>5 DEF Delivered, Held

\* Ordered entries that are delivered are led to by nothing that is delivered.
LEMMA OrderedDelivered == IInv => OrderedLast
<1> SUFFICES ASSUME IInv, NoLateGuardian, NEW n \in Entries, Kind(n) = "ordered", Delivered(n)
             PROVE  /\ Obj(n) \notin Accessible
                    /\ \A m \in Entries : Delivered(m) =>
                        Obj(n) \notin From(IF Kind(m) = "ordered" THEN {Rep(m)} \ {Obj(n)}
                                           ELSE {Represents(m)})
  BY DEF OrderedLast
<1>1. Obj(n) \notin Accessible
  BY DEF IInv, Sides, FinalSide, Delivered
<1>2. do_ordered
  BY DEF IInv, Listed, Delivered
<1>3. PICK R \in SUBSET Objects : Settled(R)
  BY <1>2 DEF IInv, OrderedSettled
<1>4. Obj(n) \notin R /\ ClosedStrongly(R)
  BY <1>3 DEF Settled, SettledEntry, Delivered
<1>5. ASSUME NEW m \in Entries, Delivered(m), Kind(m) = "ordered"
      PROVE  Obj(n) \notin From({Rep(m)} \ {Obj(n)})
  <2>1. Rep(m) \in Objects
    BY HeapFacts DEF IInv
  <2>2. Rep(m) \in Ephemerons \/ heap.refs[Rep(m)] \subseteq R
    BY <1>3, <1>5 DEF Settled, SettledEntry, Delivered
  <2>3. CASE Rep(m) = Obj(n)
    <3>1. {Rep(m)} \ {Obj(n)} \in SUBSET R
      BY <2>3
    <3> QED
      BY <3>1, <1>4, FromWithin
  <2>4. CASE Rep(m) # Obj(n)
    <3>1. {Rep(m)} \ {Obj(n)} = {Rep(m)}
      BY <2>4
    <3>2. From({Rep(m)}) \subseteq {Rep(m)} \cup R
      BY <1>4, <2>1, <2>2, FromRep
    <3> QED
      BY <3>1, <3>2, <2>4, <1>4
  <2> QED
    BY <2>3, <2>4
<1>6. ASSUME NEW m \in Entries, Delivered(m), Kind(m) # "ordered"
      PROVE  Obj(n) \notin From({Represents(m)})
  <2>1. {Represents(m)} \in SUBSET R
    BY <1>3, <1>6 DEF Settled, SettledEntry, Delivered
  <2> QED
    BY <2>1, <1>4, FromWithin
<1> QED
  BY <1>1, <1>5, <1>6

LEMMA OrderedKept == IInv => OrderedNotForgotten
<1> SUFFICES ASSUME IInv, Done, NEW n \in Entries, Kind(n) = "ordered", Tconc(n) \in reached
             PROVE  /\ Delivered(n) \/ Held(n)
                    /\ Held(n) => Obj(n) \in Least(heap.roots, ClosedOrdered)
  BY DEF OrderedNotForgotten
<1>1. list[n] \in {"held", "delivered", "dropped"}
  BY AtDone
<1>2. list[n] = "dropped" => Kind(n) = "ftype"
  BY DEF IInv, Listed, EntryOK
<1>3. Obj(n) \in Objects
  BY HeapFacts DEF IInv
<1>4. list[n] = "held" => \A S \in SUBSET Objects : heap.roots \subseteq S /\ ClosedOrdered(S) => Obj(n) \in S
  BY DEF IInv, OrderedWithin, HoldSide
<1> QED
  BY <1>1, <1>2, <1>3, <1>4 DEF Delivered, Held, Least

\* Each guardian entry ends on the list that the heap alone determines: unordered
\* ones by what is accessible, the last ftype pointer of an address only, and
\* ordered ones only when nothing else that is delivered leads to their object,
\* whatever the order in which gc.c handles entries and sweeps objects.
THEOREM EntriesCorrect == Spec => []EntriesInv
<1>1. IInv => EntriesInv
  BY UnorderedSorted, OrderedDelivered, OrderedKept DEF EntriesInv, IInv
<1> QED
  BY <1>1, Inductive, PTL
=============================================================================
