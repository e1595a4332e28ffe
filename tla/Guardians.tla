----------------------------- MODULE Guardians -----------------------------
(***************************************************************************)
(* Guardians, ephemerons and weak pairs at the end of a collection of      *)
(* Chez Scheme (c/gc.c): what happens after the sweepers are done, when    *)
(* the collecting thread decides alone which guarded objects are           *)
(* delivered to their guardians' tconcs, which entries are kept for a      *)
(* later collection, and which weak references are broken.                 *)
(*                                                                         *)
(* Every object here is in a generation that is collected; what the roots  *)
(* and older generations refer to is heap.roots.  "Reached" is forwarded   *)
(* or marked.  A list of entries is the set of the entries on it: a step   *)
(* takes any of them, so the results do not depend on the lists' order.    *)
(* Entries for static objects, which are only dropped, are left out.       *)
(***************************************************************************)
EXTENDS Integers, FiniteSets

CONSTANTS
    Objects,
    Typed,     \* objects that start with a type word (all but pairs)
    Segment,   \* the segment of each object
    Entries,   \* guardian entries
    Heaps      \* possible heaps, see below

\* A heap h has: h.roots; h.refs[o], what a plain object refers to (the cdr, of
\* a weak pair); h.key[e] and h.val[e], of an ephemeron; h.weak[w], the car of
\* a weak pair; h.entry[n], with fields obj, rep, tconc and kind; h.count, the
\* number of references counted at the address that the ftype pointers hold.
Kinds == {"unordered", "ordered", "ftype"}

ASSUME HeapAssumption ==
    /\ IsFiniteSet(Entries)
    /\ \A h \in Heaps :
        /\ h.roots \subseteq Objects
        /\ h.refs \in [Objects -> SUBSET Objects]
        /\ DOMAIN h.key \subseteq Objects
        /\ \A e \in DOMAIN h.key : h.key[e] \in Objects /\ h.val[e] \in Objects
        /\ DOMAIN h.weak \cap DOMAIN h.key = {}
        /\ \A n \in Entries :
            /\ h.entry[n].obj \in Objects /\ h.entry[n].rep \in Objects
            /\ h.entry[n].kind \in Kinds
        /\ h.count \in Nat
        /\ h.count >= Cardinality({n \in Entries : h.entry[n].kind = "ftype"})

VARIABLES
    heap,
    pc,
    reached,      \* objects that are forwarded or marked
    todo,         \* those that have not been swept since
    pend,         \* pending_ephemerons
    trig,         \* ephemerons among trigger_ephemerons of their key's segment
    broken,       \* ephemerons and weak pairs that were set to #!bwp
    list,         \* the list each entry is on
    do_ordered,
    relocate_rep,
    count

control == <<pc, do_ordered, relocate_rep>>
vars == <<heap, control, reached, todo, pend, trig, broken, list, count>>

Lists == {"new", "pend_hold_ls", "final_ls", "pend_final_ls", "maybe_final_ordered_ls",
          "trigger_hold", "trigger_final", "recheck_hold", "recheck_final",
          "held", "delivered", "dropped"}

Ephemerons == DOMAIN heap.key
On(l) == {n \in Entries : list[n] = l}
Obj(n) == heap.entry[n].obj
Rep(n) == heap.entry[n].rep
Tconc(n) == heap.entry[n].tconc
Kind(n) == heap.entry[n].kind
-----------------------------------------------------------------------------
(* Sweeping. *)

\* The segments whose triggers are pulled when the objects X are reached.
Pulled(X) == {Segment[x] : x \in X \ reached}

\* Fault: entries are left on the segment's list.
RecheckedNever(lst, S) == lst

\* add_trigger_guardians_to_recheck: the lists, given the lists lst, after the
\* triggers of the segments S were pulled.
Rechecked(lst, S) ==
    [n \in Entries |->
        CASE lst[n] = "trigger_hold" /\ Segment[Tconc(n)] \in S -> "recheck_hold"
          [] lst[n] = "trigger_final" /\ Segment[Tconc(n)] \in S -> "recheck_final"
          [] OTHER -> lst[n]]

\* relocate_pure, relocate_impure, copy, mark: the objects X are reached.  D is
\* what is to be swept, P the pending ephemerons and lst the lists of entries,
\* but for that.
Relocate(X, D, P, lst) ==
    LET S == Pulled(X)
        triggered == {e \in trig : Segment[heap.key[e]] \in S}
    IN  /\ reached' = reached \cup X
        /\ todo' = D \cup (X \ reached)
        /\ pend' = P \cup triggered
        /\ trig' = trig \ triggered
        /\ list' = Rechecked(lst, S)

Sweeping == pc \in {"first", "sweep"}

\* sweep_generation_pass: sweep something that was copied or marked; an
\* ephemeron becomes pending.
Sweep ==
    /\ Sweeping
    /\ \E o \in todo :
        LET X == IF o \in Ephemerons THEN {} ELSE heap.refs[o]
        IN  Relocate(X, todo \ {o}, pend \cup ({o} \cap Ephemerons), list)
    /\ UNCHANGED <<heap, control, broken, count>>

\* check_pending_ephemerons, for one of them: check_ephemeron.
CheckEphemeron ==
    /\ Sweeping /\ todo = {}
    /\ \E e \in pend :
        IF heap.key[e] \in reached
        THEN Relocate({heap.val[e]}, todo, pend \ {e}, list)
        ELSE /\ pend' = pend \ {e}
             /\ trig' = trig \cup {e}
             /\ UNCHANGED <<reached, todo, list>>
    /\ UNCHANGED <<heap, control, broken, count>>

Swept == todo = {} /\ pend = {}
-----------------------------------------------------------------------------
(* The guardian phase. *)

Move(n, l) == list' = [list EXCEPT ![n] = l]

\* partition_guardians.
Partitioned(n) ==
    IF Obj(n) \in reached THEN "pend_hold_ls"
    ELSE IF Tconc(n) \in reached THEN "final_ls" ELSE "pend_final_ls"

Partition ==
    /\ pc = "first" /\ Swept
    /\ list' = [n \in Entries |-> Partitioned(n)]
    /\ pc' = "loop"
    /\ UNCHANGED <<heap, do_ordered, relocate_rep, reached, todo, pend, trig, broken, count>>

\* Fault: relocate_rep is not reset.
LoopKeeps ==
    /\ pc = "loop"
    /\ relocate_rep' = (relocate_rep \/ On("final_ls") # {})
    /\ pc' = "final"
    /\ UNCHANGED <<heap, do_ordered, reached, todo, pend, trig, broken, list, count>>

\* The head of the loop.
Loop ==
    /\ pc = "loop"
    /\ relocate_rep' = (On("final_ls") # {})
    /\ pc' = "final"
    /\ UNCHANGED <<heap, do_ordered, reached, todo, pend, trig, broken, list, count>>

\* The ftype pointer is not the last for its address: it is only uncounted.
Uncount(n) ==
    /\ Kind(n) = "ftype" /\ count > 1
    /\ count' = count - 1
    /\ Move(n, "dropped")
    /\ UNCHANGED <<pc, reached, todo, pend, trig>>

\* An ordered entry whose object has been reached meanwhile is held.
HoldOrdered(n) ==
    /\ Kind(n) = "ordered" /\ ~do_ordered /\ Obj(n) \in reached
    /\ Move(n, "pend_hold_ls")
    /\ UNCHANGED <<pc, reached, todo, pend, trig, count>>

\* Fault: the representative is not swept.
InOldNothing(o) == {}

\* What sweep_in_old reaches: what the object refers to, or the object itself
\* when that is one of the things.  The fields of an ephemeron are not traced,
\* and what used to be a pair's fields are the marks of its being forwarded.
InOld(o) ==
    IF o \in reached \cup Ephemerons THEN {}
    ELSE IF o \in heap.refs[o] THEN {o} ELSE heap.refs[o]

\* Another ordered entry waits for the end of the unordered ones, but what its
\* representative refers to is reached at once.
DelayOrdered(n) ==
    /\ Kind(n) = "ordered" /\ ~do_ordered /\ Obj(n) \notin reached
    /\ ~(Rep(n) \in Typed /\ Rep(n) \in reached)
    /\ Relocate(InOld(Rep(n)), todo, pend, [list EXCEPT ![n] = "maybe_final_ordered_ls"])
    /\ UNCHANGED <<pc, count>>

\* sweep_in_old meets the mark of a forwarded object in the place of a type
\* word, and gives up ("illegal typed object type").
SweepForwarded(n) ==
    /\ Kind(n) = "ordered" /\ ~do_ordered /\ Obj(n) \notin reached
    /\ Rep(n) \in Typed /\ Rep(n) \in reached
    /\ pc' = "aborted"
    /\ UNCHANGED <<reached, todo, pend, trig, list, count>>

\* The representative is relocated and added to the tconc; for an ftype
\* pointer that is the object itself.
Represents(n) == IF Kind(n) = "ftype" THEN Obj(n) ELSE Rep(n)

Deliver(n) ==
    /\ Kind(n) = "ordered" => do_ordered
    /\ Kind(n) = "ftype" => count <= 1
    /\ count' = IF Kind(n) = "ftype" THEN count - 1 ELSE count
    /\ Relocate({Represents(n)}, todo, pend, [list EXCEPT ![n] = "delivered"])
    /\ pc' = pc

Final ==
    /\ pc = "final"
    /\ \E n \in On("final_ls") :
        Uncount(n) \/ HoldOrdered(n) \/ DelayOrdered(n) \/ SweepForwarded(n) \/ Deliver(n)
    /\ UNCHANGED <<heap, do_ordered, relocate_rep, broken>>

FinalDone ==
    /\ pc = "final" /\ On("final_ls") = {}
    /\ pc' = "hold"
    /\ UNCHANGED <<heap, do_ordered, relocate_rep, reached, todo, pend, trig, broken, list, count>>

\* What holding an entry relocates: the mark of an ftype entry is not an object.
Holds(n) == IF Kind(n) = "ftype" THEN {} ELSE {Rep(n)}

\* The object of an entry is accessible: keep the entry if its tconc is, too.
Hold ==
    /\ pc = "hold"
    /\ \E n \in On("pend_hold_ls") :
        IF Tconc(n) \in reached
        THEN /\ Relocate(Holds(n), todo, pend, [list EXCEPT ![n] = "held"])
             /\ relocate_rep' = TRUE
        ELSE /\ Move(n, "trigger_hold")   \* add_pending_guardian
             /\ UNCHANGED <<reached, todo, pend, trig, relocate_rep>>
    /\ UNCHANGED <<heap, pc, do_ordered, broken, count>>

\* All unordered entries have been handled: the ordered ones that are left are
\* final unless their objects have been reached.
Ordered(n) == IF Obj(n) \in reached THEN "pend_hold_ls" ELSE "final_ls"

Switch ==
    /\ pc = "hold" /\ On("pend_hold_ls") = {}
    /\ ~relocate_rep /\ ~do_ordered /\ On("maybe_final_ordered_ls") # {}
    /\ do_ordered' = TRUE /\ relocate_rep' = TRUE
    /\ list' = [n \in Entries |-> IF list[n] = "maybe_final_ordered_ls" THEN Ordered(n) ELSE list[n]]
    /\ pc' = "sweep"
    /\ UNCHANGED <<heap, reached, todo, pend, trig, broken, count>>

\* sweep_generation follows.
Again ==
    /\ pc = "hold" /\ On("pend_hold_ls") = {} /\ relocate_rep
    /\ pc' = "sweep"
    /\ UNCHANGED <<heap, do_ordered, relocate_rep, reached, todo, pend, trig, broken, list, count>>

\* Entries to recheck and those of pend_final_ls, after the sweep.
Resorted(n) ==
    CASE list[n] = "recheck_hold" -> "pend_hold_ls"
      [] list[n] \in {"recheck_final", "pend_final_ls"} ->
            IF Tconc(n) \in reached THEN "final_ls" ELSE "trigger_final"
      [] OTHER -> list[n]

Resort ==
    /\ pc = "sweep" /\ Swept
    /\ list' = [n \in Entries |-> Resorted(n)]
    /\ pc' = "loop"
    /\ UNCHANGED <<heap, do_ordered, relocate_rep, reached, todo, pend, trig, broken, count>>

\* Fault: ephemerons are not broken.
BwpWeakOnly == {w \in DOMAIN heap.weak \cap reached : heap.weak[w] \notin reached}

\* Nothing was relocated: the loop ends, and weak pairs (resweep_weak_pairs)
\* and ephemerons (finish_pending_ephemerons) are broken.
Bwp == trig \cup {w \in DOMAIN heap.weak \cap reached : heap.weak[w] \notin reached}

Break ==
    /\ pc = "hold" /\ On("pend_hold_ls") = {} /\ ~relocate_rep
    /\ do_ordered \/ On("maybe_final_ordered_ls") = {}
    /\ pc' = "done"
    /\ broken' = Bwp
    /\ UNCHANGED <<heap, do_ordered, relocate_rep, reached, todo, pend, trig, list, count>>

Finished == pc \in {"done", "aborted"} /\ UNCHANGED vars

Init ==
    /\ heap \in Heaps
    /\ pc = "first"
    /\ reached = heap.roots /\ todo = heap.roots
    /\ pend = {} /\ trig = {} /\ broken = {}
    /\ list = [n \in Entries |-> "new"]
    /\ do_ordered = FALSE /\ relocate_rep = FALSE
    /\ count = heap.count

Next ==
    \/ Sweep \/ CheckEphemeron \/ Partition \/ Loop
    \/ Final \/ FinalDone \/ Hold \/ Switch \/ Again \/ Resort \/ Break \/ Finished

Spec == Init /\ [][Next]_vars

\* The collecting thread runs with every other thread stopped.
FairSpec == Spec /\ WF_vars(Next)
-----------------------------------------------------------------------------
(* What this phase promises, defined on the heap alone. *)

\* What the objects S keep directly.
Children(S) ==
    {heap.val[e] : e \in {e \in S \cap Ephemerons : heap.key[e] \in S}}
        \cup UNION {heap.refs[o] : o \in S \ Ephemerons}

\* The least set of objects that includes X and satisfies P.
Least(X, P(_)) ==
    {o \in Objects : \A S \in SUBSET Objects : X \subseteq S /\ P(S) => o \in S}

Closed(S) == Children(S) \subseteq S

\* What the program can get at without a guardian.
Accessible == Least(heap.roots, Closed)

\* A guardian that is kept keeps what stands for its objects.  An ftype pointer
\* is not kept by its entry unless it is delivered.
ClosedWithGuardians(S) ==
    /\ Closed(S)
    /\ \A n \in Entries : Tconc(n) \in S =>
            IF Kind(n) = "ftype" THEN list[n] = "delivered" => Obj(n) \in S
            ELSE Rep(n) \in S

\* What an object refers to, directly or not, ephemerons aside.
ClosedStrongly(S) == UNION {heap.refs[o] : o \in S \ Ephemerons} \subseteq S
From(X) == Least(X, ClosedStrongly)

\* What keeps an ordered entry's object from being delivered: the program, the
\* unordered guardians, and what the representatives of the ordered ones refer
\* to.
ClosedOrdered(S) ==
    /\ Closed(S)
    /\ \A n \in Entries : Tconc(n) \in S =>
            CASE Kind(n) = "unordered" -> Rep(n) \in S
              [] Kind(n) = "ftype" -> list[n] = "delivered" => Obj(n) \in S
              [] OTHER -> /\ Obj(n) \in S => Rep(n) \in S
                          /\ heap.refs[Rep(n)] \subseteq S

Done == pc = "done"
Delivered(n) == list[n] = "delivered"
Held(n) == list[n] = "held"

TypeOK ==
    /\ pc \in {"first", "loop", "final", "hold", "sweep", "done", "aborted"}
    /\ todo \subseteq reached /\ reached \subseteq Objects
    /\ pend \subseteq Ephemerons \cap reached
    /\ trig \subseteq Ephemerons \cap reached
    /\ broken \subseteq reached
    /\ list \in [Entries -> Lists]
    /\ do_ordered \in BOOLEAN /\ relocate_rep \in BOOLEAN
    /\ count \in Nat

\* The collection retains what the program can get at and what the guardians
\* that are themselves retained hold, and nothing else (the loop of
\* gc.c:1373-1557 with its triggers, which look at an entry again only when
\* something on its guardian's segment is reached).
RetainedExactly == Done => reached = Least(heap.roots, ClosedWithGuardians)

\* An unordered entry is delivered if and only if the program cannot get at its
\* object without a guardian and its guardian is retained, however late that is
\* found out; it is kept if the program can.  Of the ftype pointers with one
\* address only the last one is delivered.
UnorderedExactly ==
    Done => \A n \in Entries : Kind(n) # "ordered" =>
        LET inaccessible == Obj(n) \notin Accessible /\ Tconc(n) \in reached
        IN  /\ Delivered(n) => inaccessible
            /\ inaccessible => Delivered(n) \/ (Kind(n) = "ftype" /\ list[n] = "dropped")
            /\ Held(n) <=> Obj(n) \in Accessible /\ Tconc(n) \in reached
            /\ Kind(n) = "ftype" /\ Delivered(n) => count = 0

\* An ordered entry is delivered only if no representative that is delivered
\* refers to its object, and no unordered guardian holds it ("treats an object
\* as inaccessible only when it is not accessible from any representative of an
\* object that is in any usable guardian's inaccessible group",
\* csug/smgmt.stex:760), provided that no ephemeron leads to a guardian and no
\* representative of an ordered entry is one: what such a guardian delivers is
\* found out too late.
NoLateGuardian ==
    \A n \in Entries :
        /\ \A e \in Ephemerons : Tconc(n) \notin From({heap.val[e]})
        /\ \A m \in Entries : Kind(m) = "ordered" => Rep(m) # Tconc(n)

OrderedLast ==
    Done /\ NoLateGuardian =>
        \A n \in Entries : Kind(n) = "ordered" /\ Delivered(n) =>
            /\ Obj(n) \notin Accessible
            /\ \A m \in Entries : Delivered(m) =>
                Obj(n) \notin From(IF Kind(m) = "ordered" THEN {Rep(m)} \ {Obj(n)}
                                   ELSE {Represents(m)})

\* No ordered entry waits for nothing: it is kept only if the program, an
\* unordered guardian or a representative of an ordered one leads to its object.
OrderedNotForgotten ==
    Done => \A n \in Entries : Kind(n) = "ordered" /\ Tconc(n) \in reached =>
        /\ Delivered(n) \/ Held(n)
        /\ Held(n) => Obj(n) \in Least(heap.roots, ClosedOrdered)

\* A weak pair or ephemeron that is retained is broken if and only if what it
\* refers to weakly is not retained, by a guardian or otherwise: a delivered
\* object keeps its weak pairs, and finish_pending_ephemerons never meets an
\* ephemeron that was not checked ("non-empty pending list").
BrokenExactly ==
    Done =>
        /\ pend = {}
        /\ \A e \in Ephemerons \cap reached : e \in broken <=> heap.key[e] \notin reached
        /\ \A w \in DOMAIN heap.weak \cap reached : w \in broken <=> heap.weak[w] \notin reached

\* The loop ends.
Terminates == <>(pc \in {"done", "aborted"})

\* Each guardian entry ends on the list that the heap alone determines.
EntriesInv == TypeOK /\ UnorderedExactly /\ OrderedLast /\ OrderedNotForgotten
=============================================================================
