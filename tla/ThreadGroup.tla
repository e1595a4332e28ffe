---------------------------- MODULE ThreadGroup ----------------------------
(***************************************************************************)
(* Thread groups (racket/src/thread/thread-group.rkt) and how the          *)
(* scheduler chooses the next thread with them (select-thread! of          *)
(* schedule.rkt).                                                          *)
(*                                                                         *)
(* The scheduled threads of a group and its non-empty subgroups form a     *)
(* doubly linked list; chain is the rest of the list in the current round. *)
(* Adding to an empty group adds the group to its own parent, removing the *)
(* last child removes it, and selecting descends from the root: each level *)
(* is one step here, and nothing else happens before the last one, because *)
(* all three run in atomic mode.                                           *)
(***************************************************************************)
EXTENDS Integers, FiniteSets

CONSTANTS
    Members,
    Groups,
    Root,       \* root-thread-group
    Parent,     \* Parent[n]: the group of a thread or of another group
    Nil         \* #f

Nodes == Members \cup Groups

ASSUME GroupAssumption ==
    /\ IsFiniteSet(Members) /\ IsFiniteSet(Groups)
    /\ Members \cap Groups = {}
    /\ Root \in Groups
    /\ Parent \in [Nodes \ {Root} -> Groups]
    /\ \A n \in Nodes \ {Root} : Parent[n] # n
    /\ Nil \notin Nodes

VARIABLES
    prev, next,                   \* the fields of a node
    chainStart, chain, chainEnd,  \* the fields of a group
    count,                        \* num-threads-in-groups
    status,                       \* what thread.rkt knows of a thread
    current,                      \* the thread that is swapped in, or Nil
    task, arg                     \* the operation under way and its node

lists == <<prev, next, chainStart, chainEnd>>
groupVars == <<lists, chain, count, status, current, task, arg>>

GroupTypeOK ==
    /\ prev \in [Nodes -> Nodes \cup {Nil}]
    /\ next \in [Nodes -> Nodes \cup {Nil}]
    /\ chainStart \in [Groups -> Nodes \cup {Nil}]
    /\ chain \in [Groups -> Nodes \cup {Nil}]
    /\ chainEnd \in [Groups -> Nodes \cup {Nil}]
    /\ count \in Nat
    /\ status \in [Members -> {"new", "scheduled", "descheduled", "dead"}]
    /\ current \in Members \cup {Nil}
    /\ task \in {"none", "add", "remove", "select", "lost"}
    /\ task = "none" => arg = Nil
    /\ task \in {"add", "remove"} => arg \in Nodes \ {Root}
    /\ task \in {"select", "lost"} => arg \in Groups

GroupInit ==
    /\ prev = [n \in Nodes |-> Nil]
    /\ next = [n \in Nodes |-> Nil]
    /\ chainStart = [g \in Groups |-> Nil]
    /\ chain = [g \in Groups |-> Nil]
    /\ chainEnd = [g \in Groups |-> Nil]
    /\ count = 0
    /\ status = [t \in Members |-> "new"]
    /\ current = Nil
    /\ task = "none" /\ arg = Nil

\* What is under way continues with task k on node n.
Continue(k, n) == task' = k /\ arg' = n
Finished == Continue("none", Nil)
-----------------------------------------------------------------------------
(* What thread.rkt does with a thread. *)

SetStatus(t, s) == status' = [status EXCEPT ![t] = s]
Others == UNCHANGED <<lists, chain, count, current>>

\* do-make-thread
Create(t) ==
    /\ task = "none" /\ status[t] = "new"
    /\ SetStatus(t, "scheduled") /\ Continue("add", t) /\ Others

\* thread-reschedule!
Reschedule(t) ==
    /\ task = "none" /\ status[t] = "descheduled"
    /\ SetStatus(t, "scheduled") /\ Continue("add", t) /\ Others

\* do-thread-deschedule!
Deschedule(t) ==
    /\ task = "none" /\ status[t] = "scheduled"
    /\ SetStatus(t, "descheduled") /\ Continue("remove", t) /\ Others

\* thread-dead!: a descheduled thread is in no group.
Dead(t) ==
    /\ task = "none" /\ status[t] \in {"scheduled", "descheduled"}
    /\ SetStatus(t, "dead")
    /\ IF status[t] = "scheduled" THEN Continue("remove", t) ELSE Finished
    /\ Others
-----------------------------------------------------------------------------
(* thread-group-add! and thread-group-remove!. *)

\* Fault: groups count too.
WeightAll(n) == 1

\* The child is a thread or a group; only threads count.
Weight(n) == IF n \in Members THEN 1 ELSE 0

\* Fault: the child is added at the end.
AddAtEnd ==
    LET n == arg
        g == Parent[n]
        e == chainEnd[g]
    IN
    /\ task = "add"
    /\ prev' = [prev EXCEPT ![n] = e]
    /\ next' = [m \in Nodes |-> IF m = n THEN Nil ELSE IF m = e THEN n ELSE next[m]]
    /\ chainEnd' = [chainEnd EXCEPT ![g] = n]
    /\ chainStart' = IF e = Nil THEN [chainStart EXCEPT ![g] = n] ELSE chainStart
    /\ count' = count + Weight(n)
    /\ IF e = Nil /\ g # Root THEN Continue("add", g) ELSE Finished
    /\ UNCHANGED <<chain, status, current>>

\* thread-group-add!: the child goes to the start of the list.
Add ==
    LET n == arg
        g == Parent[n]
        s == chainStart[g]
    IN
    /\ task = "add"
    /\ next' = [next EXCEPT ![n] = s]
    /\ prev' = [m \in Nodes |-> IF m = n THEN Nil ELSE IF m = s THEN n ELSE prev[m]]
    /\ chainStart' = [chainStart EXCEPT ![g] = n]
    /\ chainEnd' = IF s = Nil THEN [chainEnd EXCEPT ![g] = n] ELSE chainEnd
    /\ count' = count + Weight(n)
    /\ IF s = Nil /\ g # Root THEN Continue("add", g) ELSE Finished
    /\ UNCHANGED <<chain, status, current>>

\* Fault: the round goes on with the node that was removed.
RestNot(g, n) == chain[g]

\* The rest of the round of group g after n is removed.
Rest(g, n) == IF chain[g] = n THEN next[n] ELSE chain[g]

\* Fault: a group that becomes empty stays in its parent.
RemoveKeepsGroup ==
    LET n == arg
        g == Parent[n]
        p == prev[n]
        q == next[n]
    IN
    /\ task = "remove"
    /\ prev' = [m \in Nodes |-> IF m = n THEN Nil ELSE IF m = q THEN p ELSE prev[m]]
    /\ next' = [m \in Nodes |-> IF m = n THEN Nil ELSE IF m = p THEN q ELSE next[m]]
    /\ chainEnd' = IF q = Nil THEN [chainEnd EXCEPT ![g] = p] ELSE chainEnd
    /\ chainStart' = IF p = Nil THEN [chainStart EXCEPT ![g] = q] ELSE chainStart
    /\ chain' = [chain EXCEPT ![g] = Rest(g, n)]
    /\ count' = count - Weight(n)
    /\ Finished
    /\ UNCHANGED <<status, current>>

\* thread-group-remove!
Remove ==
    LET n == arg
        g == Parent[n]
        p == prev[n]
        q == next[n]
    IN
    /\ task = "remove"
    /\ prev' = [m \in Nodes |-> IF m = n THEN Nil ELSE IF m = q THEN p ELSE prev[m]]
    /\ next' = [m \in Nodes |-> IF m = n THEN Nil ELSE IF m = p THEN q ELSE next[m]]
    /\ chainEnd' = IF q = Nil THEN [chainEnd EXCEPT ![g] = p] ELSE chainEnd
    /\ chainStart' = IF p = Nil THEN [chainStart EXCEPT ![g] = q] ELSE chainStart
    /\ chain' = [chain EXCEPT ![g] = Rest(g, n)]
    /\ count' = count - Weight(n)
    /\ IF chainEnd'[g] = Nil /\ g # Root THEN Continue("remove", g) ELSE Finished
    /\ UNCHANGED <<status, current>>
-----------------------------------------------------------------------------
(* The scheduler. *)

\* poll-and-select-thread! comes to select-thread!.
StartSelect ==
    /\ task = "none" /\ current = Nil
    /\ Continue("select", Root)
    /\ UNCHANGED <<lists, chain, count, status, current>>

\* One iteration of select-thread! with thread-group-next!.  When the root group
\* is empty maybe-done polls again; a subgroup that is empty is looked at with
\* the arguments of the loop exchanged and the scheduler is lost.
Select ==
    LET g == arg
        n == IF chain[g] = Nil THEN chainStart[g] ELSE chain[g]
    IN
    /\ task = "select"
    /\ \/ /\ n = Nil
          /\ IF g = Root THEN Finished ELSE Continue("lost", g)
          /\ UNCHANGED <<chain, current>>
       \/ /\ n # Nil
          /\ chain' = [chain EXCEPT ![g] = next[n]]
          /\ IF n \in Members
               THEN current' = n /\ Finished
               ELSE Continue("select", n) /\ UNCHANGED current
    /\ UNCHANGED <<lists, count, status>>

\* The engine of the current thread runs out of ticks, blocks or ends.
SwapOut ==
    /\ task = "none" /\ current # Nil
    /\ current' = Nil
    /\ UNCHANGED <<lists, chain, count, status, task, arg>>

Work == Add \/ Remove \/ Select

GroupNext ==
    \/ Work \/ StartSelect \/ SwapOut
    \/ \E t \in Members : Create(t) \/ Reschedule(t) \/ Deschedule(t) \/ Dead(t)

GroupSpec == GroupInit /\ [][GroupNext]_groupVars

\* An operation in atomic mode is carried out, a thread that runs is swapped out
\* when its ticks are used up (in atomic mode: when it leaves it), and the
\* scheduler then selects a thread, however many threads are added and removed.
FairGroupSpec == GroupSpec /\ WF_groupVars(Work) /\ SF_groupVars(SwapOut) /\ SF_groupVars(StartSelect)
-----------------------------------------------------------------------------
(* Properties. *)

\* A node that has something to run: a scheduled thread, a group with children.
Active(n) == IF n \in Members THEN status[n] = "scheduled" ELSE chainStart[n] # Nil

\* The list of group g, followed by Nil.
Length == Cardinality(Nodes) + 1
List(g) ==
    LET at[i \in 1..Length] ==
            IF i = 1 THEN chainStart[g] ELSE IF at[i - 1] = Nil THEN Nil ELSE next[at[i - 1]]
    IN at

\* Between operations the list of every group holds its scheduled threads and
\* its non-empty subgroups, each once, and prev, chain-end and chain agree with it.
ChildrenExactly ==
    task \in {"none", "select"} =>
        \A g \in Groups :
            LET list == List(g)
                members == {list[i] : i \in 1..Length} \ {Nil}
            IN /\ members = {n \in Nodes \ {Root} : Parent[n] = g /\ Active(n)}
               /\ Cardinality({i \in 1..Length : list[i] # Nil}) = Cardinality(members)
               /\ \A i \in 1..Length : list[i] # Nil =>
                     prev[list[i]] = IF i = 1 THEN Nil ELSE list[i - 1]
               /\ chainEnd[g] = IF members = {} THEN Nil ELSE list[Cardinality(members)]
               /\ chain[g] \in members \cup {Nil}

\* The scheduler swaps in only threads that are scheduled: never one that
\* blocked, was suspended or died while the round was under way.
RunsScheduled ==
    [][current' \notin {current, Nil} => status[current'] = "scheduled"]_groupVars

\* The scheduler never descends into an empty group.
SelectFindsThread == task # "lost"

\* num-threads-in-groups, which all-threads-poll-done? compares with, is the
\* number of scheduled threads.
CountExact ==
    task \in {"none", "select"} => count = Cardinality({t \in Members : status[t] = "scheduled"})

\* A thread that stays scheduled runs again and again, even when others keep
\* being descheduled and rescheduled.
NoStarvation ==
    \A t \in Members : <>[](status[t] = "scheduled") => []<>(current = t)

\* The groups' lists are exact, and select-thread! never follows them to a
\* group in which it finds no thread.
GroupInv == GroupTypeOK /\ ChildrenExactly /\ SelectFindsThread
=============================================================================
