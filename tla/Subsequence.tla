---------------------------- MODULE Subsequence ----------------------------
(* Queues from which some entries are taken out. *)
EXTENDS Integers, FiniteSets

\* The entries of q at the positions in I, in their order.
Sub(q, I) == [n \in 1..Cardinality(I) |-> q[CHOOSE i \in I : Cardinality(I \cap (1..i)) = n]]

============================================================================
