---------------------------- MODULE MCRendezvous ----------------------------
(* Rendezvous for TLC: the main thread and two others, one slot. *)
EXTENDS Rendezvous, TLC

CONSTANTS m, a, b

MCSlots == {0}
=============================================================================
