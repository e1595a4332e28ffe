---------------------------- MODULE MCSubprocess ----------------------------
(* Subprocess for TLC. *)
EXTENDS Subprocess, TLC

CONSTANTS p1, p2

\* Nothing tells places or process ids apart, so it is enough to follow the
\* behaviours in which the first process is started by p1 and has the id 1.
FirstOfAll == owner[1] \in {p1, Nobody} /\ pid[1] \in {1, Nobody}
=============================================================================
