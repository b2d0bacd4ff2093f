------------------------------- MODULE MCLogPage -------------------------------
(* Instances of LogPage for TLC. *)
EXTENDS LogPage

Symmetry == Permutations(TaskIds) \cup Permutations(Ops)
=============================================================================
