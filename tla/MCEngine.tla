------------------------------ MODULE MCEngine ------------------------------
(* Instances of Engine for TLC. *)
EXTENDS Engine, TLC

Symmetry == Permutations(Callers) \cup Permutations(Ports) \cup Permutations(Engines)
=============================================================================
