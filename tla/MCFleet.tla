------------------------------- MODULE MCFleet -------------------------------
(* Small instances of Fleet for TLC. *)
EXTENDS Fleet, TLC

Symmetry == Permutations(Conns) \cup Permutations(Nodes)
=============================================================================
