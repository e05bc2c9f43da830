---------------------------- MODULE MCEnrollment ----------------------------
(***************************************************************************)
(* Small instances of Enrollment for TLC.  Nodes, nonces, tokens and       *)
(* request slots are interchangeable.                                      *)
(***************************************************************************)
EXTENDS Enrollment, TLC

Symmetry ==
    Permutations(Nodes) \cup Permutations(Nonces)
    \cup Permutations(Tokens) \cup Permutations(Reqs)
=============================================================================
