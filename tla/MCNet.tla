------------------------------- MODULE MCNet --------------------------------
(* Instances of Net for TLC. *)
EXTENDS Net, TLC

Symmetry == Permutations(Clients)
=============================================================================
