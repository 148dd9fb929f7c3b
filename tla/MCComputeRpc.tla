---------------------------- MODULE MCComputeRpc ----------------------------
(* Instances of ComputeRpc for TLC. *)
EXTENDS ComputeRpc, TLC

Symmetry == Permutations(Conns)
=============================================================================
