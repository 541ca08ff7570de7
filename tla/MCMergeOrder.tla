---------------------------- MODULE MCMergeOrder ----------------------------
(***************************************************************************)
(* Instances of MergeOrder for TLC.                                        *)
(***************************************************************************)
EXTENDS MergeOrder, TLC

CONSTANTS r1, r2

Symmetry == Permutations(Replicas)
=============================================================================
