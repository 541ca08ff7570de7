------------------------------ MODULE MCSyncer ------------------------------
(***************************************************************************)
(* Instances of Syncer for TLC.                                            *)
(***************************************************************************)
EXTENDS SyncerRefinement, TLC

CONSTANTS a, b, k1, k2

NoSkew == [i \in Instances |-> 0]

\* Instance a runs one tick ahead of instance b, so that writes can be in the
\* wrong order and can have equal timestamps.
AheadA == [i \in Instances |-> IF i = a THEN 1 ELSE 0]

\* The keys are interchangeable, and so are the instances where none is singled
\* out.
Symmetry == Permutations(Instances) \cup Permutations(Keys)
=============================================================================
