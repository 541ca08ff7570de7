--------------------------- MODULE SyncerRefinement ---------------------------
(***************************************************************************)
(* The instances of Syncer in native mode implement ReplicatedMap: a       *)
(* replica is a DBI with headers, and the published copies of an instance  *)
(* are its snapshots in the bucket, without their order.                   *)
(***************************************************************************)
EXTENDS Syncer

Copies == [i \in Instances |-> {storage[i][n] : n \in 1..Len(storage[i])}]

Map == INSTANCE ReplicatedMap WITH replica <- db, published <- Copies

\* The value of every deleted entry is empty, which the proof of the refinement
\* needs: Merge would otherwise change such an entry when it adds the header.
AllWellFormed ==
  \A i \in Instances : \A k \in Keys :
    /\ WellFormed(db[i][k]) /\ WellFormed(tx[i].db[k])
    /\ \A n \in 1..Len(storage[i]) : WellFormed(storage[i][n][k])

\* Every step of syncLoop, LoadOnce, SendOnce, the receiver and a restart changes
\* the LMDBs and the bucket as one step of ReplicatedMap does, or not at all: a
\* load is the join with one copy, also when it replaces half of a DBI or was
\* downloaded long ago, and a copy is published only when it includes all
\* earlier ones of the instance, even after its LMDB was lost.
ImplementsReplicatedMap == Map!Spec
===============================================================================
