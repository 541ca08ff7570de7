----------------------------- MODULE MergeOrder -----------------------------
(***************************************************************************)
(* One key of two DBIs that receive the same snapshot entries, each in an  *)
(* order of its own and with repetitions, through NativeIterator.Merge.    *)
(* This is what the eventual consistency of Lightning Stream rests on: no  *)
(* coordination, only a merge that does not depend on the order.           *)
(***************************************************************************)
EXTENDS Iterators, FiniteSets

CONSTANTS
  Replicas,
  Timestamps,     \* timestamps of the entries in snapshots
  FormatVersions, \* format versions of the snapshots
  LiveValues,     \* values of the live entries
  MaxEntries      \* bound: different entries in circulation

ASSUME MergeOrderAssumption ==
  /\ IsFiniteSet(Replicas) /\ MaxEntries \in Nat
  /\ Timestamps \subseteq Nat \ {0} /\ FormatVersions \subseteq 1..3
  /\ LiveValues \subseteq Values

\* An entry of a snapshot with its format version.  Version 1 has no deleted
\* flag: a deletion is an empty value.
Update == [kind : {"live"}, ts : Timestamps, val : LiveValues, fv : FormatVersions]
            \cup [kind : {"deleted"}, ts : Timestamps, val : {Empty},
                  fv : FormatVersions \ {1}]
            \cup [kind : {"live"}, ts : Timestamps, val : {Empty},
                  fv : FormatVersions \cap {1}]

VARIABLES
  received, \* the updates each replica has received
  cur       \* the entry each replica holds

vars == <<received, cur>>

\* The entry that an update stands for.
EntryOf(u) == addHeader(u.val, u.ts, u.kind = "deleted", 0, u.fv)

TypeOK ==
  /\ received \in [Replicas -> SUBSET Update]
  /\ cur \in [Replicas -> Entry \cup {Absent}]

Init ==
  /\ received = [r \in Replicas |-> {}]
  /\ cur = [r \in Replicas |-> Absent]

\* Replica r merges an update, for the first time or again.
Receive(r, u) ==
  /\ Cardinality(UNION {received[q] : q \in Replicas} \cup {u}) <= MaxEntries
  /\ received' = [received EXCEPT ![r] = @ \cup {u}]
  /\ cur' = [cur EXCEPT ![r] =
               Merge(@, [kind |-> u.kind, ts |-> u.ts, val |-> u.val], 0, 0, u.fv)]

Next == \E r \in Replicas, u \in Update : Receive(r, u)

Spec == Init /\ [][Next]_vars
-----------------------------------------------------------------------------
\* "Same timestamp, lexicographic lower app value wins for deterministic
\* values": replicas that received the same updates hold the same entry.
Agreement ==
  \A r, q \in Replicas : received[r] = received[q] => cur[r] = cur[q]

\* The entry a replica holds is one of those it received, and none of those it
\* received is newer, or as new with a lower value.
HoldsNewest ==
  \A r \in Replicas :
    /\ received[r] # {} => \E u \in received[r] : cur[r] = EntryOf(u)
    /\ \A u \in received[r] : Leq(EntryOf(u), cur[r])
=============================================================================
