------------------------------ MODULE Iterators ------------------------------
(***************************************************************************)
(* The per-key conflict resolution of Lightning Stream: what the iterators *)
(* of syncer/iterators.go decide for one key when a snapshot, or the main  *)
(* DBI, is merged into a DBI whose values carry a header.                  *)
(*                                                                         *)
(* An LMDB value with a header is an entry: the timestamp and the deleted  *)
(* flag of the header, and the application value.  Application values are  *)
(* natural numbers in their lexicographic order, with Empty the value of   *)
(* length zero.  The header's transaction ID is left out: no decision      *)
(* reads it.                                                               *)
(***************************************************************************)
EXTENDS Integers

CONSTANT Values \* the application values

ASSUME ValuesAssumption == Values \subseteq Nat /\ 0 \in Values

Empty == 0

CurrentFormatVersion == 3

Entry == [kind : {"live", "deleted"}, ts : Nat, val : Values]

\* The key is not in the DBI.
Absent == [kind |-> "absent", ts |-> 0, val |-> Empty]

\* The entries an application following docs/schema-native.md writes: the value
\* of a deleted entry is reset to the empty value.
WellFormed(e) == e.kind = "deleted" => e.val = Empty

\* What addHeader puts in front of a plain value.
addHeader(val, ts, deleted, defaultTS, formatVersion) ==
  LET isDeleted == deleted \/ (val = Empty /\ formatVersion < 2)
  IN  [kind |-> IF isDeleted THEN "deleted" ELSE "live",
       ts   |-> IF ts = 0 THEN defaultTS ELSE ts,
       val  |-> IF isDeleted THEN Empty ELSE val]

\* A deletion so old that the sweeper may have removed it here already.
StaleDeletion(new, deletedCutoff) ==
  new.kind = "deleted" /\ new.ts < deletedCutoff

\* The timestamp new is compared with.
EffectiveTS(new, defaultTS) == IF new.ts = 0 THEN defaultTS ELSE new.ts

\* Mutant: for equal timestamps the first entry stays.
KeepsOldOnTie(old, new, defaultTS) ==
  \/ new.ts = 0 /\ old.val = new.val
  \/ EffectiveTS(new, defaultTS) <= old.ts

\* Mutant: the timestamp does not matter, the lower value wins.
KeepsLowerValue(old, new, defaultTS) == old.val <= new.val

\* The LMDB keeps the entry it has.
KeepsOld(old, new, defaultTS) ==
  \/ new.ts = 0 /\ old.val = new.val
  \/ EffectiveTS(new, defaultTS) < old.ts
  \/ EffectiveTS(new, defaultTS) = old.ts /\ old.val <= new.val

\* NativeIterator.Merge: the entry the DBI holds after new was offered for a
\* key that holds old.
Merge(old, new, defaultTS, deletedCutoff, formatVersion) ==
  LET added == addHeader(new.val, EffectiveTS(new, defaultTS),
                         new.kind = "deleted", defaultTS, formatVersion)
  IN  IF old = Absent
      THEN IF StaleDeletion(new, deletedCutoff) THEN Absent ELSE added
      ELSE IF KeepsOld(old, new, defaultTS) THEN old ELSE added

\* NativeIterator.Clean: the entry of a key the source no longer has.
Clean(old, defaultTS, formatVersion) ==
  IF old.kind = "deleted" THEN old
  ELSE addHeader(Empty, 0, TRUE, defaultTS, formatVersion)

\* A plain DBI without the key.
NoValue == -1

\* PlainIterator.Merge and PlainIterator.Clean: the plain value of a key whose
\* shadow entry is e.
PlainValue(e) == IF e.val = Empty THEN NoValue ELSE e.val
------------------------------------------------------------------------------
(***************************************************************************)
(* The order that last-writer-wins resolution climbs: a later timestamp,   *)
(* and for equal timestamps a lexicographically lower value.               *)
(***************************************************************************)
Leq(a, b) ==
  \/ a = Absent
  \/ /\ b # Absent
     /\ \/ a.ts < b.ts
        \/ a.ts = b.ts /\ b.val <= a.val
==============================================================================
