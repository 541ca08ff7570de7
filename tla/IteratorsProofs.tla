--------------------------- MODULE IteratorsProofs ---------------------------
(***************************************************************************)
(* What NativeIterator.Merge guarantees for any entries: the lemmas that   *)
(* the proofs about MergeOrder, Syncer, Sweeper and Strategies rest on.    *)
(***************************************************************************)
EXTENDS Iterators, TLAPS

\* A DBI holds an entry or nothing for a key; Absent is not an entry.
LEMMA AbsentIsNoEntry == Absent \notin Entry
  BY DEF Absent, Entry

\* Timestamps and values of entries can be compared.
LEMMA EntryFields ==
  ASSUME NEW e \in Entry
  PROVE  e.ts \in Nat /\ e.val \in Nat
  BY ValuesAssumption, Zenon DEF Entry

\* The order of entries is reflexive.
LEMMA LeqReflexive ==
  ASSUME NEW e \in Entry \cup {Absent}
  PROVE  Leq(e, e)
<1>1. CASE e = Absent
  BY <1>1 DEF Leq
<1>2. CASE e \in Entry
  <2>1. e.ts \in Nat /\ e.val \in Nat
    BY <1>2, EntryFields
  <2> QED
    BY <1>2, <2>1, AbsentIsNoEntry DEF Leq
<1> QED
  BY <1>1, <1>2

\* The order of entries is transitive.
LEMMA LeqTransitive ==
  ASSUME NEW x \in Entry \cup {Absent}, NEW y \in Entry \cup {Absent},
         NEW z \in Entry \cup {Absent}, Leq(x, y), Leq(y, z)
  PROVE  Leq(x, z)
<1>1. CASE x = Absent
  BY <1>1 DEF Leq
<1>2. CASE x # Absent
  <2>1. y # Absent /\ z # Absent
    BY <1>2 DEF Leq
  <2>2. x \in Entry /\ y \in Entry /\ z \in Entry
    BY <1>2, <2>1
  <2>3. /\ x.ts \in Nat /\ x.val \in Nat
        /\ y.ts \in Nat /\ y.val \in Nat
        /\ z.ts \in Nat /\ z.val \in Nat
    BY <2>2, EntryFields
  <2> QED
    BY <1>2, <2>1, <2>3 DEF Leq
<1> QED
  BY <1>1, <1>2

\* addHeader makes an entry.
LEMMA AddHeaderType ==
  ASSUME NEW v \in Values, NEW ts \in Nat, NEW d \in BOOLEAN,
         NEW defaultTS \in Nat, NEW fv \in Nat
  PROVE  addHeader(v, ts, d, defaultTS, fv) \in Entry
  BY ValuesAssumption DEF addHeader, Entry, Empty

\* Merge leaves an entry or nothing in the DBI.
LEMMA MergeType ==
  ASSUME NEW old \in Entry \cup {Absent}, NEW new \in Entry,
         NEW defaultTS \in Nat, NEW cutoff \in Nat, NEW fv \in Nat
  PROVE  Merge(old, new, defaultTS, cutoff, fv) \in Entry \cup {Absent}
<1>1. EffectiveTS(new, defaultTS) \in Nat
  BY DEF EffectiveTS, Entry
<1>2. addHeader(new.val, EffectiveTS(new, defaultTS), new.kind = "deleted",
                defaultTS, fv) \in Entry
  BY <1>1, AddHeaderType, Zenon DEF Entry
<1> QED
  BY <1>2 DEF Merge

\* Clean leaves an entry in the DBI.
LEMMA CleanType ==
  ASSUME NEW old \in Entry, NEW defaultTS \in Nat, NEW fv \in Nat
  PROVE  Clean(old, defaultTS, fv) \in Entry
  BY ValuesAssumption, AddHeaderType, Zenon DEF Clean, Empty

\* Without a cutoff, a snapshot entry offered to Merge is added or loses to an
\* entry that is at least as new: the result is an upper bound of both.
LEMMA MergeUpperBound ==
  ASSUME NEW old \in Entry \cup {Absent}, NEW new \in Entry, NEW fv \in Nat
  PROVE  /\ Leq(old, Merge(old, new, 0, 0, fv))
         /\ Leq(new, Merge(old, new, 0, 0, fv))
         /\ Merge(old, new, 0, 0, fv) # Absent
<1> DEFINE added == addHeader(new.val, EffectiveTS(new, 0),
                              new.kind = "deleted", 0, fv)
<1>1. EffectiveTS(new, 0) = new.ts
  BY DEF EffectiveTS, Entry
<1>2. new.val \in Values /\ new.ts \in Nat /\ (new.kind = "deleted") \in BOOLEAN
  BY DEF Entry
<1>3. added \in Entry
  BY <1>1, <1>2, AddHeaderType, Zenon
<1>4. added.ts = new.ts /\ added.val <= new.val
  BY <1>1, EntryFields DEF addHeader, Empty
<1>5. /\ new.ts \in Nat /\ new.val \in Nat
      /\ added.ts \in Nat /\ added.val \in Nat
  BY <1>3, EntryFields
<1>6. Leq(new, added)
  <2> HIDE DEF added
  <2> QED
    BY <1>3, <1>4, <1>5, AbsentIsNoEntry DEF Leq
<1>7. CASE old = Absent
  <2>1. Merge(old, new, 0, 0, fv) = added
    BY <1>7, <1>5 DEF Merge, StaleDeletion
  <2> QED
    BY <2>1, <1>3, <1>6, <1>7, AbsentIsNoEntry DEF Leq
<1>8. CASE old # Absent /\ KeepsOld(old, new, 0)
  <2>1. Merge(old, new, 0, 0, fv) = old
    BY <1>8 DEF Merge
  <2>2. old.ts \in Nat /\ old.val \in Nat
    BY <1>8, EntryFields
  <2>3. Leq(new, old)
    BY <1>1, <1>5, <1>8, <2>2 DEF KeepsOld, Leq
  <2> QED
    BY <2>1, <2>3, <1>8, LeqReflexive
<1>9. CASE old # Absent /\ ~KeepsOld(old, new, 0)
  <2>1. Merge(old, new, 0, 0, fv) = added
    BY <1>9 DEF Merge
  <2>2. old.ts \in Nat /\ old.val \in Nat
    BY <1>9, EntryFields
  <2>3. Leq(old, added)
    <3> HIDE DEF added
    <3> QED
      BY <1>1, <1>3, <1>4, <1>5, <1>9, <2>2, AbsentIsNoEntry DEF KeepsOld, Leq
  <2> QED
    BY <2>1, <2>3, <1>3, <1>6, AbsentIsNoEntry
<1> QED
  BY <1>7, <1>8, <1>9

\* Merge keeps the old entry or adds the new one: it makes nothing up.
LEMMA MergeChooses ==
  ASSUME NEW old \in Entry \cup {Absent}, NEW new \in Entry, NEW fv \in Nat
  PROVE  \/ Merge(old, new, 0, 0, fv) = old /\ old # Absent
         \/ Merge(old, new, 0, 0, fv)
              = addHeader(new.val, new.ts, new.kind = "deleted", 0, fv)
<1>1. EffectiveTS(new, 0) = new.ts
  BY DEF EffectiveTS, Entry
<1> QED
  BY <1>1 DEF Merge, StaleDeletion, Entry
==============================================================================
