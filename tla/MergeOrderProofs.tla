-------------------------- MODULE MergeOrderProofs --------------------------
(***************************************************************************)
(* Merging does not depend on the order: proofs for any number of          *)
(* replicas, any timestamps and any values.                                *)
(***************************************************************************)
EXTENDS MergeOrder, IteratorsProofs

\* The inductive invariant.  The last conjunct says that a replica has nothing
\* it did not receive.
Inv ==
  /\ TypeOK
  /\ HoldsNewest
  /\ \A r \in Replicas : received[r] = {} => cur[r] = Absent

\* The snapshot entry of an update, as Merge gets it, and the entry it becomes.
LEMMA UpdateEntry ==
  ASSUME NEW u \in Update
  PROVE  /\ [kind |-> u.kind, ts |-> u.ts, val |-> u.val] \in Entry
         /\ u.fv \in Nat
         /\ EntryOf(u) \in Entry
         /\ EntryOf(u).ts = u.ts
         /\ EntryOf(u).val = u.val
         /\ EntryOf(u).kind = "live" => u.val \in LiveValues
         /\ EntryOf(u).kind = "deleted" => u.val = Empty
<1>1. /\ u.kind \in {"live", "deleted"} /\ u.ts \in Nat \ {0}
      /\ u.val \in Values /\ u.fv \in 1..3
  BY ValuesAssumption, MergeOrderAssumption, Zenon DEF Update, Empty
<1>2. u.kind = "deleted" => u.val = Empty
  BY DEF Update
<1>3. u.kind = "live" => u.val \in LiveValues \/ (u.val = Empty /\ u.fv = 1)
  BY DEF Update
<1>4. EntryOf(u) \in Entry
  BY <1>1, ValuesAssumption DEF EntryOf, addHeader, Entry, Empty
<1>5. EntryOf(u).ts = u.ts /\ EntryOf(u).val = u.val
  BY <1>1, <1>2 DEF EntryOf, addHeader
<1>6. EntryOf(u).kind = "live" => u.val \in LiveValues
  BY <1>1, <1>3 DEF EntryOf, addHeader
<1>7. EntryOf(u).kind = "deleted" => u.val = Empty
  BY <1>1, <1>2 DEF EntryOf, addHeader
<1> QED
  BY <1>1, <1>4, <1>5, <1>6, <1>7 DEF Entry

\* The invariant is inductive.
LEMMA InvAlways == Spec => []Inv
<1>1. Init => Inv
  BY DEF Init, Inv, TypeOK, HoldsNewest
<1>2. Inv /\ [Next]_vars => Inv'
  <2> SUFFICES ASSUME Inv, [Next]_vars PROVE Inv'
    OBVIOUS
  <2>1. CASE UNCHANGED vars
    BY <2>1 DEF vars, Inv, TypeOK, HoldsNewest
  <2>2. ASSUME NEW r \in Replicas, NEW u \in Update, Receive(r, u)
        PROVE  Inv'
    <3> DEFINE e == [kind |-> u.kind, ts |-> u.ts, val |-> u.val]
               m == Merge(cur[r], e, 0, 0, u.fv)
    <3>1. /\ cur[r] \in Entry \cup {Absent}
          /\ cur \in [Replicas -> Entry \cup {Absent}]
          /\ received \in [Replicas -> SUBSET Update]
      BY DEF Inv, TypeOK
    <3>2. e \in Entry /\ u.fv \in Nat
      BY UpdateEntry
    <3>3. /\ cur' = [cur EXCEPT ![r] = m]
          /\ received' = [received EXCEPT ![r] = @ \cup {u}]
      BY <2>2 DEF Receive
    <3>4. m \in Entry \cup {Absent}
      BY <3>1, <3>2, MergeType
    <3>5. Leq(cur[r], m) /\ Leq(e, m) /\ m # Absent
      BY <3>1, <3>2, MergeUpperBound
    <3>6. \/ m = cur[r] /\ cur[r] # Absent
          \/ m = EntryOf(u)
      <4>1. e.val = u.val /\ e.ts = u.ts /\ e.kind = u.kind
        OBVIOUS
      <4> QED
        BY <3>1, <3>2, <4>1, MergeChooses DEF EntryOf
    <3>7. Leq(EntryOf(u), m)
      <4>1. /\ EntryOf(u) \in Entry /\ EntryOf(u).ts = e.ts
            /\ EntryOf(u).val = e.val
        BY UpdateEntry, Zenon
      <4> HIDE DEF e, m
      <4> QED
        BY <3>2, <3>5, <4>1, AbsentIsNoEntry DEF Leq
    <3> HIDE DEF e, m
    <3>8. TypeOK'
      BY <3>1, <3>3, <3>4 DEF TypeOK
    <3>9. \A q \in Replicas : received'[q] = {} => cur'[q] = Absent
      BY <3>1, <3>3 DEF Inv
    <3>10. ASSUME NEW q \in Replicas, q # r
           PROVE  received'[q] = received[q] /\ cur'[q] = cur[q]
      BY <3>1, <3>3, <3>10
    <3>11. received'[r] = received[r] \cup {u} /\ cur'[r] = m
      BY <3>1, <3>3
    <3>12. \E w \in received'[r] : cur'[r] = EntryOf(w)
      <4>1. CASE m = EntryOf(u)
        BY <4>1, <3>11
      <4>2. CASE m = cur[r] /\ cur[r] # Absent
        BY <4>2, <3>11 DEF Inv, HoldsNewest
      <4> QED
        BY <3>6, <4>1, <4>2
    <3>13. ASSUME NEW w \in received'[r] PROVE Leq(EntryOf(w), cur'[r])
      <4>1. CASE w = u
        BY <4>1, <3>7, <3>11
      <4>2. CASE w \in received[r]
        <5>1. Leq(EntryOf(w), cur[r]) /\ EntryOf(w) \in Entry
          BY <4>2, <3>1, UpdateEntry, Zenon DEF Inv, HoldsNewest
        <5> QED
          BY <5>1, <3>1, <3>4, <3>5, <3>11, LeqTransitive
      <4> QED
        BY <3>11, <4>1, <4>2
    <3>14. HoldsNewest'
      BY <3>10, <3>12, <3>13 DEF Inv, HoldsNewest
    <3> QED
      BY <3>8, <3>9, <3>14 DEF Inv
  <2> QED
    BY <2>1, <2>2 DEF Next
<1> QED
  BY <1>1, <1>2, PTL DEF Spec

\* A replica holds the newest of the updates it received, whatever the order
\* in which NativeIterator.Merge got them.
THEOREM HoldsNewestAlways == Spec => []HoldsNewest
<1>1. Inv => HoldsNewest
  BY DEF Inv
<1> QED
  BY <1>1, InvAlways, PTL

\* Replicas that received the same updates agree, in whatever order each of them
\* merged its own, if no live entry has an empty value.
THEOREM AgreementAlways ==
  ASSUME Empty \notin LiveValues
  PROVE  Spec => []Agreement
<1>1. Inv => Agreement
  <2> SUFFICES ASSUME Inv, NEW r \in Replicas, NEW q \in Replicas,
                      received[r] = received[q]
               PROVE  cur[r] = cur[q]
    BY DEF Agreement
  <2>1. CASE received[r] = {}
    BY <2>1, Zenon DEF Inv
  <2>2. CASE received[r] # {}
    <3>1. PICK u \in received[r] : cur[r] = EntryOf(u)
      BY <2>2 DEF Inv, HoldsNewest
    <3>2. PICK w \in received[q] : cur[q] = EntryOf(w)
      BY <2>2 DEF Inv, HoldsNewest
    <3>3. u \in Update /\ w \in Update
      BY DEF Inv, TypeOK
    <3>4. Leq(EntryOf(u), EntryOf(w)) /\ Leq(EntryOf(w), EntryOf(u))
      BY <3>1, <3>2 DEF Inv, HoldsNewest
    <3>5. EntryOf(u) \in Entry /\ EntryOf(w) \in Entry
      BY <3>3, UpdateEntry, Zenon
    <3>6. EntryOf(u).ts = EntryOf(w).ts /\ EntryOf(u).val = EntryOf(w).val
      BY <3>4, <3>5, EntryFields, AbsentIsNoEntry DEF Leq
    <3>7. /\ EntryOf(u).kind = "live" <=> EntryOf(u).val # Empty
          /\ EntryOf(w).kind = "live" <=> EntryOf(w).val # Empty
      BY <3>3, <3>5, UpdateEntry DEF Entry
    <3>8. EntryOf(u).kind = EntryOf(w).kind
      BY <3>5, <3>6, <3>7 DEF Entry
    <3> QED
      BY <3>1, <3>2, <3>5, <3>6, <3>8 DEF Entry
  <2> QED
    BY <2>1, <2>2
<1> QED
  BY <1>1, InvAlways, PTL
=============================================================================
