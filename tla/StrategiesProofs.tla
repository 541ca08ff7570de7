--------------------------- MODULE StrategiesProofs ---------------------------
(***************************************************************************)
(* Proofs about Strategies, for any keys, DBI and source: the loops merge  *)
(* as promised, dirty the transaction only if they change the DBI, append  *)
(* only past its end, and accept just the sorted sources.                  *)
(***************************************************************************)
EXTENDS Strategies, IteratorsProofs, WellFoundedInduction

Value == Entry \cup {Absent}

TypeInv ==
  /\ strategy \in {"IterUpdate", "Update"} /\ iterator \in {"native", "plain"}
  /\ source \in Seq(Item(Entry))
  /\ before \in [Keys -> Value]
  /\ TypeOK

\* The keys of the items that were handled.
Taken(k) == \E i \in 1..pos : source[i].key = k

\* The keys the cursor has passed.
Behind(k) == IF pending THEN k < cursor ELSE k <= cursor

\* The keys that are left when there are no more keys ahead of the cursor.
Left(k) == k > cursor /\ ~Taken(k)

\* Every key holds what it is promised, or what it held before the call; a key
\* is set at most once.
ValueInv ==
  /\ \A i \in 1..pos :
       db[source[i].key] = MergeVal(before[source[i].key], source[i].entry)
  /\ \A k \in Keys : ~Taken(k) =>
       db[k] = IF strategy = "IterUpdate" /\ Behind(k) /\ before[k] # Absent
               THEN CleanVal(before[k]) ELSE before[k]
  /\ dirty <=> db # before

\* How the iterator and the cursor of IterUpdate walk side by side.
WalkInv ==
  /\ \A i, j \in 1..pos : i < j => source[i].key < source[j].key
  /\ ~dbEOF => \A i \in 1..pos : Behind(source[i].key)
  /\ pending => /\ ~dbEOF /\ pos > 0 /\ cursor \in Keys
                /\ before[cursor] # Absent
                /\ \A k \in Keys : source[pos].key < k /\ k < cursor
                                   => before[k] = Absent
  /\ dbEOF => \A k \in Keys : Left(k) => before[k] = Absent
  /\ ~pending => \/ cursor = NoKey
                 \/ pos > 0 /\ cursor <= source[pos].key
                 \/ pos < Len(source) /\ cursor < source[pos + 1].key
                 \/ pos = Len(source)

ResultInv ==
  /\ result # "MDB_KEYEXIST"
  /\ result = "done" =>
       /\ pos = Len(source)
       /\ strategy = "IterUpdate" =>
            ~pending /\ \A k \in Keys : Left(k) => before[k] = Absent
  /\ result = "ErrNotSorted" =>
       strategy = "IterUpdate" /\ pos < Len(source) /\ ~NextIsSorted

StrategiesInv ==
  /\ TypeInv /\ ResultInv
  /\ strategy = "IterUpdate" => WalkInv
  /\ strategy = "IterUpdate" \/ UniqueKeys => ValueInv
-------------------------------------------------------------------------------
\* Keys that are not all gone have a least one.
LEMMA LeastNatural ==
  ASSUME NEW S \in SUBSET Nat, S # {}
  PROVE  \E m \in S : \A n \in S : m <= n
<1> DEFINE R == {p \in Nat \X Nat : p[1] < p[2]}
<1>1. R = OpToRel(<, Nat)
  BY Zenon DEF OpToRel
<1>2. IsWellFoundedOn(R, Nat)
  BY <1>1, NatLessThanWellFounded, Zenon
<1>3. PICK m \in S : \A n \in S : ~(<<n, m>> \in R)
  <2> HIDE DEF R
  <2> QED
    BY <1>2, WFMin, Zenon
<1>4. ASSUME NEW n \in S PROVE m <= n
  <2>1. ~(<<n, m>> \in Nat \X Nat /\ n < m)
    BY <1>3, Zenon
  <2> QED
    BY <2>1
<1> QED
  BY <1>4, Zenon

\* An item of the source has a key and an entry.
LEMMA ItemFields ==
  ASSUME TypeInv, NEW i \in 1..Len(source)
  PROVE  source[i].key \in Keys /\ source[i].key \in Nat /\ source[i].entry \in Entry
  <1>1. source[i] \in Item(Entry)
    BY DEF TypeInv
  <1> QED  BY <1>1, StrategiesAssumption, Zenon DEF Item

\* What Merge and Clean leave is a value.
LEMMA ValueTypes ==
  ASSUME TypeInv, NEW old \in Value
  PROVE  /\ \A new \in Entry : MergeVal(old, new) \in Value
         /\ old # Absent => CleanVal(old) \in Value
  <1>1. /\ DefaultTS \in Nat /\ DeletedCutoff \in Nat
        /\ CurrentFormatVersion \in Nat
    BY StrategiesAssumption, Zenon DEF CurrentFormatVersion
  <1>2. \A new \in Entry :
          Merge(old, new, DefaultTS, DeletedCutoff, CurrentFormatVersion) \in Value
    BY <1>1, MergeType, Zenon DEF Value
  <1>3. old # Absent => Clean(old, DefaultTS, CurrentFormatVersion) \in Value
    BY <1>1, CleanType, Zenon DEF Value
  <1>4. ASSUME NEW new \in Entry
        PROVE  PlainValue(new) # NoValue => Plain(PlainValue(new)) \in Value
    <2>1. new.val \in Values
      BY Zenon DEF Entry
    <2> QED  BY <2>1, Zenon DEF PlainValue, Plain, Entry, Value
  <1> QED  BY <1>2, <1>3, <1>4, Zenon DEF MergeVal, CleanVal, Value

\* The loops start with the DBI as it is.
LEMMA InitInv ==
  ASSUME Init
  PROVE  StrategiesInv
  <1>1. PICK use \in Uses :
          /\ strategy = use[1] /\ iterator = use[2]
          /\ \E n \in 0..MaxItems : source \in [1..n -> Item(Offered(use))]
          /\ db \in [Keys -> Stored(iterator) \cup {Absent}]
    BY Zenon DEF Init
  <1>2. /\ before = db /\ pos = 0 /\ cursor = NoKey
        /\ pending = FALSE /\ dbEOF = FALSE /\ dirty = FALSE /\ result = "running"
    BY Zenon DEF Init
  <1>3. strategy \in {"IterUpdate", "Update"} /\ iterator \in {"native", "plain"}
    BY <1>1, StrategiesAssumption, Zenon
  <1>4. PICK n \in 0..MaxItems : source \in [1..n -> Item(Offered(use))]
    BY <1>1, Zenon
  <1>5. source \in Seq(Item(Entry)) /\ Len(source) = n
    <2>1. Item(Offered(use)) \subseteq Item(Entry)
      BY StrategiesAssumption, Zenon DEF Item
    <2>2. source \in [1..n -> Item(Entry)] /\ n \in Nat
      BY <1>4, <2>1, StrategiesAssumption
    <2> QED  BY <2>2
  <1>6. db \in [Keys -> Value]
    BY <1>1, <1>3, StrategiesAssumption, Zenon DEF Value
  <1>7. TypeInv
    <2>1. pos \in 0..Len(source) /\ cursor \in Keys \cup {NoKey}
      BY <1>2, <1>5
    <2>2. pending \in BOOLEAN /\ dbEOF \in BOOLEAN /\ dirty \in BOOLEAN
          /\ result \in {"running", "done", "ErrNotSorted", "MDB_KEYEXIST"}
      BY <1>2, Zenon
    <2> QED  BY <1>2, <1>3, <1>5, <1>6, <2>1, <2>2, Zenon DEF TypeInv, TypeOK, Value
  <1>8. \A k \in Keys : ~Behind(k) /\ ~Taken(k)
    BY <1>2, StrategiesAssumption DEF Behind, Taken, NoKey
  <1>9. ~dirty /\ ~pending /\ ~dbEOF
    BY <1>2, Zenon
  <1>10. ValueInv
    BY <1>2, <1>8, <1>9 DEF ValueInv
  <1>11. WalkInv
    BY <1>2, <1>9 DEF WalkInv
  <1>12. ResultInv
    BY <1>2, Zenon DEF ResultInv
  <1> QED  BY <1>7, <1>10, <1>11, <1>12, Zenon DEF StrategiesInv
-------------------------------------------------------------------------------
(***************************************************************************)
(* Where the cursor and the iterator of IterUpdate are.                    *)
(***************************************************************************)
IterUpdateInv == strategy = "IterUpdate" /\ TypeInv /\ WalkInv /\ ValueInv

\* The key at the cursor was not handled, and those below it that are left were
\* not in the DBI.
LEMMA AtCursor ==
  ASSUME IterUpdateInv, ~AtEOF
  PROVE  /\ ~dbEOF /\ dbKey \in Keys /\ dbKey \in Nat
         /\ ~Taken(dbKey) /\ ~Behind(dbKey)
         /\ db[dbKey] = before[dbKey] /\ before[dbKey] # Absent
         /\ pending => dbKey = cursor
         /\ \A k \in Keys : Behind(k) => k < dbKey
         /\ \A k \in Keys : k < dbKey /\ ~Behind(k) /\ ~Taken(k) => before[k] = Absent
  <1> USE DEF IterUpdateInv
  <1>1. ~dbEOF /\ KeysAhead # {}
    BY Zenon DEF AtEOF
  <1>2. /\ cursor \in Keys \cup {NoKey} /\ pending \in BOOLEAN /\ pos \in Nat
        /\ Keys \subseteq Nat /\ pos <= Len(source)
    BY StrategiesAssumption DEF TypeInv, TypeOK
  <1>3. KeysAhead \subseteq Keys
    BY <1>2, Zenon DEF KeysAhead, WalkInv
  <1>4. dbKey \in KeysAhead /\ \A k \in KeysAhead : dbKey <= k
    <2>1. \E m \in KeysAhead : \A n \in KeysAhead : m <= n
      BY <1>1, <1>2, <1>3, LeastNatural, Zenon
    <2> QED  BY <2>1, Zenon DEF dbKey, Min
  <1>5. dbKey \in Keys /\ dbKey \in Nat
    BY <1>2, <1>3, <1>4, Zenon
  <1>6. \A i \in 1..pos : Behind(source[i].key)
    BY <1>1, Zenon DEF WalkInv
  <1>7. CASE pending
    <2>1. KeysAhead = {cursor}
      BY <1>7, Zenon DEF KeysAhead
    <2>2. dbKey = cursor
      BY <1>4, <2>1, Zenon
    <2>3. ~Behind(dbKey) /\ before[dbKey] # Absent
      BY <1>5, <1>7, <2>2 DEF Behind, WalkInv
    <2>4. ~Taken(dbKey)
      BY <1>6, <2>3, Zenon DEF Taken
    <2>5. db[dbKey] = before[dbKey]
      BY <1>5, <2>3, <2>4, Zenon DEF ValueInv
    <2>6. \A k \in Keys : Behind(k) <=> k < dbKey
      BY <1>7, <2>2, Zenon DEF Behind
    <2> QED  BY <1>1, <1>5, <2>2, <2>3, <2>4, <2>5, <2>6, Zenon
  <1>8. CASE ~pending
    <2>1. KeysAhead = {k \in Keys : k > cursor /\ db[k] # Absent}
      BY <1>8, Zenon DEF KeysAhead
    <2>2. dbKey > cursor /\ db[dbKey] # Absent
      BY <1>4, <2>1, Zenon
    <2>3. cursor \in Int
      BY <1>2 DEF NoKey
    <2>4. ~Behind(dbKey)
      BY <1>5, <1>8, <2>2, <2>3 DEF Behind
    <2>5. ~Taken(dbKey)
      BY <1>6, <2>4, Zenon DEF Taken
    <2>6. db[dbKey] = before[dbKey]
      BY <1>5, <2>4, <2>5, Zenon DEF ValueInv
    <2>7. \A k \in Keys : Behind(k) <=> k <= cursor
      BY <1>8, Zenon DEF Behind
    <2>8. \A k \in Keys : Behind(k) => k < dbKey
      BY <1>2, <1>5, <2>2, <2>3, <2>7
    <2>9. ASSUME NEW k \in Keys, k < dbKey, ~Behind(k), ~Taken(k)
          PROVE  before[k] = Absent
      <3>1. k > cursor /\ ~(dbKey <= k)
        BY <1>2, <1>5, <2>3, <2>7, <2>9
      <3>2. db[k] = Absent
        BY <1>4, <2>1, <3>1, Zenon
      <3>3. db[k] = before[k]
        BY <2>9, Zenon DEF ValueInv
      <3> QED  BY <3>2, <3>3, Zenon
    <2> QED  BY <1>1, <1>5, <1>8, <2>2, <2>4, <2>5, <2>6, <2>8, <2>9, Zenon
  <1> QED  BY <1>2, <1>7, <1>8, Zenon

\* The next item was not handled, if it is in order; if the cursor has gone past
\* its key, the key was not in the DBI.
LEMMA AtItem ==
  ASSUME IterUpdateInv, ~itEOF, NextIsSorted
  PROVE  /\ pos + 1 \in 1..Len(source)
         /\ it.key \in Keys /\ it.key \in Nat /\ it.entry \in Entry
         /\ \A i \in 1..pos : source[i].key < it.key
         /\ ~Taken(it.key)
         /\ ~pending => cursor < it.key /\ ~Behind(it.key)
         /\ pending /\ it.key < cursor => before[it.key] = Absent
         /\ db[it.key] = before[it.key]
  <1> USE DEF IterUpdateInv
  <1>1. /\ pos \in Nat /\ Len(source) \in Nat /\ pos < Len(source)
        /\ cursor \in Keys \cup {NoKey} /\ pending \in BOOLEAN
        /\ Keys \subseteq Nat /\ pos + 1 \in 1..Len(source)
    BY StrategiesAssumption DEF TypeInv, TypeOK, itEOF
  <1>2. it.key \in Keys /\ it.key \in Nat /\ it.entry \in Entry
    BY <1>1, ItemFields, Zenon DEF it
  <1>3. \A i \in 1..pos : source[i].key \in Nat
    BY <1>1, ItemFields
  <1>4. pos > 0 => source[pos].key < it.key /\ source[pos].key \in Nat
    BY <1>1, <1>2, <1>3 DEF NextIsSorted
  <1>5. \A i \in 1..pos : source[i].key < it.key
    <2> TAKE i \in 1..pos
    <2>1. CASE i = pos
      BY <1>1, <1>4, <2>1
    <2>2. CASE i # pos
      <3>1. source[i].key < source[pos].key
        BY <1>1, <2>2 DEF WalkInv
      <3> QED  BY <1>1, <1>2, <1>3, <1>4, <3>1
    <2> QED  BY <2>1, <2>2, Zenon
  <1>6. ~Taken(it.key)
    BY <1>2, <1>3, <1>5 DEF Taken
  <1>7. cursor \in Int
    BY <1>1 DEF NoKey
  <1>8. ASSUME ~pending
        PROVE  cursor < it.key /\ ~Behind(it.key)
    <2>1. \/ cursor = NoKey
          \/ pos > 0 /\ cursor <= source[pos].key
          \/ cursor < source[pos + 1].key
      BY <1>1, <1>8 DEF WalkInv
    <2>2. cursor < it.key
      BY <1>2, <1>4, <1>7, <2>1 DEF NoKey, it
    <2> QED  BY <1>2, <1>7, <1>8, <2>2 DEF Behind
  <1>9. ASSUME pending, it.key < cursor
        PROVE  before[it.key] = Absent
    BY <1>2, <1>4, <1>9, Zenon DEF WalkInv
  <1>10. db[it.key] = before[it.key]
    <2>1. CASE Behind(it.key)
      <3>1. before[it.key] = Absent
        BY <1>8, <1>9, <2>1, Zenon DEF Behind
      <3> QED  BY <1>2, <1>6, <3>1, Zenon DEF ValueInv
    <2>2. CASE ~Behind(it.key)
      BY <1>2, <1>6, <2>2, Zenon DEF ValueInv
    <2> QED  BY <2>1, <2>2, Zenon
  <1> QED  BY <1>1, <1>2, <1>5, <1>6, <1>8, <1>9, <1>10, Zenon

\* When nothing is ahead of the cursor, what is left was not in the DBI.
LEMMA AtEnd ==
  ASSUME IterUpdateInv, AtEOF
  PROVE  ~pending /\ \A k \in Keys : Left(k) => before[k] = Absent
  <1> USE DEF IterUpdateInv
  <1>1. /\ pending \in BOOLEAN /\ cursor \in Int /\ Keys \subseteq Nat
    BY StrategiesAssumption DEF TypeInv, TypeOK, NoKey
  <1>2. ~pending
    BY Zenon DEF AtEOF, KeysAhead, WalkInv
  <1>3. CASE dbEOF
    BY <1>2, <1>3, Zenon DEF WalkInv
  <1>4. CASE KeysAhead = {}
    <2> SUFFICES ASSUME NEW k \in Keys, Left(k)
                 PROVE  before[k] = Absent
      BY <1>2, Zenon
    <2>1. k > cursor /\ ~Taken(k) /\ db[k] = Absent
      BY <1>2, <1>4, Zenon DEF KeysAhead, Left
    <2>2. ~Behind(k)
      BY <1>1, <1>2, <2>1 DEF Behind
    <2> QED  BY <2>1, <2>2, Zenon DEF ValueInv
  <1> QED  BY <1>3, <1>4, Zenon DEF AtEOF
-------------------------------------------------------------------------------
(***************************************************************************)
(* What a step does to the values.                                         *)
(***************************************************************************)
\* setNewVal changes one key.
LEMMA SetEffect ==
  ASSUME TypeInv, NEW key \in Keys, NEW val \in Value, setNewVal(key, val)
  PROVE  /\ db' \in [Keys -> Value] /\ dirty' \in BOOLEAN
         /\ db'[key] = val /\ \A k \in Keys \ {key} : db'[k] = db[k]
  <1>1. db \in [Keys -> Value] /\ dirty \in BOOLEAN
    BY Zenon DEF TypeInv, TypeOK, Value
  <1>2. db' = [db EXCEPT ![key] = val]
    BY Zenon DEF setNewVal
  <1>3. dirty' \in BOOLEAN
    BY Zenon DEF setNewVal
  <1> QED  BY <1>1, <1>2, <1>3, Zenon

\* A key that has the value it had before is set: the transaction is dirty just
\* when that makes a difference.
LEMMA SetDirty ==
  ASSUME TypeInv, ValueInv, NEW key \in Keys, NEW val \in Value,
         setNewVal(key, val), db[key] = before[key], before' = before
  PROVE  dirty' <=> db' # before'
  <1>1. db \in [Keys -> Value] /\ before \in [Keys -> Value]
    BY Zenon DEF TypeInv, TypeOK, Value
  <1>2. db' = [db EXCEPT ![key] = val] /\ (dirty' <=> dirty \/ val # db[key])
    BY Zenon DEF setNewVal
  <1>3. dirty <=> db # before
    BY Zenon DEF ValueInv
  <1>4. CASE val = db[key]
    <2>1. db' = db
      BY <1>1, <1>2, <1>4, Zenon
    <2> QED  BY <1>2, <1>3, <1>4, <2>1, Zenon
  <1>5. CASE val # db[key]
    <2>1. db'[key] # before[key]
      BY <1>1, <1>2, <1>5, Zenon
    <2> QED  BY <1>2, <1>5, <2>1, Zenon
  <1> QED  BY <1>4, <1>5, Zenon

\* A step of IterUpdate that cleans the key at the cursor, or merges the next
\* item, keeps the values as promised.
LEMMA ValueStep ==
  ASSUME TypeInv, ValueInv, strategy = "IterUpdate", UNCHANGED constVars,
         NEW key \in Keys, NEW val \in Value, setNewVal(key, val),
         db[key] = before[key], ~Taken(key),
         \/ /\ pos' = pos /\ val = CleanVal(before[key])
            /\ before[key] # Absent /\ Behind(key)'
         \/ /\ pos' = pos + 1 /\ key = it.key /\ val = MergeVal(before[key], it.entry),
         \A k \in Keys : k # key /\ ~Taken(k) /\ before[k] # Absent
                         => (Behind(k)' <=> Behind(k))
  PROVE  ValueInv'
  <1>1. /\ strategy' = strategy /\ iterator' = iterator
        /\ source' = source /\ before' = before
    BY Zenon DEF constVars
  <1>2. pos \in Nat /\ pos <= Len(source) /\ Len(source) \in Nat
    BY DEF TypeInv, TypeOK
  <1>3. db'[key] = val /\ \A k \in Keys \ {key} : db'[k] = db[k]
    BY SetEffect, Zenon
  <1>4. pos' = pos \/ (pos' = pos + 1 /\ key = source[pos + 1].key)
    BY Zenon DEF it
  <1>5. \A k \in Keys : Taken(k) => Taken(k)'
    BY <1>1, <1>2, <1>4 DEF Taken
  <1>6. \A k \in Keys : k # key /\ Taken(k)' => Taken(k)
    BY <1>1, <1>2, <1>4 DEF Taken
  <1>7. ASSUME NEW i \in 1..pos'
        PROVE  db'[source[i].key] = MergeVal(before[source[i].key], source[i].entry)
    <2>1. CASE i \in 1..pos
      <3>1. source[i].key \in Keys /\ source[i].key # key
        BY <1>2, <2>1, ItemFields DEF Taken
      <3>2. db[source[i].key] = MergeVal(before[source[i].key], source[i].entry)
        BY <2>1, Zenon DEF ValueInv
      <3> QED  BY <1>3, <3>1, <3>2, Zenon
    <2>2. CASE i \notin 1..pos
      <3>1. i = pos + 1 /\ pos' = pos + 1
        BY <1>2, <1>4, <2>2
      <3>2. pos' # pos
        BY <1>2, <3>1
      <3> QED  BY <1>3, <3>1, <3>2, Zenon DEF it
    <2> QED  BY <2>1, <2>2, Zenon
  <1>8. ASSUME NEW k \in Keys, ~Taken(k)'
        PROVE  db'[k] = IF Behind(k)' /\ before[k] # Absent
                        THEN CleanVal(before[k]) ELSE before[k]
    <2>1. CASE k = key
      <3>1. pos' = pos
        <4>1. SUFFICES ASSUME pos' = pos + 1
                       PROVE  FALSE
          BY <1>4, Zenon
        <4>2. Taken(key)'
          BY <1>1, <1>2, <1>4, <4>1 DEF Taken
        <4> QED  BY <1>8, <2>1, <4>2, Zenon
      <3>2. val = CleanVal(before[key]) /\ before[key] # Absent /\ Behind(key)'
        BY <1>2, <3>1
      <3> QED  BY <1>3, <2>1, <3>2, Zenon
    <2>2. CASE k # key
      <3>1. ~Taken(k)
        BY <1>5, <1>8, Zenon
      <3>2. db[k] = IF Behind(k) /\ before[k] # Absent
                    THEN CleanVal(before[k]) ELSE before[k]
        BY <3>1, Zenon DEF ValueInv
      <3> QED  BY <1>3, <2>2, <3>1, <3>2, Zenon
    <2> QED  BY <2>1, <2>2, Zenon
  <1>9. dirty' <=> db' # before'
    BY <1>1, SetDirty, Zenon
  <1>10. /\ \A o, n : MergeVal(o, n)' = MergeVal(o, n)
         /\ \A o : CleanVal(o)' = CleanVal(o)
    BY <1>1, Zenon DEF MergeVal, CleanVal
  <1> QED  BY <1>1, <1>7, <1>8, <1>9, <1>10, Zenon DEF ValueInv
-------------------------------------------------------------------------------
(***************************************************************************)
(* The steps of IterUpdate.                                                *)
(***************************************************************************)
\* A step of IterUpdate that sets a key keeps the types.
LEMMA TypeStep ==
  ASSUME TypeInv, UNCHANGED constVars, NEW key \in Keys, NEW val \in Value,
         setNewVal(key, val), pos' \in 0..Len(source),
         cursor' \in Keys \cup {NoKey}, pending' \in BOOLEAN, dbEOF' \in BOOLEAN,
         result' = result
  PROVE  TypeInv'
  <1>1. db' \in [Keys -> Value] /\ dirty' \in BOOLEAN
    BY SetEffect, Zenon
  <1>2. /\ strategy' = strategy /\ iterator' = iterator
        /\ source' = source /\ before' = before
    BY Zenon DEF constVars
  <1> QED  BY <1>1, <1>2, Zenon DEF TypeInv, TypeOK, Value

\* The key at the cursor is not in the source: it is cleaned.
LEMMA DbOnlyStep ==
  ASSUME IterUpdateInv, DbOnly
  PROVE  IterUpdateInv'
  <1>1. PICK key \in Keys :
        /\ key = dbKey /\ key \in Nat /\ ~dbEOF
        /\ ~Taken(key) /\ ~Behind(key)
        /\ db[key] = before[key] /\ before[key] # Absent
        /\ \A k \in Keys : Behind(k) => k < key
        /\ \A k \in Keys : k < key /\ ~Behind(k) /\ ~Taken(k) => before[k] = Absent
    BY AtCursor, Zenon DEF DbOnly
  <1>2. PICK val \in Value : val = CleanVal(before[key])
    <2>1. before[key] \in Value
      BY <1>1, Zenon DEF IterUpdateInv, TypeInv
    <2> QED  BY <1>1, <2>1, ValueTypes, Zenon DEF IterUpdateInv
  <1>3. /\ setNewVal(key, val) /\ cursor' = key /\ pending' = FALSE
        /\ dbEOF' = dbEOF /\ pos' = pos /\ result' = result
        /\ UNCHANGED constVars /\ strategy' = strategy
        /\ source' = source /\ before' = before
    BY <1>1, <1>2, Zenon DEF DbOnly, Passed, constVars
  <1>4. /\ pos \in 0..Len(source) /\ Keys \subseteq Nat /\ dbEOF \in BOOLEAN
        /\ Len(source) \in Nat
    BY StrategiesAssumption DEF IterUpdateInv, TypeInv, TypeOK
  <1>5. TypeInv'
    <2>1. /\ pos' \in 0..Len(source) /\ cursor' \in Keys \cup {NoKey}
          /\ pending' \in BOOLEAN /\ dbEOF' \in BOOLEAN
      BY <1>1, <1>3, <1>4, Zenon
    <2> QED  BY <1>1, <1>3, <1>2, <2>1, TypeStep, Zenon DEF IterUpdateInv
  <1>6. \A k \in Keys : Behind(k)' <=> k <= key
    BY <1>3, Zenon DEF Behind
  <1>7. ValueInv'
    <2>1. \A k \in Keys : k # key /\ ~Taken(k) /\ before[k] # Absent
                          => (Behind(k)' <=> Behind(k))
      <3> SUFFICES ASSUME NEW k \in Keys, k # key, ~Taken(k), before[k] # Absent
                   PROVE  k <= key <=> Behind(k)
        BY <1>6, Zenon
      <3>1. k \in Nat /\ key \in Nat
        BY <1>4, Zenon
      <3>2. CASE k < key
        BY <1>1, <3>1, <3>2
      <3>3. CASE k > key
        BY <1>1, <3>1, <3>3
      <3> QED  BY <3>1, <3>2, <3>3
    <2>2. Behind(key)'
      BY <1>1, <1>6
    <2>3. TypeInv /\ ValueInv /\ strategy = "IterUpdate"
      BY Zenon DEF IterUpdateInv
    <2>4. \/ /\ pos' = pos /\ val = CleanVal(before[key])
             /\ before[key] # Absent /\ Behind(key)'
          \/ /\ pos' = pos + 1 /\ key = it.key
             /\ val = MergeVal(before[key], it.entry)
      BY <1>1, <1>3, <1>2, <2>2, Zenon
    <2> QED  BY <1>1, <1>3, <1>2, <2>1, <2>3, <2>4, ValueStep, Zenon
  <1>8. WalkInv'
    <2>1. \A i, j \in 1..pos' : i < j => source'[i].key < source'[j].key
      BY <1>3, Zenon DEF IterUpdateInv, WalkInv
    <2>2. (\A i \in 1..pos : Behind(source[i].key))'
      <3> SUFFICES ASSUME NEW i \in 1..pos
                   PROVE  source[i].key <= key
        BY <1>3, Zenon DEF Behind
      <3>1. source[i].key \in Keys
        BY <1>4, ItemFields DEF IterUpdateInv
      <3>2. Behind(source[i].key)
        BY <1>1, Zenon DEF IterUpdateInv, WalkInv
      <3>3. source[i].key < key
        BY <1>1, <3>1, <3>2, Zenon
      <3>4. source[i].key \in Nat /\ key \in Nat
        BY <1>4, <3>1, Zenon
      <3> QED  BY <3>3, <3>4
    <2>3. ~pending' /\ ~dbEOF'
      BY <1>1, <1>3, Zenon
    <2>4. \/ pos' < Len(source') /\ cursor' < source'[pos' + 1].key
          \/ pos' = Len(source')
      BY <1>1, <1>3, <1>4 DEF DbOnly, itEOF, it
    <2> QED  BY <2>1, <2>2, <2>3, <2>4, Zenon DEF WalkInv
  <1> QED  BY <1>3, <1>5, <1>7, <1>8, Zenon DEF IterUpdateInv

\* The same key on both sides: it is merged.
LEMMA BothStep ==
  ASSUME IterUpdateInv, Both
  PROVE  IterUpdateInv'
  <1>1. PICK key \in Keys :
        /\ key = dbKey /\ key = it.key /\ key \in Nat /\ ~dbEOF
        /\ ~Taken(key) /\ db[key] = before[key]
        /\ \A k \in Keys : Behind(k) => k < key
        /\ \A k \in Keys : k < key /\ ~Behind(k) /\ ~Taken(k) => before[k] = Absent
    BY AtCursor, Zenon DEF Both
  <1>2. /\ pos + 1 \in 1..Len(source) /\ it.entry \in Entry
        /\ \A i \in 1..pos : source[i].key < key
    BY <1>1, AtItem, Zenon DEF Both
  <1>3. PICK val \in Value : val = MergeVal(before[key], it.entry)
    <2>1. before[key] \in Value
      BY <1>1, Zenon DEF IterUpdateInv, TypeInv
    <2> QED  BY <1>2, <2>1, ValueTypes, Zenon DEF IterUpdateInv
  <1>4. /\ setNewVal(key, val) /\ cursor' = key /\ pending' = FALSE
        /\ dbEOF' = dbEOF /\ pos' = pos + 1 /\ result' = result
        /\ UNCHANGED constVars /\ strategy' = strategy
        /\ source' = source /\ before' = before
    BY <1>1, <1>3, Zenon DEF Both, Passed, constVars
  <1>5. /\ pos \in 0..Len(source) /\ Keys \subseteq Nat /\ dbEOF \in BOOLEAN
        /\ Len(source) \in Nat
    BY StrategiesAssumption DEF IterUpdateInv, TypeInv, TypeOK
  <1>6. TypeInv'
    <2>1. pos' \in 0..Len(source) /\ cursor' \in Keys \cup {NoKey}
      BY <1>2, <1>4, <1>5
    <2>2. pending' \in BOOLEAN /\ dbEOF' \in BOOLEAN
      BY <1>4, <1>5, Zenon
    <2> QED  BY <1>4, <2>1, <2>2, TypeStep, Zenon DEF IterUpdateInv
  <1>7. \A k \in Keys : Behind(k)' <=> k <= key
    BY <1>4, Zenon DEF Behind
  <1>8. ValueInv'
    <2>1. \A k \in Keys : k # key /\ ~Taken(k) /\ before[k] # Absent
                          => (Behind(k)' <=> Behind(k))
      <3> SUFFICES ASSUME NEW k \in Keys, k # key, ~Taken(k), before[k] # Absent
                   PROVE  k <= key <=> Behind(k)
        BY <1>7, Zenon
      <3>1. k \in Nat /\ key \in Nat
        BY <1>5, Zenon
      <3>2. CASE k < key
        BY <1>1, <3>1, <3>2
      <3>3. CASE k > key
        BY <1>1, <3>1, <3>3
      <3> QED  BY <3>1, <3>2, <3>3
    <2>2. TypeInv /\ ValueInv /\ strategy = "IterUpdate"
      BY Zenon DEF IterUpdateInv
    <2>3. \/ /\ pos' = pos /\ val = CleanVal(before[key])
             /\ before[key] # Absent /\ Behind(key)'
          \/ /\ pos' = pos + 1 /\ key = it.key
             /\ val = MergeVal(before[key], it.entry)
      BY <1>1, <1>3, <1>4, Zenon
    <2> QED  BY <1>1, <1>4, <2>1, <2>2, <2>3, ValueStep, Zenon
  <1>9. WalkInv'
    <2>1. source'[pos'].key = key
      BY <1>1, <1>4, Zenon DEF it
    <2>2. \A i \in 1..pos' : i # pos' => i \in 1..pos
      BY <1>4, <1>5
    <2>3. \A i, j \in 1..pos' : i < j => source'[i].key < source'[j].key
      BY <1>2, <1>4, <1>5, <2>1, <2>2, SMTT(30) DEF IterUpdateInv, WalkInv
    <2>4. \A i \in 1..pos' : source'[i].key <= key
      <3> SUFFICES ASSUME NEW i \in 1..pos'
                   PROVE  source[i].key <= key
        BY <1>4, Zenon
      <3>1. CASE i = pos'
        BY <1>1, <1>4, <2>1, <3>1
      <3>2. CASE i # pos'
        <4>1. source[i].key < key /\ source[i].key \in Nat
          BY <1>2, <1>5, <2>2, <3>2, ItemFields DEF IterUpdateInv
        <4>2. key \in Nat
          BY <1>5, Zenon
        <4> QED  BY <4>1, <4>2
      <3> QED  BY <3>1, <3>2, Zenon
    <2>5. (\A i \in 1..pos : Behind(source[i].key))'
      BY <1>4, <2>4, Zenon DEF Behind
    <2>6. ~pending' /\ ~dbEOF' /\ pos' > 0 /\ cursor' <= source'[pos'].key
      BY <1>1, <1>4, <1>5, <2>1
    <2> QED  BY <2>3, <2>5, <2>6, Zenon DEF WalkInv
  <1> QED  BY <1>4, <1>6, <1>8, <1>9, Zenon DEF IterUpdateInv

\* The next item goes in front of the key at the cursor, which stays pending.
LEMMA InsertStep ==
  ASSUME IterUpdateInv, Insert
  PROVE  IterUpdateInv'
  <1>1. PICK here \in Keys :
        /\ here = dbKey /\ here \in Nat /\ ~dbEOF /\ before[here] # Absent
        /\ pending => here = cursor
        /\ \A k \in Keys : Behind(k) => k < here
        /\ \A k \in Keys : k < here /\ ~Behind(k) /\ ~Taken(k) => before[k] = Absent
    BY AtCursor, Zenon DEF Insert
  <1>2. PICK key \in Keys :
        /\ key = it.key /\ key \in Nat /\ key < here
        /\ pos + 1 \in 1..Len(source) /\ it.entry \in Entry
        /\ \A i \in 1..pos : source[i].key < key
        /\ ~Taken(key) /\ db[key] = before[key]
        /\ ~pending => cursor < key /\ ~Behind(key)
        /\ pending /\ key < cursor => before[key] = Absent
    BY <1>1, AtItem, Zenon DEF Insert
  <1>3. before[key] = Absent
    BY <1>1, <1>2, Zenon
  <1>4. PICK val \in Value : val = MergeVal(Absent, it.entry)
    BY <1>2, ValueTypes, Zenon DEF IterUpdateInv, Value
  <1>5. /\ setNewVal(key, val) /\ cursor' = here /\ pending' = TRUE
        /\ dbEOF' = dbEOF /\ pos' = pos + 1 /\ result' = result
        /\ UNCHANGED constVars /\ strategy' = strategy
        /\ source' = source /\ before' = before
    BY <1>1, <1>2, <1>4, Zenon DEF Insert, constVars
  <1>6. /\ pos \in 0..Len(source) /\ Keys \subseteq Nat /\ dbEOF \in BOOLEAN
        /\ Len(source) \in Nat /\ pending \in BOOLEAN /\ cursor \in Int
    BY StrategiesAssumption DEF IterUpdateInv, TypeInv, TypeOK, NoKey
  <1>7. TypeInv'
    <2>1. pos' \in 0..Len(source) /\ cursor' \in Keys \cup {NoKey}
      BY <1>2, <1>5, <1>6
    <2>2. pending' \in BOOLEAN /\ dbEOF' \in BOOLEAN
      BY <1>5, <1>6, Zenon
    <2> QED  BY <1>5, <2>1, <2>2, TypeStep, Zenon DEF IterUpdateInv
  <1>8. \A k \in Keys : Behind(k)' <=> k < here
    BY <1>5, Zenon DEF Behind
  <1>9. ValueInv'
    <2>1. \A k \in Keys : k # key /\ ~Taken(k) /\ before[k] # Absent
                          => (Behind(k)' <=> Behind(k))
      BY <1>1, <1>8, Zenon
    <2>2. TypeInv /\ ValueInv /\ strategy = "IterUpdate"
      BY Zenon DEF IterUpdateInv
    <2>3. \/ /\ pos' = pos /\ val = CleanVal(before[key])
             /\ before[key] # Absent /\ Behind(key)'
          \/ /\ pos' = pos + 1 /\ key = it.key
             /\ val = MergeVal(before[key], it.entry)
      BY <1>2, <1>3, <1>4, <1>5, Zenon
    <2> QED  BY <1>2, <1>5, <2>1, <2>2, <2>3, ValueStep, Zenon
  <1>10. WalkInv'
    <2>1. source'[pos'].key = key
      BY <1>2, <1>5, Zenon DEF it
    <2>2. \A i \in 1..pos' : i # pos' => i \in 1..pos
      BY <1>5, <1>6
    <2>3. \A i, j \in 1..pos' : i < j => source'[i].key < source'[j].key
      BY <1>2, <1>5, <1>6, <2>1, <2>2, SMTT(30) DEF IterUpdateInv, WalkInv
    <2>4. \A i \in 1..pos' : source'[i].key < here
      <3> SUFFICES ASSUME NEW i \in 1..pos'
                   PROVE  source[i].key < here
        BY <1>5, Zenon
      <3>1. CASE i = pos'
        BY <1>2, <1>5, <2>1, <3>1, Zenon
      <3>2. CASE i # pos'
        <4>1. source[i].key < key /\ source[i].key \in Nat
          BY <1>2, <1>6, <2>2, <3>2, ItemFields DEF IterUpdateInv
        <4>2. key \in Nat /\ here \in Nat /\ key < here
          BY <1>2, <1>6, Zenon
        <4> QED  BY <4>1, <4>2
      <3> QED  BY <3>1, <3>2, Zenon
    <2>5. (\A i \in 1..pos : Behind(source[i].key))'
      BY <1>5, <2>4, Zenon DEF Behind
    <2>6. ASSUME NEW k \in Keys, key < k, k < here
          PROVE  before[k] = Absent
      <3>1. k \in Nat /\ key \in Nat
        BY <1>6, Zenon
      <3>2. CASE pending
        <4>1. pos > 0 /\ \A m \in Keys : source[pos].key < m /\ m < cursor
                                         => before[m] = Absent
          BY <3>2, Zenon DEF IterUpdateInv, WalkInv
        <4>2. source[pos].key < key /\ source[pos].key \in Nat
          BY <1>2, <1>6, <4>1, ItemFields DEF IterUpdateInv
        <4>3. source[pos].key < k
          BY <2>6, <3>1, <4>2
        <4> QED  BY <1>1, <2>6, <3>2, <4>1, <4>3, Zenon
      <3>3. CASE ~pending
        <4>1. cursor < key
          BY <1>2, <3>3, Zenon
        <4>2. cursor < k
          BY <1>6, <2>6, <3>1, <4>1
        <4>3. ~Behind(k)
          BY <1>6, <3>1, <3>3, <4>2 DEF Behind
        <4>4. ~Taken(k)
          <5> SUFFICES ASSUME NEW i \in 1..pos
                       PROVE  source[i].key # k
            BY Zenon DEF Taken
          <5>1. source[i].key < key /\ source[i].key \in Nat
            BY <1>2, <1>6, ItemFields, SMTT(30) DEF IterUpdateInv
          <5> QED  BY <2>6, <3>1, <5>1
        <4> QED  BY <1>1, <2>6, <4>3, <4>4, Zenon
      <3> QED  BY <1>6, <3>2, <3>3, Zenon
    <2>7. /\ pending' /\ ~dbEOF' /\ pos' > 0 /\ cursor' \in Keys
          /\ before'[cursor'] # Absent
      BY <1>1, <1>5, <1>6
    <2> QED  BY <1>5, <2>1, <2>3, <2>5, <2>6, <2>7, Zenon DEF WalkInv
  <1> QED  BY <1>5, <1>7, <1>9, <1>10, Zenon DEF IterUpdateInv

\* The DBI has ended: the item is put past its last key, and fits.
LEMMA AppendStep ==
  ASSUME IterUpdateInv, AppendItem
  PROVE  IterUpdateInv' /\ result' = result
  <1>1. ~pending /\ \A k \in Keys : Left(k) => before[k] = Absent
    BY AtEnd, Zenon DEF AppendItem
  <1>2. PICK key \in Keys :
        /\ key = it.key /\ key \in Nat
        /\ pos + 1 \in 1..Len(source) /\ it.entry \in Entry
        /\ \A i \in 1..pos : source[i].key < key
        /\ ~Taken(key) /\ db[key] = before[key]
        /\ cursor < key
    BY <1>1, AtItem, Zenon DEF AppendItem
  <1>3. /\ pos \in 0..Len(source) /\ Keys \subseteq Nat /\ pending \in BOOLEAN
        /\ Len(source) \in Nat /\ cursor \in Int /\ cursor \in Keys \cup {NoKey}
    BY StrategiesAssumption DEF IterUpdateInv, TypeInv, TypeOK, NoKey
  <1>4. before[key] = Absent
    BY <1>1, <1>2, <1>3, Zenon DEF Left
  <1>5. PICK val \in Value : val = MergeVal(Absent, it.entry)
    BY <1>2, ValueTypes, Zenon DEF IterUpdateInv, Value
  <1>6. ASSUME NEW k \in Keys, db[k] # Absent
        PROVE  k < key
    <2>1. CASE Taken(k)
      BY <1>2, <2>1, Zenon DEF Taken
    <2>2. CASE ~Taken(k)
      <3>1. ~(k > cursor)
        <4>1. SUFFICES ASSUME k > cursor
                       PROVE  FALSE
          BY Zenon
        <4>2. before[k] = Absent
          BY <1>1, <2>2, <4>1, Zenon DEF Left
        <4>3. db[k] = before[k]
          BY <2>2, <4>2, Zenon DEF IterUpdateInv, ValueInv
        <4> QED  BY <1>6, <4>2, <4>3, Zenon
      <3> QED  BY <1>2, <1>3, <3>1
    <2> QED  BY <2>1, <2>2, Zenon
  <1>7. /\ setNewVal(key, val) /\ cursor' = cursor /\ pending' = pending
        /\ dbEOF' = TRUE /\ pos' = pos + 1 /\ result' = result
        /\ UNCHANGED constVars /\ strategy' = strategy
        /\ source' = source /\ before' = before
    <2>1. val = Absent \/ \A k \in Keys : db[k] # Absent => k < key
      BY <1>6, Zenon
    <2> QED  BY <1>2, <1>5, <2>1, Zenon DEF AppendItem, constVars
  <1>8. TypeInv'
    <2>1. pos' \in 0..Len(source) /\ cursor' \in Keys \cup {NoKey}
      BY <1>2, <1>3, <1>7
    <2>2. pending' \in BOOLEAN /\ dbEOF' \in BOOLEAN
      BY <1>3, <1>7, Zenon
    <2> QED  BY <1>7, <2>1, <2>2, TypeStep, Zenon DEF IterUpdateInv
  <1>9. ValueInv'
    <2>1. \A k \in Keys : k # key /\ ~Taken(k) /\ before[k] # Absent
                          => (Behind(k)' <=> Behind(k))
      BY <1>7, Zenon DEF Behind
    <2>2. TypeInv /\ ValueInv /\ strategy = "IterUpdate"
      BY Zenon DEF IterUpdateInv
    <2>3. \/ /\ pos' = pos /\ val = CleanVal(before[key])
             /\ before[key] # Absent /\ Behind(key)'
          \/ /\ pos' = pos + 1 /\ key = it.key
             /\ val = MergeVal(before[key], it.entry)
      BY <1>2, <1>4, <1>5, <1>7, Zenon
    <2> QED  BY <1>2, <1>7, <2>1, <2>2, <2>3, ValueStep, Zenon
  <1>10. WalkInv'
    <2>1. source'[pos'].key = key
      BY <1>2, <1>7, Zenon DEF it
    <2>2. \A i \in 1..pos' : i # pos' => i \in 1..pos
      BY <1>3, <1>7
    <2>3. \A i, j \in 1..pos' : i < j => source'[i].key < source'[j].key
      BY <1>2, <1>3, <1>7, <2>1, <2>2, SMTT(30) DEF IterUpdateInv, WalkInv
    <2>4. ~pending' /\ dbEOF' /\ pos' > 0 /\ cursor' <= source'[pos'].key
      <3>1. cursor <= key
        BY <1>2, <1>3
      <3> QED  BY <1>1, <1>3, <1>7, <2>1, <3>1
    <2>5. ASSUME NEW k \in Keys, Left(k)'
          PROVE  before[k] = Absent
      <3>1. Left(k)
        BY <1>3, <1>7, <2>5 DEF Left, Taken
      <3> QED  BY <1>1, <3>1, Zenon
    <2> QED  BY <1>7, <2>3, <2>4, <2>5, Zenon DEF WalkInv
  <1> QED  BY <1>7, <1>8, <1>9, <1>10, Zenon DEF IterUpdateInv

\* A step that leaves the loop's state keeps what the loop keeps.
LEMMA LoopUnchanged ==
  ASSUME UNCHANGED <<strategy, iterator, source, before, db, pos, cursor, pending,
                     dbEOF, dirty>>
  PROVE  /\ WalkInv <=> WalkInv'
         /\ ValueInv <=> ValueInv'
         /\ UniqueKeys <=> UniqueKeys'
         /\ \A k : Left(k) <=> Left(k)'
  <1>1. /\ \A k : Taken(k)' <=> Taken(k)
        /\ \A k : Behind(k)' <=> Behind(k)
        /\ \A k : Left(k)' <=> Left(k)
        /\ \A o, n : MergeVal(o, n)' = MergeVal(o, n)
        /\ \A o : CleanVal(o)' = CleanVal(o)
    BY Zenon DEF Taken, Behind, Left, MergeVal, CleanVal
  <1>2. WalkInv <=> WalkInv'
    BY <1>1, Zenon DEF WalkInv
  <1>3. ValueInv <=> ValueInv'
    BY <1>1, Zenon DEF ValueInv
  <1> QED  BY <1>1, <1>2, <1>3, Zenon DEF UniqueKeys

\* The loop of Update keeps the invariant.
LEMMA UpdateStep ==
  ASSUME StrategiesInv, UpdateNext
  PROVE  StrategiesInv'
  <1>1. TypeInv /\ ResultInv /\ strategy = "Update" /\ result = "running"
    BY Zenon DEF StrategiesInv, UpdateNext, Running
  <1>2. /\ strategy' = strategy /\ iterator' = iterator
        /\ source' = source /\ before' = before
        /\ cursor' = cursor /\ pending' = pending /\ dbEOF' = dbEOF
        /\ UNCHANGED constVars
    BY Zenon DEF UpdateNext, constVars
  <1>3. pos \in 0..Len(source) /\ Len(source) \in Nat
    BY <1>1 DEF TypeInv, TypeOK
  <1>4. CASE itEOF
    <2>1. result' = "done" /\ UNCHANGED <<db, dirty, pos>> /\ pos = Len(source)
      BY <1>4, Zenon DEF UpdateNext, itEOF
    <2>2. TypeInv'
      BY <1>1, <1>2, <2>1, Zenon DEF TypeInv, TypeOK
    <2>3. ResultInv'
      BY <1>1, <1>2, <2>1, Zenon DEF ResultInv
    <2>4. UniqueKeys' => ValueInv'
      BY <1>1, <1>2, <2>1, LoopUnchanged, Zenon DEF StrategiesInv
    <2> QED  BY <1>1, <1>2, <2>2, <2>3, <2>4, Zenon DEF StrategiesInv
  <1>5. CASE ~itEOF
    <2>1. pos + 1 \in 1..Len(source)
      BY <1>3, <1>5 DEF itEOF
    <2>2. PICK key \in Keys : key = it.key /\ it.entry \in Entry
      BY <1>1, <2>1, ItemFields, Zenon DEF it
    <2>3. PICK val \in Value : val = MergeVal(db[key], it.entry)
      <3>1. db[key] \in Value
        BY <1>1, Zenon DEF TypeInv, TypeOK, Value
      <3> QED  BY <1>1, <2>2, <3>1, ValueTypes, Zenon
    <2>4. setNewVal(key, val) /\ pos' = pos + 1 /\ result' = result
      BY <1>5, <2>2, <2>3, Zenon DEF UpdateNext
    <2>5. TypeInv'
      <3>1. /\ pos' \in 0..Len(source) /\ cursor' \in Keys \cup {NoKey}
        BY <1>1, <1>2, <1>3, <2>1, <2>4 DEF TypeInv, TypeOK
      <3>2. pending' \in BOOLEAN /\ dbEOF' \in BOOLEAN
        BY <1>1, <1>2, Zenon DEF TypeInv, TypeOK
      <3> QED  BY <1>1, <1>2, <2>4, <3>1, <3>2, TypeStep, Zenon
    <2>6. ResultInv'
      BY <1>1, <2>4, Zenon DEF ResultInv
    <2>7. ASSUME UniqueKeys'
          PROVE  ValueInv'
      <3>1. UniqueKeys /\ ValueInv
        BY <1>2, <2>7, Zenon DEF UniqueKeys, StrategiesInv
      <3>2. \A i \in 1..pos : source[i].key # key
        <4> SUFFICES ASSUME NEW i \in 1..pos, source[i].key = key
                     PROVE  FALSE
          BY Zenon
        <4>1. source[i].key = source[pos + 1].key
          BY <2>2, Zenon DEF it
        <4>2. i \in DOMAIN source /\ pos + 1 \in DOMAIN source
          BY <1>1, <1>3, <2>1 DEF TypeInv
        <4>3. i = pos + 1
          BY <3>1, <4>1, <4>2, Zenon DEF UniqueKeys
        <4> QED  BY <1>3, <4>3
      <3>3. db[key] = before[key]
        BY <1>1, <3>1, <3>2, Zenon DEF ValueInv, Taken
      <3>4. db'[key] = val /\ \A k \in Keys \ {key} : db'[k] = db[k]
        BY <1>1, <2>4, SetEffect, Zenon
      <3>5. dirty' <=> db' # before'
        BY <1>1, <1>2, <2>4, <3>1, <3>3, SetDirty, Zenon
      <3>6. ASSUME NEW i \in 1..pos'
            PROVE  db'[source[i].key] = MergeVal(before[source[i].key], source[i].entry)
        <4>1. CASE i \in 1..pos
          <5>1. source[i].key \in Keys /\ source[i].key # key
            BY <1>1, <1>3, <3>2, <4>1, ItemFields
          <5>2. db[source[i].key] = MergeVal(before[source[i].key], source[i].entry)
            BY <3>1, <4>1, Zenon DEF ValueInv
          <5> QED  BY <3>4, <5>1, <5>2, Zenon
        <4>2. CASE i \notin 1..pos
          <5>1. i = pos + 1
            BY <1>3, <2>4, <4>2
          <5> QED  BY <2>2, <2>3, <3>3, <3>4, <5>1, Zenon DEF it
        <4> QED  BY <4>1, <4>2, Zenon
      <3>7. ASSUME NEW k \in Keys, ~Taken(k)'
            PROVE  db'[k] = before[k]
        <4>1. k # key
          <5>1. Taken(key)'
            BY <1>2, <1>3, <2>2, <2>4 DEF Taken, it
          <5> QED  BY <3>7, <5>1, Zenon
        <4>2. ~Taken(k)
          BY <1>2, <1>3, <2>4, <3>7 DEF Taken
        <4>3. db[k] = before[k]
          BY <1>1, <3>1, <4>2, Zenon DEF ValueInv
        <4> QED  BY <3>4, <4>1, <4>3, Zenon
      <3>8. strategy' # "IterUpdate"
        BY <1>1, <1>2, Zenon
      <3>9. \A o, n : MergeVal(o, n)' = MergeVal(o, n)
        BY <1>2, Zenon DEF MergeVal
      <3> QED  BY <1>2, <3>5, <3>6, <3>7, <3>8, <3>9, Zenon DEF ValueInv
    <2> QED  BY <1>1, <1>2, <2>5, <2>6, <2>7, Zenon DEF StrategiesInv
  <1> QED  BY <1>4, <1>5, Zenon

\* Every step keeps the invariant.
LEMMA InvKept ==
  ASSUME StrategiesInv, [Next]_vars
  PROVE  StrategiesInv'
  <1>1. CASE UNCHANGED vars
    <2>1. /\ strategy' = strategy /\ iterator' = iterator /\ source' = source
          /\ before' = before /\ db' = db /\ pos' = pos /\ cursor' = cursor
          /\ pending' = pending /\ dbEOF' = dbEOF /\ dirty' = dirty
          /\ result' = result
      BY <1>1, Zenon DEF vars
    <2>2. TypeInv' <=> TypeInv
      BY <2>1, ZenonT(30) DEF TypeInv, TypeOK
    <2>3. /\ WalkInv <=> WalkInv'
          /\ ValueInv <=> ValueInv'
          /\ UniqueKeys <=> UniqueKeys'
          /\ \A k : Left(k) <=> Left(k)'
      BY <2>1, LoopUnchanged, Zenon
    <2>4. ResultInv' <=> ResultInv
      BY <2>1, <2>3, Zenon DEF ResultInv, NextIsSorted, it
    <2> QED  BY <2>1, <2>2, <2>3, <2>4, Zenon DEF StrategiesInv
  <1>2. ASSUME NotSorted \/ Finish
        PROVE  StrategiesInv'
    <2>1. /\ strategy' = strategy /\ iterator' = iterator /\ source' = source
          /\ before' = before /\ db' = db /\ pos' = pos /\ cursor' = cursor
          /\ pending' = pending /\ dbEOF' = dbEOF /\ dirty' = dirty
          /\ strategy = "IterUpdate"
      BY <1>2, Zenon DEF NotSorted, Finish, constVars, Running
    <2>2. IterUpdateInv
      BY <2>1, Zenon DEF StrategiesInv, IterUpdateInv
    <2>3. TypeInv'
      <3>1. result' \in {"running", "done", "ErrNotSorted", "MDB_KEYEXIST"}
        BY <1>2, Zenon DEF NotSorted, Finish
      <3> QED  BY <2>1, <2>2, <3>1, Zenon DEF IterUpdateInv, TypeInv, TypeOK
    <2>4. /\ WalkInv' /\ ValueInv' /\ \A k : Left(k) <=> Left(k)'
      BY <2>1, <2>2, LoopUnchanged, Zenon DEF IterUpdateInv
    <2>5. ResultInv'
      <3>1. CASE NotSorted
        <4>1. /\ result' = "ErrNotSorted" /\ pos < Len(source)
              /\ ~NextIsSorted
          BY <2>2, <3>1 DEF NotSorted, itEOF, IterUpdateInv, TypeInv, TypeOK
        <4>2. ~NextIsSorted'
          BY <2>1, <4>1, Zenon DEF NextIsSorted, it
        <4> QED  BY <2>1, <4>1, <4>2, Zenon DEF ResultInv
      <3>2. CASE Finish
        <4>1. result' = "done" /\ pos = Len(source)
          BY <3>2, Zenon DEF Finish, itEOF
        <4>2. ~pending /\ \A k \in Keys : Left(k) => before[k] = Absent
          BY <2>2, <3>2, AtEnd, Zenon DEF Finish
        <4> QED  BY <2>1, <2>4, <4>1, <4>2, Zenon DEF ResultInv
      <3> QED  BY <1>2, <3>1, <3>2, Zenon
    <2> QED  BY <2>1, <2>3, <2>4, <2>5, Zenon DEF StrategiesInv
  <1>3. ASSUME DbOnly \/ Both \/ Insert \/ AppendItem
        PROVE  StrategiesInv'
    <2>1. strategy = "IterUpdate" /\ result = "running"
      BY <1>3, Zenon DEF DbOnly, Both, Insert, AppendItem, Running
    <2>2. IterUpdateInv
      BY <2>1, Zenon DEF StrategiesInv, IterUpdateInv
    <2>3. result' = "running"
      BY <1>3, <2>1, <2>2, AppendStep, Zenon DEF DbOnly, Both, Insert
    <2>4. IterUpdateInv'
      BY <1>3, <2>2, DbOnlyStep, BothStep, InsertStep, AppendStep, Zenon
    <2>5. ResultInv'
      BY <2>3, Zenon DEF ResultInv
    <2> QED  BY <2>4, <2>5, Zenon DEF IterUpdateInv, StrategiesInv
  <1> QED  BY <1>1, <1>2, <1>3, UpdateStep, Zenon DEF Next
-------------------------------------------------------------------------------
(***************************************************************************)
(* What the invariant says of a strategy that returned.                    *)
(***************************************************************************)
\* IterUpdate and Update leave the DBI they promise.
LEMMA InvMerged ==
  ASSUME StrategiesInv
  PROVE  MergedAsPromised
  <1> SUFFICES ASSUME result = "done", UniqueKeys
               PROVE  db = Promised
    BY Zenon DEF MergedAsPromised
  <1>1. TypeInv /\ ValueInv /\ pos = Len(source)
    BY Zenon DEF StrategiesInv, ResultInv
  <1>2. /\ db \in [Keys -> Value] /\ DOMAIN source = 1..pos
        /\ Keys \subseteq Nat /\ cursor \in Int
    BY <1>1, StrategiesAssumption DEF TypeInv, TypeOK, Value, NoKey
  <1>3. ASSUME NEW k \in Keys
        PROVE  db[k] = Promised[k]
    <2>1. CASE ItemsOf(k) # {}
      <3>1. PICK i \in DOMAIN source : source[i].key = k
        BY <2>1, Zenon DEF ItemsOf
      <3>2. \A j \in DOMAIN source : source[j].key = k => j = i
        BY <3>1, Zenon DEF UniqueKeys
      <3>3. ItemsOf(k) = {source[i].entry}
        BY <3>1, <3>2, Zenon DEF ItemsOf
      <3>4. (CHOOSE e \in ItemsOf(k) : TRUE) = source[i].entry
        BY <3>3, Zenon
      <3>5. db[k] = MergeVal(before[k], source[i].entry)
        BY <1>1, <1>2, <3>1, Zenon DEF ValueInv
      <3> QED  BY <2>1, <3>4, <3>5, Zenon DEF Promised
    <2>2. CASE ItemsOf(k) = {}
      <3>1. ~Taken(k)
        BY <1>2, <2>2, Zenon DEF Taken, ItemsOf
      <3>2. db[k] = IF strategy = "IterUpdate" /\ Behind(k) /\ before[k] # Absent
                    THEN CleanVal(before[k]) ELSE before[k]
        BY <1>1, <3>1, Zenon DEF ValueInv
      <3>3. CASE strategy = "Update"
        BY <2>2, <3>2, <3>3, Zenon DEF Promised
      <3>4. CASE strategy = "IterUpdate" /\ before[k] = Absent
        BY <2>2, <3>2, <3>4, Zenon DEF Promised
      <3>5. CASE strategy = "IterUpdate" /\ before[k] # Absent
        <4>1. ~pending /\ ~Left(k)
          BY <3>5, Zenon DEF StrategiesInv, ResultInv
        <4>2. Behind(k)
          BY <1>2, <3>1, <4>1 DEF Left, Behind
        <4> QED  BY <2>2, <3>2, <3>5, <4>2, Zenon DEF Promised
      <3> QED  BY <1>1, <3>3, <3>4, <3>5, Zenon DEF TypeInv
    <2> QED  BY <2>1, <2>2, Zenon
  <1>4. DOMAIN Promised = Keys /\ Promised = [k \in Keys |-> Promised[k]]
    BY DEF Promised
  <1> QED  BY <1>2, <1>3, <1>4, Zenon

\* IterUpdate accepts the sorted sources.  The check starts from an empty key,
\* which is below every key but the integer 0.
LEMMA InvSorted ==
  ASSUME StrategiesInv, 0 \notin Keys
  PROVE  AcceptsTheSorted
  <1>1. TypeInv /\ ResultInv
    BY Zenon DEF StrategiesInv
  <1>2. /\ pos \in 0..Len(source) /\ Len(source) \in Nat
        /\ DOMAIN source = 1..Len(source)
    BY <1>1 DEF TypeInv, TypeOK
  <1>3. ASSUME result = "done", strategy = "IterUpdate"
        PROVE  SortedSource
    BY <1>1, <1>2, <1>3, Zenon DEF StrategiesInv, ResultInv, WalkInv, SortedSource
  <1>4. ASSUME result = "ErrNotSorted", SortedSource
        PROVE  FALSE
    <2>1. pos < Len(source) /\ ~NextIsSorted
      BY <1>1, <1>4, Zenon DEF ResultInv
    <2>2. pos + 1 \in 1..Len(source)
      BY <1>2, <2>1
    <2>3. it.key \in Nat /\ it.key # 0
      BY <1>1, <2>2, ItemFields, Zenon DEF it
    <2>4. pos # 0
      BY <2>1, <2>3 DEF NextIsSorted
    <2>5. pos \in 1..Len(source) /\ pos < pos + 1
      BY <1>2, <2>4
    <2>6. source[pos].key < it.key
      BY <1>2, <1>4, <2>2, <2>5, Zenon DEF SortedSource, it
    <2>7. source[pos].key \in Nat
      BY <1>1, <2>5, ItemFields, Zenon
    <2> QED  BY <2>1, <2>3, <2>4, <2>6, <2>7, Zenon DEF NextIsSorted
  <1> QED  BY <1>3, <1>4, Zenon DEF AcceptsTheSorted
-------------------------------------------------------------------------------
\* The invariant holds in every state of the loops.
LEMMA InvAlways == Spec => []StrategiesInv
  <1>1. Init => StrategiesInv
    BY InitInv, Zenon
  <1>2. StrategiesInv /\ [Next]_vars => StrategiesInv'
    BY InvKept, Zenon
  <1> QED  BY <1>1, <1>2, PTL DEF Spec

\* A strategy that returns without error has merged every item once and cleaned
\* every key the source lacks, for any DBI and any source with distinct keys,
\* although IterUpdate changes the DBI it walks through.
THEOREM MergedAsPromisedAlways == Spec => []MergedAsPromised
  <1>1. StrategiesInv => MergedAsPromised
    BY InvMerged, Zenon
  <1> QED  BY <1>1, InvAlways, PTL

\* A strategy dirties the transaction just when it changes the DBI.
THEOREM DirtyIffChangedAlways == Spec => []DirtyIffChanged
  <1>1. StrategiesInv => DirtyIffChanged
    BY Zenon DEF StrategiesInv, ValueInv, DirtyIffChanged
  <1> QED  BY <1>1, InvAlways, PTL

\* IterUpdate appends only past the last key of the DBI.
THEOREM AppendFitsAlways == Spec => []AppendFits
  <1>1. StrategiesInv => AppendFits
    BY Zenon DEF StrategiesInv, ResultInv, AppendFits
  <1> QED  BY <1>1, InvAlways, PTL

\* IterUpdate returns ErrNotSorted just for the sources whose keys are out of
\* order or repeated, if the DBI has no integer key 0.
THEOREM AcceptsTheSortedAlways == 0 \notin Keys => (Spec => []AcceptsTheSorted)
  <1> SUFFICES ASSUME 0 \notin Keys
               PROVE  Spec => []AcceptsTheSorted
    BY Zenon
  <1>1. StrategiesInv => AcceptsTheSorted
    BY InvSorted, Zenon
  <1> QED  BY <1>1, InvAlways, PTL
===============================================================================
