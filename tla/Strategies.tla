------------------------------ MODULE Strategies ------------------------------
(***************************************************************************)
(* The insert strategies of lmdbenv/strategy by which Lightning Stream     *)
(* merges a source into one DBI, inside a write transaction:               *)
(*   IterUpdate with a NativeIterator   mainToShadow                       *)
(*   IterUpdate with a PlainIterator    shadowToMain                       *)
(*   Update with a NativeIterator       LoadOnce                           *)
(* IterUpdate walks the DBI with a cursor while it changes that DBI.  The  *)
(* module shows that the loops leave the DBI that the whole-DBI operators  *)
(* of the module Syncer describe, and dirty the transaction only then.     *)
(*                                                                         *)
(* Keys are numbers in the order of the DBI.  Number 0 stands for what an  *)
(* empty byte string compares as: below every key of an ordinary DBI       *)
(* (LMDB has no empty key), but equal to the integer 0 in a DBI with       *)
(* MDB_INTEGERKEY.  The keys of an ordinary DBI thus start at 1.           *)
(***************************************************************************)
EXTENDS Iterators, Sequences, FiniteSetsExt

CONSTANTS
  Keys,          \* the keys of the DBI
  Uses,          \* the pairs <<strategy, iterator>>
  Stored(_),     \* the entries a DBI may hold, per iterator
  Offered(_),    \* the entries of a source, per use
  MaxItems,      \* bound: the length of a source
  DefaultTS,     \* the timestamp of entries that have none
  DeletedCutoff  \* older deletions are not added

ASSUME StrategiesAssumption ==
  /\ Keys \subseteq Nat
  /\ Uses \subseteq {"IterUpdate", "Update"} \X {"native", "plain"}
  /\ \A i \in {"native", "plain"} : Stored(i) \subseteq Entry
  /\ \A use \in Uses : Offered(use) \subseteq Entry
  /\ MaxItems \in Nat /\ DefaultTS \in Nat /\ DeletedCutoff \in Nat

VARIABLES
  strategy, iterator, \* what runs
  source,  \* the items the iterator returns, in its order
  db,      \* the DBI
  before,  \* the DBI when the strategy was called
  pos,     \* the number of items that were handled
  cursor,  \* dbKey, or the last key the cursor was at
  pending, \* dbKey is not nil: the key at the cursor was not handled yet
  dbEOF,
  dirty,   \* the transaction put or deleted something
  result   \* "running", or what the call returned

vars == <<strategy, iterator, source, db, before, pos, cursor, pending, dbEOF,
          dirty, result>>

constVars == <<strategy, iterator, source, before>>

NoKey == -1

Item(entries) == [key : Keys, entry : entries]

Init ==
  /\ \E use \in Uses :
       /\ strategy = use[1] /\ iterator = use[2]
       /\ \E n \in 0..MaxItems : source \in [1..n -> Item(Offered(use))]
       /\ db \in [Keys -> Stored(iterator) \cup {Absent}]
  /\ before = db
  /\ pos = 0 /\ cursor = NoKey
  /\ pending = FALSE /\ dbEOF = FALSE /\ dirty = FALSE
  /\ result = "running"
-------------------------------------------------------------------------------
\* A value of a DBI without headers.
Plain(val) == [kind |-> "live", ts |-> 0, val |-> val]

\* Iterator.Merge and Iterator.Clean; Absent is the value of length zero.
MergeVal(old, new) ==
  IF iterator = "native"
  THEN Merge(old, new, DefaultTS, DeletedCutoff, CurrentFormatVersion)
  ELSE IF PlainValue(new) = NoValue THEN Absent ELSE Plain(PlainValue(new))

CleanVal(old) ==
  IF iterator = "native" THEN Clean(old, DefaultTS, CurrentFormatVersion)
  ELSE Absent

\* Mutant: a value is put without a look at the one that is there.
PutAlways(key, val) ==
  /\ db' = [db EXCEPT ![key] = val]
  /\ dirty' = TRUE

\* The key takes the value val: setNewVal, and the ends of the callback of
\* IterUpdate.  Absent deletes the key; an equal value is not put again, and a
\* key that is not there is not deleted, so neither dirties the transaction.
setNewVal(key, val) ==
  /\ db' = [db EXCEPT ![key] = val]
  /\ dirty' = (dirty \/ val # db[key])
-------------------------------------------------------------------------------
(***************************************************************************)
(* iterBoth with the callback of IterUpdate: one action per way through    *)
(* the loop.                                                               *)
(***************************************************************************)
itEOF == pos = Len(source)

it == source[pos + 1]

\* Mutant: a repeated key is taken for a sorted one.
NextIsSortedOrSame == it.key >= (IF pos = 0 THEN 0 ELSE source[pos].key)

\* Mutant: the key is compared with that of the cursor.
NextIsPastCursor == it.key > cursor

\* The sorted check; prevKey starts as the empty byte string.
NextIsSorted == it.key > (IF pos = 0 THEN 0 ELSE source[pos].key)

\* Mutant: the database key is fetched again in every iteration.
RefetchedKeys == {k \in Keys : k > cursor /\ db[k] # Absent}

\* What the cursor finds after its position.
KeysAhead ==
  IF pending THEN {cursor} ELSE {k \in Keys : k > cursor /\ db[k] # Absent}

AtEOF == dbEOF \/ KeysAhead = {}

dbKey == Min(KeysAhead)

\* Mutant: dbKey stays set when its key was handled.
PassedNotReset == cursor' = dbKey /\ pending' = TRUE /\ UNCHANGED dbEOF

\* The key at the cursor was handled.
Passed == cursor' = dbKey /\ pending' = FALSE /\ UNCHANGED dbEOF

Running(s) == result = "running" /\ strategy = s

\* return ErrNotSorted
NotSorted ==
  /\ Running("IterUpdate")
  /\ ~itEOF /\ ~NextIsSorted
  /\ result' = "ErrNotSorted"
  /\ UNCHANGED <<constVars, db, pos, cursor, pending, dbEOF, dirty>>

\* Both sides are at their end.
Finish ==
  /\ Running("IterUpdate")
  /\ itEOF /\ AtEOF
  /\ result' = "done"
  /\ UNCHANGED <<constVars, db, pos, cursor, pending, dbEOF, dirty>>

\* The LMDB key is behind, or the source has ended.
DbOnly ==
  /\ Running("IterUpdate")
  /\ ~AtEOF
  /\ ~itEOF => NextIsSorted /\ dbKey < it.key
  /\ setNewVal(dbKey, CleanVal(db[dbKey]))
  /\ Passed
  /\ UNCHANGED <<constVars, pos, result>>

\* The same key on both sides.
Both ==
  /\ Running("IterUpdate")
  /\ ~itEOF /\ ~AtEOF /\ NextIsSorted
  /\ dbKey = it.key
  /\ setNewVal(it.key, MergeVal(db[it.key], it.entry))
  /\ Passed
  /\ pos' = pos + 1
  /\ UNCHANGED <<constVars, result>>

\* The iterator is behind the cursor: a plain Put.
Insert ==
  /\ Running("IterUpdate")
  /\ ~itEOF /\ ~AtEOF /\ NextIsSorted
  /\ it.key < dbKey
  /\ setNewVal(it.key, MergeVal(Absent, it.entry))
  /\ cursor' = dbKey /\ pending' = TRUE
  /\ pos' = pos + 1
  /\ UNCHANGED <<constVars, dbEOF, result>>

\* The database has ended: a Put with MDB_APPEND, which LMDB refuses unless the
\* key is above all keys of the DBI.
AppendItem ==
  /\ Running("IterUpdate")
  /\ ~itEOF /\ AtEOF /\ NextIsSorted
  /\ LET val == MergeVal(Absent, it.entry)
         fits == val = Absent \/ \A k \in Keys : db[k] # Absent => k < it.key
     IN  /\ setNewVal(it.key, IF fits THEN val ELSE db[it.key])
         /\ result' = IF fits THEN result ELSE "MDB_KEYEXIST"
  /\ dbEOF' = TRUE
  /\ pos' = pos + 1
  /\ UNCHANGED <<constVars, cursor, pending>>

\* The loop of Update.
UpdateNext ==
  /\ Running("Update")
  /\ IF itEOF
     THEN result' = "done" /\ UNCHANGED <<db, dirty, pos>>
     ELSE /\ setNewVal(it.key, MergeVal(db[it.key], it.entry))
          /\ pos' = pos + 1 /\ UNCHANGED result
  /\ UNCHANGED <<constVars, cursor, pending, dbEOF>>

Next ==
  \/ NotSorted \/ Finish \/ DbOnly \/ Both \/ Insert \/ AppendItem
  \/ UpdateNext

\* A strategy is a function call: it keeps running.
Spec == Init /\ [][Next]_vars /\ WF_vars(Next)
-------------------------------------------------------------------------------
SortedSource == \A i, j \in DOMAIN source : i < j => source[i].key < source[j].key

UniqueKeys == \A i, j \in DOMAIN source : source[i].key = source[j].key => i = j

\* What the source says of a key.
ItemsOf(k) == {source[i].entry : i \in {j \in DOMAIN source : source[j].key = k}}

\* The DBI the strategy promises, key by key, as in the module Syncer.
Promised ==
  [k \in Keys |->
     IF ItemsOf(k) # {} THEN MergeVal(before[k], CHOOSE e \in ItemsOf(k) : TRUE)
     ELSE IF strategy = "Update" \/ before[k] = Absent THEN before[k]
     ELSE CleanVal(before[k])]

\* The types of the state of the loops.
TypeOK ==
  /\ db \in [Keys -> Entry \cup {Absent}]
  /\ pos \in 0..Len(source)
  /\ cursor \in Keys \cup {NoKey}
  /\ pending \in BOOLEAN /\ dbEOF \in BOOLEAN /\ dirty \in BOOLEAN
  /\ result \in {"running", "done", "ErrNotSorted", "MDB_KEYEXIST"}

\* A strategy that returns without error has merged every item of the source
\* once and cleaned every key the source lacks, although IterUpdate inserts and
\* deletes keys on both sides of the cursor it walks with.
MergedAsPromised ==
  result = "done" /\ UniqueKeys => db = Promised

\* The transaction is dirty exactly when the DBI changed.  SendOnce and LoadOnce
\* compare transaction IDs to find out whether anything was written; a strategy
\* that put equal values back would make every merge look like a change.
DirtyIffChanged ==
  result = "done" /\ UniqueKeys => (dirty <=> db # before)

\* IterUpdate appends only past the last key: MDB_APPEND never fails.
AppendFits == result # "MDB_KEYEXIST"

\* IterUpdate accepts no source with keys out of order or repeated, and returns
\* ErrNotSorted for no other.
AcceptsTheSorted ==
  /\ result = "done" /\ strategy = "IterUpdate" => SortedSource
  /\ result = "ErrNotSorted" => ~SortedSource

\* Every strategy returns: the cursor and the iterator reach their ends.
Returns == <>(result # "running")
===============================================================================
