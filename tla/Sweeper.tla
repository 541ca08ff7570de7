-------------------------------- MODULE Sweeper --------------------------------
(***************************************************************************)
(* The sweeper of one LMDB, which removes old deletion markers in chunks:  *)
(* syncer/sweeper and lmdbenv/limitscanner.  Between two chunks, each a write*)
(* transaction, the application writes and the syncer loads snapshots, which*)
(* may hold deletion markers that were swept here already.                 *)
(***************************************************************************)
EXTENDS Iterators, Sequences, FiniteSetsExt

CONSTANTS
  dbiNames,      \* the DBIs with headers, in the order of their names
  Keys,          \* the keys of a DBI: natural numbers in their order
  Retention,     \* conf.RetentionDuration()
  LoadCutoff,    \* what RetentionDurationMinusCutoff() subtracts
  CheckEvery,    \* LimitDurationCheckEvery
  InvalidKeys,   \* pairs of DBI and key whose value has no valid header
  MaxTime,       \* bound: the clock
  MaxWrites,     \* bound: writes of the application and loads
  MaxFailures    \* bound: transactions of the sweeper that fail

Dbis == Range(dbiNames)

ASSUME SweeperAssumption ==
  /\ dbiNames \in Seq(Dbis)
  /\ Keys \subseteq Nat \ {0} /\ IsFiniteSet(Keys)
  /\ Retention \in Nat /\ LoadCutoff \in Nat /\ CheckEvery \in Nat \ {0}
  /\ LoadCutoff <= Retention
  /\ MaxTime \in Nat /\ MaxWrites \in Nat /\ MaxFailures \in Nat

VARIABLES
  now,      \* the clock
  entries,  \* the LMDB
  todo,     \* sweep: the DBIs that are not done, the current one first
  running,  \* sweep is running
  cutoffTS, \* sweep: older deletion markers are stale
  last,     \* sweep: where the next chunk continues, as a key and its value
  limitReached, \* sweep: as set by the last chunk that did not fail
  loadStart,    \* LoadOnce: when it started, or 0 if none is running
  writes, failures, \* how many there were
  unswept   \* history: the markers that were stale when sweep started and
            \* have been neither removed nor replaced since

lmdbVars == <<now, entries>>
sweepVars == <<todo, running, cutoffTS, last, limitReached>>
vars == <<lmdbVars, sweepVars, loadStart, writes, failures, unswept>>

NoCursor == [key |-> 0, val |-> Absent]

\* The entries that can be written by the time t.
Written(t) == {e \in [kind : {"live", "deleted"}, ts : 1..t, val : Values] :
                 (e.kind = "deleted") = (e.val = Empty)}

Init ==
  /\ now = 1
  /\ entries \in [Dbis -> [Keys -> Written(1) \cup {Absent}]]
  /\ \A i \in InvalidKeys : entries[i[1]][i[2]].kind = "live"
  /\ todo = <<>> /\ running = FALSE /\ cutoffTS = 0
  /\ last = NoCursor /\ limitReached = FALSE
  /\ loadStart = 0 /\ writes = 0 /\ failures = 0
  /\ unswept = {}

IsStale(e, cutoff) == e.kind = "deleted" /\ e.ts < cutoff
--------------------------------------------------------------------------------
(***************************************************************************)
(* The application and the syncer.                                         *)
(***************************************************************************)
\* A load is done before the clock has moved on by LoadCutoff.
Tick ==
  /\ now < MaxTime
  /\ loadStart # 0 => now < loadStart + LoadCutoff
  /\ now' = now + 1
  /\ UNCHANGED <<entries, sweepVars, loadStart, writes, failures, unswept>>

Put(d, k, e) ==
  /\ entries' = [entries EXCEPT ![d][k] = e]
  /\ unswept' = IF entries[d][k] = e THEN unswept ELSE unswept \ {<<d, k>>}

\* The application writes or deletes a key.
Write(d, k, e) ==
  /\ writes < MaxWrites /\ <<d, k>> \notin InvalidKeys
  /\ e.ts = now /\ e # entries[d][k]
  /\ Put(d, k, e)
  /\ writes' = writes + 1
  /\ UNCHANGED <<now, sweepVars, loadStart, failures>>

\* LoadOnce determines the time for the cutoff before it waits for the lock.
StartLoad ==
  /\ loadStart = 0 /\ writes < MaxWrites
  /\ loadStart' = now
  /\ writes' = writes + 1
  /\ UNCHANGED <<lmdbVars, sweepVars, failures, unswept>>

\* Mutant: the retention is not decreased.
plainCutoff(t) == t - Retention

deletedCutoff(t) == t - (Retention - LoadCutoff)

\* The transaction of LoadOnce, for a snapshot with one entry.
Load(d, k, e) ==
  /\ loadStart # 0 /\ <<d, k>> \notin InvalidKeys
  /\ Put(d, k, Merge(entries[d][k], e, 0, deletedCutoff(loadStart),
                     CurrentFormatVersion))
  /\ loadStart' = 0
  /\ UNCHANGED <<now, sweepVars, writes, failures>>
--------------------------------------------------------------------------------
(***************************************************************************)
(* Sweeper.sweep                                                           *)
(***************************************************************************)
\* Run calls sweep, which reads the names of the DBIs.
StartSweep ==
  /\ ~running
  /\ running' = TRUE
  /\ cutoffTS' = now - Retention
  /\ todo' = dbiNames
  /\ last' = NoCursor /\ limitReached' = FALSE
  /\ unswept' = {i \in Dbis \X Keys :
                   IsStale(entries[i[1]][i[2]], now - Retention)}
  /\ UNCHANGED <<lmdbVars, loadStart, writes, failures>>

Current == Head(todo)

Present == {k \in Keys : entries[Current][k] # Absent}

\* Mutant: the scan skips the entry it is set to, in any case.
AheadOfNext ==
  {k \in Present : last # NoCursor => \E j \in Present : last.key <= j /\ j < k}

\* The keys LimitScanner.Scan has yet to visit.  The entry it stopped at is only
\* visited again if it was replaced.
Ahead ==
  {k \in Present : \/ k > last.key
                   \/ k = last.key /\ entries[Current][k] # last.val}

Scannable(S) == \A k \in S : <<Current, k>> \notin InvalidKeys

\* Mutant: the flags are not looked at.
CleansLive(e) == e.kind # "absent" /\ e.ts < cutoffTS

\* The loop over the entries of a chunk removes the stale ones.
Cleans(e) == IsStale(e, cutoffTS)

Scan(S) ==
  LET cleaned == {k \in S : Cleans(entries[Current][k])}
  IN  /\ entries' = [entries EXCEPT ![Current] =
                       [k \in Keys |-> IF k \in cleaned THEN Absent ELSE @[k]]]
      /\ unswept' = unswept \ {<<Current, k>> : k \in cleaned}

\* A chunk that ends because its time is up.
LimitedChunk(S) ==
  /\ running /\ todo # <<>>
  /\ S \subseteq Ahead /\ S # {} /\ Cardinality(S) % CheckEvery = 0
  /\ \A k \in S, j \in Ahead \ S : k < j
  /\ Scannable(S)
  /\ Scan(S)
  /\ last' = [key |-> Max(S), val |-> entries[Current][Max(S)]]
  /\ limitReached' = TRUE
  /\ UNCHANGED <<now, todo, running, cutoffTS, loadStart, writes, failures>>

\* Mutant: the loop is not left.
LastChunkWithoutBreak ==
  /\ running /\ todo # <<>>
  /\ Scannable(Ahead)
  /\ Scan(Ahead)
  /\ todo' = todo
  /\ last' = NoCursor /\ limitReached' = FALSE
  /\ UNCHANGED <<now, running, cutoffTS, loadStart, writes, failures>>

\* The last chunk of a DBI.
LastChunk ==
  /\ running /\ todo # <<>>
  /\ Scannable(Ahead)
  /\ Scan(Ahead)
  /\ todo' = Tail(todo)
  /\ last' = NoCursor /\ limitReached' = FALSE
  /\ UNCHANGED <<now, running, cutoffTS, loadStart, writes, failures>>

\* A chunk that fails: its transaction is aborted and the variables outside of
\* it keep the values of the chunk before.
FailedChunk ==
  /\ running /\ todo # <<>>
  /\ \/ ~Scannable(Ahead) /\ UNCHANGED failures
     \/ failures < MaxFailures /\ failures' = failures + 1
  /\ running' = limitReached
  /\ UNCHANGED <<lmdbVars, todo, cutoffTS, last, limitReached, loadStart,
                 writes, unswept>>

\* All DBIs are done.
SweepReturns ==
  /\ running /\ todo = <<>>
  /\ running' = FALSE
  /\ UNCHANGED <<lmdbVars, todo, cutoffTS, last, limitReached, loadStart,
                 writes, failures, unswept>>
--------------------------------------------------------------------------------
SweepStep ==
  \/ LastChunk \/ FailedChunk \/ SweepReturns
  \/ \E S \in SUBSET Keys : LimitedChunk(S)

Next ==
  \/ Tick \/ StartLoad \/ StartSweep \/ SweepStep
  \/ \E d \in Dbis, k \in Keys, e \in Written(now) :
       Write(d, k, e) \/ Load(d, k, e)

Spec == Init /\ [][Next]_vars

\* The sweeper keeps running.
FairSpec == Spec /\ WF_vars(SweepStep)
--------------------------------------------------------------------------------
TypeOK ==
  /\ now \in 1..MaxTime
  /\ entries \in [Dbis -> [Keys -> Written(now) \cup {Absent}]]
  /\ todo \in Seq(Dbis)
  /\ running \in BOOLEAN /\ limitReached \in BOOLEAN
  /\ cutoffTS \in (-Retention)..MaxTime
  /\ last.key \in Keys \cup {0} /\ last.val \in Written(now) \cup {Absent}
  /\ loadStart \in 0..now
  /\ writes \in 0..MaxWrites /\ failures \in 0..MaxFailures
  /\ unswept \subseteq Dbis \X Keys

\* No stale marker is skipped, whatever is written between two chunks: while
\* sweep is running, those of the start that nobody has replaced are ahead of
\* the cursor, and none is left when all DBIs are done.
NothingSkipped ==
  running => \A i \in unswept : /\ i[1] \in Range(todo)
                                /\ i[1] = Current => i[2] \in Ahead

\* sweep removes nothing but deletion markers older than the retention, and the
\* rest of the program removes nothing.
OnlyStaleRemoved ==
  [][\A d \in Dbis, k \in Keys :
       entries[d][k] # Absent /\ entries'[d][k] = Absent =>
         IsStale(entries[d][k], now - Retention)]_vars

\* A deletion marker that a sweep would remove is not added again by a load that
\* started before the sweep.
StaleStaysAway ==
  [][\A d \in Dbis, k \in Keys :
       entries[d][k] = Absent => ~IsStale(entries'[d][k], cutoffTS)]_vars

\* Every sweep ends, with or without an error, and Run can wait for the next.
SweepEnds == running ~> ~running
================================================================================
