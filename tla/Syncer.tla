-------------------------------- MODULE Syncer --------------------------------
(***************************************************************************)
(* A cluster of Lightning Stream instances that share one storage bucket:  *)
(* syncLoop, LoadOnce and SendOnce of syncer/sync.go and syncer/send.go,   *)
(* with the application that writes to the same LMDB, crashes, restarts    *)
(* and the loss of an LMDB.                                                *)
(*                                                                         *)
(* SchemaTracksChanges selects the mode.  In native mode the application   *)
(* writes entries with a header into db.  In shadow mode it writes plain   *)
(* values into main and db is the shadow DBI.  The keys of all DBIs are    *)
(* the set Keys.  The receiver is reduced to what syncLoop sees of it: a   *)
(* listing, and snapshots that become ready.                               *)
(***************************************************************************)
EXTENDS Iterators, FiniteSets, Sequences

CONSTANTS
  Instances,                   \* the instance names sharing the bucket
  Keys,
  AppValues,                   \* the values the application writes
  SchemaTracksChanges,         \* native mode
  ReceiveOnly,                 \* the instances run with "receive"
  OnlyOnce,                    \* the instances run with "--only-once"
  ForceSnapshots,              \* StorageForceSnapshotInterval > 0
  MaxConsecutiveSnapshotLoads,
  Skew,                        \* how far the clock of an instance runs ahead
  MaxWrites,                   \* bound: application writes
  MaxCrashes,                  \* bound: crashes and failed runs of syncLoop
  MaxLosses                    \* bound: LMDBs that are reset while down

ASSUME SyncerAssumption ==
  /\ AppValues \subseteq Values
  /\ SchemaTracksChanges \in BOOLEAN
  /\ ReceiveOnly \subseteq Instances /\ OnlyOnce \subseteq Instances
  /\ ForceSnapshots \in BOOLEAN
  /\ MaxConsecutiveSnapshotLoads \in Nat
  /\ Skew \in [Instances -> Nat]
  /\ MaxWrites \in Nat /\ MaxCrashes \in Nat /\ MaxLosses \in Nat

VARIABLES
  \* The LMDB of each instance.
  db,                    \* the DBI with headers: native DBI or shadow DBI
  main,                  \* the DBI of the application in shadow mode
  hasShadow,             \* the shadow DBI has been created
  lastTxnID,             \* env.Info().LastTxnID
  \* The bucket: the snapshots of each instance, in the order of their names.
  storage,
  \* The run of syncLoop at each instance.
  pc,
  inLoop,                \* the startup part is over, the receiver is running
  hasDataAtStart,
  lastSyncedTxnID,
  waitingForInstances,
  lastByInstance,        \* the last snapshot loaded, 0 if none
  committed,             \* what the cleaner was told with SetCommitted
  overdue,               \* the last snapshot is older than the interval
  nLoads,
  tx,                    \* the transaction LoadOnce or SendOnce is about
  passed,                \* the stages the start tracker has passed
  \* The receiver of each instance.
  seen,                  \* lastSeenByInstance, 0 if none
  notified,              \* lastNotifiedByInstance
  downloaded,            \* the last snapshot the downloader has loaded
  ready,                 \* snapshotsByInstance: ready for the syncer
  \* The environment, and two history variables for the properties.
  clock, writes, crashes, losses,
  raced,                 \* the application committed under a reused TxnID
  listedAtStart          \* the snapshots of the initial listing

lmdbVars     == <<db, main, hasShadow, lastTxnID>>
syncVars     == <<hasDataAtStart, inLoop, lastSyncedTxnID, waitingForInstances,
                  nLoads, passed>>
sentVars     == <<committed, overdue>>
receiverVars == <<seen, notified, downloaded, ready>>
envVars      == <<clock, writes, crashes, losses>>
historyVars  == <<raced, listedAtStart>>
vars == <<lmdbVars, storage, pc, syncVars, sentVars, lastByInstance, tx,
          receiverVars, envVars, historyVars>>
-------------------------------------------------------------------------------
DB == [Keys -> Entry \cup {Absent}]
EmptyDB == [k \in Keys |-> Absent]
EmptyMain == [k \in Keys |-> NoValue]

NoneByInstance == [j \in Instances |-> 0]

NoTx == [txnID |-> 0, localChanged |-> FALSE, empty |-> FALSE, db |-> EmptyDB]

\* time.Now() at instance i.
Now(i) == clock + Skew[i]

\* The latest snapshot of each instance in a listing of the bucket.
Listing == [j \in Instances |-> Len(storage[j])]

\* Mutant: an instance leaves out its own snapshots.
SeenOthers(i) == {j \in Instances \ {i} : seen[i][j] # 0}

SeenInstances(i) == {j \in Instances : seen[i][j] # 0}

\* Mutant: only keys that the DBI already has are merged.
UpdateOfExisting(old, snap) ==
  [k \in Keys |->
     IF snap[k] = Absent \/ old[k] = Absent THEN old[k]
     ELSE Merge(old[k], snap[k], 0, 0, CurrentFormatVersion)]

\* strategy.Update: a snapshot merged into a DBI with headers.
Update(old, snap) ==
  [k \in Keys |->
     IF snap[k] = Absent THEN old[k]
     ELSE Merge(old[k], snap[k], 0, 0, CurrentFormatVersion)]

\* mainToShadow: strategy.IterUpdate of the shadow DBI from the main DBI.
mainToShadow(plain, shadow, tsNano) ==
  [k \in Keys |->
     IF plain[k] # NoValue
     THEN Merge(shadow[k], [kind |-> "live", ts |-> 0, val |-> plain[k]],
                tsNano, 0, CurrentFormatVersion)
     ELSE IF shadow[k] = Absent THEN Absent
     ELSE Clean(shadow[k], tsNano, CurrentFormatVersion)]

\* shadowToMain: strategy.IterUpdate of the main DBI from the shadow DBI.
shadowToMain(shadow) == [k \in Keys |-> PlainValue(shadow[k])]

\* The commit of a write transaction of instance i.  LMDB records it, under the
\* next ID, only when it changed something.
Commit(i, dirty) ==
  lastTxnID' = [lastTxnID EXCEPT ![i] = IF dirty THEN @ + 1 ELSE @]

\* Mutant: no adjustment.
UnadjustedTxnID(i) == tx[i].txnID

\* The transaction ID after the adjustment for an empty transaction.
AdjustedTxnID(i) ==
  IF lastTxnID[i] < tx[i].txnID THEN lastTxnID[i] ELSE tx[i].txnID
-------------------------------------------------------------------------------
Init ==
  /\ db = [i \in Instances |-> EmptyDB]
  /\ main = [i \in Instances |-> EmptyMain]
  /\ hasShadow = [i \in Instances |-> FALSE]
  /\ lastTxnID = [i \in Instances |-> 0]
  /\ storage = [i \in Instances |-> << >>]
  /\ pc = [i \in Instances |-> "down"]
  /\ inLoop = [i \in Instances |-> FALSE]
  /\ hasDataAtStart = [i \in Instances |-> FALSE]
  /\ lastSyncedTxnID = [i \in Instances |-> 0]
  /\ waitingForInstances = [i \in Instances |-> {}]
  /\ lastByInstance = [i \in Instances |-> NoneByInstance]
  /\ committed = [i \in Instances |-> NoneByInstance]
  /\ overdue = [i \in Instances |-> FALSE]
  /\ nLoads = [i \in Instances |-> 0]
  /\ tx = [i \in Instances |-> NoTx]
  /\ passed = [i \in Instances |-> {}]
  /\ seen = [i \in Instances |-> NoneByInstance]
  /\ notified = [i \in Instances |-> NoneByInstance]
  /\ downloaded = [i \in Instances |-> NoneByInstance]
  /\ ready = [i \in Instances |-> NoneByInstance]
  /\ clock = 2 /\ writes = 0 /\ crashes = 0 /\ losses = 0
  /\ raced = [i \in Instances |-> FALSE]
  /\ listedAtStart = [i \in Instances |-> NoneByInstance]
-------------------------------------------------------------------------------
(***************************************************************************)
(* The application and the environment.                                    *)
(***************************************************************************)

\* The application commits one transaction, at any time.  It races with the
\* syncer when it gets the ID of an empty transaction that the syncer has not
\* yet found out to be empty.
AppCommit(i) ==
  /\ writes < MaxWrites
  /\ writes' = writes + 1
  /\ clock' = clock + 1
  /\ Commit(i, TRUE)
  /\ raced' = [raced EXCEPT ![i] =
                 @ \/ (pc[i] \in {"loadinfo", "sendinfo"} /\ tx[i].empty)]
  /\ UNCHANGED <<hasShadow, storage, pc, syncVars, sentVars, lastByInstance,
                 tx, receiverVars, crashes, losses, listedAtStart>>

\* A native application stores a value with a header (docs/schema-native.md),
\* with a timestamp above the one of the entry it replaces.
NativeWrite(i, k, kind, v) ==
  /\ SchemaTracksChanges
  /\ AppCommit(i)
  /\ Now(i)' > db[i][k].ts
  /\ db' = [db EXCEPT ![i][k] = [kind |-> kind, ts |-> Now(i)', val |-> v]]
  /\ UNCHANGED main

AppPut(i, k, v) ==
  \/ NativeWrite(i, k, "live", v)
  \/ /\ ~SchemaTracksChanges
     /\ main' = [main EXCEPT ![i][k] = v]
     /\ AppCommit(i)
     /\ UNCHANGED db

AppDelete(i, k) ==
  \/ db[i][k].kind = "live" /\ NativeWrite(i, k, "deleted", Empty)
  \/ /\ ~SchemaTracksChanges
     /\ main[i][k] # NoValue
     /\ main' = [main EXCEPT ![i][k] = NoValue]
     /\ AppCommit(i)
     /\ UNCHANGED db

\* The process dies, or syncLoop returns an error: a store that failed too many
\* times, an LMDB error, a cancelled context.
Crash(i) ==
  /\ crashes < MaxCrashes
  /\ pc[i] \notin {"down", "done"}
  /\ crashes' = crashes + 1
  /\ pc' = [pc EXCEPT ![i] = "down"]
  /\ inLoop' = [inLoop EXCEPT ![i] = FALSE]
  /\ hasDataAtStart' = [hasDataAtStart EXCEPT ![i] = FALSE]
  /\ lastSyncedTxnID' = [lastSyncedTxnID EXCEPT ![i] = 0]
  /\ waitingForInstances' = [waitingForInstances EXCEPT ![i] = {}]
  /\ nLoads' = [nLoads EXCEPT ![i] = 0]
  /\ passed' = [passed EXCEPT ![i] = {}]
  /\ committed' = [committed EXCEPT ![i] = NoneByInstance]
  /\ overdue' = [overdue EXCEPT ![i] = FALSE]
  /\ lastByInstance' = [lastByInstance EXCEPT ![i] = NoneByInstance]
  /\ tx' = [tx EXCEPT ![i] = NoTx]
  /\ seen' = [seen EXCEPT ![i] = NoneByInstance]
  /\ notified' = [notified EXCEPT ![i] = NoneByInstance]
  /\ downloaded' = [downloaded EXCEPT ![i] = NoneByInstance]
  /\ ready' = [ready EXCEPT ![i] = NoneByInstance]
  /\ raced' = [raced EXCEPT ![i] = FALSE]
  /\ listedAtStart' = [listedAtStart EXCEPT ![i] = NoneByInstance]
  /\ UNCHANGED <<lmdbVars, storage, clock, writes, losses>>

\* The LMDB of a stopped instance is removed.
LoseLMDB(i) ==
  /\ losses < MaxLosses
  /\ pc[i] = "down"
  /\ lastTxnID[i] > 0
  /\ losses' = losses + 1
  /\ db' = [db EXCEPT ![i] = EmptyDB]
  /\ main' = [main EXCEPT ![i] = EmptyMain]
  /\ hasShadow' = [hasShadow EXCEPT ![i] = FALSE]
  /\ lastTxnID' = [lastTxnID EXCEPT ![i] = 0]
  /\ UNCHANGED <<storage, pc, syncVars, sentVars, lastByInstance, tx,
                 receiverVars, clock, writes, crashes, historyVars>>
-------------------------------------------------------------------------------
(***************************************************************************)
(* The start of syncLoop.                                                  *)
(***************************************************************************)
Start(i) ==
  /\ pc[i] = "down"
  /\ pc' = [pc EXCEPT ![i] = "list"]
  /\ hasDataAtStart' = [hasDataAtStart EXCEPT ![i] = lastTxnID[i] > 0]
  /\ UNCHANGED <<lmdbVars, storage, inLoop, lastSyncedTxnID,
                 waitingForInstances, nLoads, passed, sentVars, lastByInstance,
                 tx, receiverVars, envVars, historyVars>>

\* The initial snapshot comes first if there is data and no snapshot.
NextAfterShadow(i, hasSnapshots) ==
  IF hasDataAtStart[i] /\ ~hasSnapshots THEN "send" ELSE "load"

\* The initial RunOnce, including own snapshots, that did not fail.
InitialListing(i) ==
  /\ pc[i] = "list"
  /\ seen' = [seen EXCEPT ![i] = Listing]
  /\ notified' = [notified EXCEPT ![i] = Listing]
  /\ waitingForInstances' = [waitingForInstances EXCEPT ![i] = SeenInstances(i)']
  /\ pc' = [pc EXCEPT ![i] = IF hasDataAtStart[i] /\ ~SchemaTracksChanges
                             THEN "shadow"
                             ELSE NextAfterShadow(i, SeenInstances(i)' # {})]
  /\ inLoop' = [inLoop EXCEPT ![i] = pc'[i] = "load"]
  /\ passed' = [passed EXCEPT ![i] =
                  {"listing"} \cup (IF hasDataAtStart[i] THEN {} ELSE {"store"})]
  /\ listedAtStart' = [listedAtStart EXCEPT ![i] = Listing]
  /\ UNCHANGED <<lmdbVars, storage, hasDataAtStart, lastSyncedTxnID, nLoads,
                 sentVars, lastByInstance, tx, downloaded, ready, envVars,
                 raced>>

\* Main to shadow, with a timestamp in the past.
ShadowInit(i) ==
  /\ pc[i] = "shadow"
  /\ db' = [db EXCEPT ![i] = mainToShadow(main[i], @, 1)]
  /\ hasShadow' = [hasShadow EXCEPT ![i] = TRUE]
  /\ Commit(i, db' # db \/ ~hasShadow[i])
  /\ pc' = [pc EXCEPT ![i] = NextAfterShadow(i, SeenInstances(i) # {})]
  /\ inLoop' = [inLoop EXCEPT ![i] = pc'[i] = "load"]
  /\ UNCHANGED <<main, storage, hasDataAtStart, lastSyncedTxnID,
                 waitingForInstances, nLoads, passed, sentVars, lastByInstance,
                 tx, receiverVars, envVars, historyVars>>
-------------------------------------------------------------------------------
(***************************************************************************)
(* The receiver: the goroutine of Receiver.Run and the downloaders.        *)
(***************************************************************************)

\* RunOnce, without own snapshots.
List(i) ==
  /\ inLoop[i]
  /\ seen' = [seen EXCEPT ![i] = Listing]
  /\ notified' = [notified EXCEPT ![i] = [Listing EXCEPT ![i] = notified[i][i]]]
  /\ UNCHANGED <<lmdbVars, storage, pc, syncVars, sentVars, lastByInstance, tx,
                 downloaded, ready, envVars, historyVars>>

\* A downloader that was notified loads the latest snapshot seen, which
\* replaces one that the syncer has not taken yet.
Download(i, j) ==
  /\ pc[i] # "done"
  /\ notified[i][j] # downloaded[i][j]
  /\ downloaded' = [downloaded EXCEPT ![i][j] = seen[i][j]]
  /\ ready' = [ready EXCEPT ![i][j] = seen[i][j]]
  /\ UNCHANGED <<lmdbVars, storage, pc, syncVars, sentVars, lastByInstance, tx,
                 seen, notified, envVars, historyVars>>
-------------------------------------------------------------------------------
(***************************************************************************)
(* The loop that loads the snapshots that are ready.                       *)
(***************************************************************************)

\* Mutant: one local transaction goes unnoticed.
localChangedOffByOne(i) == lastSyncedTxnID[i] < lastTxnID[i] - 1

\* There was a local change if the transaction ID is not the next one.
localChanged(i) == lastSyncedTxnID[i] < (lastTxnID[i] + 1) - 1

\* The DBI with headers after the snapshot was loaded, and the main DBI.
LoadedDB(i, snap) ==
  Update(IF ~SchemaTracksChanges /\ localChanged(i)
         THEN mainToShadow(main[i], db[i], Now(i)) ELSE db[i], snap)

\* Mutant: the loaded snapshot only reaches the shadow DBI.
LoadedMainSkipped(i, snap) == main[i]

LoadedMain(i, snap) ==
  IF SchemaTracksChanges THEN main[i] ELSE shadowToMain(LoadedDB(i, snap))

\* The load changed something, or created the shadow DBI.
LoadIsDirty(i, snap) ==
  \/ LoadedDB(i, snap) # db[i]
  \/ LoadedMain(i, snap) # main[i]
  \/ ~SchemaTracksChanges /\ ~hasShadow[i]

\* One iteration up to the commit of the transaction of LoadOnce.  It also
\* records lastByInstance, which only this goroutine reads.
LoadTxn(i, j) ==
  LET snap == storage[j][ready[i][j]]
  IN  /\ pc[i] = "load"
      /\ ready[i][j] # 0
      /\ ready' = [ready EXCEPT ![i][j] = 0]
      /\ nLoads' = [nLoads EXCEPT ![i] =
                      IF @ > MaxConsecutiveSnapshotLoads THEN @ ELSE @ + 1]
      /\ waitingForInstances' = [waitingForInstances EXCEPT ![i] = @ \ {j}]
      /\ db' = [db EXCEPT ![i] = LoadedDB(i, snap)]
      /\ main' = [main EXCEPT ![i] = LoadedMain(i, snap)]
      /\ hasShadow' = [hasShadow EXCEPT ![i] = ~SchemaTracksChanges]
      /\ Commit(i, LoadIsDirty(i, snap))
      /\ tx' = [tx EXCEPT ![i] = [txnID |-> lastTxnID[i] + 1,
                                  localChanged |-> localChanged(i),
                                  empty |-> ~LoadIsDirty(i, snap),
                                  db |-> EmptyDB]]
      /\ lastByInstance' = [lastByInstance EXCEPT ![i][j] = ready[i][j]]
      /\ pc' = [pc EXCEPT ![i] = "loadinfo"]
      /\ UNCHANGED <<storage, inLoop, hasDataAtStart, lastSyncedTxnID, passed,
                     sentVars, seen, notified, downloaded, envVars,
                     historyVars>>

\* The rest of LoadOnce, from env.Info() on, and of the iteration.
LoadInfo(i) ==
  /\ pc[i] = "loadinfo"
  /\ lastSyncedTxnID' = [lastSyncedTxnID EXCEPT ![i] =
                           IF tx[i].localChanged THEN @ ELSE AdjustedTxnID(i)]
  /\ pc' = [pc EXCEPT ![i] =
              IF tx[i].localChanged /\ nLoads[i] > MaxConsecutiveSnapshotLoads
              THEN "check" ELSE "load"]
  /\ tx' = [tx EXCEPT ![i] = NoTx]
  /\ UNCHANGED <<lmdbVars, storage, inLoop, hasDataAtStart,
                 waitingForInstances, nLoads, passed, sentVars, lastByInstance,
                 receiverVars, envVars, historyVars>>

-------------------------------------------------------------------------------
(***************************************************************************)
(* The check for local changes, and SendOnce.                              *)
(***************************************************************************)

\* A snapshot of instance i would repeat the contents of its latest one.
NothingNew(i) ==
  /\ storage[i] # << >>
  /\ db[i] = storage[i][Len(storage[i])]
  /\ SchemaTracksChanges \/ main[i] = shadowToMain(db[i])

\* The periodic snapshot becomes due.  Bound: one that would repeat the contents
\* of the latest snapshot is left out.
TimerExpires(i) ==
  /\ ForceSnapshots /\ i \notin ReceiveOnly
  /\ inLoop[i] /\ ~overdue[i]
  /\ ~NothingNew(i)
  /\ overdue' = [overdue EXCEPT ![i] = TRUE]
  /\ UNCHANGED <<lmdbVars, storage, pc, syncVars, committed, lastByInstance, tx,
                 receiverVars, envVars, historyVars>>

\* The end of a pass: back to the loads after a sleep, or the end of the run.
EndPass(i, waiting, stages) ==
  /\ passed' = [passed EXCEPT ![i] =
                  @ \cup stages \cup IF waiting = {} THEN {"pass"} ELSE {}]
  /\ pc' = [pc EXCEPT ![i] =
              IF i \in OnlyOnce /\ waiting = {} THEN "done" ELSE "load"]
  /\ inLoop' = [inLoop EXCEPT ![i] = ~(i \in OnlyOnce /\ waiting = {})]
  /\ nLoads' = [nLoads EXCEPT ![i] = 0]

\* Mutant: the own old snapshot is not waited for.
SendsWithoutWaiting(i, waiting) ==
  lastTxnID[i] > lastSyncedTxnID[i] \/ overdue[i]

\* The LMDB has changed or the periodic snapshot is due, and the own old
\* snapshot has been loaded.
Sends(i, waiting) ==
  /\ lastTxnID[i] > lastSyncedTxnID[i] \/ overdue[i]
  /\ i \notin waiting

\* The end of the load loop, when Next has nothing ready or it was left early,
\* and the decision to send a snapshot.
Check(i) ==
  LET waiting == waitingForInstances[i] \cap SeenInstances(i)
  IN  /\ pc[i] \in {"load", "check"}
      /\ pc[i] = "load" => \A j \in Instances : ready[i][j] = 0
      /\ waitingForInstances' = [waitingForInstances EXCEPT ![i] = waiting]
      /\ lastSyncedTxnID' = [lastSyncedTxnID EXCEPT ![i] =
                               IF Sends(i, waiting) THEN lastTxnID[i] ELSE @]
      /\ IF Sends(i, waiting) /\ (hasDataAtStart[i] \/ lastTxnID[i] > 0)
         THEN /\ pc' = [pc EXCEPT ![i] = "send"]
              /\ UNCHANGED <<passed, inLoop, nLoads>>
         ELSE EndPass(i, waiting, {})
      /\ UNCHANGED <<lmdbVars, storage, hasDataAtStart, sentVars,
                     lastByInstance, tx, receiverVars, envVars, historyVars>>

\* The contents that SendOnce dumps, and whether its transaction changed them.
DumpedDB(i) ==
  IF SchemaTracksChanges THEN db[i] ELSE mainToShadow(main[i], db[i], Now(i))

SendIsDirty(i) ==
  ~SchemaTracksChanges /\ (DumpedDB(i) # db[i] \/ ~hasShadow[i])

\* SendOnce up to the end of its transaction: a read transaction in native
\* mode, a write transaction in shadow mode.
SendTxn(i) ==
  /\ pc[i] = "send"
  /\ db' = [db EXCEPT ![i] = DumpedDB(i)]
  /\ hasShadow' = [hasShadow EXCEPT ![i] = ~SchemaTracksChanges]
  /\ Commit(i, SendIsDirty(i))
  /\ tx' = [tx EXCEPT ![i] =
              [txnID |-> IF SchemaTracksChanges THEN lastTxnID[i]
                         ELSE lastTxnID[i] + 1,
               localChanged |-> FALSE,
               empty |-> ~SchemaTracksChanges /\ ~SendIsDirty(i),
               db |-> DumpedDB(i)]]
  /\ raced' = [raced EXCEPT ![i] = FALSE]
  /\ pc' = [pc EXCEPT ![i] = "sendinfo"]
  /\ UNCHANGED <<main, storage, syncVars, sentVars, lastByInstance,
                 receiverVars, envVars, listedAtStart>>

\* SendOnce has returned txnID: to the end of the pass, or into the loop when
\* this was the initial snapshot.
SendReturns(i, txnID) ==
  /\ lastSyncedTxnID' = [lastSyncedTxnID EXCEPT ![i] = txnID]
  /\ IF inLoop[i]
     THEN EndPass(i, waitingForInstances[i], {"store"})
     ELSE /\ passed' = [passed EXCEPT ![i] = @ \cup {"store"}]
          /\ pc' = [pc EXCEPT ![i] = "load"]
          /\ inLoop' = [inLoop EXCEPT ![i] = TRUE]
          /\ UNCHANGED nLoads
  /\ UNCHANGED <<hasDataAtStart, waitingForInstances>>

\* env.Info() after the transaction.  In receive-only mode this ends SendOnce.
SendInfo(i) ==
  /\ pc[i] = "sendinfo"
  /\ IF i \in ReceiveOnly
     THEN /\ SendReturns(i, AdjustedTxnID(i))
          /\ tx' = [tx EXCEPT ![i] = NoTx]
     ELSE /\ tx' = [tx EXCEPT ![i].txnID = AdjustedTxnID(i)]
          /\ pc' = [pc EXCEPT ![i] = "store"]
          /\ UNCHANGED syncVars
  /\ UNCHANGED <<lmdbVars, storage, sentVars, lastByInstance, receiverVars,
                 envVars, historyVars>>

\* Mutant: snapshots that were downloaded are reported as committed.
StoreCommitsDownloaded(i) ==
  /\ pc[i] = "store"
  /\ storage' = [storage EXCEPT ![i] = Append(@, tx[i].db)]
  /\ overdue' = [overdue EXCEPT ![i] = FALSE]
  /\ committed' = [committed EXCEPT ![i] = downloaded[i]]
  /\ SendReturns(i, tx[i].txnID)
  /\ tx' = [tx EXCEPT ![i] = NoTx]
  /\ UNCHANGED <<lmdbVars, lastByInstance, receiverVars, envVars, historyVars>>

\* The snapshot is stored, after any number of failed attempts, and the rest of
\* SendOnce runs.  Giving up on the store is a Crash.
Store(i) ==
  /\ pc[i] = "store"
  /\ storage' = [storage EXCEPT ![i] = Append(@, tx[i].db)]
  /\ overdue' = [overdue EXCEPT ![i] = FALSE]
  /\ committed' = [committed EXCEPT ![i] = lastByInstance[i]]
  /\ SendReturns(i, tx[i].txnID)
  /\ tx' = [tx EXCEPT ![i] = NoTx]
  /\ UNCHANGED <<lmdbVars, lastByInstance, receiverVars, envVars, historyVars>>
-------------------------------------------------------------------------------
Next ==
  \E i \in Instances :
    \/ \E k \in Keys : AppDelete(i, k) \/ \E v \in AppValues : AppPut(i, k, v)
    \/ Crash(i) \/ LoseLMDB(i)
    \/ Start(i) \/ InitialListing(i) \/ ShadowInit(i)
    \/ List(i) \/ \E j \in Instances : Download(i, j) \/ LoadTxn(i, j)
    \/ LoadInfo(i) \/ TimerExpires(i) \/ Check(i)
    \/ SendTxn(i) \/ SendInfo(i) \/ Store(i)

Spec == Init /\ [][Next]_vars

\* An instance that is down is restarted, the goroutines run, and the calls to
\* the storage succeed in the end (failures are retried).
Fairness ==
  \A i \in Instances :
    /\ WF_vars(Start(i)) /\ WF_vars(InitialListing(i)) /\ WF_vars(ShadowInit(i))
    /\ WF_vars(List(i)) /\ \A j \in Instances : WF_vars(Download(i, j))
    /\ WF_vars(\E j \in Instances : LoadTxn(i, j))
    /\ WF_vars(LoadInfo(i)) /\ WF_vars(TimerExpires(i)) /\ WF_vars(Check(i))
    /\ WF_vars(SendTxn(i)) /\ WF_vars(SendInfo(i)) /\ WF_vars(Store(i))

FairSpec == Spec /\ Fairness
-------------------------------------------------------------------------------
(***************************************************************************)
(* Properties.                                                             *)
(***************************************************************************)
ByInstance == [Instances -> Nat]
Pcs == {"down", "list", "shadow", "load", "loadinfo", "check", "send",
        "sendinfo", "store", "done"}

LMDBTypeOK ==
  /\ db \in [Instances -> DB]
  /\ main \in [Instances -> [Keys -> Values \cup {NoValue}]]
  /\ hasShadow \in [Instances -> BOOLEAN]
  /\ lastTxnID \in [Instances -> Nat]

LoopTypeOK ==
  /\ pc \in [Instances -> Pcs]
  /\ inLoop \in [Instances -> BOOLEAN]
  /\ hasDataAtStart \in [Instances -> BOOLEAN]
  /\ lastSyncedTxnID \in [Instances -> Nat]
  /\ waitingForInstances \in [Instances -> SUBSET Instances]
  /\ overdue \in [Instances -> BOOLEAN]
  /\ nLoads \in [Instances -> Nat]
  /\ passed \in [Instances -> SUBSET {"listing", "store", "pass"}]
  /\ raced \in [Instances -> BOOLEAN]

TxTypeOK ==
  tx \in [Instances -> [txnID : Nat, localChanged : BOOLEAN, empty : BOOLEAN,
                        db : DB]]

ReferencesTypeOK ==
  /\ seen \in [Instances -> ByInstance]
  /\ notified \in [Instances -> ByInstance]
  /\ downloaded \in [Instances -> ByInstance]
  /\ ready \in [Instances -> ByInstance]
  /\ lastByInstance \in [Instances -> ByInstance]
  /\ committed \in [Instances -> ByInstance]
  /\ listedAtStart \in [Instances -> ByInstance]

BucketTypeOK == storage \in [Instances -> Seq(DB)]

EnvTypeOK ==
  clock \in Nat /\ writes \in Nat /\ crashes \in Nat /\ losses \in Nat

\* The type of every variable: DBIs hold entries with a header or nothing,
\* snapshots are DBIs, counters are natural numbers.
TypeOK ==
  /\ LMDBTypeOK /\ LoopTypeOK /\ TxTypeOK /\ ReferencesTypeOK
  /\ BucketTypeOK /\ EnvTypeOK

\* The contents a are at least as new as the contents b, for every key.
Covers(a, b) == \A k \in Keys : Leq(b[k], a[k])

\* A later snapshot of an instance is at least as new as an earlier one, even
\* across a loss of the LMDB: the reason syncLoop loads its own old snapshot
\* before it writes a new one.  Receivers rely on it, as they only load the
\* latest snapshot of an instance.
OwnSnapshotsGrow ==
  \A i \in Instances : \A n \in 2..Len(storage[i]) :
    Covers(storage[i][n], storage[i][n-1])

\* What SendOnce reports to the cleaner as committed has been merged into a
\* snapshot this instance has stored, so a cleaner may remove the original.
CommittedIsMerged ==
  \A i, j \in Instances : committed[i][j] # 0 =>
    \E n \in 1..Len(storage[i]) :
      Covers(storage[i][n], storage[j][committed[i][j]])

\* Once the start tracker reports a completed pass, the LMDB has all that was
\* in the bucket when the instance started.
ReadyMeansMerged ==
  \A i, j \in Instances :
    "pass" \in passed[i] /\ listedAtStart[i][j] # 0 =>
      Covers(db[i], storage[j][listedAtStart[i][j]])

\* All that instance i holds is in the bucket.
Stored(i) ==
  /\ \A k \in Keys : db[i][k] # Absent =>
       \E j \in Instances : \E n \in 1..Len(storage[j]) :
         Leq(db[i][k], storage[j][n][k])
  /\ SchemaTracksChanges \/ main[i] = shadowToMain(db[i])

\* The loop of instance i considers its LMDB uploaded.
ConsidersStored(i) ==
  /\ pc[i] \in {"load", "done"} /\ i \notin ReceiveOnly
  /\ lastTxnID[i] <= lastSyncedTxnID[i]

\* lastSyncedTxnID "represents last TxnID that we uploaded to remote storage":
\* when no newer transaction exists, everything in the LMDB has been uploaded.
UploadedWhenSynced ==
  \A i \in Instances : ConsidersStored(i) => Stored(i)

\* The reuse of the ID of an empty transaction by the application, before
\* LoadOnce or SendOnce call env.Info(), is the only exception to
\* UploadedWhenSynced.
UploadedUnlessRaced ==
  \A i \in Instances : ConsidersStored(i) => raced[i] \/ Stored(i)

\* "After the sync the main database will contain all the non-deleted key-values
\* present in the shadow database" (shadowToMain, as called by LoadOnce).
MainHasAllOfShadow ==
  [][\A i \in Instances : pc[i] = "load" /\ pc'[i] = "loadinfo" =>
       SchemaTracksChanges \/ \A k \in Keys :
         db'[i][k].kind = "live" => main'[i][k] = db'[i][k].val]_vars

\* Eventual consistency: once the applications stop writing, and with periodic
\* snapshots, all instances get and keep the same contents.
Convergence ==
  <>[](\A i, j \in Instances : db[i] = db[j] /\ main[i] = main[j])
-------------------------------------------------------------------------------
(***************************************************************************)
(* The inductive invariant that the proofs use, for native mode and, if    *)
(* the clocks of the instances agree, for shadow mode.                     *)
(***************************************************************************)

\* Every reference to a snapshot is to one that exists.
ReferencesExist ==
  \A i, j \in Instances :
    /\ seen[i][j] <= Len(storage[j])
    /\ ready[i][j] <= Len(storage[j])
    /\ lastByInstance[i][j] <= Len(storage[j])
    /\ committed[i][j] <= Len(storage[j])
    /\ listedAtStart[i][j] <= Len(storage[j])

\* A stopped instance remembers nothing of its last run.
DownIsForgotten ==
  \A i \in Instances : pc[i] \in {"down", "list"} =>
    /\ lastByInstance[i] = NoneByInstance
    /\ listedAtStart[i] = NoneByInstance
    /\ ready[i] = NoneByInstance /\ notified[i] = downloaded[i]
    /\ waitingForInstances[i] = {}
    /\ passed[i] = {} /\ ~inLoop[i]

\* While its own old snapshot is to be loaded, it is the latest one.  In all
\* other states the LMDB covers it, and so does a snapshot being sent.
OwnIsCovered ==
  \A i \in Instances :
    /\ i \in waitingForInstances[i] =>
         /\ storage[i] # << >>
         /\ seen[i][i] = Len(storage[i])
         /\ ready[i][i] \in {0, Len(storage[i])}
         /\ pc[i] \notin {"send", "sendinfo", "store"}
    /\ pc[i] \notin {"down", "list"} /\ i \notin waitingForInstances[i] =>
         \A n \in 1..Len(storage[i]) : Covers(db[i], storage[i][n])
    /\ pc[i] \in {"sendinfo", "store"} =>
         /\ Covers(db[i], tx[i].db)
         /\ \A n \in 1..Len(storage[i]) : Covers(tx[i].db, storage[i][n])

\* Every later snapshot of an instance covers every earlier one.
SnapshotsGrow ==
  \A i \in Instances : \A n \in 1..Len(storage[i]) : \A m \in 1..n :
    Covers(storage[i][n], storage[i][m])

\* What was loaded is in the LMDB, and in a snapshot being sent.
LoadedIsCovered ==
  \A i, j \in Instances : lastByInstance[i][j] # 0 =>
    /\ Covers(db[i], storage[j][lastByInstance[i][j]])
    /\ pc[i] \in {"sendinfo", "store"} =>
         Covers(tx[i].db, storage[j][lastByInstance[i][j]])

\* What was listed at the start is in the LMDB or still awaited.
ListedIsCovered ==
  \A i, j \in Instances :
    /\ listedAtStart[i][j] <= seen[i][j]
    /\ ready[i][j] # 0 => listedAtStart[i][j] <= ready[i][j]
    /\ listedAtStart[i][j] # 0 /\ j \notin waitingForInstances[i] =>
         Covers(db[i], storage[j][listedAtStart[i][j]])
    /\ "pass" \in passed[i] => waitingForInstances[i] = {}

\* Only shadow mode copies the main DBI at the start.  Before that copy nothing
\* has been loaded, and all that was listed is still awaited.
ShadowIsFresh ==
  \A i \in Instances : pc[i] = "shadow" =>
    /\ ~SchemaTracksChanges
    /\ lastByInstance[i] = NoneByInstance
    /\ "pass" \notin passed[i]
    /\ storage[i] # << >> => i \in waitingForInstances[i]
    /\ \A j \in Instances :
         listedAtStart[i][j] # 0 => j \in waitingForInstances[i]

\* What the proofs of OwnSnapshotsGrow, CommittedIsMerged and ReadyMeansMerged
\* need: each follows from it, and every step preserves it.
IndInv ==
  /\ TypeOK /\ ReferencesExist /\ DownIsForgotten /\ ShadowIsFresh
  /\ OwnIsCovered /\ SnapshotsGrow /\ LoadedIsCovered /\ ListedIsCovered
  /\ CommittedIsMerged
===============================================================================
