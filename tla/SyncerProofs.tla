------------------------------ MODULE SyncerProofs ----------------------------
(*****************************************************************************)
(* Proofs about Syncer, for any instances, keys, values and bounds: its       *)
(* types; that own snapshots only grow, that what is reported as committed   *)
(* has been merged, that a completed pass means that the initial listing has *)
(* been loaded, that what counts as synced has been uploaded, and that the   *)
(* main DBI has all of the shadow DBI after a load; in native mode, that the *)
(* instances implement ReplicatedMap.  Native mode takes any clock skews,    *)
(* shadow mode clocks that agree.                                            *)
(*****************************************************************************)
EXTENDS SyncerRefinement, IteratorsProofs

\* The order of transaction IDs and of positions in the bucket.
LEMMA NatOrder ==
  /\ \A a \in Nat : 0 <= a /\ a <= a /\ (a <= 0 => a = 0)
  /\ \A a, b \in Nat : (~(a < b) => b <= a) /\ (b <= a => ~(a < b))
  /\ \A a, b, c \in Nat : a < b /\ b <= c => a < c
  BY SMTT(30)

\* The transaction ID after a commit.
LEMMA NatNext ==
  /\ \A a \in Nat : a + 1 \in Nat /\ a + 1 # 0 /\ (a + 1) - 1 = a
  /\ \A a \in Nat : a <= a + 1 /\ a + 1 <= a + 1
  /\ \A a, b \in Nat : a <= b => a < b + 1
  /\ \A a, b \in Nat : a < b => a < b + 1
  OBVIOUS

\* An earlier transaction ID differs.
LEMMA NatBelow ==
  \A a, b \in Nat : a < b => a <= b /\ ~(b <= a) /\ b # a
  OBVIOUS

\* What an instance starts with.
LEMMA InitialTypes ==
  /\ EmptyDB \in DB
  /\ EmptyMain \in [Keys -> Values \cup {NoValue}]
  /\ NoneByInstance \in ByInstance
  /\ NoTx \in [txnID : Nat, localChanged : BOOLEAN, empty : BOOLEAN, db : DB]
  BY Zenon DEF EmptyDB, DB, EmptyMain, NoneByInstance, ByInstance, NoTx

\* A merged snapshot leaves a DBI with headers.
LEMMA UpdateType ==
  ASSUME NEW old \in DB, NEW snap \in DB
  PROVE  Update(old, snap) \in DB
<1>1. ASSUME NEW k \in Keys, snap[k] # Absent
      PROVE  Merge(old[k], snap[k], 0, 0, CurrentFormatVersion)
               \in Entry \cup {Absent}
  <2>1. old[k] \in Entry \cup {Absent} /\ snap[k] \in Entry
    BY <1>1, Zenon DEF DB
  <2>2. CurrentFormatVersion \in Nat
    BY Zenon DEF CurrentFormatVersion
  <2> QED
    BY <2>1, <2>2, MergeType, Zenon
<1> QED
  BY <1>1, Zenon DEF Update, DB

\* mainToShadow leaves a DBI with headers.
LEMMA MainToShadowType ==
  ASSUME NEW plain \in [Keys -> Values \cup {NoValue}], NEW shadow \in DB,
         NEW ts \in Nat
  PROVE  mainToShadow(plain, shadow, ts) \in DB
<1>0. CurrentFormatVersion \in Nat
  BY Zenon DEF CurrentFormatVersion
<1>1. ASSUME NEW k \in Keys, plain[k] # NoValue
      PROVE  Merge(shadow[k], [kind |-> "live", ts |-> 0, val |-> plain[k]], ts,
                   0, CurrentFormatVersion) \in Entry \cup {Absent}
  <2>1. shadow[k] \in Entry \cup {Absent}
    BY Zenon DEF DB
  <2>2. [kind |-> "live", ts |-> 0, val |-> plain[k]] \in Entry
    BY <1>1, Zenon DEF Entry
  <2> QED
    BY <1>0, <2>1, <2>2, MergeType, Zenon
<1>2. ASSUME NEW k \in Keys, shadow[k] # Absent
      PROVE  Clean(shadow[k], ts, CurrentFormatVersion) \in Entry
  BY <1>0, <1>2, CleanType, Zenon DEF DB
<1> QED
  BY <1>1, <1>2, Zenon DEF mainToShadow, DB

\* shadowToMain leaves plain values.
LEMMA ShadowToMainType ==
  ASSUME NEW shadow \in DB
  PROVE  shadowToMain(shadow) \in [Keys -> Values \cup {NoValue}]
<1>1. ASSUME NEW k \in Keys PROVE PlainValue(shadow[k]) \in Values \cup {NoValue}
  BY ValuesAssumption DEF DB, PlainValue, Entry, Absent, Empty
<1> QED
  BY <1>1, Zenon DEF shadowToMain

\* A snapshot that is ready exists in the bucket.
LEMMA ReadyIsSnapshot ==
  ASSUME TypeOK, ReferencesExist, NEW i \in Instances, NEW j \in Instances,
         ready[i][j] # 0
  PROVE  /\ ready[i][j] \in 1..Len(storage[j])
         /\ storage[j][ready[i][j]] \in DB
<1>1. ready[i][j] \in Nat /\ ready[i][j] <= Len(storage[j])
  BY Zenon DEF TypeOK, ReferencesTypeOK, ByInstance, ReferencesExist
<1>2. storage[j] \in Seq(DB)
  BY Zenon DEF TypeOK, BucketTypeOK
<1> QED
  BY <1>1, <1>2

\* What LoadOnce leaves in the LMDB.
LEMMA LoadedType ==
  ASSUME TypeOK, NEW i \in Instances, NEW snap \in DB
  PROVE  /\ LoadedDB(i, snap) \in DB
         /\ LoadedMain(i, snap) \in [Keys -> Values \cup {NoValue}]
<1>1. /\ db[i] \in DB /\ Now(i) \in Nat
      /\ main[i] \in [Keys -> Values \cup {NoValue}]
  <2>1. Now(i) \in Nat
    BY SyncerAssumption DEF TypeOK, EnvTypeOK, Now
  <2> QED
    BY <2>1, Zenon DEF TypeOK, LMDBTypeOK
<1>2. mainToShadow(main[i], db[i], Now(i)) \in DB
  BY <1>1, MainToShadowType, Zenon
<1>3. LoadedDB(i, snap) \in DB
  BY <1>1, <1>2, UpdateType, Zenon DEF LoadedDB
<1> QED
  BY <1>1, <1>3, ShadowToMainType, Zenon DEF LoadedMain

\* What SendOnce dumps.
LEMMA DumpedType ==
  ASSUME TypeOK, NEW i \in Instances
  PROVE  DumpedDB(i) \in DB
<1>1. /\ db[i] \in DB /\ Now(i) \in Nat
      /\ main[i] \in [Keys -> Values \cup {NoValue}]
  <2>1. Now(i) \in Nat
    BY SyncerAssumption DEF TypeOK, EnvTypeOK, Now
  <2> QED
    BY <2>1, Zenon DEF TypeOK, LMDBTypeOK
<1> QED
  BY <1>1, MainToShadowType, Zenon DEF DumpedDB

\* What a step leaves alone keeps its type.
LEMMA Unchanged ==
  ASSUME TypeOK, ReferencesExist
  PROVE  /\ UNCHANGED lmdbVars => LMDBTypeOK'
         /\ UNCHANGED <<pc, syncVars, overdue, raced>> => LoopTypeOK'
         /\ UNCHANGED tx => TxTypeOK'
         /\ UNCHANGED <<receiverVars, lastByInstance, committed, listedAtStart>>
              => ReferencesTypeOK'
         /\ UNCHANGED <<receiverVars, lastByInstance, committed, listedAtStart,
                        storage>> => ReferencesExist'
         /\ UNCHANGED storage => BucketTypeOK'
         /\ UNCHANGED envVars => EnvTypeOK'
<1>1. UNCHANGED lmdbVars => LMDBTypeOK'
  BY Zenon DEF TypeOK, LMDBTypeOK, lmdbVars
<1>2. UNCHANGED <<pc, syncVars, overdue, raced>> => LoopTypeOK'
  BY Zenon DEF TypeOK, LoopTypeOK, syncVars
<1>3. UNCHANGED tx => TxTypeOK'
  BY Zenon DEF TypeOK, TxTypeOK
<1>4. UNCHANGED <<receiverVars, lastByInstance, committed, listedAtStart>>
        => ReferencesTypeOK'
  BY Zenon DEF TypeOK, ReferencesTypeOK, receiverVars
<1>5. UNCHANGED <<receiverVars, lastByInstance, committed, listedAtStart,
                  storage>> => ReferencesExist'
  BY Zenon DEF ReferencesExist, receiverVars
<1>6. UNCHANGED storage => BucketTypeOK'
  BY Zenon DEF TypeOK, BucketTypeOK
<1>7. UNCHANGED envVars => EnvTypeOK'
  BY Zenon DEF TypeOK, EnvTypeOK, envVars
<1> QED
  BY <1>1, <1>2, <1>3, <1>4, <1>5, <1>6, <1>7, Zenon

\* The groups of variables.
LEMMA Groups ==
  /\ UNCHANGED sentVars => UNCHANGED <<committed, overdue>>
  /\ UNCHANGED historyVars => UNCHANGED <<raced, listedAtStart>>
  /\ UNCHANGED receiverVars => UNCHANGED <<seen, notified, downloaded, ready>>
  BY Zenon DEF sentVars, historyVars, receiverVars

\* What the application changes besides the DBI, and what it leaves alone.
LEMMA AppCommitType ==
  ASSUME TypeOK, ReferencesExist, NEW i \in Instances, AppCommit(i)
  PROVE  /\ lastTxnID' \in [Instances -> Nat]
         /\ hasShadow' \in [Instances -> BOOLEAN]
         /\ LoopTypeOK' /\ TxTypeOK' /\ ReferencesTypeOK' /\ ReferencesExist'
         /\ BucketTypeOK' /\ EnvTypeOK'
<1>1. /\ writes' = writes + 1 /\ clock' = clock + 1
      /\ lastTxnID' = [lastTxnID EXCEPT ![i] = @ + 1]
      /\ raced' = [raced EXCEPT ![i] =
                     @ \/ (pc[i] \in {"loadinfo", "sendinfo"} /\ tx[i].empty)]
      /\ UNCHANGED <<hasShadow, storage, pc, syncVars, sentVars, lastByInstance,
                     tx, receiverVars, crashes, losses, listedAtStart>>
  BY Zenon DEF AppCommit, Commit
<1>2. /\ lastTxnID' \in [Instances -> Nat]
      /\ hasShadow' \in [Instances -> BOOLEAN]
  BY <1>1 DEF TypeOK, LMDBTypeOK
<1>3. EnvTypeOK'
  BY <1>1 DEF TypeOK, EnvTypeOK
<1>4. raced' \in [Instances -> BOOLEAN]
  BY <1>1, Zenon DEF TypeOK, LoopTypeOK, TxTypeOK
<1>5. UNCHANGED <<committed, overdue>>
  BY <1>1, Groups, Zenon
<1>6. LoopTypeOK'
  BY <1>1, <1>4, <1>5, Zenon DEF TypeOK, LoopTypeOK, syncVars
<1> QED
  BY <1>1, <1>2, <1>3, <1>5, <1>6, Unchanged, Zenon

\* The entry a native application writes, in the DBI it writes it to.
LEMMA NativeWriteType ==
  ASSUME TypeOK, ReferencesExist, NEW i \in Instances, NEW k \in Keys,
         NEW kind \in {"live", "deleted"}, NEW v \in Values,
         NativeWrite(i, k, kind, v)
  PROVE  TypeOK' /\ ReferencesExist'
<1> DEFINE e == [kind |-> kind, ts |-> Now(i)', val |-> v]
<1>1. AppCommit(i) /\ main' = main /\ db' = [db EXCEPT ![i][k] = e]
  BY Zenon DEF NativeWrite
<1>2. e \in Entry
  <2>1. clock' \in Nat
    BY <1>1, AppCommitType, Zenon DEF EnvTypeOK
  <2> QED
    BY <2>1, SyncerAssumption DEF Now, Entry
<1> HIDE DEF e
<1>3. db' \in [Instances -> DB]
  BY <1>1, <1>2, Zenon DEF TypeOK, LMDBTypeOK, DB
<1>4. LMDBTypeOK'
  BY <1>1, <1>3, AppCommitType, Zenon DEF TypeOK, LMDBTypeOK
<1> QED
  BY <1>1, <1>4, AppCommitType, Zenon DEF TypeOK

\* The end of a pass, and of SendOnce.
LEMMA EndPassType ==
  ASSUME LoopTypeOK, NEW i \in Instances, NEW waiting,
         NEW stages \in SUBSET {"store"}, EndPass(i, waiting, stages)
  PROVE  /\ pc' \in [Instances -> Pcs]
         /\ inLoop' \in [Instances -> BOOLEAN]
         /\ nLoads' \in [Instances -> Nat]
         /\ passed' \in [Instances -> SUBSET {"listing", "store", "pass"}]
<1>1. pc' \in [Instances -> Pcs]
  BY Zenon DEF LoopTypeOK, EndPass, Pcs
<1>2. inLoop' \in [Instances -> BOOLEAN] /\ nLoads' \in [Instances -> Nat]
  BY Zenon DEF LoopTypeOK, EndPass
<1>3. passed' \in [Instances -> SUBSET {"listing", "store", "pass"}]
  BY Zenon DEF LoopTypeOK, EndPass
<1> QED
  BY <1>1, <1>2, <1>3, Zenon

\* What SendOnce leaves of the loop's state.
LEMMA SendReturnsType ==
  ASSUME LoopTypeOK, NEW i \in Instances, NEW txnID \in Nat,
         SendReturns(i, txnID), overdue' \in [Instances -> BOOLEAN],
         raced' = raced
  PROVE  LoopTypeOK'
<1>1. /\ lastSyncedTxnID' \in [Instances -> Nat]
      /\ hasDataAtStart' = hasDataAtStart
      /\ waitingForInstances' = waitingForInstances
  BY Zenon DEF LoopTypeOK, SendReturns
<1>2. CASE inLoop[i]
  <2>1. EndPass(i, waitingForInstances[i], {"store"})
    BY <1>2, Zenon DEF SendReturns
  <2> QED
    BY <1>1, <2>1, EndPassType, Zenon DEF LoopTypeOK
<1>3. CASE ~inLoop[i]
  <2>1. /\ passed' \in [Instances -> SUBSET {"listing", "store", "pass"}]
        /\ pc' \in [Instances -> Pcs]
        /\ inLoop' \in [Instances -> BOOLEAN]
        /\ nLoads' = nLoads
    <3>1. /\ passed' = [passed EXCEPT ![i] = @ \cup {"store"}]
          /\ pc' = [pc EXCEPT ![i] = "load"]
          /\ inLoop' = [inLoop EXCEPT ![i] = TRUE]
          /\ nLoads' = nLoads
      BY <1>3, Zenon DEF SendReturns
    <3>2. pc' \in [Instances -> Pcs] /\ inLoop' \in [Instances -> BOOLEAN]
      BY <3>1, Zenon DEF LoopTypeOK, Pcs
    <3>3. passed' \in [Instances -> SUBSET {"listing", "store", "pass"}]
      BY <3>1, Zenon DEF LoopTypeOK
    <3> QED
      BY <3>1, <3>2, <3>3, Zenon
  <2> QED
    BY <1>1, <2>1, Zenon DEF LoopTypeOK
<1> QED
  BY <1>2, <1>3, Zenon

\* The type invariant, with the references that make it inductive.
LEMMA TypeStep ==
  ASSUME TypeOK, ReferencesExist, [Next]_vars
  PROVE  TypeOK' /\ ReferencesExist'
<1>1. CASE UNCHANGED vars
  <2>1. UNCHANGED <<lmdbVars, storage, pc, syncVars, sentVars, lastByInstance, tx,
                    receiverVars, envVars, historyVars>>
    BY <1>1, Zenon DEF vars
  <2> QED
    BY <2>1, Unchanged, Groups, Zenon DEF TypeOK
<1>2. ASSUME NEW i \in Instances, NEW k \in Keys, NEW v \in AppValues,
             AppPut(i, k, v)
      PROVE  TypeOK' /\ ReferencesExist'
  <2>1. v \in Values
    BY SyncerAssumption, Zenon
  <2>2. CASE NativeWrite(i, k, "live", v)
    BY <2>1, <2>2, NativeWriteType, Zenon
  <2>3. CASE /\ AppCommit(i) /\ db' = db
             /\ main' = [main EXCEPT ![i][k] = v]
    <3>1. main' \in [Instances -> [Keys -> Values \cup {NoValue}]]
      BY <2>1, <2>3, Zenon DEF TypeOK, LMDBTypeOK
    <3>2. LMDBTypeOK'
      BY <2>3, <3>1, AppCommitType, Zenon DEF TypeOK, LMDBTypeOK
    <3> QED
      BY <2>3, <3>2, AppCommitType, Zenon DEF TypeOK
  <2> QED
    BY <1>2, <2>2, <2>3, Zenon DEF AppPut
<1>3. ASSUME NEW i \in Instances, NEW k \in Keys, AppDelete(i, k)
      PROVE  TypeOK' /\ ReferencesExist'
  <2>1. CASE NativeWrite(i, k, "deleted", Empty)
    BY <2>1, NativeWriteType, ValuesAssumption, Zenon DEF Empty
  <2>2. CASE /\ AppCommit(i) /\ db' = db
             /\ main' = [main EXCEPT ![i][k] = NoValue]
    <3>1. main' \in [Instances -> [Keys -> Values \cup {NoValue}]]
      BY <2>2, Zenon DEF TypeOK, LMDBTypeOK
    <3>2. LMDBTypeOK'
      BY <2>2, <3>1, AppCommitType, Zenon DEF TypeOK, LMDBTypeOK
    <3> QED
      BY <2>2, <3>2, AppCommitType, Zenon DEF TypeOK
  <2> QED
    BY <1>3, <2>1, <2>2, Zenon DEF AppDelete
<1>4. ASSUME NEW i \in Instances, Crash(i)
      PROVE  TypeOK' /\ ReferencesExist'
  <2> DEFINE None == NoneByInstance
  <2>1. /\ crashes' = crashes + 1
        /\ pc' = [pc EXCEPT ![i] = "down"]
        /\ inLoop' = [inLoop EXCEPT ![i] = FALSE]
        /\ hasDataAtStart' = [hasDataAtStart EXCEPT ![i] = FALSE]
        /\ lastSyncedTxnID' = [lastSyncedTxnID EXCEPT ![i] = 0]
        /\ waitingForInstances' = [waitingForInstances EXCEPT ![i] = {}]
        /\ nLoads' = [nLoads EXCEPT ![i] = 0]
        /\ passed' = [passed EXCEPT ![i] = {}]
        /\ overdue' = [overdue EXCEPT ![i] = FALSE]
        /\ raced' = [raced EXCEPT ![i] = FALSE]
    BY <1>4, Zenon DEF Crash
  <2>2. /\ committed' = [committed EXCEPT ![i] = None]
        /\ lastByInstance' = [lastByInstance EXCEPT ![i] = None]
        /\ seen' = [seen EXCEPT ![i] = None]
        /\ notified' = [notified EXCEPT ![i] = None]
        /\ downloaded' = [downloaded EXCEPT ![i] = None]
        /\ ready' = [ready EXCEPT ![i] = None]
        /\ listedAtStart' = [listedAtStart EXCEPT ![i] = None]
    BY <1>4, Zenon DEF Crash
  <2>3. /\ tx' = [tx EXCEPT ![i] = NoTx]
        /\ UNCHANGED <<lmdbVars, storage, clock, writes, losses>>
    BY <1>4, Zenon DEF Crash
  <2>4. LoopTypeOK'
    BY <2>1, Zenon DEF TypeOK, LoopTypeOK, Pcs
  <2>5. TxTypeOK'
    BY <2>3, InitialTypes, Zenon DEF TypeOK, TxTypeOK
  <2>6. None \in ByInstance /\ \A j \in Instances : None[j] = 0
    BY InitialTypes, Zenon DEF NoneByInstance
  <2> HIDE DEF None
  <2>7. ReferencesTypeOK'
    BY <2>2, <2>6, Zenon DEF TypeOK, ReferencesTypeOK
  <2>8. ReferencesExist'
    <3> SUFFICES ASSUME NEW q \in Instances, NEW j \in Instances
                 PROVE  /\ seen'[q][j] <= Len(storage[j])
                        /\ ready'[q][j] <= Len(storage[j])
                        /\ lastByInstance'[q][j] <= Len(storage[j])
                        /\ committed'[q][j] <= Len(storage[j])
                        /\ listedAtStart'[q][j] <= Len(storage[j])
      BY <2>3, Zenon DEF ReferencesExist
    <3>1. 0 <= Len(storage[j])
      BY DEF TypeOK, BucketTypeOK
    <3>2. CASE q = i
      BY <2>2, <2>6, <3>1, <3>2, Zenon DEF TypeOK, ReferencesTypeOK
    <3>3. CASE q # i
      <4>1. /\ seen'[q] = seen[q] /\ ready'[q] = ready[q]
            /\ lastByInstance'[q] = lastByInstance[q]
            /\ committed'[q] = committed[q]
            /\ listedAtStart'[q] = listedAtStart[q]
        BY <2>2, <3>3, Zenon DEF TypeOK, ReferencesTypeOK
      <4> QED
        BY <4>1, Zenon DEF ReferencesExist
    <3> QED
      BY <3>2, <3>3, Zenon
  <2>9. EnvTypeOK'
    BY <2>1, <2>3 DEF TypeOK, EnvTypeOK
  <2> QED
    BY <2>3, <2>4, <2>5, <2>7, <2>8, <2>9, Unchanged, Zenon DEF TypeOK
<1>5. ASSUME NEW i \in Instances, LoseLMDB(i)
      PROVE  TypeOK' /\ ReferencesExist'
  <2>1. /\ losses' = losses + 1
        /\ db' = [db EXCEPT ![i] = EmptyDB]
        /\ main' = [main EXCEPT ![i] = EmptyMain]
        /\ hasShadow' = [hasShadow EXCEPT ![i] = FALSE]
        /\ lastTxnID' = [lastTxnID EXCEPT ![i] = 0]
        /\ UNCHANGED <<storage, pc, syncVars, sentVars, lastByInstance, tx,
                       receiverVars, clock, writes, crashes, historyVars>>
    BY <1>5, Zenon DEF LoseLMDB
  <2>2. LMDBTypeOK'
    BY <2>1, InitialTypes, Zenon DEF TypeOK, LMDBTypeOK
  <2>3. EnvTypeOK'
    BY <2>1 DEF TypeOK, EnvTypeOK
  <2> QED
    BY <2>1, <2>2, <2>3, Unchanged, Groups, Zenon DEF TypeOK
<1>6. ASSUME NEW i \in Instances, Start(i)
      PROVE  TypeOK' /\ ReferencesExist'
  <2>1. /\ pc' = [pc EXCEPT ![i] = "list"]
        /\ hasDataAtStart' = [hasDataAtStart EXCEPT ![i] = lastTxnID[i] > 0]
        /\ UNCHANGED <<lmdbVars, storage, inLoop, lastSyncedTxnID,
                       waitingForInstances, nLoads, passed, sentVars,
                       lastByInstance, tx, receiverVars, envVars, historyVars>>
    BY <1>6, Zenon DEF Start
  <2>2. LoopTypeOK'
    BY <2>1, Groups DEF TypeOK, LoopTypeOK, Pcs
  <2> QED
    BY <2>1, <2>2, Unchanged, Groups, Zenon DEF TypeOK
<1>7. ASSUME NEW i \in Instances, InitialListing(i)
      PROVE  TypeOK' /\ ReferencesExist'
  <2>1. /\ seen' = [seen EXCEPT ![i] = Listing]
        /\ notified' = [notified EXCEPT ![i] = Listing]
        /\ listedAtStart' = [listedAtStart EXCEPT ![i] = Listing]
        /\ UNCHANGED <<lmdbVars, storage, hasDataAtStart, lastSyncedTxnID,
                       nLoads, sentVars, lastByInstance, tx, downloaded, ready,
                       envVars, raced>>
    BY <1>7, Zenon DEF InitialListing
  <2>2. /\ waitingForInstances' =
             [waitingForInstances EXCEPT ![i] = SeenInstances(i)']
        /\ pc' = [pc EXCEPT ![i] = IF hasDataAtStart[i] /\ ~SchemaTracksChanges
                    THEN "shadow" ELSE NextAfterShadow(i, SeenInstances(i)' # {})]
        /\ inLoop' = [inLoop EXCEPT ![i] = pc'[i] = "load"]
        /\ passed' = [passed EXCEPT ![i] =
             {"listing"} \cup (IF hasDataAtStart[i] THEN {} ELSE {"store"})]
    BY <1>7, Zenon DEF InitialListing
  <2>3. /\ SeenInstances(i)' \in SUBSET Instances
        /\ NextAfterShadow(i, SeenInstances(i)' # {}) \in Pcs
    BY Zenon DEF SeenInstances, NextAfterShadow, Pcs
  <2>4. LoopTypeOK'
    BY <2>1, <2>2, <2>3, Groups, Zenon DEF TypeOK, LoopTypeOK, Pcs
  <2>5. Listing \in ByInstance
    BY DEF TypeOK, BucketTypeOK, Listing, ByInstance
  <2>6. ReferencesTypeOK'
    BY <2>1, <2>5, Groups, Zenon DEF TypeOK, ReferencesTypeOK
  <2>7. ReferencesExist'
    <3>1. \A j \in Instances : Listing[j] <= Len(storage[j])
      BY DEF TypeOK, BucketTypeOK, Listing
    <3> QED
      BY <2>1, <3>1, Groups, Zenon DEF TypeOK, ReferencesTypeOK, ReferencesExist
  <2> QED
    BY <2>1, <2>4, <2>6, <2>7, Unchanged, Zenon DEF TypeOK
<1>8. ASSUME NEW i \in Instances, ShadowInit(i)
      PROVE  TypeOK' /\ ReferencesExist'
  <2>1. /\ db' = [db EXCEPT ![i] = mainToShadow(main[i], db[i], 1)]
        /\ hasShadow' = [hasShadow EXCEPT ![i] = TRUE]
        /\ Commit(i, db' # db \/ ~hasShadow[i])
        /\ pc' = [pc EXCEPT ![i] = NextAfterShadow(i, SeenInstances(i) # {})]
        /\ inLoop' = [inLoop EXCEPT ![i] = pc'[i] = "load"]
        /\ UNCHANGED <<main, storage, hasDataAtStart, lastSyncedTxnID,
                       waitingForInstances, nLoads, passed, sentVars,
                       lastByInstance, tx, receiverVars, envVars, historyVars>>
    BY <1>8, Zenon DEF ShadowInit
  <2>2. mainToShadow(main[i], db[i], 1) \in DB
    BY MainToShadowType, Zenon DEF TypeOK, LMDBTypeOK
  <2>3. lastTxnID' \in [Instances -> Nat]
    BY <2>1 DEF TypeOK, LMDBTypeOK, Commit
  <2>4. LMDBTypeOK'
    BY <2>1, <2>2, <2>3, Zenon DEF TypeOK, LMDBTypeOK
  <2>5. NextAfterShadow(i, SeenInstances(i) # {}) \in Pcs
    BY Zenon DEF NextAfterShadow, Pcs
  <2>6. LoopTypeOK'
    BY <2>1, <2>5, Groups, Zenon DEF TypeOK, LoopTypeOK
  <2> QED
    BY <2>1, <2>4, <2>6, Unchanged, Groups, Zenon DEF TypeOK
<1>9. ASSUME NEW i \in Instances, List(i)
      PROVE  TypeOK' /\ ReferencesExist'
  <2>1. /\ seen' = [seen EXCEPT ![i] = Listing]
        /\ notified' =
             [notified EXCEPT ![i] = [Listing EXCEPT ![i] = notified[i][i]]]
        /\ UNCHANGED <<lmdbVars, storage, pc, syncVars, sentVars,
                       lastByInstance, tx, downloaded, ready, envVars,
                       historyVars>>
    BY <1>9, Zenon DEF List
  <2>2. Listing \in ByInstance /\ \A j \in Instances : Listing[j] = Len(storage[j])
    BY DEF TypeOK, BucketTypeOK, Listing, ByInstance
  <2>3. [Listing EXCEPT ![i] = notified[i][i]] \in ByInstance
    BY <2>2 DEF TypeOK, ReferencesTypeOK, ByInstance
  <2>4. ReferencesTypeOK'
    BY <2>1, <2>2, <2>3, Groups, Zenon DEF TypeOK, ReferencesTypeOK
  <2>5. \A j \in Instances : Listing[j] <= Len(storage[j])
    BY <2>2 DEF TypeOK, BucketTypeOK
  <2>6. ReferencesExist'
    BY <2>1, <2>5, Groups, Zenon DEF TypeOK, ReferencesTypeOK, ReferencesExist
  <2> QED
    BY <2>1, <2>4, <2>6, Unchanged, Groups, Zenon DEF TypeOK
<1>10. ASSUME NEW i \in Instances, NEW j \in Instances, Download(i, j)
       PROVE  TypeOK' /\ ReferencesExist'
  <2>1. /\ downloaded' = [downloaded EXCEPT ![i][j] = seen[i][j]]
        /\ ready' = [ready EXCEPT ![i][j] = seen[i][j]]
        /\ UNCHANGED <<lmdbVars, storage, pc, syncVars, sentVars,
                       lastByInstance, tx, seen, notified, envVars, historyVars>>
    BY <1>10, Zenon DEF Download
  <2>2. ReferencesTypeOK'
    BY <2>1, Groups, ZenonT(30) DEF TypeOK, ReferencesTypeOK, ByInstance
  <2>3. ReferencesExist'
    BY <2>1, Groups, Zenon DEF TypeOK, ReferencesTypeOK, ReferencesExist, ByInstance
  <2> QED
    BY <2>1, <2>2, <2>3, Unchanged, Groups, Zenon DEF TypeOK
<1>11. ASSUME NEW i \in Instances, NEW j \in Instances, LoadTxn(i, j)
       PROVE  TypeOK' /\ ReferencesExist'
  <2> DEFINE snap == storage[j][ready[i][j]]
  <2>1. snap \in DB
    BY <1>11, ReadyIsSnapshot, Zenon DEF LoadTxn
  <2>2. /\ LoadedDB(i, snap) \in DB
        /\ LoadedMain(i, snap) \in [Keys -> Values \cup {NoValue}]
    BY <2>1, LoadedType, Zenon
  <2>3. localChanged(i) \in BOOLEAN /\ LoadIsDirty(i, snap) \in BOOLEAN
    BY DEF localChanged, LoadIsDirty
  <2>4. /\ db' = [db EXCEPT ![i] = LoadedDB(i, snap)]
        /\ main' = [main EXCEPT ![i] = LoadedMain(i, snap)]
        /\ hasShadow' = [hasShadow EXCEPT ![i] = ~SchemaTracksChanges]
        /\ Commit(i, LoadIsDirty(i, snap))
        /\ tx' = [tx EXCEPT ![i] = [txnID |-> lastTxnID[i] + 1,
                                    localChanged |-> localChanged(i),
                                    empty |-> ~LoadIsDirty(i, snap),
                                    db |-> EmptyDB]]
    BY <1>11, Zenon DEF LoadTxn
  <2> HIDE DEF snap
  <2>5. /\ ready' = [ready EXCEPT ![i][j] = 0]
        /\ lastByInstance' = [lastByInstance EXCEPT ![i][j] = ready[i][j]]
        /\ nLoads' = [nLoads EXCEPT ![i] =
                        IF @ > MaxConsecutiveSnapshotLoads THEN @ ELSE @ + 1]
        /\ waitingForInstances' = [waitingForInstances EXCEPT ![i] = @ \ {j}]
        /\ pc' = [pc EXCEPT ![i] = "loadinfo"]
        /\ UNCHANGED <<storage, inLoop, hasDataAtStart, lastSyncedTxnID, passed,
                       sentVars, seen, notified, downloaded, envVars,
                       historyVars>>
    BY <1>11, Zenon DEF LoadTxn
  <2>6. LMDBTypeOK'
    <3>1. lastTxnID' \in [Instances -> Nat]
      BY <2>4 DEF TypeOK, LMDBTypeOK, Commit
    <3> QED
      BY <2>2, <2>4, <3>1, SyncerAssumption, Zenon DEF TypeOK, LMDBTypeOK
  <2>7. LoopTypeOK'
    BY <2>5, Groups DEF TypeOK, LoopTypeOK, Pcs
  <2>8. TxTypeOK'
    <3>1. [txnID |-> lastTxnID[i] + 1, localChanged |-> localChanged(i),
           empty |-> ~LoadIsDirty(i, snap), db |-> EmptyDB]
             \in [txnID : Nat, localChanged : BOOLEAN, empty : BOOLEAN, db : DB]
      <4>1. lastTxnID[i] + 1 \in Nat
        BY DEF TypeOK, LMDBTypeOK
      <4>2. (~LoadIsDirty(i, snap)) \in BOOLEAN /\ EmptyDB \in DB
        BY <2>3, InitialTypes, Zenon
      <4> QED
        BY <2>3, <4>1, <4>2, Zenon
    <3> QED
      BY <2>4, <3>1, Zenon DEF TypeOK, TxTypeOK
  <2>9. ReferencesTypeOK'
    BY <2>5, Groups DEF TypeOK, ReferencesTypeOK, ByInstance
  <2>10. ReferencesExist'
    <3> SUFFICES ASSUME NEW p \in Instances, NEW q \in Instances
                 PROVE  /\ ready'[p][q] <= Len(storage[q])
                        /\ lastByInstance'[p][q] <= Len(storage[q])
      BY <2>5, Groups, Zenon DEF ReferencesExist
    <3>1. /\ 0 <= Len(storage[q])
          /\ ready[p][q] <= Len(storage[q])
          /\ lastByInstance[p][q] <= Len(storage[q])
      BY DEF TypeOK, BucketTypeOK, ReferencesExist
    <3>2. ready'[p][q] \in {0, ready[p][q]}
      BY <2>5, Zenon DEF TypeOK, ReferencesTypeOK, ByInstance
    <3>3. lastByInstance'[p][q] \in {lastByInstance[p][q], ready[p][q]}
      BY <2>5, Zenon DEF TypeOK, ReferencesTypeOK, ByInstance
    <3> QED
      BY ONLY <3>1, <3>2, <3>3, Zenon
  <2> QED
    BY <2>5, <2>6, <2>7, <2>8, <2>9, <2>10, Unchanged, Zenon DEF TypeOK
<1>12. ASSUME NEW i \in Instances, LoadInfo(i)
       PROVE  TypeOK' /\ ReferencesExist'
  <2>1. /\ lastSyncedTxnID' = [lastSyncedTxnID EXCEPT ![i] =
                                 IF tx[i].localChanged THEN @ ELSE AdjustedTxnID(i)]
        /\ pc' = [pc EXCEPT ![i] =
             IF tx[i].localChanged /\ nLoads[i] > MaxConsecutiveSnapshotLoads
             THEN "check" ELSE "load"]
        /\ tx' = [tx EXCEPT ![i] = NoTx]
        /\ UNCHANGED <<lmdbVars, storage, inLoop, hasDataAtStart,
                       waitingForInstances, nLoads, passed, sentVars,
                       lastByInstance, receiverVars, envVars, historyVars>>
    BY <1>12, Zenon DEF LoadInfo
  <2>2. AdjustedTxnID(i) \in Nat
    BY Zenon DEF TypeOK, LMDBTypeOK, TxTypeOK, AdjustedTxnID
  <2>3. LoopTypeOK'
    BY <2>1, <2>2, Groups, Zenon DEF TypeOK, LoopTypeOK, Pcs
  <2>4. TxTypeOK'
    BY <2>1, InitialTypes, Zenon DEF TypeOK, TxTypeOK
  <2> QED
    BY <2>1, <2>3, <2>4, Unchanged, Groups, Zenon DEF TypeOK
<1>13. ASSUME NEW i \in Instances, TimerExpires(i)
       PROVE  TypeOK' /\ ReferencesExist'
  <2>1. /\ overdue' = [overdue EXCEPT ![i] = TRUE]
        /\ UNCHANGED <<lmdbVars, storage, pc, syncVars, committed,
                       lastByInstance, tx, receiverVars, envVars, historyVars>>
    BY <1>13, Zenon DEF TimerExpires
  <2>2. LoopTypeOK'
    BY <2>1, Groups, Zenon DEF TypeOK, LoopTypeOK, syncVars
  <2> QED
    BY <2>1, <2>2, Unchanged, Groups, Zenon DEF TypeOK
<1>14. ASSUME NEW i \in Instances, Check(i)
       PROVE  TypeOK' /\ ReferencesExist'
  <2> DEFINE waiting == waitingForInstances[i] \cap SeenInstances(i)
  <2>1. /\ waitingForInstances' = [waitingForInstances EXCEPT ![i] = waiting]
        /\ lastSyncedTxnID' = [lastSyncedTxnID EXCEPT ![i] =
                                 IF Sends(i, waiting) THEN lastTxnID[i] ELSE @]
        /\ \/ /\ pc' = [pc EXCEPT ![i] = "send"]
              /\ UNCHANGED <<passed, inLoop, nLoads>>
           \/ EndPass(i, waiting, {})
        /\ UNCHANGED <<lmdbVars, storage, hasDataAtStart, sentVars,
                       lastByInstance, tx, receiverVars, envVars, historyVars>>
    BY <1>14, Zenon DEF Check
  <2>2. waiting \subseteq Instances
    BY Zenon DEF SeenInstances
  <2> HIDE DEF waiting
  <2>3. /\ pc' \in [Instances -> Pcs]
        /\ inLoop' \in [Instances -> BOOLEAN]
        /\ nLoads' \in [Instances -> Nat]
        /\ passed' \in [Instances -> SUBSET {"listing", "store", "pass"}]
    <3>1. CASE /\ pc' = [pc EXCEPT ![i] = "send"]
               /\ UNCHANGED <<passed, inLoop, nLoads>>
      BY <3>1, Zenon DEF TypeOK, LoopTypeOK, Pcs
    <3>2. CASE EndPass(i, waiting, {})
      <4>1. LoopTypeOK /\ {} \in SUBSET {"store"}
        BY Zenon DEF TypeOK
      <4> QED
        BY ONLY <3>2, <4>1, EndPassType, i \in Instances, Zenon
    <3> QED
      BY <2>1, <3>1, <3>2, Zenon
  <2>4. LoopTypeOK'
    BY <2>1, <2>2, <2>3, Groups, Zenon DEF TypeOK, LMDBTypeOK, LoopTypeOK
  <2> QED
    BY <2>1, <2>4, Unchanged, Groups, Zenon DEF TypeOK
<1>15. ASSUME NEW i \in Instances, SendTxn(i)
       PROVE  TypeOK' /\ ReferencesExist'
  <2> DEFINE t == [txnID |-> IF SchemaTracksChanges THEN lastTxnID[i]
                             ELSE lastTxnID[i] + 1,
                   localChanged |-> FALSE,
                   empty |-> ~SchemaTracksChanges /\ ~SendIsDirty(i),
                   db |-> DumpedDB(i)]
  <2>1. /\ db' = [db EXCEPT ![i] = DumpedDB(i)]
        /\ hasShadow' = [hasShadow EXCEPT ![i] = ~SchemaTracksChanges]
        /\ Commit(i, SendIsDirty(i))
        /\ tx' = [tx EXCEPT ![i] = t]
        /\ raced' = [raced EXCEPT ![i] = FALSE]
        /\ pc' = [pc EXCEPT ![i] = "sendinfo"]
        /\ UNCHANGED <<main, storage, syncVars, sentVars, lastByInstance,
                       receiverVars, envVars, listedAtStart>>
    BY <1>15, Zenon DEF SendTxn
  <2>2. DumpedDB(i) \in DB
    BY DumpedType, Zenon
  <2>3. SendIsDirty(i) \in BOOLEAN
    BY Zenon DEF SendIsDirty
  <2>4. t \in [txnID : Nat, localChanged : BOOLEAN, empty : BOOLEAN, db : DB]
    <3>1. lastTxnID[i] \in Nat
      BY Zenon DEF TypeOK, LMDBTypeOK
    <3>2. t.txnID \in Nat
      BY <3>1
    <3>3. t.empty \in BOOLEAN
      BY ONLY <2>3, Zenon
    <3> QED
      BY <2>2, <3>2, <3>3, Zenon
  <2> HIDE DEF t
  <2>5. LMDBTypeOK'
    <3>1. lastTxnID' \in [Instances -> Nat]
      BY <2>1 DEF TypeOK, LMDBTypeOK, Commit
    <3> QED
      BY <2>1, <2>2, <3>1, SyncerAssumption, Zenon DEF TypeOK, LMDBTypeOK
  <2>6. LoopTypeOK'
    BY <2>1, Groups, Zenon DEF TypeOK, LoopTypeOK, Pcs, syncVars
  <2>7. TxTypeOK'
    BY <2>1, <2>4, Zenon DEF TypeOK, TxTypeOK
  <2> QED
    BY <2>1, <2>5, <2>6, <2>7, Unchanged, Groups, Zenon DEF TypeOK
<1>16. ASSUME NEW i \in Instances, SendInfo(i)
       PROVE  TypeOK' /\ ReferencesExist'
  <2>1. AdjustedTxnID(i) \in Nat
    BY Zenon DEF TypeOK, LMDBTypeOK, TxTypeOK, AdjustedTxnID
  <2>2. UNCHANGED <<lmdbVars, storage, sentVars, lastByInstance, receiverVars,
                    envVars, historyVars>>
    BY <1>16, Zenon DEF SendInfo
  <2>3. LoopTypeOK'
    <3>1. CASE SendReturns(i, AdjustedTxnID(i))
      <4>1. LoopTypeOK /\ overdue' \in [Instances -> BOOLEAN] /\ raced' = raced
        BY <2>2, Groups, Zenon DEF TypeOK, LoopTypeOK
      <4> QED
        BY <2>1, <3>1, <4>1, SendReturnsType, Zenon
    <3>2. CASE pc' = [pc EXCEPT ![i] = "store"] /\ UNCHANGED syncVars
      BY <2>2, <3>2, Groups, Zenon DEF TypeOK, LoopTypeOK, Pcs, syncVars
    <3> QED
      BY <1>16, <3>1, <3>2, Zenon DEF SendInfo
  <2>4. TxTypeOK'
    <3>1. CASE tx' = [tx EXCEPT ![i] = NoTx]
      BY <3>1, InitialTypes, Zenon DEF TypeOK, TxTypeOK
    <3>2. CASE tx' = [tx EXCEPT ![i].txnID = AdjustedTxnID(i)]
      BY <2>1, <3>2, Zenon DEF TypeOK, TxTypeOK
    <3> QED
      BY <1>16, <3>1, <3>2, Zenon DEF SendInfo
  <2> QED
    BY <2>2, <2>3, <2>4, Unchanged, Groups, Zenon DEF TypeOK
<1>17. ASSUME NEW i \in Instances, Store(i)
       PROVE  TypeOK' /\ ReferencesExist'
  <2>1. tx[i].txnID \in Nat /\ tx[i].db \in DB
    BY Zenon DEF TypeOK, TxTypeOK
  <2>2. /\ storage' = [storage EXCEPT ![i] = Append(storage[i], tx[i].db)]
        /\ overdue' = [overdue EXCEPT ![i] = FALSE]
        /\ committed' = [committed EXCEPT ![i] = lastByInstance[i]]
        /\ tx' = [tx EXCEPT ![i] = NoTx]
        /\ SendReturns(i, tx[i].txnID)
        /\ UNCHANGED <<lmdbVars, lastByInstance, receiverVars, envVars,
                       historyVars>>
    BY <1>17, Zenon DEF Store
  <2>3. LoopTypeOK'
    <3>1. LoopTypeOK /\ overdue' \in [Instances -> BOOLEAN] /\ raced' = raced
      BY <2>2, Groups, Zenon DEF TypeOK, LoopTypeOK
    <3> QED
      BY ONLY <2>1, <2>2, <3>1, SendReturnsType, i \in Instances, Zenon
  <2>4. TxTypeOK'
    BY <2>2, InitialTypes, Zenon DEF TypeOK, TxTypeOK
  <2>5. ReferencesTypeOK'
    BY <2>2, Groups, Zenon DEF TypeOK, ReferencesTypeOK
  <2>6. /\ BucketTypeOK'
        /\ \A j \in Instances : Len(storage[j]) <= Len(storage'[j])
    <3>1. storage \in [Instances -> Seq(DB)]
      BY Zenon DEF TypeOK, BucketTypeOK
    <3> DEFINE s == Append(storage[i], tx[i].db)
    <3>2. storage' = [storage EXCEPT ![i] = s]
      BY <2>2, Zenon
    <3>3. s \in Seq(DB) /\ Len(storage[i]) <= Len(s)
      BY ONLY <2>1, <3>1, i \in Instances
    <3>4. \A j \in Instances : Len(storage[j]) <= Len(storage[j])
      BY ONLY <3>1
    <3> HIDE DEF s
    <3> QED
      BY ONLY <3>1, <3>2, <3>3, <3>4, i \in Instances, Zenon DEF BucketTypeOK
  <2>7. ReferencesExist'
    <3> SUFFICES ASSUME NEW q \in Instances, NEW j \in Instances
                 PROVE  /\ seen'[q][j] <= Len(storage'[j])
                        /\ ready'[q][j] <= Len(storage'[j])
                        /\ lastByInstance'[q][j] <= Len(storage'[j])
                        /\ committed'[q][j] <= Len(storage'[j])
                        /\ listedAtStart'[q][j] <= Len(storage'[j])
      BY Zenon DEF ReferencesExist
    <3>1. /\ Len(storage[j]) \in Nat /\ Len(storage'[j]) \in Nat
          /\ Len(storage[j]) <= Len(storage'[j])
      BY <2>6 DEF TypeOK, BucketTypeOK
    <3>2. /\ seen[q][j] \in Nat /\ ready[q][j] \in Nat
          /\ lastByInstance[q][j] \in Nat /\ committed[q][j] \in Nat
          /\ listedAtStart[q][j] \in Nat
      BY Zenon DEF TypeOK, ReferencesTypeOK, ByInstance
    <3>3. /\ committed'[q][j] \in {committed[q][j], lastByInstance[q][j]}
          /\ seen' = seen /\ ready' = ready
          /\ lastByInstance' = lastByInstance /\ listedAtStart' = listedAtStart
      BY <2>2, Groups, Zenon DEF TypeOK, ReferencesTypeOK
    <3>4. /\ seen[q][j] <= Len(storage[j]) /\ ready[q][j] <= Len(storage[j])
          /\ lastByInstance[q][j] <= Len(storage[j])
          /\ committed[q][j] <= Len(storage[j])
          /\ listedAtStart[q][j] <= Len(storage[j])
      BY Zenon DEF ReferencesExist
    <3>5. committed'[q][j] <= Len(storage[j]) /\ committed'[q][j] \in Nat
      BY ONLY <3>2, <3>3, <3>4, Zenon
    <3>6. \A n \in Nat : n <= Len(storage[j]) => n <= Len(storage'[j])
      BY <3>1
    <3>7. committed'[q][j] <= Len(storage'[j])
      BY ONLY <3>5, <3>6, Zenon
    <3> QED
      BY ONLY <3>2, <3>3, <3>4, <3>6, <3>7, Zenon
  <2> QED
    BY <2>2, <2>3, <2>4, <2>5, <2>6, <2>7, Unchanged, Zenon DEF TypeOK
<1> QED
  BY <1>1, <1>2, <1>3, <1>4, <1>5, <1>6, <1>7, <1>8, <1>9, <1>10, <1>11, <1>12,
     <1>13, <1>14, <1>15, <1>16, <1>17, Zenon DEF Next

\* The variables have their types in the beginning.
LEMMA InitialTypeOK ==
  ASSUME Init
  PROVE  TypeOK /\ ReferencesExist
<1>1. LMDBTypeOK /\ LoopTypeOK
  BY InitialTypes, Zenon DEF Init, LMDBTypeOK, LoopTypeOK, Pcs
<1>2. TxTypeOK /\ ReferencesTypeOK
  BY InitialTypes, Zenon DEF Init, TxTypeOK, ReferencesTypeOK
<1>3. ReferencesExist
  BY DEF Init, ReferencesExist, NoneByInstance
<1> QED
  BY <1>1, <1>2, <1>3 DEF Init, TypeOK, BucketTypeOK, EnvTypeOK

\* Every variable has its type, in both modes.
THEOREM TypeCorrect == Spec => []TypeOK
<1>1. Init => TypeOK /\ ReferencesExist
  BY InitialTypeOK, Zenon
<1>2. TypeOK /\ ReferencesExist /\ [Next]_vars => (TypeOK /\ ReferencesExist)'
  BY TypeStep, Zenon
<1> QED
  BY <1>1, <1>2, PTL DEF Spec
-------------------------------------------------------------------------------
(*****************************************************************************)
(* The order of DBIs that the inductive invariant IndInv is stated with.     *)
(*****************************************************************************)
\* A DBI covers itself.
LEMMA CoversReflexive ==
  ASSUME NEW x \in DB
  PROVE  Covers(x, x)
  BY LeqReflexive, Zenon DEF Covers, DB

\* What covers a DBI also covers what that DBI covers.
LEMMA CoversTransitive ==
  ASSUME NEW x \in DB, NEW y \in DB, NEW z \in DB, Covers(x, y), Covers(y, z)
  PROVE  Covers(x, z)
<1> SUFFICES ASSUME NEW k \in Keys PROVE Leq(z[k], x[k])
  BY Zenon DEF Covers
<1>1. Leq(z[k], y[k]) /\ Leq(y[k], x[k])
  BY Zenon DEF Covers
<1> QED
  BY <1>1, LeqTransitive, Zenon DEF DB

\* A merged snapshot neither loses what the DBI held nor what it brings.
LEMMA UpdateCovers ==
  ASSUME NEW old \in DB, NEW snap \in DB
  PROVE  Covers(Update(old, snap), old) /\ Covers(Update(old, snap), snap)
<1> SUFFICES ASSUME NEW k \in Keys
             PROVE  /\ Leq(old[k], Update(old, snap)[k])
                    /\ Leq(snap[k], Update(old, snap)[k])
  BY Zenon DEF Covers
<1>1. old[k] \in Entry \cup {Absent} /\ snap[k] \in Entry \cup {Absent}
  BY Zenon DEF DB
<1>2. CASE snap[k] = Absent
  <2>1. Update(old, snap)[k] = old[k]
    BY <1>2, Zenon DEF Update
  <2> QED
    BY <1>1, <1>2, <2>1, LeqReflexive, Zenon DEF Leq
<1>3. CASE snap[k] # Absent
  <2>1. Update(old, snap)[k]
          = Merge(old[k], snap[k], 0, 0, CurrentFormatVersion)
    BY <1>3, Zenon DEF Update
  <2> QED
    BY <1>1, <1>3, <2>1, MergeUpperBound, Zenon DEF CurrentFormatVersion
<1> QED
  BY <1>2, <1>3, Zenon

\* A native application's write does not lose what the DBI held.
LEMMA NativeWriteCovers ==
  ASSUME TypeOK, ReferencesExist, NEW i \in Instances, NEW k \in Keys,
         NEW kind \in {"live", "deleted"}, NEW v \in Values,
         NativeWrite(i, k, kind, v)
  PROVE  \A q \in Instances : Covers(db'[q], db[q])
<1> DEFINE e == [kind |-> kind, ts |-> Now(i)', val |-> v]
<1>1. AppCommit(i) /\ Now(i)' > db[i][k].ts /\ db' = [db EXCEPT ![i][k] = e]
  BY Zenon DEF NativeWrite
<1>2. Now(i)' \in Nat
  <2>1. clock' \in Nat
    BY <1>1, AppCommitType, Zenon DEF EnvTypeOK
  <2> QED
    BY <2>1, SyncerAssumption DEF Now
<1>3. e \in Entry /\ e.ts = Now(i)'
  BY <1>2, Zenon DEF Entry
<1>4. db[i][k] \in Entry \cup {Absent} /\ db[i][k].ts \in Nat
  BY EntryFields DEF TypeOK, LMDBTypeOK, DB, Absent
<1>5. Leq(db[i][k], e)
  BY <1>1, <1>2, <1>3, <1>4, AbsentIsNoEntry, Zenon DEF Leq
<1> HIDE DEF e
<1> SUFFICES ASSUME NEW q \in Instances, NEW l \in Keys
             PROVE  Leq(db[q][l], db'[q][l])
  BY Zenon DEF Covers
<1>6. CASE q = i /\ l = k
  BY <1>1, <1>5, <1>6, Zenon DEF TypeOK, LMDBTypeOK, DB
<1>7. CASE ~(q = i /\ l = k)
  <2>1. db'[q][l] = db[q][l]
    BY <1>1, <1>7, Zenon DEF TypeOK, LMDBTypeOK, DB
  <2>2. db[q][l] \in Entry \cup {Absent}
    BY Zenon DEF TypeOK, LMDBTypeOK, DB
  <2> QED
    BY <2>1, <2>2, LeqReflexive, Zenon
<1> QED
  BY <1>6, <1>7, Zenon

\* The DBIs that the invariant compares.
LEMMA DBTypes ==
  ASSUME TypeOK, NEW i \in Instances
  PROVE  /\ db[i] \in DB /\ tx[i].db \in DB
         /\ Len(storage[i]) \in Nat
         /\ \A n \in 1..Len(storage[i]) : storage[i][n] \in DB
<1>1. db[i] \in DB
  BY Zenon DEF TypeOK, LMDBTypeOK
<1>2. tx[i].db \in DB
  BY Zenon DEF TypeOK, TxTypeOK
<1>3. storage[i] \in Seq(DB)
  BY Zenon DEF TypeOK, BucketTypeOK
<1> QED
  BY <1>1, <1>2, <1>3

\* References are natural numbers that are 0 or the number of a snapshot.
LEMMA References ==
  ASSUME TypeOK, ReferencesExist, NEW i \in Instances, NEW j \in Instances
  PROVE  /\ seen[i][j] \in 0..Len(storage[j])
         /\ ready[i][j] \in 0..Len(storage[j])
         /\ lastByInstance[i][j] \in 0..Len(storage[j])
         /\ committed[i][j] \in 0..Len(storage[j])
         /\ listedAtStart[i][j] \in 0..Len(storage[j])
<1>1. /\ seen[i][j] \in Nat /\ ready[i][j] \in Nat
      /\ lastByInstance[i][j] \in Nat /\ committed[i][j] \in Nat
      /\ listedAtStart[i][j] \in Nat
  BY Zenon DEF TypeOK, ReferencesTypeOK, ByInstance
<1> QED
  BY <1>1, DBTypes DEF ReferencesExist
-------------------------------------------------------------------------------
(*****************************************************************************)
(* Both modes: what every DBI, every snapshot and every main DBI holds.      *)
(*****************************************************************************)
\* Every step writes to an LMDB or the bucket in one of these ways, or leaves
\* them alone and at most forgets a snapshot being sent.
LEMMA StepGroups ==
  ASSUME TypeOK, [Next]_vars
  PROVE  \/ \E i \in Instances : \E k \in Keys :
              AppDelete(i, k) \/ \E v \in AppValues : AppPut(i, k, v)
         \/ \E i \in Instances : ShadowInit(i)
         \/ \E i, j \in Instances : LoadTxn(i, j)
         \/ \E i \in Instances : SendTxn(i)
         \/ \E i \in Instances : Store(i)
         \/ \E i \in Instances : LoseLMDB(i)
         \/ /\ UNCHANGED <<db, main, storage, clock>>
            /\ \A q \in Instances : tx'[q].db \in {tx[q].db, EmptyDB}
<1> DEFINE Quiet == /\ UNCHANGED <<db, main, storage, clock>>
                    /\ \A q \in Instances : tx'[q].db \in {tx[q].db, EmptyDB}
<1> USE DEF lmdbVars, envVars
<1>1. tx \in [Instances -> [txnID : Nat, localChanged : BOOLEAN, empty : BOOLEAN,
                            db : DB]]
  BY Zenon DEF TypeOK, TxTypeOK
<1>2. NoTx.db = EmptyDB
  BY Zenon DEF NoTx
<1>3. ASSUME UNCHANGED <<db, main, storage, clock, tx>> PROVE Quiet
  BY <1>3, Zenon
<1>4. ASSUME NEW i \in Instances, UNCHANGED <<db, main, storage, clock>>,
             tx' = [tx EXCEPT ![i] = NoTx]
      PROVE  Quiet
  <2>1. \A q \in Instances : tx'[q] = IF q = i THEN NoTx ELSE tx[q]
    BY <1>1, <1>4, Zenon
  <2> QED
    BY <1>2, <1>4, <2>1, Zenon
<1>5. CASE UNCHANGED vars
  BY <1>3, <1>5, Zenon DEF vars
<1>6. ASSUME NEW i \in Instances, Crash(i) \/ LoadInfo(i) PROVE Quiet
  BY <1>4, <1>6, Zenon DEF Crash, LoadInfo
<1>7. ASSUME NEW i \in Instances,
             \/ Start(i) \/ InitialListing(i) \/ List(i) \/ TimerExpires(i)
             \/ \E j \in Instances : Download(i, j)
      PROVE  Quiet
  BY <1>3, <1>7, Zenon DEF Start, InitialListing, List, TimerExpires, Download
<1>8. ASSUME NEW i \in Instances, Check(i) PROVE Quiet
  BY <1>3, <1>8, ZenonT(30) DEF Check
<1>9. ASSUME NEW i \in Instances, SendInfo(i) PROVE Quiet
  <2>1. /\ UNCHANGED <<db, main, storage, clock>>
        /\ \/ tx' = [tx EXCEPT ![i] = NoTx]
           \/ tx' = [tx EXCEPT ![i].txnID = AdjustedTxnID(i)]
    BY <1>9, Zenon DEF SendInfo
  <2>2. CASE tx' = [tx EXCEPT ![i].txnID = AdjustedTxnID(i)]
    <3>1. \A q \in Instances : tx'[q].db = tx[q].db
      BY <1>1, <2>2, Zenon
    <3> QED
      BY <2>1, <3>1, Zenon
  <2> QED
    BY <1>4, <2>1, <2>2, Zenon
<1> HIDE DEF Quiet
<1> QED
  <2> USE DEF Quiet
  <2> QED
    BY <1>5, <1>6, <1>7, <1>8, <1>9, Zenon DEF Next

\* A new snapshot in the bucket leaves the earlier ones where they are.
LEMMA StoreEffect ==
  ASSUME TypeOK, NEW i \in Instances, Store(i)
  PROVE  /\ Len(storage'[i]) = Len(storage[i]) + 1
         /\ storage'[i][Len(storage[i]) + 1] = tx[i].db
         /\ \A n \in 1..Len(storage[i]) : storage'[i][n] = storage[i][n]
         /\ \A q \in Instances \ {i} : storage'[q] = storage[q]
<1>1. storage'[i] = Append(storage[i], tx[i].db)
  BY ZenonT(30) DEF Store, TypeOK, BucketTypeOK
<1>2. storage[i] \in Seq(DB) /\ tx[i].db \in DB
  BY Zenon DEF TypeOK, TxTypeOK, BucketTypeOK
<1>3. \A q \in Instances \ {i} : storage'[q] = storage[q]
  BY Zenon DEF Store, TypeOK, BucketTypeOK
<1> QED
  BY <1>1, <1>2, <1>3

\* What a write of the application does, in native mode.
LEMMA NativeWriteEffect ==
  ASSUME TypeOK, NEW i \in Instances, NEW k \in Keys,
         NEW kind \in {"live", "deleted"}, NEW v \in Values,
         NativeWrite(i, k, kind, v)
  PROVE  /\ db' = [db EXCEPT ![i][k] = db'[i][k]]
         /\ db'[i][k] = [kind |-> kind, ts |-> Now(i)', val |-> v]
         /\ ~Leq(db'[i][k], db[i][k])
         /\ clock' = clock + 1
         /\ UNCHANGED <<storage, tx>>
<1> DEFINE e == [kind |-> kind, ts |-> Now(i)', val |-> v]
<1>1. /\ AppCommit(i) /\ Now(i)' > db[i][k].ts
      /\ db' = [db EXCEPT ![i][k] = e]
  BY Zenon DEF NativeWrite
<1>2. clock' = clock + 1 /\ UNCHANGED <<storage, tx>>
  BY <1>1, Zenon DEF AppCommit
<1>3. db \in [Instances -> [Keys -> Entry \cup {Absent}]]
  BY Zenon DEF TypeOK, LMDBTypeOK, DB
<1>4. db'[i][k] = e
  BY <1>1, <1>3, Zenon
<1>5. db[i][k].ts \in Nat
  <2>1. db[i][k] \in Entry \cup {Absent}
    BY <1>3, Zenon
  <2> QED
    BY <2>1, EntryFields DEF Absent
<1>6. Now(i)' \in Nat
  <2>1. clock \in Nat
    BY Zenon DEF TypeOK, EnvTypeOK
  <2> QED
    BY <1>2, <2>1, SyncerAssumption DEF Now
<1>7. e # Absent /\ e.ts = Now(i)'
  BY Zenon DEF Absent
<1>8. ~Leq(e, db[i][k])
  <2> HIDE DEF e
  <2> QED
    BY <1>1, <1>5, <1>6, <1>7 DEF Leq
<1> QED
  BY <1>1, <1>2, <1>4, <1>8, Zenon

\* A live entry has a value.
Full(e) == e.kind = "live" => e.val # Empty

\* The clocks of the instances agree.
SameClocks == \A p, q \in Instances : Skew[p] = Skew[q]

\* The value of a deleted entry is empty.  If the application writes no empty
\* value, a live entry has a value.  If the clocks agree, no timestamp is ahead
\* of any of them.
GoodEntry(e) ==
  /\ WellFormed(e)
  /\ Empty \notin AppValues => Full(e)
  /\ SameClocks => \A p \in Instances : e.ts <= Now(p)

GoodDB(d) == \A k \in Keys : GoodEntry(d[k])

\* What every DBI with headers holds, every snapshot and every main DBI.
AllGood ==
  /\ 2 <= clock
  /\ \A i \in Instances : GoodDB(db[i]) /\ GoodDB(tx[i].db)
  /\ \A i \in Instances : \A n \in 1..Len(storage[i]) : GoodDB(storage[i][n])
  /\ \A i \in Instances : \A k \in Keys :
       Empty \notin AppValues => main[i][k] # Empty

\* Clocks are natural numbers, and go on only when the application commits.
LEMMA Clocks ==
  ASSUME TypeOK, NEW i \in Instances
  PROVE  /\ Now(i) \in Nat
         /\ clock' = clock => Now(i)' = Now(i)
         /\ clock' = clock + 1 => Now(i)' = Now(i) + 1
<1>1. clock \in Nat /\ Skew[i] \in Nat
  BY SyncerAssumption, Zenon DEF TypeOK, EnvTypeOK
<1> QED
  BY <1>1 DEF Now

\* A timestamp that is no later than the clocks stays so.
LEMMA ClocksGo ==
  ASSUME TypeOK, NEW ts \in Nat, NEW p \in Instances, ts <= Now(p),
         clock' = clock \/ clock' = clock + 1
  PROVE  ts <= Now(p)'
<1>1. Now(p) \in Nat /\ (Now(p)' = Now(p) \/ Now(p)' = Now(p) + 1)
  BY Clocks, Zenon
<1> QED
  BY ONLY <1>1, ts \in Nat, ts <= Now(p)

\* Good entries stay good while time passes.
LEMMA GoodStays ==
  ASSUME TypeOK, NEW d \in DB, GoodDB(d), clock' = clock \/ clock' = clock + 1
  PROVE  GoodDB(d)'
<1> SUFFICES ASSUME NEW k \in Keys PROVE GoodEntry(d[k])'
  BY Zenon DEF GoodDB
<1>1. GoodEntry(d[k]) /\ d[k] \in Entry \cup {Absent}
  BY Zenon DEF GoodDB, DB
<1>2. d[k].ts \in Nat
  BY <1>1, EntryFields DEF Absent
<1>3. ASSUME SameClocks, NEW p \in Instances PROVE d[k].ts <= Now(p)'
  <2>1. d[k].ts <= Now(p)
    BY <1>1, <1>3, Zenon DEF GoodEntry
  <2> QED
    BY <1>2, <2>1, ClocksGo, Zenon
<1> QED
  BY <1>1, <1>3, Zenon DEF GoodEntry

\* A key that is not there.
LEMMA GoodAbsent ==
  ASSUME TypeOK
  PROVE  GoodEntry(Absent) /\ GoodDB(EmptyDB)
<1>1. WellFormed(Absent) /\ Full(Absent)
  BY Zenon DEF WellFormed, Full, Absent
<1>2. \A p \in Instances : Absent.ts <= Now(p)
  BY Clocks, NatOrder, Zenon DEF Absent
<1> QED
  BY <1>1, <1>2, Zenon DEF GoodEntry, GoodDB, EmptyDB

\* What addHeader makes for a value of the application, or for a deletion.
LEMMA GoodAdded ==
  ASSUME TypeOK, NEW v \in Values, NEW ts \in Nat, NEW deleted \in BOOLEAN,
         NEW defaultTS \in Nat,
         Empty \notin AppValues => deleted \/ v # Empty,
         SameClocks => \A p \in Instances : (IF ts = 0 THEN defaultTS ELSE ts) <= Now(p)
  PROVE  GoodEntry(addHeader(v, ts, deleted, defaultTS, CurrentFormatVersion))
<1> DEFINE e == addHeader(v, ts, deleted, defaultTS, CurrentFormatVersion)
<1>1. /\ e.ts = IF ts = 0 THEN defaultTS ELSE ts
      /\ e.kind = IF deleted THEN "deleted" ELSE "live"
      /\ e.val = IF deleted THEN Empty ELSE v
  BY DEF addHeader, CurrentFormatVersion
<1> HIDE DEF e
<1>2. WellFormed(e) /\ (Empty \notin AppValues => Full(e))
  BY <1>1, Zenon DEF WellFormed, Full
<1>3. SameClocks => \A p \in Instances : e.ts <= Now(p)
  BY <1>1, Zenon
<1> QED
  BY <1>2, <1>3, Zenon DEF GoodEntry, e

\* Merge keeps the old entry or adds the new one.
LEMMA GoodMerge ==
  ASSUME TypeOK, NEW old \in Entry \cup {Absent}, NEW new \in Entry, NEW ts \in Nat,
         GoodEntry(old), Empty \notin AppValues => Full(new),
         SameClocks => \A p \in Instances : EffectiveTS(new, ts) <= Now(p)
  PROVE  GoodEntry(Merge(old, new, ts, 0, CurrentFormatVersion))
<1>1. PICK eff : eff = EffectiveTS(new, ts)
  BY Zenon
<1>2. /\ eff \in Nat /\ new.val \in Values /\ (new.kind = "deleted") \in BOOLEAN
      /\ new.kind \in {"live", "deleted"} /\ new.ts \in Nat
  BY <1>1 DEF EffectiveTS, Entry
<1>3. (IF eff = 0 THEN ts ELSE eff) = eff
  BY <1>1, Zenon DEF EffectiveTS
<1>4. Empty \notin AppValues => new.kind = "deleted" \/ new.val # Empty
  BY <1>2, Zenon DEF Full
<1>5. SameClocks => \A p \in Instances : (IF eff = 0 THEN ts ELSE eff) <= Now(p)
  BY <1>1, <1>3, Zenon
<1>6. PICK del \in BOOLEAN : del = (new.kind = "deleted")
  BY <1>2, Zenon
<1>7. GoodEntry(addHeader(new.val, eff, del, ts, CurrentFormatVersion))
  BY <1>2, <1>4, <1>5, <1>6, GoodAdded, Zenon
<1>8. ~StaleDeletion(new, 0)
  BY <1>2 DEF StaleDeletion
<1>9. Merge(old, new, ts, 0, CurrentFormatVersion)
        \in {old, addHeader(new.val, eff, del, ts, CurrentFormatVersion)}
  BY <1>1, <1>6, <1>8, Zenon DEF Merge
<1> QED
  BY <1>7, <1>9, Zenon

\* strategy.Update makes a good DBI from good ones.
LEMMA GoodUpdate ==
  ASSUME TypeOK, NEW old \in DB, NEW snap \in DB, GoodDB(old), GoodDB(snap)
  PROVE  GoodDB(Update(old, snap))
<1> SUFFICES ASSUME NEW k \in Keys PROVE GoodEntry(Update(old, snap)[k])
  BY Zenon DEF GoodDB
<1>1. PICK x, y : x = old[k] /\ y = snap[k]
  BY Zenon
<1>2. /\ x \in Entry \cup {Absent} /\ y \in Entry \cup {Absent}
      /\ GoodEntry(x) /\ GoodEntry(y)
  BY <1>1, Zenon DEF DB, GoodDB
<1>3. Update(old, snap)[k] =
        IF y = Absent THEN x ELSE Merge(x, y, 0, 0, CurrentFormatVersion)
  BY <1>1, Zenon DEF Update
<1>4. CASE y = Absent
  BY <1>2, <1>3, <1>4, Zenon
<1>5. CASE y # Absent
  <2>1. EffectiveTS(y, 0) = y.ts /\ 0 \in Nat /\ y \in Entry
    BY <1>2, <1>5, Zenon DEF EffectiveTS
  <2>2. GoodEntry(Merge(x, y, 0, 0, CurrentFormatVersion))
    BY <1>2, <2>1, GoodMerge, Zenon DEF GoodEntry
  <2> QED
    BY <1>3, <1>5, <2>2, Zenon
<1> QED
  BY <1>4, <1>5, Zenon

\* mainToShadow makes a good DBI, with a timestamp that is not ahead.
LEMMA GoodShadow ==
  ASSUME TypeOK, NEW plain \in [Keys -> Values \cup {NoValue}], NEW shadow \in DB,
         NEW ts \in Nat, GoodDB(shadow),
         \A k \in Keys : Empty \notin AppValues => plain[k] # Empty,
         SameClocks => \A p \in Instances : ts <= Now(p)
  PROVE  GoodDB(mainToShadow(plain, shadow, ts))
<1> SUFFICES ASSUME NEW k \in Keys PROVE GoodEntry(mainToShadow(plain, shadow, ts)[k])
  BY Zenon DEF GoodDB
<1>1. PICK x, v : x = shadow[k] /\ v = plain[k]
  BY Zenon
<1>2. /\ x \in Entry \cup {Absent} /\ GoodEntry(x) /\ v \in Values \cup {NoValue}
      /\ Empty \notin AppValues => v # Empty
  BY <1>1, Zenon DEF DB, GoodDB
<1>3. CASE v # NoValue
  <2>1. PICK new : new = [kind |-> "live", ts |-> 0, val |-> v]
    BY Zenon
  <2>2. /\ new \in Entry /\ EffectiveTS(new, ts) = ts
        /\ Empty \notin AppValues => Full(new)
    BY <1>2, <1>3, <2>1, Zenon DEF Entry, Full, EffectiveTS
  <2>3. mainToShadow(plain, shadow, ts)[k] = Merge(x, new, ts, 0, CurrentFormatVersion)
    BY <1>1, <1>3, <2>1, Zenon DEF mainToShadow
  <2>4. GoodEntry(Merge(x, new, ts, 0, CurrentFormatVersion))
    BY <1>2, <2>2, GoodMerge, Zenon
  <2> QED
    BY <2>3, <2>4, Zenon
<1>4. CASE v = NoValue
  <2>1. mainToShadow(plain, shadow, ts)[k] =
          IF x = Absent THEN Absent ELSE Clean(x, ts, CurrentFormatVersion)
    BY <1>1, <1>4, Zenon DEF mainToShadow
  <2>2. 0 \in Nat /\ TRUE \in BOOLEAN /\ Empty \in Values /\ (IF 0 = 0 THEN ts ELSE 0) = ts
    BY ValuesAssumption DEF Empty
  <2>3. GoodEntry(addHeader(Empty, 0, TRUE, ts, CurrentFormatVersion))
    BY <2>2, GoodAdded, Zenon
  <2> QED
    BY <1>2, <2>1, <2>3, GoodAbsent, Zenon DEF Clean
<1> QED
  BY <1>3, <1>4, Zenon

\* A step that writes to the DBIs of one instance only.
LEMMA OneGood ==
  ASSUME TypeOK, AllGood, NEW i \in Instances, NEW d, NEW m, NEW t,
         db' = [db EXCEPT ![i] = d], main' = [main EXCEPT ![i] = m],
         \A q \in Instances \ {i} : tx'[q] = tx[q], tx'[i].db = t,
         UNCHANGED <<storage, clock>>,
         GoodDB(d), GoodDB(t), \A k \in Keys : Empty \notin AppValues => m[k] # Empty
  PROVE  AllGood'
<1>1. /\ db'[i] = d /\ main'[i] = m
      /\ \A q \in Instances \ {i} : db'[q] = db[q] /\ main'[q] = main[q]
  BY Zenon DEF TypeOK, LMDBTypeOK
<1>2. /\ \A q \in Instances : GoodDB(db'[q]) /\ GoodDB(tx'[q].db)
      /\ \A q \in Instances : \A n \in 1..Len(storage'[q]) : GoodDB(storage'[q][n])
      /\ \A q \in Instances : \A k \in Keys :
           Empty \notin AppValues => main'[q][k] # Empty
  <2>1. ASSUME NEW q \in Instances PROVE GoodDB(db'[q]) /\ GoodDB(tx'[q].db)
    <3>1. CASE q = i
      BY <1>1, <3>1, Zenon
    <3>2. CASE q # i
      <4>1. db'[q] = db[q] /\ tx'[q] = tx[q]
        BY <1>1, <3>2, Zenon
      <4> QED
        BY <4>1, Zenon DEF AllGood
    <3> QED
      BY <3>1, <3>2, Zenon
  <2>2. ASSUME NEW q \in Instances, NEW k \in Keys, Empty \notin AppValues
        PROVE  main'[q][k] # Empty
    <3>1. m[k] # Empty /\ main[q][k] # Empty
      BY <2>2, Zenon DEF AllGood
    <3>2. main'[q] = m \/ main'[q] = main[q]
      BY <1>1, Zenon
    <3> QED
      BY ONLY <3>1, <3>2, Zenon
  <2> QED
    BY <2>1, <2>2, Zenon DEF AllGood
<1>3. ASSUME NEW x, GoodDB(x) PROVE GoodDB(x)'
  BY <1>3, Zenon DEF GoodDB, GoodEntry, Now
<1>4. 2 <= clock'
  BY Zenon DEF AllGood
<1>5. ASSUME NEW q \in Instances PROVE (GoodDB(db[q]) /\ GoodDB(tx[q].db))'
  <2>1. PICK x, y : x = db'[q] /\ y = tx'[q].db
    BY Zenon
  <2>2. GoodDB(x)' /\ GoodDB(y)'
    BY <1>2, <1>3, <2>1, Zenon
  <2> QED
    BY <2>1, <2>2, Zenon DEF GoodDB
<1>6. ASSUME NEW q \in Instances, NEW n \in 1..Len(storage'[q])
      PROVE  GoodDB(storage[q][n])'
  <2>1. PICK x : x = storage'[q][n]
    BY Zenon
  <2>2. GoodDB(x)'
    BY <1>2, <1>3, <2>1, Zenon
  <2> QED
    BY <2>1, <2>2, Zenon DEF GoodDB
<1> QED
  BY <1>2, <1>4, <1>5, <1>6, Zenon DEF AllGood

\* The application writes a good entry, or a plain value.
LEMMA AppGood ==
  ASSUME TypeOK, AllGood, NEW i \in Instances, NEW k \in Keys,
         AppDelete(i, k) \/ \E v \in AppValues : AppPut(i, k, v)
  PROVE  AllGood'
<1>1. UNCHANGED <<storage, tx>> /\ clock' = clock + 1
  BY Zenon DEF AppDelete, AppPut, NativeWrite, AppCommit
<1>2. PICK e, w : /\ UNCHANGED db \/ db' = [db EXCEPT ![i][k] = e]
                  /\ UNCHANGED main \/ main' = [main EXCEPT ![i][k] = w]
                  /\ WellFormed(e) /\ (Empty \notin AppValues => Full(e))
                  /\ Empty \notin AppValues => w # Empty
                  /\ e.ts = Now(i)'
  <2>1. NoValue # Empty
    BY DEF NoValue, Empty
  <2>2. CASE AppDelete(i, k)
    <3>1. PICK e : e = [kind |-> "deleted", ts |-> Now(i)', val |-> Empty]
      BY Zenon
    <3>2. WellFormed(e) /\ Full(e) /\ e.ts = Now(i)'
      BY <3>1, Zenon DEF WellFormed, Full
    <3>3. \/ db' = [db EXCEPT ![i][k] = e] /\ UNCHANGED main
          \/ UNCHANGED db /\ main' = [main EXCEPT ![i][k] = NoValue]
      BY <2>2, <3>1, Zenon DEF AppDelete, NativeWrite
    <3>4. /\ UNCHANGED db \/ db' = [db EXCEPT ![i][k] = e]
          /\ UNCHANGED main \/ main' = [main EXCEPT ![i][k] = NoValue]
      BY ONLY <3>3, Zenon
    <3> QED
      BY ONLY <2>1, <3>2, <3>4, Zenon
  <2>3. ASSUME NEW v \in AppValues, AppPut(i, k, v)
        PROVE  \E e, w : /\ UNCHANGED db \/ db' = [db EXCEPT ![i][k] = e]
                         /\ UNCHANGED main \/ main' = [main EXCEPT ![i][k] = w]
                         /\ WellFormed(e) /\ (Empty \notin AppValues => Full(e))
                         /\ Empty \notin AppValues => w # Empty
                         /\ e.ts = Now(i)'
    <3>1. PICK e : e = [kind |-> "live", ts |-> Now(i)', val |-> v]
      BY Zenon
    <3>2. /\ WellFormed(e) /\ (Empty \notin AppValues => Full(e)) /\ e.ts = Now(i)'
          /\ Empty \notin AppValues => v # Empty
      BY <2>3, <3>1, Zenon DEF WellFormed, Full
    <3>3. \/ db' = [db EXCEPT ![i][k] = e] /\ UNCHANGED main
          \/ UNCHANGED db /\ main' = [main EXCEPT ![i][k] = v]
      BY <2>3, <3>1, Zenon DEF AppPut, NativeWrite
    <3>4. /\ UNCHANGED db \/ db' = [db EXCEPT ![i][k] = e]
          /\ UNCHANGED main \/ main' = [main EXCEPT ![i][k] = v]
      BY ONLY <3>3, Zenon
    <3> QED
      BY ONLY <3>2, <3>4, Zenon
  <2> QED
    BY <2>2, <2>3, Zenon
<1>5. GoodEntry(e)'
  <2>1. WellFormed(e) /\ (Empty \notin AppValues => Full(e))
    BY <1>2, Zenon
  <2>2. ASSUME SameClocks, NEW p \in Instances PROVE e.ts <= Now(p)'
    <3>1. Skew[i] = Skew[p]
      BY <2>2, Zenon DEF SameClocks
    <3>2. Now(p)' = Now(i)' /\ Now(i)' \in Nat
      <4>1. Now(i)' \in Nat
        BY <1>1, Clocks, NatNext, Zenon
      <4> QED
        BY <3>1, <4>1, Zenon DEF Now
    <3> QED
      BY <1>2, <3>2, NatOrder, Zenon
  <2> QED
    BY <2>1, <2>2, Zenon DEF GoodEntry
<1>6. /\ db \in [Instances -> [Keys -> Entry \cup {Absent}]]
      /\ main \in [Instances -> [Keys -> Values \cup {NoValue}]]
  BY Zenon DEF TypeOK, LMDBTypeOK, DB
<1>7. \A q \in Instances : \A l \in Keys :
        /\ db'[q][l] \in {db[q][l], e} /\ main'[q][l] \in {main[q][l], w}
  BY <1>2, <1>6
<1>8. ASSUME NEW d \in DB, GoodDB(d) PROVE GoodDB(d)'
  BY <1>1, <1>8, GoodStays, Zenon
<1>9. ASSUME NEW q \in Instances PROVE GoodDB(db[q])'
  <2> SUFFICES ASSUME NEW l \in Keys PROVE GoodEntry(db[q][l])'
    BY Zenon DEF GoodDB
  <2>1. PICK d : d = db[q]
    BY Zenon
  <2>2. GoodDB(d)'
    BY <1>8, <2>1, DBTypes, Zenon DEF AllGood
  <2>3. PICK x : x = d[l]
    BY Zenon
  <2>4. GoodEntry(x)'
    BY <2>2, <2>3, Zenon DEF GoodDB
  <2>5. db'[q][l] = x \/ db'[q][l] = e
    BY <1>7, <2>1, <2>3, Zenon
  <2> QED
    BY <1>5, <2>4, <2>5, Zenon DEF GoodEntry
<1>10. ASSUME NEW q \in Instances PROVE GoodDB(tx[q].db)'
  <2>1. PICK d : d = tx[q].db
    BY Zenon
  <2>2. GoodDB(d)'
    BY <1>8, <2>1, DBTypes, Zenon DEF AllGood
  <2> QED
    BY <1>1, <2>1, <2>2, Zenon DEF GoodDB
<1>11. ASSUME NEW q \in Instances, NEW n \in 1..Len(storage'[q])
       PROVE  GoodDB(storage[q][n])'
  <2>1. PICK d : d = storage[q][n]
    BY Zenon
  <2>2. GoodDB(d)'
    BY <1>1, <1>8, <2>1, DBTypes, Zenon DEF AllGood
  <2> QED
    BY <1>1, <2>1, <2>2, Zenon DEF GoodDB
<1>12. \A q \in Instances : \A l \in Keys : Empty \notin AppValues => main'[q][l] # Empty
  BY <1>2, <1>7, Zenon DEF AllGood
<1>13. 2 <= clock'
  <2>1. clock \in Nat /\ 2 <= clock
    BY Zenon DEF TypeOK, EnvTypeOK, AllGood
  <2> QED
    BY ONLY <1>1, <2>1
<1> QED
  BY <1>9, <1>10, <1>11, <1>12, <1>13, Zenon DEF AllGood

\* With agreeing clocks, time.Now() of one instance is not ahead of another one.
LEMMA NowIsNotAhead ==
  ASSUME TypeOK, NEW i \in Instances
  PROVE  SameClocks => \A p \in Instances : Now(i) <= Now(p)
<1> SUFFICES ASSUME SameClocks, NEW p \in Instances PROVE Now(i) <= Now(p)
  BY Zenon
<1>1. Now(i) \in Nat /\ Now(p) = Now(i)
  BY Clocks, Zenon DEF SameClocks, Now
<1> QED
  BY <1>1, NatOrder, Zenon

\* Every step keeps the entries good.
LEMMA GoodStep ==
  ASSUME TypeOK, ReferencesExist, AllGood, [Next]_vars
  PROVE  AllGood'
<1> USE DEF lmdbVars, envVars
<1>1. /\ db \in [Instances -> DB] /\ clock \in Nat
      /\ main \in [Instances -> [Keys -> Values \cup {NoValue}]]
      /\ tx \in [Instances -> [txnID : Nat, localChanged : BOOLEAN,
                               empty : BOOLEAN, db : DB]]
  BY Zenon DEF TypeOK, LMDBTypeOK, TxTypeOK, EnvTypeOK
<1>2. /\ 2 <= clock
      /\ \A q \in Instances : GoodDB(db[q]) /\ GoodDB(tx[q].db)
      /\ \A q \in Instances : \A n \in 1..Len(storage[q]) : GoodDB(storage[q][n])
      /\ \A q \in Instances : \A k \in Keys :
           Empty \notin AppValues => main[q][k] # Empty
  BY Zenon DEF AllGood
<1>3. GoodDB(EmptyDB) /\ NoTx.db = EmptyDB
  BY GoodAbsent, Zenon DEF NoTx
<1>4. ASSUME NEW i \in Instances, NEW ts \in Nat,
             SameClocks => \A p \in Instances : ts <= Now(p)
      PROVE  /\ GoodDB(mainToShadow(main[i], db[i], ts))
             /\ mainToShadow(main[i], db[i], ts) \in DB
  BY <1>1, <1>2, <1>4, GoodShadow, MainToShadowType, Zenon
<1>5. ASSUME NEW i \in Instances
      PROVE  /\ GoodDB(mainToShadow(main[i], db[i], Now(i)))
             /\ mainToShadow(main[i], db[i], Now(i)) \in DB
  BY <1>4, <1>5, Clocks, NowIsNotAhead, Zenon
<1>6. ASSUME NEW i \in Instances, NEW d, NEW m, NEW t,
             db' = [db EXCEPT ![i] = d], main' = [main EXCEPT ![i] = m],
             \A q \in Instances \ {i} : tx'[q] = tx[q], tx'[i].db = t,
             UNCHANGED <<storage, clock>>, GoodDB(d), GoodDB(t),
             \A k \in Keys : Empty \notin AppValues => m[k] # Empty
      PROVE  AllGood'
  BY <1>6, OneGood, Zenon
<1>7. ASSUME NEW i \in Instances, ShadowInit(i)
      PROVE  AllGood'
  <2>1. PICK d : d = mainToShadow(main[i], db[i], 1)
    BY Zenon
  <2>2. GoodDB(d)
    <3>1. \A p \in Instances : 1 <= Now(p)
      BY <1>1, <1>2, SyncerAssumption DEF Now
    <3>2. 1 \in Nat
      OBVIOUS
    <3> QED
      BY <1>4, <2>1, <3>1, <3>2, Zenon
  <2>3. PICK t, m : t = tx[i].db /\ m = main[i]
    BY Zenon
  <2>4. /\ db' = [db EXCEPT ![i] = d] /\ main' = [main EXCEPT ![i] = m]
        /\ UNCHANGED <<storage, clock, tx>>
    BY <1>1, <1>7, <2>1, <2>3, Zenon DEF ShadowInit
  <2>5. GoodDB(t) /\ \A k \in Keys : Empty \notin AppValues => m[k] # Empty
    BY <1>2, <2>3, Zenon
  <2> QED
    BY <1>6, <2>2, <2>3, <2>4, <2>5, Zenon
<1>8. ASSUME NEW i \in Instances, NEW j \in Instances, LoadTxn(i, j)
      PROVE  AllGood'
  <2>1. PICK snap : snap = storage[j][ready[i][j]]
    BY Zenon
  <2>2. snap \in DB /\ GoodDB(snap)
    BY <1>2, <1>8, <2>1, ReadyIsSnapshot, Zenon DEF LoadTxn
  <2>3. PICK old : old = IF ~SchemaTracksChanges /\ localChanged(i)
                         THEN mainToShadow(main[i], db[i], Now(i)) ELSE db[i]
    BY Zenon
  <2>4. GoodDB(old) /\ old \in DB
    BY <1>1, <1>2, <1>5, <2>3, Zenon
  <2>5. PICK d, m : d = LoadedDB(i, snap) /\ m = LoadedMain(i, snap)
    BY Zenon
  <2>6. GoodDB(d)
    BY <2>2, <2>3, <2>4, <2>5, GoodUpdate, Zenon DEF LoadedDB
  <2>7. \A k \in Keys : Empty \notin AppValues => m[k] # Empty
    <3>1. CASE SchemaTracksChanges
      BY <1>2, <2>5, <3>1, Zenon DEF LoadedMain
    <3>2. CASE ~SchemaTracksChanges
      <4>1. \A k \in Keys : m[k] = PlainValue(d[k])
        BY <2>5, <3>2, Zenon DEF LoadedMain, shadowToMain
      <4>2. \A e : PlainValue(e) # Empty
        BY DEF PlainValue, NoValue, Empty
      <4> QED
        BY <4>1, <4>2, Zenon
    <3> QED
      BY <3>1, <3>2, Zenon
  <2>8. /\ db' = [db EXCEPT ![i] = d] /\ main' = [main EXCEPT ![i] = m]
        /\ UNCHANGED <<storage, clock>>
    BY <1>8, <2>1, <2>5, Zenon DEF LoadTxn
  <2>9. PICK t : t = EmptyDB
    BY Zenon
  <2>10. /\ GoodDB(t) /\ tx'[i].db = t
         /\ \A q \in Instances \ {i} : tx'[q] = tx[q]
    BY <1>1, <1>3, <1>8, <2>9, Zenon DEF LoadTxn
  <2> QED
    BY <1>6, <2>6, <2>7, <2>8, <2>10, Zenon
<1>9. ASSUME NEW i \in Instances, SendTxn(i)
      PROVE  AllGood'
  <2>1. PICK d, m : d = DumpedDB(i) /\ m = main[i]
    BY Zenon
  <2>2. GoodDB(d)
    BY <1>1, <1>2, <1>5, <2>1, Zenon DEF DumpedDB
  <2>3. /\ db' = [db EXCEPT ![i] = d] /\ main' = [main EXCEPT ![i] = m]
        /\ UNCHANGED <<storage, clock>>
    BY <1>1, <1>9, <2>1, Zenon DEF SendTxn
  <2>4. tx'[i].db = d /\ \A q \in Instances \ {i} : tx'[q] = tx[q]
    BY <1>1, <1>9, <2>1, Zenon DEF SendTxn
  <2>5. \A k \in Keys : Empty \notin AppValues => m[k] # Empty
    BY <1>2, <2>1, Zenon
  <2> QED
    BY <1>6, <2>2, <2>3, <2>4, <2>5, Zenon
<1>10. ASSUME NEW i \in Instances, LoseLMDB(i)
       PROVE  AllGood'
  <2>1. PICK d, m : d = EmptyDB /\ m = EmptyMain
    BY Zenon
  <2>2. /\ UNCHANGED <<storage, tx, clock>> /\ db' = [db EXCEPT ![i] = d]
        /\ main' = [main EXCEPT ![i] = m]
    BY <1>10, <2>1, Zenon DEF LoseLMDB
  <2>3. \A k \in Keys : Empty \notin AppValues => m[k] # Empty
    BY <2>1 DEF EmptyMain, NoValue, Empty
  <2>4. PICK t : t = tx[i].db
    BY Zenon
  <2>5. GoodDB(d) /\ GoodDB(t)
    BY <1>2, <1>3, <2>1, <2>4, Zenon
  <2> QED
    BY <1>6, <2>2, <2>3, <2>4, <2>5, Zenon
<1>11. ASSUME UNCHANGED <<db, main, clock>>,
              \A q \in Instances : tx'[q].db \in {tx[q].db, EmptyDB},
              \A q \in Instances : \A n \in 1..Len(storage'[q]) :
                GoodDB(storage'[q][n])
       PROVE  AllGood'
  <2>1. ASSUME NEW x, GoodDB(x) PROVE GoodDB(x)'
    BY <1>11, <2>1, Zenon DEF GoodDB, GoodEntry, Now
  <2>2. ASSUME NEW q \in Instances PROVE (GoodDB(db[q]) /\ GoodDB(tx[q].db))'
    <3>1. PICK x, y : x = db'[q] /\ y = tx'[q].db
      BY Zenon
    <3>2. GoodDB(x) /\ GoodDB(y)
      BY <1>2, <1>3, <1>11, <3>1, Zenon
    <3>3. GoodDB(x)' /\ GoodDB(y)'
      BY <2>1, <3>2, Zenon
    <3> QED
      BY <3>1, <3>3, Zenon DEF GoodDB
  <2>3. ASSUME NEW q \in Instances, NEW n \in 1..Len(storage'[q])
        PROVE  GoodDB(storage[q][n])'
    <3>1. PICK x : x = storage'[q][n]
      BY Zenon
    <3>2. GoodDB(x)'
      BY <1>11, <2>1, <3>1, Zenon
    <3> QED
      BY <3>1, <3>2, Zenon DEF GoodDB
  <2> QED
    BY <1>2, <1>11, <2>2, <2>3, Zenon DEF AllGood
<1>12. ASSUME NEW i \in Instances, Store(i)
       PROVE  AllGood'
  <2>1. /\ Len(storage'[i]) = Len(storage[i]) + 1
        /\ storage'[i][Len(storage[i]) + 1] = tx[i].db
        /\ \A n \in 1..Len(storage[i]) : storage'[i][n] = storage[i][n]
        /\ \A q \in Instances \ {i} : storage'[q] = storage[q]
    BY <1>12, StoreEffect, Zenon
  <2>2. UNCHANGED <<db, main, clock>> /\ tx' = [tx EXCEPT ![i] = NoTx]
    BY <1>12, Zenon DEF Store
  <2>3. \A q \in Instances : tx'[q] = IF q = i THEN NoTx ELSE tx[q]
    BY <1>1, <2>2, Zenon
  <2>4. \A q \in Instances : tx'[q].db \in {tx[q].db, EmptyDB}
    BY <1>3, <2>3, Zenon
  <2>5. \A n \in 1..Len(storage'[i]) :
          n \in 1..Len(storage[i]) \/ n = Len(storage[i]) + 1
    BY <2>1, DBTypes
  <2>6. \A n \in 1..Len(storage'[i]) : GoodDB(storage'[i][n])
    BY <1>2, <2>1, <2>5, Zenon
  <2>7. \A q \in Instances : \A n \in 1..Len(storage'[q]) : GoodDB(storage'[q][n])
    BY <1>2, <2>1, <2>6, Zenon
  <2> QED
    BY <1>11, <2>2, <2>4, <2>7, Zenon
<1>13. ASSUME UNCHANGED <<db, main, storage, clock>>,
              \A q \in Instances : tx'[q].db \in {tx[q].db, EmptyDB}
       PROVE  AllGood'
  BY <1>2, <1>11, <1>13, Zenon
<1> QED
  BY AppGood, <1>7, <1>8, <1>9, <1>10, <1>12, <1>13, StepGroups, Zenon

\* Every entry of every DBI and snapshot is good.
LEMMA GoodAlways == Spec => [](TypeOK /\ ReferencesExist /\ AllGood)
<1>1. ASSUME Init PROVE TypeOK /\ ReferencesExist /\ AllGood
  <2>1. TypeOK /\ ReferencesExist
    BY <1>1, InitialTypeOK, Zenon
  <2>2. GoodDB(EmptyDB) /\ NoTx.db = EmptyDB
    BY <2>1, GoodAbsent, Zenon DEF NoTx
  <2>3. \A k \in Keys : EmptyMain[k] # Empty
    BY DEF EmptyMain, NoValue, Empty
  <2>4. 2 <= clock /\ \A i \in Instances : 1..Len(storage[i]) = {}
    BY <1>1 DEF Init
  <2> QED
    BY <1>1, <2>1, <2>2, <2>3, <2>4, Zenon DEF Init, AllGood
<1>2. ASSUME TypeOK /\ ReferencesExist /\ AllGood, [Next]_vars
      PROVE  (TypeOK /\ ReferencesExist /\ AllGood)'
  BY <1>2, TypeStep, GoodStep, Zenon
<1> QED
  BY <1>1, <1>2, PTL DEF Spec
-------------------------------------------------------------------------------
(*****************************************************************************)
(* That writes, restarts, listings and downloads preserve IndInv.            *)
(*****************************************************************************)
\* mainToShadow never goes back to an older entry, if no timestamp of the shadow
\* DBI is ahead of the one it writes.  A deletion gets that timestamp even when
\* the entry it replaces has a later one.
LEMMA ShadowCovers ==
  ASSUME NEW plain \in [Keys -> Values \cup {NoValue}], NEW shadow \in DB,
         NEW ts \in Nat, \A k \in Keys : shadow[k].ts <= ts
  PROVE  Covers(mainToShadow(plain, shadow, ts), shadow)
<1> SUFFICES ASSUME NEW k \in Keys
             PROVE  Leq(shadow[k], mainToShadow(plain, shadow, ts)[k])
  BY Zenon DEF Covers
<1>1. PICK x, v : x = shadow[k] /\ v = plain[k]
  BY Zenon
<1>2. x \in Entry \cup {Absent} /\ v \in Values \cup {NoValue} /\ x.ts <= ts
  BY <1>1, Zenon DEF DB
<1>3. CASE x = Absent
  BY <1>1, <1>3, Zenon DEF Leq
<1>4. CASE x # Absent /\ v # NoValue
  <2>1. PICK new : new = [kind |-> "live", ts |-> 0, val |-> v]
    BY Zenon
  <2>2. /\ new.kind = "live" /\ new.ts = 0 /\ new.val = v /\ v \in Values
        /\ EffectiveTS(new, ts) = ts
    BY <1>2, <1>4, <2>1, Zenon DEF EffectiveTS
  <2>3. mainToShadow(plain, shadow, ts)[k] = Merge(x, new, ts, 0, CurrentFormatVersion)
    BY <1>1, <1>4, <2>1, Zenon DEF mainToShadow
  <2>4. CASE KeepsOld(x, new, ts)
    BY <1>1, <1>2, <1>4, <2>3, <2>4, LeqReflexive, Zenon DEF Merge
  <2>5. CASE ~KeepsOld(x, new, ts)
    <3>1. PICK added : added = addHeader(v, ts, FALSE, ts, CurrentFormatVersion)
      BY Zenon
    <3>2. added.ts = ts /\ added.val = v /\ added.kind = "live"
      BY <3>1 DEF addHeader, CurrentFormatVersion
    <3>3. mainToShadow(plain, shadow, ts)[k] = added
      BY <1>4, <2>2, <2>3, <2>5, <3>1, Zenon DEF Merge
    <3>4. added # Absent
      BY <3>2 DEF Absent
    <3>5. /\ x.ts \in Nat /\ x.val \in Nat /\ v \in Nat
          /\ ~(ts < x.ts) /\ ~(ts = x.ts /\ x.val <= v)
      <4>1. x \in Entry /\ v \in Nat
        BY <1>2, <1>4, <2>2, ValuesAssumption, Zenon
      <4> QED
        BY <2>2, <2>5, <4>1, EntryFields, Zenon DEF KeepsOld
    <3>6. x.ts < ts \/ (x.ts = ts /\ v <= x.val)
      BY ONLY <3>5, ts \in Nat
    <3> QED
      BY <1>1, <1>4, <3>2, <3>3, <3>4, <3>6, Zenon DEF Leq
  <2> QED
    BY <2>4, <2>5, Zenon
<1>5. CASE x # Absent /\ v = NoValue
  <2>1. mainToShadow(plain, shadow, ts)[k] = Clean(x, ts, CurrentFormatVersion)
    BY <1>1, <1>5, Zenon DEF mainToShadow
  <2>2. CASE x.kind = "deleted"
    BY <1>1, <1>2, <2>1, <2>2, LeqReflexive, Zenon DEF Clean
  <2>3. CASE x.kind # "deleted"
    <3>1. PICK added : added = addHeader(Empty, 0, TRUE, ts, CurrentFormatVersion)
      BY Zenon
    <3>2. added.ts = ts /\ added.val = Empty /\ added.kind = "deleted"
      BY <3>1 DEF addHeader
    <3>3. mainToShadow(plain, shadow, ts)[k] = added
      BY <2>1, <2>3, <3>1, Zenon DEF Clean
    <3>4. added # Absent
      BY <3>2 DEF Absent
    <3>5. x.ts \in Nat /\ x.val \in Nat
      BY <1>2, <1>5, EntryFields, Zenon
    <3>6. x.ts < ts \/ (x.ts = ts /\ Empty <= x.val)
      BY ONLY <1>2, <3>5, ts \in Nat DEF Empty
    <3> QED
      BY <1>1, <1>5, <3>2, <3>3, <3>4, <3>6, Zenon DEF Leq
  <2> QED
    BY <2>2, <2>3, Zenon
<1> QED
  BY <1>3, <1>4, <1>5, Zenon

\* In native mode, or with agreeing clocks, the DBI that LoadOnce merges into and
\* the one that SendOnce dumps are no older than the DBI was before.
LEMMA LocalCovers ==
  ASSUME SchemaTracksChanges \/ SameClocks, TypeOK, AllGood, NEW i \in Instances
  PROVE  /\ Covers(DumpedDB(i), db[i]) /\ DumpedDB(i) \in DB
         /\ Covers(db[i], db[i]) /\ db[i] \in DB
<1>1. /\ db[i] \in DB /\ main[i] \in [Keys -> Values \cup {NoValue}]
      /\ DumpedDB(i) \in DB /\ Now(i) \in Nat
  BY DumpedType, Clocks, Zenon DEF TypeOK, LMDBTypeOK
<1>2. Covers(db[i], db[i])
  BY <1>1, CoversReflexive, Zenon
<1>3. CASE SchemaTracksChanges
  BY <1>1, <1>2, <1>3, Zenon DEF DumpedDB
<1>4. CASE ~SchemaTracksChanges
  <2>1. \A k \in Keys : db[i][k].ts <= Now(i)
    BY <1>4, Zenon DEF AllGood, GoodDB, GoodEntry
  <2>2. Covers(mainToShadow(main[i], db[i], Now(i)), db[i])
    BY <1>1, <2>1, ShadowCovers, Zenon
  <2> QED
    BY <1>1, <1>2, <1>4, <2>2, Zenon DEF DumpedDB
<1> QED
  BY <1>3, <1>4, Zenon

\* A step that only makes the contents of DBIs newer preserves the invariant.
LEMMA GrowthPreserves ==
  ASSUME IndInv, TypeOK', ReferencesExist',
         UNCHANGED <<storage, pc, inLoop, waitingForInstances, seen, notified,
                     downloaded, ready, lastByInstance, committed, tx,
                     listedAtStart, passed>>,
         \A q \in Instances : Covers(db'[q], db[q])
  PROVE  IndInv'
<1>1. DownIsForgotten' /\ ShadowIsFresh' /\ SnapshotsGrow' /\ CommittedIsMerged'
  BY Zenon
  DEF IndInv, DownIsForgotten, ShadowIsFresh, SnapshotsGrow, CommittedIsMerged
<1>2. ASSUME NEW q \in Instances, NEW x \in DB, Covers(db[q], x)
      PROVE  Covers(db'[q], x)
  <2>1. db[q] \in DB /\ db'[q] \in DB
    BY Zenon DEF IndInv, TypeOK, LMDBTypeOK
  <2> QED
    BY <1>2, <2>1, CoversTransitive, Zenon
<1>3. OwnIsCovered'
  BY <1>2, DBTypes, Zenon DEF IndInv, OwnIsCovered
<1>4. LoadedIsCovered'
  BY <1>2, DBTypes, References, SMTT(30) DEF IndInv, LoadedIsCovered
<1>5. ListedIsCovered'
  BY <1>2, DBTypes, References, SMTT(30) DEF IndInv, ListedIsCovered
<1> QED
  BY <1>1, <1>3, <1>4, <1>5, Zenon DEF IndInv

\* A step of the loop that leaves the DBIs and the references alone preserves
\* the invariant, unless it starts or completes an upload.
LEMMA LoopStepPreserves ==
  ASSUME IndInv, TypeOK', ReferencesExist', NEW i \in Instances,
         pc[i] \notin {"down", "list"}, pc'[i] \in {"load", "check", "done"},
         \A q \in Instances \ {i} :
           /\ pc'[q] = pc[q] /\ tx'[q] = tx[q]
           /\ passed'[q] = passed[q] /\ inLoop'[q] = inLoop[q],
         "pass" \in passed'[i] => waitingForInstances[i] = {},
         UNCHANGED <<storage, db, waitingForInstances, seen, notified,
                     downloaded, ready, lastByInstance, committed,
                     listedAtStart>>
  PROVE  IndInv'
<1>1. DownIsForgotten' /\ ShadowIsFresh' /\ SnapshotsGrow' /\ CommittedIsMerged'
  BY ZenonT(30)
  DEF IndInv, DownIsForgotten, ShadowIsFresh, SnapshotsGrow, CommittedIsMerged
<1>2. OwnIsCovered'
  BY Zenon DEF IndInv, OwnIsCovered
<1>3. LoadedIsCovered'
  BY Zenon DEF IndInv, LoadedIsCovered
<1>4. ListedIsCovered'
  BY Zenon DEF IndInv, ListedIsCovered
<1> QED
  BY <1>1, <1>2, <1>3, <1>4, Zenon DEF IndInv

\* The start, the crash and the loss of an LMDB.
LEMMA RestartPreserves ==
  ASSUME IndInv, TypeOK', ReferencesExist', NEW i \in Instances,
         Crash(i) \/ LoseLMDB(i) \/ Start(i)
  PROVE  IndInv'
<1> USE DEF lmdbVars, syncVars, sentVars, receiverVars, envVars, historyVars
<1>1. CASE Crash(i)
  <2> DEFINE None == NoneByInstance
  <2>1. /\ pc' = [pc EXCEPT ![i] = "down"]
        /\ inLoop' = [inLoop EXCEPT ![i] = FALSE]
        /\ passed' = [passed EXCEPT ![i] = {}]
        /\ waitingForInstances' = [waitingForInstances EXCEPT ![i] = {}]
        /\ tx' = [tx EXCEPT ![i] = NoTx]
        /\ seen' = [seen EXCEPT ![i] = None]
        /\ ready' = [ready EXCEPT ![i] = None]
        /\ notified' = [notified EXCEPT ![i] = None]
        /\ downloaded' = [downloaded EXCEPT ![i] = None]
        /\ lastByInstance' = [lastByInstance EXCEPT ![i] = None]
        /\ listedAtStart' = [listedAtStart EXCEPT ![i] = None]
        /\ committed' = [committed EXCEPT ![i] = None]
        /\ UNCHANGED <<storage, db>>
    BY <1>1, Zenon DEF Crash
  <2>2. /\ pc \in [Instances -> Pcs] /\ inLoop \in [Instances -> BOOLEAN]
        /\ passed \in [Instances -> SUBSET {"listing", "store", "pass"}]
        /\ waitingForInstances \in [Instances -> SUBSET Instances]
    BY Zenon DEF IndInv, TypeOK, LoopTypeOK
  <2>3. tx \in [Instances -> [txnID : Nat, localChanged : BOOLEAN,
                              empty : BOOLEAN, db : DB]]
    BY Zenon DEF IndInv, TypeOK, TxTypeOK
  <2>4. /\ seen \in [Instances -> ByInstance]
        /\ ready \in [Instances -> ByInstance]
        /\ notified \in [Instances -> ByInstance]
        /\ downloaded \in [Instances -> ByInstance]
        /\ lastByInstance \in [Instances -> ByInstance]
        /\ listedAtStart \in [Instances -> ByInstance]
        /\ committed \in [Instances -> ByInstance]
    BY Zenon DEF IndInv, TypeOK, ReferencesTypeOK
  <2>5. /\ pc'[i] = "down" /\ passed'[i] = {} /\ waitingForInstances'[i] = {}
        /\ seen'[i] = None /\ ready'[i] = None /\ lastByInstance'[i] = None
        /\ listedAtStart'[i] = None /\ committed'[i] = None
        /\ notified'[i] = downloaded'[i] /\ ~inLoop'[i]
    BY <2>1, <2>2, <2>4, Zenon
  <2>6. ASSUME NEW q \in Instances \ {i}
        PROVE  /\ pc'[q] = pc[q] /\ passed'[q] = passed[q]
               /\ waitingForInstances'[q] = waitingForInstances[q]
               /\ tx'[q] = tx[q] /\ seen'[q] = seen[q] /\ ready'[q] = ready[q]
               /\ notified'[q] = notified[q] /\ downloaded'[q] = downloaded[q]
               /\ lastByInstance'[q] = lastByInstance[q]
               /\ listedAtStart'[q] = listedAtStart[q]
               /\ committed'[q] = committed[q] /\ inLoop'[q] = inLoop[q]
    BY <2>1, <2>2, <2>3, <2>4, Zenon
  <2>7. \A j \in Instances : None[j] = 0
    BY Zenon DEF NoneByInstance
  <2> HIDE DEF None
  <2>8. DownIsForgotten' /\ ShadowIsFresh' /\ SnapshotsGrow'
    <3>1. ASSUME NEW q \in Instances PROVE DownIsForgotten!(q)'
      <4>1. CASE q = i
        BY <2>5, <4>1, Zenon DEF None
      <4>2. CASE q # i
        <5>1. DownIsForgotten!(q)
          BY Zenon DEF IndInv, DownIsForgotten
        <5> QED
          BY <2>6, <4>2, <5>1, Zenon
      <4> QED
        BY <4>1, <4>2, Zenon
    <3>2. ASSUME NEW q \in Instances PROVE ShadowIsFresh!(q)'
      <4>1. CASE q = i
        BY <2>5, <4>1, Zenon
      <4>2. CASE q # i
        <5>1. ShadowIsFresh!(q)
          BY Zenon DEF IndInv, ShadowIsFresh
        <5> QED
          BY <2>1, <2>6, <4>2, <5>1, Zenon
      <4> QED
        BY <4>1, <4>2, Zenon
    <3>4. DownIsForgotten' /\ ShadowIsFresh'
      BY <3>1, <3>2, Zenon DEF DownIsForgotten, ShadowIsFresh
    <3>3. SnapshotsGrow'
      BY <2>1, Zenon DEF IndInv, SnapshotsGrow
    <3> QED
      BY <3>3, <3>4, Zenon
  <2>9. CommittedIsMerged'
    <3> SUFFICES ASSUME NEW q \in Instances, NEW j \in Instances,
                        committed'[q][j] # 0
                 PROVE  \E n \in 1..Len(storage[q]) :
                          Covers(storage[q][n], storage[j][committed'[q][j]])
      BY <2>1, ZenonT(30) DEF CommittedIsMerged
    <3>1. q # i
      BY <2>5, <2>7, Zenon
    <3>2. committed'[q] = committed[q]
      BY <2>6, <3>1, ZenonT(30)
    <3> QED
      BY <3>2, ZenonT(30) DEF IndInv, CommittedIsMerged
  <2>10. OwnIsCovered'
    <3> SUFFICES ASSUME NEW q \in Instances
                 PROVE  OwnIsCovered!(q)'
      BY ZenonT(30) DEF OwnIsCovered, Covers
    <3>1. CASE q = i
      BY <2>5, <3>1, Zenon
    <3>2. CASE q # i
      <4>1. /\ pc'[q] = pc[q] /\ tx'[q] = tx[q]
            /\ seen'[q] = seen[q] /\ ready'[q] = ready[q]
            /\ waitingForInstances'[q] = waitingForInstances[q]
        BY <2>6, <3>2, ZenonT(30)
      <4>2. OwnIsCovered!(q)
        BY ZenonT(30) DEF IndInv, OwnIsCovered
      <4>3. db'[q] = db[q] /\ storage'[q] = storage[q]
        BY <2>1, ZenonT(30)
      <4> QED
        BY ONLY <4>1, <4>2, <4>3, Zenon
    <3> QED
      BY <3>1, <3>2, Zenon
  <2>11. LoadedIsCovered'
    <3> SUFFICES ASSUME NEW q \in Instances, NEW j \in Instances,
                        lastByInstance'[q][j] # 0
                 PROVE  /\ Covers(db'[q], storage'[j][lastByInstance'[q][j]])
                        /\ pc'[q] \in {"sendinfo", "store"} =>
                             Covers(tx'[q].db, storage'[j][lastByInstance'[q][j]])
      BY ZenonT(30) DEF LoadedIsCovered, Covers
    <3>1. q # i
      BY <2>5, <2>7, ZenonT(30)
    <3>2. /\ lastByInstance'[q] = lastByInstance[q]
          /\ pc'[q] = pc[q] /\ tx'[q] = tx[q]
      BY <2>6, <3>1, ZenonT(30)
    <3> QED
      BY <2>1, <3>2, ZenonT(30) DEF IndInv, LoadedIsCovered
  <2>12. ListedIsCovered'
    <3> SUFFICES ASSUME NEW q \in Instances, NEW j \in Instances
                 PROVE  ListedIsCovered!(q, j)'
      BY ZenonT(30) DEF ListedIsCovered, Covers
    <3>1. CASE q = i
      <4>1. /\ listedAtStart'[q][j] = 0 /\ seen'[q][j] = 0 /\ ready'[q][j] = 0
            /\ passed'[q] = {} /\ waitingForInstances'[q] = {}
        BY <2>5, <2>7, <3>1, Zenon
      <4>2. listedAtStart'[q][j] <= seen'[q][j]
        BY ONLY <4>1
      <4>3. "pass" \notin passed'[q]
        BY <4>1, Zenon
      <4> QED
        BY <4>1, <4>2, <4>3, Zenon
    <3>2. CASE q # i
      <4>1. /\ listedAtStart'[q] = listedAtStart[q] /\ seen'[q] = seen[q]
            /\ ready'[q] = ready[q] /\ passed'[q] = passed[q]
            /\ waitingForInstances'[q] = waitingForInstances[q]
        BY <2>6, <3>2, ZenonT(30)
      <4>2. ListedIsCovered!(q, j)
        BY ZenonT(30) DEF IndInv, ListedIsCovered
      <4>3. db'[q] = db[q] /\ storage'[j] = storage[j]
        BY <2>1, ZenonT(30)
      <4> QED
        BY ONLY <4>1, <4>2, <4>3, Zenon
    <3> QED
      BY <3>1, <3>2, Zenon
  <2> QED
    BY <2>8, <2>9, <2>10, <2>11, <2>12, Zenon DEF IndInv
<1>2. CASE LoseLMDB(i)
  <2>1. /\ \A q \in Instances \ {i} : db'[q] = db[q]
        /\ UNCHANGED <<storage, pc, inLoop, waitingForInstances, passed, tx,
                       receiverVars, lastByInstance, committed, listedAtStart>>
        /\ pc[i] = "down"
    BY <1>2, Zenon DEF LoseLMDB, IndInv, TypeOK, LMDBTypeOK
  <2>2. DownIsForgotten' /\ ShadowIsFresh' /\ SnapshotsGrow' /\ CommittedIsMerged'
    BY <2>1, ZenonT(30)
    DEF IndInv, DownIsForgotten, ShadowIsFresh, SnapshotsGrow, CommittedIsMerged
  <2>3. OwnIsCovered'
    BY <2>1, ZenonT(30) DEF IndInv, OwnIsCovered, DownIsForgotten
  <2>4. /\ lastByInstance[i] = NoneByInstance
        /\ listedAtStart[i] = NoneByInstance
        /\ \A j \in Instances : NoneByInstance[j] = 0
    BY <2>1, ZenonT(30) DEF IndInv, DownIsForgotten, NoneByInstance
  <2>5. LoadedIsCovered'
    <3> SUFFICES ASSUME NEW p \in Instances, NEW j \in Instances,
                        lastByInstance'[p][j] # 0
                 PROVE  /\ Covers(db'[p], storage'[j][lastByInstance'[p][j]])
                        /\ pc'[p] \in {"sendinfo", "store"} =>
                             Covers(tx'[p].db, storage'[j][lastByInstance'[p][j]])
      BY ZenonT(30) DEF LoadedIsCovered, Covers
    <3>1. p # i /\ lastByInstance[p][j] # 0
      BY <2>1, <2>4, Zenon
    <3>2. db'[p] = db[p]
      BY <2>1, <3>1, Zenon
    <3> QED
      BY <2>1, <3>1, <3>2, ZenonT(30) DEF IndInv, LoadedIsCovered
  <2>6. ListedIsCovered'
    <3> SUFFICES ASSUME NEW p \in Instances, NEW j \in Instances
                 PROVE  /\ listedAtStart'[p][j] <= seen'[p][j]
                        /\ ready'[p][j] # 0 => listedAtStart'[p][j] <= ready'[p][j]
                        /\ listedAtStart'[p][j] # 0
                           /\ j \notin waitingForInstances'[p] =>
                             Covers(db'[p], storage'[j][listedAtStart'[p][j]])
                        /\ "pass" \in passed'[p] => waitingForInstances'[p] = {}
      BY ZenonT(30) DEF ListedIsCovered, Covers
    <3>1. p = i => listedAtStart[p][j] = 0
      BY <2>4, Zenon
    <3>2. p # i => db'[p] = db[p]
      BY <2>1, Zenon
    <3> QED
      BY <2>1, <3>1, <3>2, ZenonT(30) DEF IndInv, ListedIsCovered
  <2> QED
    BY <2>2, <2>3, <2>5, <2>6, Zenon DEF IndInv
<1>3. CASE Start(i)
  <2>1. /\ UNCHANGED <<storage, db, inLoop, waitingForInstances, passed, tx,
                       receiverVars, lastByInstance, committed, listedAtStart>>
        /\ pc[i] = "down" /\ pc'[i] = "list"
        /\ \A q \in Instances \ {i} : pc'[q] = pc[q]
    <3>1. /\ UNCHANGED <<lmdbVars, storage, inLoop, waitingForInstances, passed,
                         sentVars, lastByInstance, tx, receiverVars, historyVars>>
          /\ pc[i] = "down" /\ pc' = [pc EXCEPT ![i] = "list"]
      BY <1>3, ZenonT(30) DEF Start
    <3>2. pc \in [Instances -> Pcs]
      BY Zenon DEF IndInv, TypeOK, LoopTypeOK
    <3> QED
      BY ONLY <3>1, <3>2, i \in Instances, Zenon
      DEF lmdbVars, sentVars, receiverVars, historyVars
  <2>2. DownIsForgotten' /\ SnapshotsGrow' /\ CommittedIsMerged'
    BY <2>1, ZenonT(30)
    DEF IndInv, DownIsForgotten, SnapshotsGrow, CommittedIsMerged
  <2>4. ShadowIsFresh'
    BY <2>1, Zenon DEF IndInv, ShadowIsFresh
  <2>3. OwnIsCovered' /\ LoadedIsCovered' /\ ListedIsCovered'
    BY <2>1, ZenonT(30) DEF IndInv, OwnIsCovered, LoadedIsCovered, ListedIsCovered
  <2> QED
    BY <2>2, <2>3, <2>4, Zenon DEF IndInv
<1> QED
  BY <1>1, <1>2, <1>3, Zenon

\* The initial listing, in native mode.
LEMMA InitialListingPreserves ==
  ASSUME IndInv, TypeOK', ReferencesExist', NEW i \in Instances, InitialListing(i)
  PROVE  IndInv'
<1> USE DEF lmdbVars, syncVars, sentVars, receiverVars, envVars, historyVars
<1>1. /\ pc[i] = "list"
      /\ UNCHANGED <<storage, db, tx, downloaded, ready, lastByInstance,
                     committed>>
      /\ \A q \in Instances \ {i} :
           /\ pc'[q] = pc[q] /\ passed'[q] = passed[q]
           /\ waitingForInstances'[q] = waitingForInstances[q]
           /\ seen'[q] = seen[q] /\ notified'[q] = notified[q]
           /\ inLoop'[q] = inLoop[q]
           /\ listedAtStart'[q] = listedAtStart[q]
  BY SMTT(30) DEF InitialListing, IndInv, TypeOK, LoopTypeOK, ReferencesTypeOK
<1>2. \A j \in Instances : seen'[i][j] = Len(storage[j])
  BY ZenonT(30) DEF InitialListing, IndInv, TypeOK, ReferencesTypeOK, Listing
<1>3. \A j \in Instances : listedAtStart'[i][j] = Len(storage[j])
  BY ZenonT(30) DEF InitialListing, IndInv, TypeOK, ReferencesTypeOK, Listing
<1>4. waitingForInstances'[i] = {j \in Instances : Len(storage[j]) # 0}
  <2>1. waitingForInstances'[i] = SeenInstances(i)'
    BY Zenon DEF InitialListing, IndInv, TypeOK, LoopTypeOK
  <2> QED
    BY <1>2, <2>1, Zenon DEF SeenInstances
<1>5. /\ pc'[i] \in {"shadow", "load", "send"}
      /\ pc'[i] = "shadow" => ~SchemaTracksChanges
      /\ pc'[i] = "send" => waitingForInstances'[i] = {}
  <2>1. pc'[i] = IF hasDataAtStart[i] /\ ~SchemaTracksChanges THEN "shadow"
                 ELSE NextAfterShadow(i, SeenInstances(i)' # {})
    BY Zenon DEF InitialListing, IndInv, TypeOK, LoopTypeOK
  <2>2. SeenInstances(i)' = waitingForInstances'[i]
    BY Zenon DEF InitialListing, IndInv, TypeOK, LoopTypeOK
  <2> QED
    BY <2>1, <2>2, Zenon DEF NextAfterShadow
<1>6. "pass" \notin passed'[i]
  BY Zenon DEF InitialListing, IndInv, TypeOK, LoopTypeOK
<1>7. \A j \in Instances : ready[i][j] = 0 /\ lastByInstance[i][j] = 0
  BY <1>1, ZenonT(30) DEF IndInv, DownIsForgotten, NoneByInstance
<1>8. \A j \in Instances : Len(storage[j]) \in Nat
  BY DBTypes, Zenon DEF IndInv
<1>9. DownIsForgotten' /\ ShadowIsFresh'
  <2>1. DownIsForgotten'
    BY <1>1, <1>5, Zenon DEF IndInv, DownIsForgotten
  <2>2. lastByInstance[i] = NoneByInstance
    BY <1>1, Zenon DEF IndInv, DownIsForgotten
  <2>3. storage[i] # << >> => i \in waitingForInstances'[i]
    <3>1. storage[i] \in Seq(DB)
      BY Zenon DEF IndInv, TypeOK, BucketTypeOK
    <3>2. storage[i] # << >> => Len(storage[i]) # 0
      BY ONLY <3>1
    <3> QED
      BY <1>4, <3>2, Zenon
  <2>4. \A j \in Instances :
          listedAtStart'[i][j] # 0 => j \in waitingForInstances'[i]
    BY <1>3, <1>4, Zenon
  <2>5. ShadowIsFresh'
    BY <1>1, <1>5, <1>6, <2>2, <2>3, <2>4, ZenonT(30) DEF IndInv, ShadowIsFresh
  <2> QED
    BY <2>1, <2>5, Zenon
<1>10. SnapshotsGrow' /\ CommittedIsMerged'
  BY <1>1, Zenon DEF IndInv, SnapshotsGrow, CommittedIsMerged
<1>11. OwnIsCovered'
  <2>1. i \in waitingForInstances'[i] => storage[i] # << >>
    BY <1>4, Zenon
  <2>2. ASSUME i \notin waitingForInstances'[i] PROVE 1..Len(storage[i]) = {}
    BY <1>4, <1>8, <2>2
  <2> QED
    <3> SUFFICES ASSUME NEW q \in Instances PROVE OwnIsCovered!(q)'
      BY SMTT(30) DEF OwnIsCovered, Covers
    <3>1. CASE q = i
      BY <1>1, <1>2, <1>5, <1>7, <2>1, <2>2, <3>1, Zenon
    <3>2. CASE q # i
      <4>1. /\ pc'[q] = pc[q] /\ waitingForInstances'[q] = waitingForInstances[q]
            /\ seen'[q] = seen[q]
        BY <1>1, <3>2, Zenon
      <4>2. OwnIsCovered!(q)
        BY Zenon DEF IndInv, OwnIsCovered
      <4> QED
        BY ONLY <1>1, <4>1, <4>2, Zenon
    <3> QED
      BY <3>1, <3>2, Zenon
<1>12. LoadedIsCovered'
  <2> SUFFICES ASSUME NEW q \in Instances, NEW j \in Instances,
                      lastByInstance'[q][j] # 0
               PROVE  /\ Covers(db'[q], storage'[j][lastByInstance'[q][j]])
                      /\ pc'[q] \in {"sendinfo", "store"} =>
                           Covers(tx'[q].db, storage'[j][lastByInstance'[q][j]])
    BY Zenon DEF LoadedIsCovered, Covers
  <2>1. q # i /\ lastByInstance[q][j] # 0
    BY <1>1, <1>7, Zenon
  <2>2. pc'[q] = pc[q]
    BY <1>1, <2>1, Zenon
  <2> QED
    BY <1>1, <2>1, <2>2, Zenon DEF IndInv, LoadedIsCovered
<1>13. ListedIsCovered'
  <2> SUFFICES ASSUME NEW p \in Instances, NEW j \in Instances
               PROVE  /\ listedAtStart'[p][j] <= seen'[p][j]
                      /\ ready'[p][j] # 0 => listedAtStart'[p][j] <= ready'[p][j]
                      /\ listedAtStart'[p][j] # 0
                         /\ j \notin waitingForInstances'[p] =>
                           Covers(db'[p], storage'[j][listedAtStart'[p][j]])
                      /\ "pass" \in passed'[p] => waitingForInstances'[p] = {}
    BY ZenonT(30) DEF ListedIsCovered, Covers
  <2>1. CASE p = i
    <3>1. listedAtStart'[i][j] <= seen'[i][j]
      BY <1>2, <1>3, <1>8, NatOrder, Zenon
    <3>2. listedAtStart'[i][j] # 0 => j \in waitingForInstances'[i]
      BY <1>3, <1>4, Zenon
    <3> QED
      BY <1>1, <1>6, <1>7, <2>1, <3>1, <3>2, Zenon
  <2>2. CASE p # i
    BY <1>1, <2>2, ZenonT(30) DEF IndInv, ListedIsCovered
  <2> QED
    BY <2>1, <2>2, Zenon
<1> QED
  BY <1>9, <1>10, <1>11, <1>12, <1>13, Zenon DEF IndInv

\* The initial copy of the main DBI, which writes a timestamp in the past and may
\* so replace an entry by an older deletion: nothing that was loaded or stored has
\* to be in the LMDB yet.
LEMMA ShadowInitPreserves ==
  ASSUME IndInv, TypeOK', ReferencesExist', NEW i \in Instances, ShadowInit(i)
  PROVE  IndInv'
<1> USE DEF lmdbVars, syncVars, sentVars, receiverVars, envVars, historyVars
<1>1. /\ pc[i] = "shadow" /\ ShadowIsFresh
      /\ UNCHANGED <<storage, tx, seen, notified, downloaded, ready, committed,
                     waitingForInstances, passed, lastByInstance, listedAtStart>>
  BY Zenon DEF ShadowInit, IndInv
<1>2. pc'[i] = NextAfterShadow(i, SeenInstances(i) # {})
  BY Zenon DEF ShadowInit, IndInv, TypeOK, LoopTypeOK
<1>3. \A q \in Instances \ {i} :
        db'[q] = db[q] /\ pc'[q] = pc[q] /\ inLoop'[q] = inLoop[q]
  <2>1. PICK d, l, b : /\ db' = [db EXCEPT ![i] = d] /\ pc' = [pc EXCEPT ![i] = l]
                       /\ inLoop' = [inLoop EXCEPT ![i] = b]
    <3>1. PICK b : b = (pc'[i] = "load")
      BY Zenon
    <3>2. inLoop' = [inLoop EXCEPT ![i] = b]
      BY <3>1, Zenon DEF ShadowInit
    <3>3. PICK d, l : /\ d = mainToShadow(main[i], db[i], 1)
                      /\ l = NextAfterShadow(i, SeenInstances(i) # {})
      BY Zenon
    <3>4. db' = [db EXCEPT ![i] = d] /\ pc' = [pc EXCEPT ![i] = l]
      BY <3>3, Zenon DEF ShadowInit
    <3> QED
      BY ONLY <3>2, <3>4, Zenon
  <2>2. /\ db \in [Instances -> DB] /\ pc \in [Instances -> Pcs]
        /\ inLoop \in [Instances -> BOOLEAN]
    BY Zenon DEF IndInv, TypeOK, LMDBTypeOK, LoopTypeOK
  <2> QED
    BY ONLY <2>1, <2>2, i \in Instances, Zenon
<1>4. i \in waitingForInstances[i] => i \in SeenInstances(i)
  <2>1. ASSUME i \in waitingForInstances[i] PROVE seen[i][i] # 0
    <3>1. storage[i] # << >> /\ seen[i][i] = Len(storage[i])
      BY <2>1, ZenonT(30) DEF IndInv, OwnIsCovered
    <3>2. storage[i] \in Seq(DB)
      BY Zenon DEF IndInv, TypeOK, BucketTypeOK
    <3> QED
      BY ONLY <3>1, <3>2
  <2> QED
    BY <2>1, Zenon DEF SeenInstances
<1>5. /\ pc'[i] \in {"load", "send"}
      /\ i \in waitingForInstances[i] => pc'[i] \notin {"send", "sendinfo", "store"}
  BY <1>2, <1>4, Zenon DEF NextAfterShadow
<1>6. /\ lastByInstance[i] = NoneByInstance /\ "pass" \notin passed[i]
      /\ storage[i] # << >> => i \in waitingForInstances[i]
      /\ \A j \in Instances : listedAtStart[i][j] # 0 => j \in waitingForInstances[i]
  BY <1>1, Zenon DEF ShadowIsFresh
<1>7. \A j \in Instances : lastByInstance[i][j] = 0
  BY <1>6, Zenon DEF NoneByInstance
<1>8. i \notin waitingForInstances[i] => 1..Len(storage[i]) = {}
  BY <1>6
<1>9. DownIsForgotten' /\ SnapshotsGrow' /\ CommittedIsMerged'
  BY <1>1, <1>3, <1>5, Zenon
  DEF IndInv, DownIsForgotten, SnapshotsGrow, CommittedIsMerged
<1>10. ShadowIsFresh'
  BY <1>1, <1>3, <1>5, Zenon DEF ShadowIsFresh
<1>11. OwnIsCovered'
  <2> SUFFICES ASSUME NEW q \in Instances PROVE OwnIsCovered!(q)'
    BY DEF OwnIsCovered, Covers
  <2>1. OwnIsCovered!(q)
    BY ZenonT(30) DEF IndInv, OwnIsCovered
  <2>2. CASE q = i
    BY <1>1, <1>5, <1>8, <2>1, <2>2, Zenon
  <2>3. CASE q # i
    <3>1. db'[q] = db[q] /\ pc'[q] = pc[q]
      BY <1>3, <2>3, Zenon
    <3> QED
      BY ONLY <1>1, <2>1, <3>1, Zenon
  <2> QED
    BY <2>2, <2>3, Zenon
<1>12. LoadedIsCovered'
  <2> SUFFICES ASSUME NEW q \in Instances, NEW j \in Instances,
                      lastByInstance'[q][j] # 0
               PROVE  /\ Covers(db'[q], storage'[j][lastByInstance'[q][j]])
                      /\ pc'[q] \in {"sendinfo", "store"} =>
                           Covers(tx'[q].db, storage'[j][lastByInstance'[q][j]])
    BY Zenon DEF LoadedIsCovered, Covers
  <2>1. q # i /\ lastByInstance[q][j] # 0
    BY <1>1, <1>7, Zenon
  <2>2. db'[q] = db[q] /\ pc'[q] = pc[q]
    BY <1>3, <2>1, Zenon
  <2> QED
    BY <1>1, <2>1, <2>2, Zenon DEF IndInv, LoadedIsCovered
<1>13. ListedIsCovered'
  <2> SUFFICES ASSUME NEW q \in Instances, NEW j \in Instances
               PROVE  ListedIsCovered!(q, j)'
    BY Zenon DEF ListedIsCovered, Covers
  <2>1. ListedIsCovered!(q, j)
    BY ZenonT(30) DEF IndInv, ListedIsCovered
  <2>2. CASE q = i
    BY <1>1, <1>6, <2>1, <2>2, Zenon
  <2>3. CASE q # i
    <3>1. db'[q] = db[q]
      BY <1>3, <2>3, Zenon
    <3> QED
      BY ONLY <1>1, <2>1, <3>1, Zenon
  <2> QED
    BY <2>2, <2>3, Zenon
<1> QED
  BY <1>9, <1>10, <1>11, <1>12, <1>13, Zenon DEF IndInv

\* A listing and a download of the receiver.
LEMMA ReceiverPreserves ==
  ASSUME IndInv, TypeOK', ReferencesExist', NEW i \in Instances,
         List(i) \/ \E j \in Instances : Download(i, j)
  PROVE  IndInv'
<1> USE DEF lmdbVars, syncVars, sentVars, receiverVars, envVars, historyVars
<1>1. UNCHANGED <<storage, db, pc, inLoop, tx, lastByInstance, committed, passed,
                  waitingForInstances, listedAtStart>>
  BY Zenon DEF List, Download
<1>2. /\ SnapshotsGrow' /\ CommittedIsMerged' /\ LoadedIsCovered' /\ ShadowIsFresh'
  BY <1>1, Zenon
  DEF IndInv, SnapshotsGrow, CommittedIsMerged, LoadedIsCovered, ShadowIsFresh
<1>3. CASE List(i)
  <2>1. /\ ready' = ready /\ downloaded' = downloaded /\ inLoop[i]
        /\ \A j \in Instances : seen'[i][j] = Len(storage[j])
        /\ \A q \in Instances \ {i} : /\ seen'[q] = seen[q]
                                      /\ notified'[q] = notified[q]
    BY <1>3, Zenon DEF List, Listing, IndInv, TypeOK, ReferencesTypeOK
  <2>2. DownIsForgotten'
    BY <1>1, <2>1, ZenonT(30) DEF IndInv, DownIsForgotten
  <2>3. OwnIsCovered'
    <3>1. \A q \in Instances :
             q \in waitingForInstances[q] /\ seen[q][q] = Len(storage[q]) =>
               seen'[q][q] = Len(storage[q])
      BY <2>1, Zenon
    <3> QED
      BY <1>1, <2>1, <3>1, ZenonT(30) DEF IndInv, OwnIsCovered
  <2>4. ListedIsCovered'
    <3>1. \A p, q \in Instances : listedAtStart[p][q] <= Len(storage[q])
      BY <1>1, Zenon DEF ReferencesExist
    <3>2. \A p, q \in Instances : listedAtStart[p][q] <= seen'[p][q]
      <4>1. \A p, q \in Instances : listedAtStart[p][q] <= seen[p][q]
        BY ZenonT(30) DEF IndInv, ListedIsCovered
      <4> QED
        BY <2>1, <3>1, <4>1, ZenonT(30)
    <3> QED
      BY <1>1, <2>1, <3>2, ZenonT(30) DEF IndInv, ListedIsCovered
  <2> QED
    BY <1>2, <2>2, <2>3, <2>4, Zenon DEF IndInv
<1>4. ASSUME NEW j \in Instances, Download(i, j) PROVE IndInv'
  <2>1. /\ ready' = [ready EXCEPT ![i][j] = seen[i][j]]
        /\ downloaded' = [downloaded EXCEPT ![i][j] = seen[i][j]]
        /\ seen' = seen /\ notified' = notified
        /\ notified[i][j] # downloaded[i][j]
    BY <1>4, Zenon DEF Download
  <2>2. /\ ready \in [Instances -> ByInstance]
        /\ downloaded \in [Instances -> ByInstance]
    BY Zenon DEF IndInv, TypeOK, ReferencesTypeOK
  <2>3. \A p, q \in Instances :
           ready'[p][q] = IF p = i /\ q = j THEN seen[p][q] ELSE ready[p][q]
    BY <2>1, <2>2, Zenon DEF ByInstance
  <2>4. \A q \in Instances \ {i} : /\ ready'[q] = ready[q]
                                   /\ downloaded'[q] = downloaded[q]
    BY <2>1, <2>2, Zenon
  <2>5. DownIsForgotten'
    BY <1>1, <2>1, <2>4, ZenonT(30) DEF IndInv, DownIsForgotten
  <2>6. OwnIsCovered'
    BY <1>1, <2>1, <2>3, SMTT(30) DEF IndInv, OwnIsCovered
  <2>7. ListedIsCovered'
    BY <1>1, <2>1, <2>3, SMTT(30) DEF IndInv, ListedIsCovered
  <2> QED
    BY <1>2, <2>5, <2>6, <2>7, Zenon DEF IndInv
<1> QED
  BY <1>3, <1>4, Zenon
-------------------------------------------------------------------------------
(*****************************************************************************)
(* The load of a snapshot preserves IndInv.                                  *)
(*****************************************************************************)
\* LoadOnce: what it loads is covered afterwards.  When it loads
\* the own old snapshot, which is the latest one, all own snapshots are.
LEMMA LoadTxnPreserves ==
  ASSUME SchemaTracksChanges \/ SameClocks, IndInv, AllGood, TypeOK',
         ReferencesExist',
         NEW i \in Instances, NEW j \in Instances, LoadTxn(i, j)
  PROVE  IndInv'
<1> USE DEF sentVars, envVars, historyVars
<1> DEFINE snap == storage[j][ready[i][j]]
<1>1. /\ pc[i] = "load" /\ pc'[i] = "loadinfo"
      /\ \A q \in Instances \ {i} : pc'[q] = pc[q]
      /\ waitingForInstances'[i] = waitingForInstances[i] \ {j}
      /\ \A q \in Instances \ {i} : waitingForInstances'[q] = waitingForInstances[q]
      /\ UNCHANGED <<storage, seen, notified, downloaded, committed, passed,
                     inLoop, listedAtStart>>
  BY ZenonT(30) DEF LoadTxn, IndInv, TypeOK, LoopTypeOK
<1>2. ready[i][j] \in 1..Len(storage[j]) /\ snap \in DB
  BY ReadyIsSnapshot, Zenon DEF LoadTxn, IndInv
<1>3. /\ \A q \in Instances \ {i} : tx'[q] = tx[q]
      /\ \A q \in Instances \ {i} : ready'[q] = ready[q]
      /\ \A q \in Instances \ {i} : lastByInstance'[q] = lastByInstance[q]
  BY ZenonT(30) DEF LoadTxn, IndInv, TypeOK, TxTypeOK, ReferencesTypeOK
<1>4. ASSUME NEW q \in Instances
      PROVE  /\ ready'[i][q] = IF q = j THEN 0 ELSE ready[i][q]
             /\ lastByInstance'[i][q] =
                  IF q = j THEN ready[i][j] ELSE lastByInstance[i][q]
  <2>1. /\ ready' = [ready EXCEPT ![i][j] = 0]
        /\ lastByInstance' = [lastByInstance EXCEPT ![i][j] = ready[i][j]]
    BY ZenonT(30) DEF LoadTxn
  <2>2. /\ ready \in [Instances -> ByInstance]
        /\ lastByInstance \in [Instances -> ByInstance]
    BY Zenon DEF IndInv, TypeOK, ReferencesTypeOK
  <2> QED
    BY ONLY <2>1, <2>2, i \in Instances, j \in Instances, q \in Instances, Zenon
    DEF ByInstance
<1>5. PICK old : /\ db'[i] = Update(old, snap) /\ old \in {db[i], DumpedDB(i)}
                 /\ \A q \in Instances \ {i} : db'[q] = db[q]
  <2>1. /\ db'[i] = LoadedDB(i, snap)
        /\ \A q \in Instances \ {i} : db'[q] = db[q]
    BY Zenon DEF LoadTxn, IndInv, TypeOK, LMDBTypeOK
  <2>2. CASE SchemaTracksChanges \/ ~localChanged(i)
    BY <2>1, <2>2, Zenon DEF LoadedDB
  <2>3. CASE ~SchemaTracksChanges /\ localChanged(i)
    BY <2>1, <2>3, Zenon DEF LoadedDB, DumpedDB
  <2> QED
    BY <2>2, <2>3, Zenon
<1>6. /\ db[i] \in DB /\ db'[i] \in DB /\ old \in DB
      /\ Covers(old, db[i])
  BY <1>5, LocalCovers, Zenon DEF IndInv, TypeOK, LMDBTypeOK
<1>7. Covers(db'[i], db[i]) /\ Covers(db'[i], snap)
  <2>1. PICK s : s = snap /\ s \in DB
    BY <1>2, Zenon
  <2>2. Covers(Update(old, s), old) /\ Covers(Update(old, s), s)
    BY <1>6, <2>1, UpdateCovers, Zenon
  <2>3. Covers(db'[i], old) /\ Covers(db'[i], s)
    BY <1>5, <2>1, <2>2, Zenon
  <2> QED
    BY <1>6, <2>1, <2>3, CoversTransitive, Zenon
<1>8. ASSUME NEW x \in DB, Covers(db[i], x) \/ Covers(snap, x)
      PROVE  Covers(db'[i], x)
  BY <1>2, <1>6, <1>7, <1>8, CoversTransitive, Zenon
<1>9. \A q \in Instances : \A n \in 1..Len(storage[q]) : storage[q][n] \in DB
  BY DBTypes, Zenon DEF IndInv
<1>10. \A n \in 1..ready[i][j] : Covers(db'[i], storage[j][n])
  <2> SUFFICES ASSUME NEW n \in 1..ready[i][j] PROVE Covers(snap, storage[j][n])
    BY <1>2, <1>8, <1>9, DBTypes, SMTT(30) DEF IndInv
  <2> QED
    BY <1>2, Zenon DEF IndInv, SnapshotsGrow
<1> HIDE DEF snap
<1>11. DownIsForgotten' /\ ShadowIsFresh' /\ SnapshotsGrow' /\ CommittedIsMerged'
  <2>1. DownIsForgotten'
    BY <1>1, <1>3, ZenonT(30) DEF IndInv, DownIsForgotten
  <2>2. ShadowIsFresh'
    BY <1>1, <1>3, ZenonT(30) DEF IndInv, ShadowIsFresh
  <2>3. SnapshotsGrow' /\ CommittedIsMerged'
    BY <1>1, Zenon DEF IndInv, SnapshotsGrow, CommittedIsMerged
  <2> QED
    BY <2>1, <2>2, <2>3, Zenon
<1>12. OwnIsCovered'
  <2>1. ASSUME i \in waitingForInstances'[i]
        PROVE  /\ storage[i] # << >> /\ seen[i][i] = Len(storage[i])
               /\ ready'[i][i] \in {0, Len(storage[i])}
    BY <1>1, <1>4, <2>1, ZenonT(30) DEF IndInv, OwnIsCovered
  <2>2. ASSUME i \notin waitingForInstances'[i]
        PROVE  \A n \in 1..Len(storage[i]) : Covers(db'[i], storage[i][n])
    <3>1. CASE i \in waitingForInstances[i]
      <4>1. j = i
        BY <1>1, <2>2, <3>1, Zenon
      <4>2. ready[i][j] = Len(storage[i])
        BY <1>2, <3>1, <4>1, SMTT(30) DEF IndInv, OwnIsCovered
      <4> QED
        BY <1>10, <4>1, <4>2, Zenon
    <3>2. CASE i \notin waitingForInstances[i]
      BY <1>1, <1>8, <1>9, <3>2, ZenonT(30) DEF IndInv, OwnIsCovered
    <3> QED
      BY <3>1, <3>2, Zenon
  <2>3. ASSUME NEW q \in Instances \ {i}
        PROVE  /\ q \in waitingForInstances'[q] =>
                    /\ storage[q] # << >>
                    /\ seen[q][q] = Len(storage[q])
                    /\ ready'[q][q] \in {0, Len(storage[q])}
                    /\ pc'[q] \notin {"send", "sendinfo", "store"}
               /\ pc'[q] \notin {"down", "list"} /\ q \notin waitingForInstances'[q] =>
                    \A n \in 1..Len(storage[q]) : Covers(db'[q], storage[q][n])
               /\ pc'[q] \in {"sendinfo", "store"} =>
                    /\ Covers(db'[q], tx'[q].db)
                    /\ \A n \in 1..Len(storage[q]) : Covers(tx'[q].db, storage[q][n])
    BY <1>1, <1>3, <1>5, ZenonT(30) DEF IndInv, OwnIsCovered
  <2>4. pc'[i] = "loadinfo" /\ storage' = storage /\ seen' = seen
    BY <1>1, Zenon
  <2> QED
    BY ONLY <2>1, <2>2, <2>3, <2>4, i \in Instances, ZenonT(30) DEF OwnIsCovered
<1>13. LoadedIsCovered'
  <2>1. ASSUME NEW q \in Instances, lastByInstance'[i][q] # 0
        PROVE  Covers(db'[i], storage[q][lastByInstance'[i][q]])
    <3>1. CASE q = j
      BY <1>4, <1>7, <3>1, Zenon DEF snap
    <3>2. CASE q # j
      <4>1. lastByInstance'[i][q] = lastByInstance[i][q]
        BY <1>4, <3>2, Zenon
      <4>2. lastByInstance[i][q] \in 1..Len(storage[q])
        BY <2>1, <4>1, References, DBTypes, SMTT(30) DEF IndInv
      <4> QED
        BY <1>8, <1>9, <2>1, <4>1, <4>2, Zenon DEF IndInv, LoadedIsCovered
    <3> QED
      BY <3>1, <3>2, Zenon
  <2>2. ASSUME NEW p \in Instances \ {i}, NEW q \in Instances,
               lastByInstance'[p][q] # 0
        PROVE  /\ Covers(db'[p], storage[q][lastByInstance'[p][q]])
               /\ pc'[p] \in {"sendinfo", "store"} =>
                    Covers(tx'[p].db, storage[q][lastByInstance'[p][q]])
    BY <1>1, <1>3, <1>5, <2>2, ZenonT(30) DEF IndInv, LoadedIsCovered
  <2>3. pc'[i] \notin {"sendinfo", "store"}
    BY <1>1, Zenon
  <2>4. storage' = storage
    BY <1>1, Zenon
  <2> QED
    BY ONLY <2>1, <2>2, <2>3, <2>4, Zenon DEF LoadedIsCovered
<1>14. ListedIsCovered'
  <2>1. ASSUME NEW q \in Instances, listedAtStart[i][q] # 0,
               q \notin waitingForInstances'[i]
        PROVE  Covers(db'[i], storage[q][listedAtStart[i][q]])
    <3>1. listedAtStart[i][q] \in 1..Len(storage[q])
      <4>1. TypeOK /\ ReferencesExist
        BY Zenon DEF IndInv
      <4>2. /\ listedAtStart[i][q] \in 0..Len(storage[q])
            /\ Len(storage[q]) \in Nat
        BY <4>1, References, DBTypes, ZenonT(30)
      <4> QED
        BY ONLY <2>1, <4>2
    <3>2. CASE q = j
      <4>1. listedAtStart[i][j] \in 1..ready[i][j]
        BY <1>2, <3>1, <3>2, DBTypes, SMTT(30) DEF IndInv, ListedIsCovered
      <4> QED
        BY <1>10, <3>2, <4>1, Zenon
    <3>3. CASE q # j
      BY <1>1, <1>8, <1>9, <2>1, <3>1, <3>3, Zenon DEF IndInv, ListedIsCovered
    <3> QED
      BY <3>2, <3>3, Zenon
  <2>2. \A q \in Instances : ready'[i][q] # 0 => listedAtStart[i][q] <= ready'[i][q]
    BY <1>4, Zenon DEF IndInv, ListedIsCovered
  <2>3. "pass" \in passed[i] => waitingForInstances'[i] = {}
    BY <1>1, Zenon DEF IndInv, ListedIsCovered
  <2>4. ASSUME NEW p \in Instances \ {i}, NEW q \in Instances
        PROVE  /\ ready'[p][q] # 0 => listedAtStart[p][q] <= ready'[p][q]
               /\ listedAtStart[p][q] # 0 /\ q \notin waitingForInstances'[p] =>
                    Covers(db'[p], storage[q][listedAtStart[p][q]])
               /\ "pass" \in passed[p] => waitingForInstances'[p] = {}
    BY <1>1, <1>3, <1>5, ZenonT(30) DEF IndInv, ListedIsCovered
  <2>5. \A p, q \in Instances : listedAtStart[p][q] <= seen[p][q]
    BY Zenon DEF IndInv, ListedIsCovered
  <2>6. UNCHANGED <<storage, seen, listedAtStart, passed>>
    BY <1>1, Zenon
  <2> QED
    BY ONLY <2>1, <2>2, <2>3, <2>4, <2>5, <2>6, i \in Instances, Zenon
    DEF ListedIsCovered
<1> QED
  BY <1>11, <1>12, <1>13, <1>14, Zenon DEF IndInv
-------------------------------------------------------------------------------
(*****************************************************************************)
(* SendOnce preserves IndInv, and what follows from it.                      *)
(*****************************************************************************)
\* What the end of a pass, and of SendOnce, does to the instance and leaves of
\* the others.
LEMMA EndPassEffect ==
  ASSUME TypeOK, NEW i \in Instances, NEW waiting, NEW stages \in SUBSET {"store"},
         EndPass(i, waiting, stages)
  PROVE  /\ pc'[i] \in {"load", "done"}
         /\ "pass" \in passed'[i] => "pass" \in passed[i] \/ waiting = {}
         /\ \A q \in Instances \ {i} : /\ pc'[q] = pc[q] /\ inLoop'[q] = inLoop[q]
                                       /\ passed'[q] = passed[q]
  BY Zenon DEF EndPass, TypeOK, LoopTypeOK

\* What the end of SendOnce does to the loop.
LEMMA SendReturnsEffect ==
  ASSUME TypeOK, NEW i \in Instances, NEW txnID, SendReturns(i, txnID)
  PROVE  /\ pc'[i] \in {"load", "done"}
         /\ "pass" \in passed'[i] =>
              "pass" \in passed[i] \/ waitingForInstances[i] = {}
         /\ \A q \in Instances \ {i} : /\ pc'[q] = pc[q] /\ inLoop'[q] = inLoop[q]
                                       /\ passed'[q] = passed[q]
         /\ waitingForInstances' = waitingForInstances
<1>1. CASE inLoop[i]
  BY <1>1, EndPassEffect, Zenon DEF SendReturns
<1>2. CASE ~inLoop[i]
  BY <1>2 DEF SendReturns, TypeOK, LoopTypeOK
<1> QED
  BY <1>1, <1>2, Zenon

\* The check for changes: an instance that waits for its own old snapshot, which
\* is in the bucket, does not send.
LEMMA CheckPreserves ==
  ASSUME IndInv, TypeOK', ReferencesExist', NEW i \in Instances, Check(i)
  PROVE  IndInv'
<1> USE DEF lmdbVars, sentVars, receiverVars, envVars, historyVars
<1> DEFINE waiting == waitingForInstances[i] \cap SeenInstances(i)
<1>1. /\ pc[i] \in {"load", "check"}
      /\ waitingForInstances'[i] = waiting
      /\ \A q \in Instances \ {i} : waitingForInstances'[q] = waitingForInstances[q]
      /\ UNCHANGED <<storage, db, tx, seen, notified, downloaded, ready,
                     lastByInstance, committed, listedAtStart>>
  <2>1. /\ pc[i] \in {"load", "check"}
        /\ waitingForInstances' = [waitingForInstances EXCEPT ![i] = waiting]
        /\ UNCHANGED <<storage, db, tx, seen, notified, downloaded, ready,
                       lastByInstance, committed, listedAtStart>>
    BY ZenonT(30) DEF Check
  <2>2. waitingForInstances \in [Instances -> SUBSET Instances]
    BY Zenon DEF IndInv, TypeOK, LoopTypeOK
  <2> QED
    BY <2>1, <2>2, ZenonT(30)
<1>2. /\ pc'[i] \in {"load", "done"} \/ (pc'[i] = "send" /\ i \notin waiting)
      /\ "pass" \in passed'[i] => "pass" \in passed[i] \/ waiting = {}
      /\ \A q \in Instances \ {i} : /\ pc'[q] = pc[q] /\ inLoop'[q] = inLoop[q]
                                    /\ passed'[q] = passed[q]
  <2>1. CASE EndPass(i, waiting, {})
    <3>1. TypeOK /\ {} \in SUBSET {"store"} /\ EndPass(i, waiting, {})
      BY <2>1, Zenon DEF IndInv
    <3> HIDE DEF waiting
    <3> QED
      BY ONLY <3>1, EndPassEffect, i \in Instances, ZenonT(30)
  <2>2. CASE /\ pc' = [pc EXCEPT ![i] = "send"] /\ Sends(i, waiting)
             /\ UNCHANGED <<passed, inLoop, nLoads>>
    BY <2>2, ZenonT(30) DEF Sends, IndInv, TypeOK, LoopTypeOK
  <2> QED
    BY <2>1, <2>2, ZenonT(30) DEF Check
<1>3. i \in waitingForInstances[i] => i \in waiting
  <2>1. ASSUME i \in waitingForInstances[i] PROVE seen[i][i] # 0
    <3>1. storage[i] # << >> /\ seen[i][i] = Len(storage[i])
      BY <2>1, ZenonT(30) DEF IndInv, OwnIsCovered
    <3>2. storage[i] \in Seq(DB)
      BY Zenon DEF IndInv, TypeOK, BucketTypeOK
    <3> QED
      BY ONLY <3>1, <3>2
  <2> QED
    BY <2>1, Zenon DEF SeenInstances
<1>4. \A j \in waitingForInstances[i] \ waiting : listedAtStart[i][j] = 0
  <2> SUFFICES ASSUME NEW j \in waitingForInstances[i] \ waiting
               PROVE  listedAtStart[i][j] = 0
    BY Zenon
  <2>1. j \in Instances
    BY Zenon DEF IndInv, TypeOK, LoopTypeOK
  <2>2. seen[i][j] = 0
    BY <2>1, Zenon DEF SeenInstances
  <2> QED
    BY <2>1, <2>2, References, DBTypes, SMTT(30) DEF IndInv, ListedIsCovered
<1>5. waiting \subseteq waitingForInstances[i]
  BY Zenon
<1> HIDE DEF waiting
<1>6. DownIsForgotten' /\ ShadowIsFresh' /\ SnapshotsGrow' /\ CommittedIsMerged'
  BY <1>1, <1>2, ZenonT(30)
  DEF IndInv, DownIsForgotten, ShadowIsFresh, SnapshotsGrow, CommittedIsMerged
<1>7. OwnIsCovered'
  BY <1>1, <1>2, <1>3, <1>5, ZenonT(30) DEF IndInv, OwnIsCovered
<1>8. LoadedIsCovered'
  BY <1>1, <1>2, ZenonT(30) DEF IndInv, LoadedIsCovered
<1>9. ListedIsCovered'
  <2>1. ASSUME NEW p \in Instances, NEW q \in Instances
        PROVE  /\ listedAtStart[p][q] <= seen[p][q]
               /\ ready[p][q] # 0 => listedAtStart[p][q] <= ready[p][q]
    BY Zenon DEF IndInv, ListedIsCovered
  <2>2. ASSUME NEW q \in Instances, listedAtStart[i][q] # 0, q \notin waiting
        PROVE  Covers(db[i], storage[q][listedAtStart[i][q]])
    BY <1>4, <2>2, ZenonT(30) DEF IndInv, ListedIsCovered
  <2>3. "pass" \in passed'[i] => waiting = {}
    BY <1>2, <1>5, ZenonT(30) DEF IndInv, ListedIsCovered
  <2>4. ASSUME NEW p \in Instances \ {i}, NEW q \in Instances
        PROVE  /\ listedAtStart[p][q] # 0 /\ q \notin waitingForInstances'[p] =>
                    Covers(db[p], storage[q][listedAtStart[p][q]])
               /\ "pass" \in passed'[p] => waitingForInstances'[p] = {}
    BY <1>1, <1>2, ZenonT(30) DEF IndInv, ListedIsCovered
  <2>5. /\ waitingForInstances'[i] = waiting
        /\ UNCHANGED <<storage, db, seen, ready, listedAtStart>>
    BY <1>1, Zenon
  <2> QED
    BY ONLY <2>1, <2>2, <2>3, <2>4, <2>5, i \in Instances, ZenonT(30)
    DEF ListedIsCovered
<1> QED
  BY <1>6, <1>7, <1>8, <1>9, Zenon DEF IndInv

\* The transaction of SendOnce: what it dumps is as new as the DBI was, and
\* covers what has been stored and loaded.
LEMMA SendTxnPreserves ==
  ASSUME SchemaTracksChanges \/ SameClocks, IndInv, AllGood, TypeOK',
         ReferencesExist', NEW i \in Instances, SendTxn(i)
  PROVE  IndInv'
<1> USE DEF syncVars, sentVars, receiverVars, envVars
<1>1. /\ pc[i] = "send" /\ pc'[i] = "sendinfo"
      /\ \A q \in Instances \ {i} :
           pc'[q] = pc[q] /\ tx'[q] = tx[q] /\ db'[q] = db[q]
      /\ UNCHANGED <<storage, waitingForInstances, seen, notified, downloaded,
                     ready, lastByInstance, committed, listedAtStart, passed,
                     inLoop>>
  <2>1. /\ pc[i] = "send" /\ pc' = [pc EXCEPT ![i] = "sendinfo"]
        /\ \E d : db' = [db EXCEPT ![i] = d]
        /\ \E t : tx' = [tx EXCEPT ![i] = t]
        /\ UNCHANGED <<storage, waitingForInstances, seen, notified, downloaded,
                       ready, lastByInstance, committed, listedAtStart, passed,
                       inLoop>>
    BY Zenon DEF SendTxn
  <2>2. /\ pc \in [Instances -> Pcs] /\ db \in [Instances -> DB]
        /\ tx \in [Instances -> [txnID : Nat, localChanged : BOOLEAN,
                                 empty : BOOLEAN, db : DB]]
    BY Zenon DEF IndInv, TypeOK, LoopTypeOK, TxTypeOK, LMDBTypeOK
  <2> QED
    BY ONLY <2>1, <2>2, i \in Instances, Zenon
<1>2. PICK d : /\ d = DumpedDB(i) /\ d \in DB /\ db[i] \in DB /\ Covers(d, d)
               /\ Covers(d, db[i])
  BY LocalCovers, CoversReflexive, Zenon DEF IndInv
<1>3. db'[i] = d /\ tx'[i].db = d
  <2>1. db'[i] = d
    BY <1>2, Zenon DEF SendTxn, IndInv, TypeOK, LMDBTypeOK
  <2>2. tx'[i].db = d
    BY <1>2, Zenon DEF SendTxn, IndInv, TypeOK, TxTypeOK
  <2> QED
    BY <2>1, <2>2, Zenon
<1>4. ASSUME NEW x \in DB, Covers(db[i], x) PROVE Covers(d, x)
  BY <1>2, <1>4, CoversTransitive, Zenon
<1>5. \A q \in Instances : \A n \in 1..Len(storage[q]) : storage[q][n] \in DB
  BY DBTypes, Zenon DEF IndInv
<1>6. /\ DownIsForgotten' /\ ShadowIsFresh' /\ SnapshotsGrow'
      /\ CommittedIsMerged'
  <2>1. DownIsForgotten' /\ ShadowIsFresh'
    BY <1>1, ZenonT(30) DEF IndInv, DownIsForgotten, ShadowIsFresh
  <2>2. SnapshotsGrow' /\ CommittedIsMerged'
    BY <1>1, ZenonT(30) DEF IndInv, SnapshotsGrow, CommittedIsMerged
  <2> QED
    BY <2>1, <2>2, Zenon
<1>7. OwnIsCovered'
  <2> SUFFICES ASSUME NEW q \in Instances PROVE OwnIsCovered!(q)'
    BY SMTT(30) DEF OwnIsCovered, Covers
  <2>1. OwnIsCovered!(q)
    BY ZenonT(30) DEF IndInv, OwnIsCovered
  <2>2. CASE q = i
    <3>1. /\ i \notin waitingForInstances[i]
          /\ \A n \in 1..Len(storage[i]) : Covers(db[i], storage[i][n])
      BY <1>1, <2>1, <2>2, Zenon
    <3>2. \A n \in 1..Len(storage[i]) : Covers(d, storage[i][n])
      BY <1>4, <1>5, <3>1, Zenon
    <3> QED
      BY <1>1, <1>2, <1>3, <2>2, <3>1, <3>2, Zenon
  <2>3. CASE q # i
    <3>1. db'[q] = db[q] /\ pc'[q] = pc[q] /\ tx'[q] = tx[q]
      BY <1>1, <2>3, Zenon
    <3> QED
      BY ONLY <1>1, <2>1, <3>1, Zenon
  <2> QED
    BY <2>2, <2>3, Zenon
<1>8. LoadedIsCovered'
  <2> SUFFICES ASSUME NEW q \in Instances, NEW j \in Instances,
                      lastByInstance'[q][j] # 0
               PROVE  /\ Covers(db'[q], storage'[j][lastByInstance'[q][j]])
                      /\ pc'[q] \in {"sendinfo", "store"} =>
                           Covers(tx'[q].db, storage'[j][lastByInstance'[q][j]])
    BY Zenon DEF LoadedIsCovered, Covers
  <2>1. lastByInstance[q][j] # 0 /\ UNCHANGED <<storage, lastByInstance>>
    BY <1>1, Zenon
  <2>2. /\ Covers(db[q], storage[j][lastByInstance[q][j]])
        /\ pc[q] \in {"sendinfo", "store"} =>
             Covers(tx[q].db, storage[j][lastByInstance[q][j]])
    BY <2>1, Zenon DEF IndInv, LoadedIsCovered
  <2>3. lastByInstance[q][j] \in 1..Len(storage[j])
    BY <2>1, References, DBTypes, SMTT(30) DEF IndInv
  <2>4. CASE q = i
    BY <1>3, <1>4, <1>5, <2>1, <2>2, <2>3, <2>4, Zenon
  <2>5. CASE q # i
    BY <1>1, <2>1, <2>2, <2>5, Zenon
  <2> QED
    BY <2>4, <2>5, Zenon
<1>9. ListedIsCovered'
  <2> SUFFICES ASSUME NEW q \in Instances, NEW j \in Instances
               PROVE  ListedIsCovered!(q, j)'
    BY Zenon DEF ListedIsCovered, Covers
  <2>1. ListedIsCovered!(q, j)
    BY ZenonT(30) DEF IndInv, ListedIsCovered
  <2>2. ASSUME listedAtStart[q][j] # 0, j \notin waitingForInstances[q]
        PROVE  Covers(db'[q], storage[j][listedAtStart[q][j]])
    <3>1. Covers(db[q], storage[j][listedAtStart[q][j]])
      BY <2>1, <2>2, Zenon
    <3>2. listedAtStart[q][j] \in 1..Len(storage[j])
      BY <2>2, References, DBTypes, SMTT(30) DEF IndInv
    <3>3. CASE q = i
      BY <1>3, <1>4, <1>5, <3>1, <3>2, <3>3, Zenon
    <3>4. CASE q # i
      BY <1>1, <3>1, <3>4, Zenon
    <3> QED
      BY <3>3, <3>4, Zenon
  <2> QED
    BY <1>1, <2>1, <2>2, Zenon
<1> QED
  BY <1>6, <1>7, <1>8, <1>9, Zenon DEF IndInv

\* env.Info() after the transaction of SendOnce.
LEMMA SendInfoPreserves ==
  ASSUME IndInv, TypeOK', ReferencesExist', NEW i \in Instances, SendInfo(i)
  PROVE  IndInv'
<1> USE DEF lmdbVars, syncVars, sentVars, receiverVars, envVars, historyVars
<1>1. /\ pc[i] = "sendinfo"
      /\ UNCHANGED <<storage, db, seen, notified, downloaded, ready,
                     lastByInstance, committed, listedAtStart>>
  BY Zenon DEF SendInfo
<1>2. CASE SendReturns(i, AdjustedTxnID(i)) /\ tx' = [tx EXCEPT ![i] = NoTx]
  <2>1. \A q \in Instances \ {i} : tx'[q] = tx[q]
    BY <1>2, Zenon DEF IndInv, TypeOK, TxTypeOK
  <2>2. /\ pc'[i] \in {"load", "done"}
        /\ "pass" \in passed'[i] =>
             "pass" \in passed[i] \/ waitingForInstances[i] = {}
        /\ \A q \in Instances \ {i} : /\ pc'[q] = pc[q] /\ inLoop'[q] = inLoop[q]
                                      /\ passed'[q] = passed[q]
        /\ waitingForInstances' = waitingForInstances
    BY <1>2, SendReturnsEffect, ZenonT(30) DEF IndInv
  <2>3. "pass" \in passed'[i] => waitingForInstances[i] = {}
    BY <2>2, ZenonT(30) DEF IndInv, ListedIsCovered
  <2> QED
    BY <1>1, <2>1, <2>2, <2>3, LoopStepPreserves, Zenon
<1>3. CASE /\ tx' = [tx EXCEPT ![i].txnID = AdjustedTxnID(i)]
           /\ pc' = [pc EXCEPT ![i] = "store"] /\ UNCHANGED syncVars
  <2>1. \A q \in Instances : tx'[q].db = tx[q].db
    BY <1>3, Zenon DEF IndInv, TypeOK, TxTypeOK
  <2>2. pc'[i] = "store" /\ \A q \in Instances \ {i} : pc'[q] = pc[q]
    BY <1>3, Zenon DEF IndInv, TypeOK, LoopTypeOK
  <2>3. DownIsForgotten' /\ ShadowIsFresh' /\ SnapshotsGrow' /\ CommittedIsMerged'
    BY <1>1, <1>3, <2>2, ZenonT(30)
    DEF IndInv, DownIsForgotten, ShadowIsFresh, SnapshotsGrow, CommittedIsMerged
  <2>4. OwnIsCovered'
    BY <1>1, <1>3, <2>1, <2>2, ZenonT(30) DEF IndInv, OwnIsCovered
  <2>5. LoadedIsCovered' /\ ListedIsCovered'
    BY <1>1, <1>3, <2>1, <2>2, ZenonT(30) DEF IndInv, LoadedIsCovered, ListedIsCovered
  <2> QED
    BY <2>3, <2>4, <2>5, Zenon DEF IndInv
<1> QED
  BY <1>2, <1>3, Zenon DEF SendInfo

\* The store and the rest of SendOnce: the new snapshot covers the earlier ones
\* and all that was loaded.
LEMMA StorePreserves ==
  ASSUME IndInv, TypeOK', ReferencesExist', NEW i \in Instances, Store(i)
  PROVE  IndInv'
<1> USE DEF lmdbVars, receiverVars, envVars, historyVars
<1>1. /\ pc[i] = "store"
      /\ UNCHANGED <<db, seen, notified, downloaded, ready, lastByInstance,
                     listedAtStart>>
  BY Zenon DEF Store
<1>2. \A q \in Instances \ {i} : tx'[q] = tx[q] /\ committed'[q] = committed[q]
  BY Zenon DEF Store, IndInv, TypeOK, TxTypeOK, ReferencesTypeOK
<1>3. committed'[i] = lastByInstance[i]
  BY Zenon DEF Store, IndInv, TypeOK, ReferencesTypeOK
<1>4. /\ pc'[i] \in {"load", "done"}
      /\ "pass" \in passed'[i] =>
           "pass" \in passed[i] \/ waitingForInstances[i] = {}
      /\ \A q \in Instances \ {i} : /\ pc'[q] = pc[q] /\ inLoop'[q] = inLoop[q]
                                    /\ passed'[q] = passed[q]
      /\ waitingForInstances' = waitingForInstances
  BY SendReturnsEffect, Zenon DEF Store, IndInv
<1>5. /\ Len(storage'[i]) = Len(storage[i]) + 1
      /\ storage'[i][Len(storage[i]) + 1] = tx[i].db
      /\ \A n \in 1..Len(storage[i]) : storage'[i][n] = storage[i][n]
      /\ \A q \in Instances \ {i} : storage'[q] = storage[q]
  BY StoreEffect, Zenon DEF IndInv
<1>6. \A q \in Instances : Len(storage[q]) \in Nat
  BY DBTypes, Zenon DEF IndInv
<1>7. \A q \in Instances : \A n \in 1..Len(storage[q]) :
        /\ storage'[q][n] = storage[q][n]
        /\ n \in 1..Len(storage'[q])
  BY <1>5, <1>6
<1>8. Covers(tx[i].db, tx[i].db) /\ Covers(db[i], tx[i].db)
  BY <1>1, DBTypes, CoversReflexive, ZenonT(30) DEF IndInv, OwnIsCovered
<1>9. \A n \in 1..Len(storage'[i]) :
        /\ Covers(db[i], storage'[i][n]) /\ Covers(tx[i].db, storage'[i][n])
  <2>1. i \notin waitingForInstances[i]
    BY <1>1, ZenonT(30) DEF IndInv, OwnIsCovered
  <2>2. \A n \in 1..Len(storage[i]) :
          Covers(db[i], storage[i][n]) /\ Covers(tx[i].db, storage[i][n])
    <3>1. OwnIsCovered!(i)
      BY ZenonT(30) DEF IndInv, OwnIsCovered
    <3> QED
      BY ONLY <1>1, <2>1, <3>1, Zenon
  <2>3. \A n \in 1..Len(storage'[i]) :
          n \in 1..Len(storage[i]) \/ n = Len(storage[i]) + 1
    BY ONLY <1>5, <1>6, i \in Instances
  <2> QED
    BY <1>5, <1>8, <2>2, <2>3, Zenon
<1>10. DownIsForgotten' /\ ShadowIsFresh'
  <2>1. DownIsForgotten'
    BY <1>1, <1>4, Zenon DEF IndInv, DownIsForgotten
  <2>2. \A q \in Instances \ {i} : storage'[q] = storage[q]
    BY <1>5, Zenon
  <2>3. ASSUME NEW q \in Instances, pc'[q] = "shadow" PROVE ShadowIsFresh!(q)'
    <3>1. q # i
      BY <1>4, <2>3, Zenon
    <3>2. pc[q] = "shadow" /\ storage'[q] = storage[q] /\ passed'[q] = passed[q]
      BY <1>4, <2>2, <2>3, <3>1, Zenon
    <3>3. ShadowIsFresh!(q)
      BY Zenon DEF IndInv, ShadowIsFresh
    <3> QED
      BY <1>1, <1>4, <3>2, <3>3, Zenon
  <2>4. ShadowIsFresh'
    BY <2>3, Zenon DEF ShadowIsFresh
  <2> QED
    BY <2>1, <2>4, Zenon
<1>11. OwnIsCovered'
  <2>1. i \notin waitingForInstances[i]
    BY <1>1, ZenonT(30) DEF IndInv, OwnIsCovered
  <2> SUFFICES ASSUME NEW q \in Instances
               PROVE  OwnIsCovered!(q)'
    BY DEF OwnIsCovered, Covers
  <2>2. CASE q = i
    BY <1>1, <1>4, <1>9, <2>1, <2>2, Zenon
  <2>3. CASE q # i
    <3>1. /\ pc'[q] = pc[q] /\ tx'[q] = tx[q] /\ storage'[q] = storage[q]
          /\ waitingForInstances' = waitingForInstances
      BY <1>2, <1>4, <1>5, <2>3, Zenon
    <3>2. OwnIsCovered!(q)
      BY Zenon DEF IndInv, OwnIsCovered
    <3> QED
      BY ONLY <1>1, <3>1, <3>2, Zenon
  <2> QED
    BY <2>2, <2>3, Zenon
<1>12. SnapshotsGrow'
  <2> SUFFICES ASSUME NEW q \in Instances, NEW n \in 1..Len(storage'[q]),
                      NEW m \in 1..n
               PROVE  Covers(storage'[q][n], storage'[q][m])
    BY Zenon DEF SnapshotsGrow
  <2>1. CASE n \in 1..Len(storage[q])
    <3>1. m \in 1..Len(storage[q])
      BY <1>6, <2>1
    <3> QED
      BY <1>7, <2>1, <3>1, Zenon DEF IndInv, SnapshotsGrow
  <2>2. CASE n \notin 1..Len(storage[q])
    <3>1. q = i /\ n = Len(storage[i]) + 1
      BY <1>5, <1>6, <2>2, SMTT(30)
    <3>2. m \in 1..Len(storage'[i])
      BY <1>5, <1>6, <3>1, Zenon
    <3> QED
      BY <1>5, <1>9, <3>1, <3>2, Zenon
  <2> QED
    BY <2>1, <2>2, Zenon
<1>13. LoadedIsCovered'
  <2> SUFFICES ASSUME NEW p \in Instances, NEW q \in Instances,
                      lastByInstance[p][q] # 0
               PROVE  LET n == lastByInstance[p][q]
                      IN  /\ storage'[q][n] = storage[q][n]
                          /\ Covers(db[p], storage[q][n])
                          /\ pc'[p] \in {"sendinfo", "store"} =>
                               p # i /\ Covers(tx[p].db, storage[q][n])
    BY <1>1, <1>2, ZenonT(30) DEF LoadedIsCovered
  <2>1. lastByInstance[p][q] \in 1..Len(storage[q])
    BY <1>6, References DEF IndInv
  <2> QED
    BY <1>4, <1>7, <2>1, ZenonT(30) DEF IndInv, LoadedIsCovered
<1>14. ListedIsCovered'
  <2> SUFFICES ASSUME NEW p \in Instances, NEW q \in Instances
               PROVE  /\ listedAtStart[p][q] # 0 /\ q \notin waitingForInstances[p]
                           => Covers(db[p], storage'[q][listedAtStart[p][q]])
                      /\ "pass" \in passed'[p] => waitingForInstances[p] = {}
    BY <1>1, <1>4, Zenon DEF IndInv, ListedIsCovered
  <2>1. ASSUME listedAtStart[p][q] # 0, q \notin waitingForInstances[p]
        PROVE  Covers(db[p], storage'[q][listedAtStart[p][q]])
    <3>1. listedAtStart[p][q] \in 1..Len(storage[q])
      BY <1>6, <2>1, References DEF IndInv
    <3> QED
      BY <1>7, <2>1, <3>1, ZenonT(30) DEF IndInv, ListedIsCovered
  <2> QED
    BY <1>4, <2>1, Zenon DEF IndInv, ListedIsCovered
<1>15. CommittedIsMerged'
  <2> SUFFICES ASSUME NEW p \in Instances, NEW q \in Instances,
                      committed'[p][q] # 0
               PROVE  \E n \in 1..Len(storage'[p]) :
                        Covers(storage'[p][n], storage'[q][committed'[p][q]])
    BY ZenonT(30) DEF CommittedIsMerged
  <2>1. CASE p = i
    <3>1. committed'[p][q] \in 1..Len(storage[q])
      BY <1>3, <1>6, <2>1, References, SMTT(30) DEF IndInv
    <3>2. Covers(tx[i].db, storage[q][committed'[p][q]])
      BY <1>1, <1>3, <2>1, Zenon DEF IndInv, LoadedIsCovered
    <3>3. Len(storage[i]) + 1 \in 1..Len(storage'[i])
      BY <1>5, <1>6
    <3> QED
      BY <1>5, <1>7, <2>1, <3>1, <3>2, <3>3, ZenonT(30)
  <2>2. CASE p # i
    <3>1. committed'[p][q] = committed[p][q]
      BY <1>2, <2>2, Zenon
    <3>2. committed'[p][q] \in 1..Len(storage[q])
      BY <1>6, <3>1, References, SMTT(30) DEF IndInv
    <3>3. PICK n \in 1..Len(storage[p]) :
            Covers(storage[p][n], storage[q][committed'[p][q]])
      BY <3>1, Zenon DEF IndInv, CommittedIsMerged
    <3> QED
      BY <1>7, <3>2, <3>3, Zenon
  <2> QED
    BY <2>1, <2>2, Zenon
<1> QED
  BY <1>10, <1>11, <1>12, <1>13, <1>14, <1>15, Zenon DEF IndInv

\* Every step of a cluster in native mode preserves the invariant.
LEMMA IndInvStep ==
  ASSUME SchemaTracksChanges \/ SameClocks, IndInv, AllGood, [Next]_vars
  PROVE  IndInv'
<1> USE DEF lmdbVars, syncVars, sentVars, receiverVars, envVars, historyVars
<1>1. TypeOK' /\ ReferencesExist'
  BY TypeStep, Zenon DEF IndInv
<1>2. \A q \in Instances : Covers(db[q], db[q])
  BY DBTypes, CoversReflexive, Zenon DEF IndInv
<1>3. CASE UNCHANGED vars
  <2>1. \A q \in Instances : Covers(db'[q], db[q])
    BY <1>2, <1>3, Zenon DEF vars
  <2> QED
    BY <1>1, <1>3, <2>1, GrowthPreserves, Zenon DEF vars
<1>4. ASSUME NEW i \in Instances, NEW k \in Keys,
             NEW kind \in {"live", "deleted"}, NEW v \in Values,
             NativeWrite(i, k, kind, v)
      PROVE  IndInv'
  <2>1. \A q \in Instances : Covers(db'[q], db[q])
    BY <1>4, NativeWriteCovers, ZenonT(30) DEF IndInv
  <2>2. UNCHANGED <<storage, pc, inLoop, waitingForInstances, seen, notified,
                    downloaded, ready, lastByInstance, committed, tx,
                    listedAtStart, passed>>
    BY <1>4, Zenon DEF NativeWrite, AppCommit
  <2> QED
    BY <1>1, <2>1, <2>2, GrowthPreserves, ZenonT(30)
<1>18. ASSUME NEW i \in Instances, AppCommit(i), UNCHANGED db PROVE IndInv'
  <2>1. \A q \in Instances : Covers(db'[q], db[q])
    BY <1>2, <1>18, Zenon
  <2>2. UNCHANGED <<storage, pc, inLoop, waitingForInstances, seen, notified,
                    downloaded, ready, lastByInstance, committed, tx,
                    listedAtStart, passed>>
    BY <1>18, Zenon DEF AppCommit
  <2> QED
    BY <1>1, <2>1, <2>2, GrowthPreserves, ZenonT(30)
<1>5. ASSUME NEW i \in Instances, NEW k \in Keys, NEW v \in AppValues,
             AppPut(i, k, v)
      PROVE  IndInv'
  BY <1>4, <1>5, <1>18, SyncerAssumption, Zenon DEF AppPut
<1>6. ASSUME NEW i \in Instances, NEW k \in Keys, AppDelete(i, k)
      PROVE  IndInv'
  BY <1>4, <1>6, <1>18, ValuesAssumption, Zenon DEF AppDelete, Empty
<1>7. ASSUME NEW i \in Instances, Crash(i) \/ LoseLMDB(i) \/ Start(i)
      PROVE  IndInv'
  BY <1>1, <1>7, RestartPreserves, Zenon
<1>8. ASSUME NEW i \in Instances, InitialListing(i) PROVE IndInv'
  BY <1>1, <1>8, InitialListingPreserves, Zenon
<1>9. ASSUME NEW i \in Instances, ShadowInit(i) PROVE IndInv'
  BY <1>1, <1>9, ShadowInitPreserves, Zenon
<1>10. ASSUME NEW i \in Instances, List(i) \/ \E j \in Instances : Download(i, j)
       PROVE  IndInv'
  BY <1>1, <1>10, ReceiverPreserves, Zenon
<1>11. ASSUME NEW i \in Instances, NEW j \in Instances, LoadTxn(i, j)
       PROVE  IndInv'
  BY <1>1, <1>11, LoadTxnPreserves, Zenon
<1>12. ASSUME NEW i \in Instances, LoadInfo(i) PROVE IndInv'
  <2>1. /\ pc[i] = "loadinfo" /\ pc'[i] \in {"load", "check"}
        /\ \A q \in Instances \ {i} : pc'[q] = pc[q] /\ tx'[q] = tx[q]
        /\ UNCHANGED <<storage, db, waitingForInstances, seen, notified,
                       downloaded, ready, lastByInstance, committed,
                       listedAtStart, passed, inLoop>>
    BY <1>12, Zenon DEF LoadInfo, IndInv, TypeOK, LoopTypeOK, TxTypeOK
  <2>2. "pass" \in passed'[i] => waitingForInstances[i] = {}
    BY <2>1, ZenonT(30) DEF IndInv, ListedIsCovered
  <2> QED
    BY <1>1, <2>1, <2>2, LoopStepPreserves, ZenonT(30)
<1>13. ASSUME NEW i \in Instances, TimerExpires(i) PROVE IndInv'
  <2>1. \A q \in Instances : Covers(db'[q], db[q])
    BY <1>2, <1>13, ZenonT(30) DEF TimerExpires
  <2> QED
    BY <1>1, <1>13, <2>1, GrowthPreserves, ZenonT(30) DEF TimerExpires
<1>14. ASSUME NEW i \in Instances, Check(i) PROVE IndInv'
  BY <1>1, <1>14, CheckPreserves, Zenon
<1>15. ASSUME NEW i \in Instances, SendTxn(i) PROVE IndInv'
  BY <1>1, <1>15, SendTxnPreserves, Zenon
<1>16. ASSUME NEW i \in Instances, SendInfo(i) PROVE IndInv'
  BY <1>1, <1>16, SendInfoPreserves, Zenon
<1>17. ASSUME NEW i \in Instances, Store(i) PROVE IndInv'
  BY <1>1, <1>17, StorePreserves, Zenon
<1> QED
  BY <1>3, <1>5, <1>6, <1>7, <1>8, <1>9, <1>10, <1>11, <1>12, <1>13, <1>14,
     <1>15, <1>16, <1>17, Zenon DEF Next

\* The invariant holds in every state of a cluster in native mode, and of one in
\* shadow mode whose clocks agree.
THEOREM IndInvAlways ==
  ASSUME SchemaTracksChanges \/ SameClocks
  PROVE  Spec => []IndInv
<1>1. Init => IndInv
  <2> SUFFICES ASSUME Init PROVE IndInv
    BY Zenon
  <2>1. TypeOK /\ ReferencesExist
    BY InitialTypeOK, Zenon
  <2>2. DownIsForgotten /\ ShadowIsFresh
    BY Zenon DEF Init, DownIsForgotten, ShadowIsFresh
  <2>3. OwnIsCovered /\ SnapshotsGrow
    BY DEF Init, OwnIsCovered, SnapshotsGrow
  <2>4. LoadedIsCovered /\ ListedIsCovered /\ CommittedIsMerged
    BY DEF Init, LoadedIsCovered, ListedIsCovered, CommittedIsMerged,
           NoneByInstance
  <2> QED
    BY <2>1, <2>2, <2>3, <2>4, Zenon DEF IndInv
<1>2. IndInv /\ AllGood /\ [Next]_vars => IndInv'
  BY IndInvStep, Zenon
<1> QED
  BY <1>1, <1>2, GoodAlways, PTL DEF Spec

\* A later snapshot of an instance is at least as new as an earlier one, across
\* crashes and the loss of the LMDB: a receiver may load the latest one only.
THEOREM OwnSnapshotsGrowAlways ==
  ASSUME SchemaTracksChanges \/ SameClocks
  PROVE  Spec => []OwnSnapshotsGrow
<1>1. IndInv => OwnSnapshotsGrow
  <2> SUFFICES ASSUME IndInv, NEW i \in Instances, NEW n \in 2..Len(storage[i])
               PROVE  Covers(storage[i][n], storage[i][n-1])
    BY ZenonT(30) DEF OwnSnapshotsGrow
  <2>1. n \in 1..Len(storage[i]) /\ n - 1 \in 1..n
    <3>1. Len(storage[i]) \in Nat
      BY DBTypes, ZenonT(30) DEF IndInv
    <3> QED
      BY ONLY <3>1, n \in 2..Len(storage[i])
  <2> QED
    BY <2>1, ZenonT(30) DEF IndInv, SnapshotsGrow
<1> QED
  BY <1>1, IndInvAlways, PTL

\* What SendOnce reports to the cleaner has been merged into a stored snapshot.
THEOREM CommittedIsMergedAlways ==
  ASSUME SchemaTracksChanges \/ SameClocks
  PROVE  Spec => []CommittedIsMerged
<1>1. IndInv => CommittedIsMerged
  BY Zenon DEF IndInv
<1> QED
  BY <1>1, IndInvAlways, PTL

\* A completed pass means that the LMDB has all that was listed at the start.
THEOREM ReadyMeansMergedAlways ==
  ASSUME SchemaTracksChanges \/ SameClocks
  PROVE  Spec => []ReadyMeansMerged
<1>1. IndInv => ReadyMeansMerged
  BY ZenonT(30) DEF IndInv, ReadyMeansMerged, ListedIsCovered
<1> QED
  BY <1>1, IndInvAlways, PTL
-------------------------------------------------------------------------------
(*****************************************************************************)
(* Native mode: the instances implement ReplicatedMap.                       *)
(*****************************************************************************)
\* The current format version is above the one in which empty values were
\* deletions.
LEMMA MergeIsNewest ==
  ASSUME NEW old \in Entry \cup {Absent}, NEW new \in Entry, WellFormed(new)
  PROVE  Merge(old, new, 0, 0, CurrentFormatVersion) = Map!Newest(old, new)
<1>1. new.ts \in Nat /\ new.val \in Nat /\ new # Absent
  BY EntryFields, AbsentIsNoEntry, Zenon
<1>2. EffectiveTS(new, 0) = new.ts
  BY Zenon DEF EffectiveTS
<1>3. addHeader(new.val, new.ts, new.kind = "deleted", 0, CurrentFormatVersion) = new
  BY DEF addHeader, WellFormed, Entry, CurrentFormatVersion, Empty
<1>4. CASE old = Absent
  BY <1>1, <1>2, <1>3, <1>4 DEF Merge, StaleDeletion, Map!Newest, Leq
<1>5. CASE old \in Entry
  <2>1. old.ts \in Nat /\ old.val \in Nat /\ old # Absent
    BY <1>5, EntryFields, AbsentIsNoEntry, Zenon
  <2>2. KeepsOld(old, new, 0) <=> Leq(new, old)
    BY <1>1, <1>2, <2>1 DEF KeepsOld, Leq
  <2> QED
    BY <1>2, <1>3, <2>1, <2>2, Zenon DEF Merge, Map!Newest
<1> QED
  BY <1>4, <1>5, Zenon

\* strategy.Update is the join of ReplicatedMap.
LEMMA UpdateIsJoin ==
  ASSUME NEW old \in DB, NEW snap \in DB, \A k \in Keys : WellFormed(snap[k])
  PROVE  /\ Update(old, snap) = Map!Join(old, snap)
         /\ \A k \in Keys : WellFormed(old[k]) => WellFormed(Update(old, snap)[k])
<1>1. ASSUME NEW k \in Keys
      PROVE  (IF snap[k] = Absent THEN old[k]
              ELSE Merge(old[k], snap[k], 0, 0, CurrentFormatVersion))
                = Map!Newest(old[k], snap[k])
  <2>1. old[k] \in Entry \cup {Absent} /\ snap[k] \in Entry \cup {Absent}
    BY Zenon DEF DB
  <2>2. CASE snap[k] = Absent
    BY <2>2, Zenon DEF Map!Newest, Leq
  <2>3. CASE snap[k] # Absent
    BY <2>1, <2>3, MergeIsNewest, Zenon
  <2> QED
    BY <2>2, <2>3, Zenon
<1>2. Update(old, snap) = Map!Join(old, snap)
  BY <1>1, Zenon DEF Update, Map!Join
<1>3. \A k \in Keys : Map!Join(old, snap)[k] = Map!Newest(old[k], snap[k])
  BY Zenon DEF Map!Join
<1> QED
  BY <1>2, <1>3, Zenon DEF Map!Newest

\* In native mode a step is of one of five kinds, or leaves the DBIs, the bucket
\* and the clock alone and at most forgets a snapshot being sent.
LEMMA StepKinds ==
  ASSUME SchemaTracksChanges, IndInv, [Next]_vars
  PROVE  \/ \E i \in Instances : \E k \in Keys : \E kind \in {"live", "deleted"} :
              \E v \in Values :
                (kind = "deleted" => v = Empty) /\ NativeWrite(i, k, kind, v)
         \/ \E i, j \in Instances : LoadTxn(i, j)
         \/ \E i \in Instances : SendTxn(i)
         \/ \E i \in Instances : Store(i)
         \/ \E i \in Instances : LoseLMDB(i)
         \/ /\ UNCHANGED <<db, storage, clock>>
            /\ \A q \in Instances : tx'[q].db \in {tx[q].db, EmptyDB}
<1>1. ASSUME NEW i \in Instances, NEW k \in Keys, NEW v \in AppValues,
             AppPut(i, k, v)
      PROVE  NativeWrite(i, k, "live", v) /\ v \in Values
  BY <1>1, SyncerAssumption, Zenon DEF AppPut
<1>2. ASSUME NEW i \in Instances, NEW k \in Keys, AppDelete(i, k)
      PROVE  NativeWrite(i, k, "deleted", Empty) /\ Empty \in Values
  BY <1>2, ValuesAssumption, Zenon DEF AppDelete, Empty
<1>3. ASSUME NEW i \in Instances, ShadowInit(i) PROVE FALSE
  BY <1>3, ZenonT(30) DEF ShadowInit, IndInv, ShadowIsFresh
<1>4. TypeOK
  BY Zenon DEF IndInv
<1> QED
  BY <1>1, <1>2, <1>3, <1>4, StepGroups, Zenon

\* What a load does to the DBIs, in native mode.
LEMMA LoadTxnEffect ==
  ASSUME SchemaTracksChanges, IndInv, AllWellFormed,
         NEW i \in Instances, NEW j \in Instances, LoadTxn(i, j)
  PROVE  /\ ready[i][j] \in 1..Len(storage[j])
         /\ db' = [db EXCEPT ![i] = Map!Join(@, storage[j][ready[i][j]])]
         /\ \A k \in Keys : WellFormed(db'[i][k])
         /\ UNCHANGED <<storage, clock>>
         /\ \A q \in Instances \ {i} : tx'[q] = tx[q]
         /\ tx'[i].db = EmptyDB
<1> USE DEF envVars
<1> DEFINE snap == storage[j][ready[i][j]]
<1>1. ready[i][j] \in 1..Len(storage[j]) /\ snap \in DB
  BY ReadyIsSnapshot, Zenon DEF LoadTxn, IndInv
<1>2. db' = [db EXCEPT ![i] = Update(@, snap)]
  BY Zenon DEF LoadTxn, LoadedDB
<1>3. \A k \in Keys : WellFormed(snap[k]) /\ WellFormed(db[i][k])
  BY <1>1, Zenon DEF AllWellFormed
<1>4. db \in [Instances -> DB]
  BY Zenon DEF IndInv, TypeOK, LMDBTypeOK
<1>5. /\ Update(db[i], snap) = Map!Join(db[i], snap)
      /\ \A k \in Keys : WellFormed(Update(db[i], snap)[k])
  <2> HIDE DEF snap
  <2> QED
    BY <1>1, <1>3, <1>4, UpdateIsJoin, Zenon
<1>6. UNCHANGED <<storage, clock>>
  BY Zenon DEF LoadTxn
<1>7. \A q \in Instances \ {i} : tx'[q] = tx[q]
  BY Zenon DEF LoadTxn, IndInv, TypeOK, TxTypeOK
<1>8. tx'[i].db = EmptyDB
  BY Zenon DEF LoadTxn, IndInv, TypeOK, TxTypeOK
<1>9. db' = [db EXCEPT ![i] = Map!Join(@, snap)] /\ db'[i] = Update(db[i], snap)
  BY <1>2, <1>4, <1>5, Zenon
<1> QED
  BY <1>1, <1>5, <1>6, <1>7, <1>8, <1>9, Zenon

\* What a send reads, in native mode.
LEMMA SendTxnEffect ==
  ASSUME SchemaTracksChanges, IndInv, NEW i \in Instances, SendTxn(i)
  PROVE  /\ UNCHANGED <<db, storage, clock>>
         /\ \A q \in Instances \ {i} : tx'[q] = tx[q]
         /\ tx'[i].db = db[i]
<1> USE DEF envVars
<1>1. UNCHANGED <<storage, clock>>
  BY Zenon DEF SendTxn
<1>2. db' = db
  BY Zenon DEF SendTxn, DumpedDB, IndInv, TypeOK, LMDBTypeOK
<1>3. \A q \in Instances \ {i} : tx'[q] = tx[q]
  BY Zenon DEF SendTxn, IndInv, TypeOK, TxTypeOK
<1>4. tx'[i].db = db[i]
  BY Zenon DEF SendTxn, DumpedDB, IndInv, TypeOK, TxTypeOK
<1> QED
  BY <1>1, <1>2, <1>3, <1>4, Zenon

\* The copies of an instance are its snapshots.
LEMMA CopiesAre ==
  /\ UNCHANGED storage => UNCHANGED Copies
  /\ \A i \in Instances : \A c :
       c \in Copies[i] <=> \E n \in 1..Len(storage[i]) : c = storage[i][n]
  /\ \A i \in Instances : \A c :
       c \in Copies'[i] <=> \E n \in 1..Len(storage'[i]) : c = storage'[i][n]
  /\ \A i \in Instances : storage'[i] = storage[i] => Copies'[i] = Copies[i]
  BY Zenon DEF Copies

\* Every step of the cluster is a step of ReplicatedMap or none.
LEMMA RefinementStep ==
  ASSUME SchemaTracksChanges, IndInv, AllWellFormed, [Next]_vars
  PROVE  [Map!Next]_(Map!mapVars)
<1>1. ASSUME NEW i \in Instances, NEW k \in Keys, NEW kind \in {"live", "deleted"},
             NEW v \in Values, NativeWrite(i, k, kind, v)
      PROVE  Map!Next
  <2>1. Map!Write(i, k)
    <3>1. /\ db' = [db EXCEPT ![i][k] = db'[i][k]]
          /\ db'[i][k] = [kind |-> kind, ts |-> Now(i)', val |-> v]
          /\ ~Leq(db'[i][k], db[i][k])
          /\ clock' = clock + 1
          /\ UNCHANGED <<storage, tx>>
      <4>1. TypeOK
        BY Zenon DEF IndInv
      <4> QED
        BY <1>1, <4>1, NativeWriteEffect, Zenon
    <3> QED
      BY <3>1, CopiesAre, Zenon DEF Map!Write
  <2> QED
    BY <2>1, Zenon DEF Map!Next
<1>2. ASSUME NEW i \in Instances, NEW j \in Instances, LoadTxn(i, j)
      PROVE  Map!Next
  <2>1. /\ ready[i][j] \in 1..Len(storage[j])
        /\ db' = [db EXCEPT ![i] = Map!Join(@, storage[j][ready[i][j]])]
        /\ UNCHANGED <<storage, clock>>
    BY <1>2, LoadTxnEffect, Zenon
  <2>2. storage[j][ready[i][j]] \in Copies[j]
    BY <2>1, CopiesAre, Zenon
  <2>3. Map!Load(i, storage[j][ready[i][j]])
    BY <2>1, CopiesAre, Zenon DEF Map!Load
  <2> QED
    BY <2>2, <2>3, Zenon DEF Map!Next
<1>3. ASSUME NEW i \in Instances, SendTxn(i) PROVE UNCHANGED Map!mapVars
  BY <1>3, SendTxnEffect, CopiesAre, Zenon DEF Map!mapVars
<1>4. ASSUME NEW i \in Instances, Store(i) PROVE Map!Next
  <2> DEFINE copy == tx[i].db
  <2>1. /\ Len(storage'[i]) = Len(storage[i]) + 1
        /\ storage'[i][Len(storage[i]) + 1] = copy
        /\ \A n \in 1..Len(storage[i]) : storage'[i][n] = storage[i][n]
        /\ \A q \in Instances \ {i} : storage'[q] = storage[q]
    BY <1>4, StoreEffect, Zenon DEF IndInv
  <2>2. pc[i] = "store" /\ UNCHANGED <<db, clock>>
    BY <1>4, Zenon DEF Store, lmdbVars, envVars
  <2>3. /\ Covers(db[i], copy)
        /\ \A n \in 1..Len(storage[i]) : Covers(copy, storage[i][n])
    BY <2>2, ZenonT(30) DEF IndInv, OwnIsCovered
  <2>4. /\ Map!AtLeast(db[i], copy)
        /\ \A c \in Copies[i] : Map!AtLeast(copy, c)
    <3>1. \A n \in 1..Len(storage[i]) : Map!AtLeast(copy, storage[i][n])
      BY <2>3, Zenon DEF Covers, Map!AtLeast
    <3>2. Map!AtLeast(db[i], copy)
      BY <2>3, Zenon DEF Covers, Map!AtLeast
    <3> HIDE DEF copy
    <3>3. ASSUME NEW c \in Copies[i] PROVE Map!AtLeast(copy, c)
      <4>1. PICK n \in 1..Len(storage[i]) : c = storage[i][n]
        BY <3>3, CopiesAre
      <4> QED
        BY <3>1, <4>1, Zenon
    <3> QED
      BY <3>2, <3>3, Zenon
  <2>5. Len(storage[i]) \in Nat
    BY DBTypes, Zenon DEF IndInv
  <2>6. Copies'[i] = Copies[i] \cup {copy}
    <3> HIDE DEF copy
    <3>1. \A n \in 1..Len(storage'[i]) :
            n \in 1..Len(storage[i]) \/ n = Len(storage[i]) + 1
      BY <2>1, <2>5
    <3>2. /\ \A n \in 1..Len(storage[i]) : n \in 1..Len(storage'[i])
          /\ Len(storage[i]) + 1 \in 1..Len(storage'[i])
      BY <2>1, <2>5
    <3>3. ASSUME NEW c \in Copies'[i] PROVE c \in Copies[i] \cup {copy}
      <4>1. PICK n \in 1..Len(storage'[i]) : c = storage'[i][n]
        BY <3>3, CopiesAre
      <4> QED
        BY <2>1, <3>1, <4>1, CopiesAre, ZenonT(30)
    <3>4. ASSUME NEW c \in Copies[i] \cup {copy} PROVE c \in Copies'[i]
      <4>1. CASE c = copy
        BY <2>1, <3>2, <4>1, CopiesAre, Zenon
      <4>2. CASE c \in Copies[i]
        <5>1. PICK n \in 1..Len(storage[i]) : c = storage[i][n]
          BY <4>2, CopiesAre
        <5>2. n \in 1..Len(storage'[i]) /\ c = storage'[i][n]
          BY <2>1, <3>2, <5>1, Zenon
        <5> QED
          BY <5>2, CopiesAre, Zenon
      <4> QED
        BY <4>1, <4>2, Zenon
    <3> QED
      BY <3>3, <3>4, Zenon
  <2>7. Copies' = [Copies EXCEPT ![i] = @ \cup {copy}]
    <3> HIDE DEF copy
    <3>1. \A q \in Instances \ {i} : Copies'[q] = Copies[q]
      BY <2>1, CopiesAre, Zenon
    <3>2. /\ Copies = [q \in Instances |-> Copies[q]]
          /\ Copies' = [q \in Instances |-> Copies'[q]]
      BY Zenon DEF Copies
    <3> QED
      BY <2>6, <3>1, <3>2, Zenon
  <2>8. Map!Publish(i, copy)
    BY <2>2, <2>4, <2>7, Zenon DEF Map!Publish
  <2>9. copy \in Copies'[i]
    BY <2>6, Zenon
  <2> QED
    BY <2>8, <2>9, Zenon DEF Map!Next
<1>5. ASSUME NEW i \in Instances, LoseLMDB(i) PROVE Map!Next
  <2>1. UNCHANGED <<storage, clock>> /\ db' = [db EXCEPT ![i] = EmptyDB]
    BY <1>5, Zenon DEF LoseLMDB
  <2>2. Map!Lose(i)
    BY <2>1, CopiesAre, Zenon DEF Map!Lose, Map!Nothing, EmptyDB
  <2> QED
    BY <2>2, Zenon DEF Map!Next
<1>6. ASSUME UNCHANGED <<db, storage, clock>> PROVE UNCHANGED Map!mapVars
  BY <1>6, CopiesAre, Zenon DEF Map!mapVars
<1> QED
  BY <1>1, <1>2, <1>3, <1>4, <1>5, <1>6, StepKinds, Zenon

\* The cluster in native mode implements ReplicatedMap: the LMDBs and the bucket
\* change as a map replicated by copies does (syncLoop, LoadOnce, SendOnce).
THEOREM ReplicatedMapImplemented ==
  ASSUME SchemaTracksChanges
  PROVE  Spec => ImplementsReplicatedMap
<1>1. Init => Map!Init
  <2> SUFFICES ASSUME Init PROVE Map!Init
    BY Zenon
  <2>1. Copies = [i \in Instances |-> {}]
    BY DEF Init, Copies
  <2> QED
    BY <2>1, Zenon DEF Init, Map!Init, Map!Nothing, EmptyDB
<1>2. AllGood => AllWellFormed
  BY Zenon DEF AllGood, GoodDB, GoodEntry, AllWellFormed
<1>3. IndInv /\ AllWellFormed /\ [Next]_vars => [Map!Next]_(Map!mapVars)
  BY RefinementStep, Zenon
<1> QED
  BY <1>1, <1>2, <1>3, IndInvAlways, GoodAlways, PTL
  DEF Spec, ImplementsReplicatedMap, Map!Spec
-------------------------------------------------------------------------------
(*****************************************************************************)
(* Shadow mode: what SendOnce dumps is what the main DBI has.                *)
(*****************************************************************************)
\* mainToShadow gives a key an entry with the value that the main DBI has, or it
\* keeps an entry with another value that is not older.
LEMMA ShadowIsFaithful ==
  ASSUME NEW plain \in [Keys -> Values \cup {NoValue}], NEW shadow \in DB,
         NEW ts \in Nat, NEW k \in Keys, plain[k] # Empty, WellFormed(shadow[k])
  PROVE  \/ PlainValue(mainToShadow(plain, shadow, ts)[k]) = plain[k]
         \/ /\ mainToShadow(plain, shadow, ts)[k] = shadow[k]
            /\ ts <= shadow[k].ts /\ plain[k] # PlainValue(shadow[k])
<1>1. PICK x, v, e : /\ x = shadow[k] /\ v = plain[k]
                     /\ e = mainToShadow(plain, shadow, ts)[k]
  BY Zenon
<1>2. /\ x \in Entry \cup {Absent} /\ v \in Values \cup {NoValue}
      /\ v # Empty /\ WellFormed(x)
  BY <1>1, Zenon DEF DB
<1>3. ASSUME NEW y, y.val = v, v # NoValue PROVE PlainValue(y) = v
  BY <1>2, <1>3, Zenon DEF PlainValue
<1>4. ASSUME NEW y, y.val = Empty PROVE PlainValue(y) = NoValue
  BY <1>4, Zenon DEF PlainValue
<1>5. CASE v # NoValue
  <2>1. PICK new : new = [kind |-> "live", ts |-> 0, val |-> v]
    BY Zenon
  <2>2. new.kind = "live" /\ new.val = v /\ EffectiveTS(new, ts) = ts
    BY <2>1, Zenon DEF EffectiveTS
  <2>3. e = Merge(x, new, ts, 0, CurrentFormatVersion)
    BY <1>1, <1>5, <2>1, Zenon DEF mainToShadow
  <2>4. PICK added : added = addHeader(v, ts, FALSE, ts, CurrentFormatVersion)
    BY Zenon
  <2>5. added.val = v
    BY <2>4 DEF addHeader, CurrentFormatVersion
  <2>6. added = addHeader(new.val, EffectiveTS(new, ts), new.kind = "deleted", ts,
                          CurrentFormatVersion)
    BY <2>2, <2>4, Zenon
  <2>7. CASE x = Absent
    <3>1. e = added
      BY <2>2, <2>3, <2>6, <2>7, Zenon DEF Merge, StaleDeletion
    <3> QED
      BY <1>1, <1>3, <1>5, <2>5, <3>1, Zenon
  <2>8. CASE x # Absent /\ KeepsOld(x, new, ts)
    <3>1. e = x
      BY <2>3, <2>8, Zenon DEF Merge
    <3>2. x.val = v \/ ts < x.ts \/ ts = x.ts
      BY <2>2, <2>8, Zenon DEF KeepsOld
    <3>3. x.ts \in Nat
      BY <1>2, <2>8, EntryFields, Zenon
    <3>4. x.val = v \/ ts <= x.ts
      BY ONLY <3>2, <3>3, ts \in Nat
    <3> QED
      BY <1>1, <1>3, <1>5, <3>1, <3>4, Zenon
  <2>9. CASE x # Absent /\ ~KeepsOld(x, new, ts)
    <3>1. e = added
      BY <2>3, <2>6, <2>9, Zenon DEF Merge
    <3> QED
      BY <1>1, <1>3, <1>5, <2>5, <3>1, Zenon
  <2> QED
    BY <2>7, <2>8, <2>9, Zenon
<1>6. CASE v = NoValue
  <2>1. e = IF x = Absent THEN Absent ELSE Clean(x, ts, CurrentFormatVersion)
    BY <1>1, <1>6, Zenon DEF mainToShadow
  <2>2. addHeader(Empty, 0, TRUE, ts, CurrentFormatVersion).val = Empty
    BY DEF addHeader
  <2>3. Absent.val = Empty
    BY Zenon DEF Absent
  <2>4. e.val = Empty
    BY <1>2, <2>1, <2>2, <2>3, Zenon DEF Clean, WellFormed
  <2> QED
    BY <1>1, <1>4, <1>6, <2>4, Zenon
<1> QED
  BY <1>5, <1>6, Zenon

\* Where the main DBI has another value than the shadow DBI, the application has
\* written since the timestamp of the entry.
MainBehind(i) ==
  \A k \in Keys :
    main[i][k] # PlainValue(db[i][k]) => db[i][k].ts < Now(i)

\* With agreeing clocks and without empty values, what SendOnce dumps in shadow
\* mode is what the application sees.
LEMMA DumpIsFaithful ==
  ASSUME ~SchemaTracksChanges, Empty \notin AppValues, TypeOK, AllGood,
         NEW i \in Instances, MainBehind(i)
  PROVE  main[i] = shadowToMain(DumpedDB(i))
<1>1. /\ db[i] \in DB /\ main[i] \in [Keys -> Values \cup {NoValue}]
      /\ Now(i) \in Nat
  BY Clocks, Zenon DEF TypeOK, LMDBTypeOK
<1>2. ASSUME NEW k \in Keys PROVE main[i][k] = PlainValue(DumpedDB(i)[k])
  <2>1. main[i][k] # Empty /\ WellFormed(db[i][k])
    BY Zenon DEF AllGood, GoodDB, GoodEntry
  <2>2. \/ PlainValue(DumpedDB(i)[k]) = main[i][k]
        \/ Now(i) <= db[i][k].ts /\ main[i][k] # PlainValue(db[i][k])
    BY <1>1, <2>1, ShadowIsFaithful, ZenonT(30) DEF DumpedDB
  <2>3. ASSUME Now(i) <= db[i][k].ts, main[i][k] # PlainValue(db[i][k]) PROVE FALSE
    <3>1. db[i][k].ts < Now(i)
      BY <2>3, Zenon DEF MainBehind
    <3>2. db[i][k].ts \in Nat
      <4>1. db[i][k] \in Entry \cup {Absent}
        BY <1>1, Zenon DEF DB
      <4> QED
        BY <4>1, EntryFields DEF Absent
    <3> QED
      BY ONLY <1>1, <2>3, <3>1, <3>2
  <2> QED
    BY <2>2, <2>3, Zenon
<1> QED
  BY <1>1, <1>2, Zenon DEF shadowToMain

\* With agreeing clocks, no entry of the shadow DBI becomes newer than a write of
\* the application that it does not have.
LEMMA BehindStep ==
  ASSUME ~SchemaTracksChanges, SameClocks, Empty \notin AppValues, TypeOK, AllGood,
         \A q \in Instances : MainBehind(q), [Next]_vars
  PROVE  (\A q \in Instances : MainBehind(q))'
<1> USE DEF lmdbVars, envVars
<1>1. /\ db \in [Instances -> DB] /\ clock \in Nat
      /\ main \in [Instances -> [Keys -> Values \cup {NoValue}]]
  BY Zenon DEF TypeOK, LMDBTypeOK, EnvTypeOK
<1> SUFFICES ASSUME NEW q \in Instances PROVE MainBehind(q)'
  BY Zenon
<1>2. ASSUME db'[q] = db[q], main'[q] = main[q], clock' = clock
      PROVE  MainBehind(q)'
  BY <1>2, Zenon DEF MainBehind, Now
<1>3. ASSUME \A k \in Keys : main'[q][k] = PlainValue(db'[q][k])
      PROVE  MainBehind(q)'
  BY <1>3, Zenon DEF MainBehind
<1>4. ASSUME NEW i \in Instances, NEW k \in Keys,
             AppDelete(i, k) \/ \E v \in AppValues : AppPut(i, k, v)
      PROVE  MainBehind(q)'
  <2>1. UNCHANGED db /\ clock' = clock + 1
    BY <1>4, Zenon DEF AppDelete, AppPut, NativeWrite, AppCommit
  <2>2. Now(q) \in Nat /\ Now(q)' = Now(q) + 1
    BY <2>1, Clocks, Zenon
  <2>3. ASSUME NEW l \in Keys PROVE db[q][l].ts < Now(q)'
    <3>1. db[q][l].ts <= Now(q)
      BY Zenon DEF AllGood, GoodDB, GoodEntry
    <3>2. db[q][l] \in Entry \cup {Absent}
      BY <1>1, Zenon DEF DB
    <3>3. db[q][l].ts \in Nat
      BY <3>2, EntryFields DEF Absent
    <3> QED
      BY ONLY <2>2, <3>1, <3>3
  <2> QED
    BY <2>1, <2>3, Zenon DEF MainBehind
<1>5. ASSUME NEW i \in Instances, ShadowInit(i)
      PROVE  MainBehind(q)'
  <2>1. PICK d : d = mainToShadow(main[i], db[i], 1)
    BY Zenon
  <2>2. db' = [db EXCEPT ![i] = d] /\ UNCHANGED <<main, clock>>
    BY <1>5, <2>1, Zenon DEF ShadowInit
  <2>3. CASE q = i
    <3> SUFFICES ASSUME NEW k \in Keys, main'[q][k] # PlainValue(db'[q][k])
                 PROVE  db'[q][k].ts < Now(q)'
      BY Zenon DEF MainBehind
    <3>1. db'[q] = d /\ main'[q] = main[q] /\ Now(q)' = Now(q)
      BY <1>1, <2>2, <2>3, Zenon DEF Now
    <3>2. main[q][k] # Empty /\ WellFormed(db[q][k])
      BY Zenon DEF AllGood, GoodDB, GoodEntry
    <3>3. db[q] \in DB /\ main[q] \in [Keys -> Values \cup {NoValue}]
      BY <1>1, Zenon
    <3>4. PICK m, s, ts : m = main[q] /\ s = db[q] /\ ts = 1
      BY Zenon
    <3>5. ts \in Nat
      BY ONLY <3>4
    <3>6. \/ PlainValue(mainToShadow(m, s, ts)[k]) = m[k]
          \/ mainToShadow(m, s, ts)[k] = s[k] /\ m[k] # PlainValue(s[k])
      <4>1. /\ m \in [Keys -> Values \cup {NoValue}] /\ s \in DB
            /\ m[k] # Empty /\ WellFormed(s[k])
        BY <3>2, <3>3, <3>4, Zenon
      <4> QED
        BY ONLY <3>5, <4>1, k \in Keys, ShadowIsFaithful, Zenon
    <3>7. d = mainToShadow(m, s, ts)
      BY <2>1, <2>3, <3>4, Zenon
    <3>8. d[k] = db[q][k] /\ main[q][k] # PlainValue(db[q][k])
      BY <3>1, <3>4, <3>6, <3>7, Zenon
    <3> QED
      BY <3>1, <3>8, Zenon DEF MainBehind
  <2>4. CASE q # i
    BY <1>1, <1>2, <2>2, <2>4, Zenon
  <2> QED
    BY <2>3, <2>4, Zenon
<1>6. ASSUME NEW i \in Instances, NEW j \in Instances, LoadTxn(i, j)
      PROVE  MainBehind(q)'
  <2>1. PICK d, m, snap : /\ snap = storage[j][ready[i][j]]
                          /\ d = LoadedDB(i, snap) /\ m = LoadedMain(i, snap)
    BY Zenon
  <2>2. /\ db' = [db EXCEPT ![i] = d] /\ main' = [main EXCEPT ![i] = m]
        /\ UNCHANGED clock
    BY <1>6, <2>1, Zenon DEF LoadTxn
  <2>3. \A k \in Keys : m[k] = PlainValue(d[k])
    BY <2>1, Zenon DEF LoadedMain, shadowToMain
  <2>4. CASE q = i
    <3>1. db'[q] = d /\ main'[q] = m
      BY <1>1, <2>2, <2>4, Zenon
    <3> QED
      BY <1>3, <2>3, <3>1, Zenon
  <2>5. CASE q # i
    BY <1>1, <1>2, <2>2, <2>5, Zenon
  <2> QED
    BY <2>4, <2>5, Zenon
<1>7. ASSUME NEW i \in Instances, SendTxn(i)
      PROVE  MainBehind(q)'
  <2>1. PICK d : d = DumpedDB(i)
    BY Zenon
  <2>2. db' = [db EXCEPT ![i] = d] /\ UNCHANGED <<main, clock>>
    BY <1>7, <2>1, Zenon DEF SendTxn
  <2>3. CASE q = i
    <3>1. db'[q] = d /\ main'[q] = main[q]
      BY <1>1, <2>2, <2>3, Zenon
    <3>2. main[q] = shadowToMain(d)
      BY <2>1, <2>3, DumpIsFaithful, Zenon
    <3>3. \A k \in Keys : main[q][k] = PlainValue(d[k])
      BY <3>2, Zenon DEF shadowToMain
    <3> QED
      BY <1>3, <3>1, <3>3, Zenon
  <2>4. CASE q # i
    BY <1>1, <1>2, <2>2, <2>4, Zenon
  <2> QED
    BY <2>3, <2>4, Zenon
<1>8. ASSUME NEW i \in Instances, LoseLMDB(i)
      PROVE  MainBehind(q)'
  <2>1. PICK d, m : d = EmptyDB /\ m = EmptyMain
    BY Zenon
  <2>2. /\ db' = [db EXCEPT ![i] = d] /\ main' = [main EXCEPT ![i] = m]
        /\ UNCHANGED clock
    BY <1>8, <2>1, Zenon DEF LoseLMDB
  <2>3. \A k \in Keys : m[k] = PlainValue(d[k])
    BY <2>1, Zenon DEF EmptyDB, EmptyMain, PlainValue, Absent
  <2>4. CASE q = i
    <3>1. db'[q] = d /\ main'[q] = m
      BY <1>1, <2>2, <2>4, Zenon
    <3> QED
      BY <1>3, <2>3, <3>1, Zenon
  <2>5. CASE q # i
    BY <1>1, <1>2, <2>2, <2>5, Zenon
  <2> QED
    BY <2>4, <2>5, Zenon
<1>9. ASSUME NEW i \in Instances, Store(i)
      PROVE  MainBehind(q)'
  BY <1>2, <1>9, Zenon DEF Store
<1>10. ASSUME UNCHANGED <<db, main, clock>>
       PROVE  MainBehind(q)'
  BY <1>2, <1>10, Zenon
<1> QED
  BY <1>4, <1>5, <1>6, <1>7, <1>8, <1>9, <1>10, StepGroups, Zenon

\* In every state of a cluster in shadow mode, with agreeing clocks and without
\* empty values, the shadow DBI has a timestamp in the past where it differs from
\* the main DBI.
LEMMA BehindAlways ==
  ASSUME ~SchemaTracksChanges, SameClocks, Empty \notin AppValues
  PROVE  Spec => [](\A q \in Instances : MainBehind(q))
<1> DEFINE Inv == \A q \in Instances : MainBehind(q)
<1>1. Init => Inv
  <2> SUFFICES ASSUME Init, NEW q \in Instances PROVE MainBehind(q)
    BY Zenon
  <2>1. \A k \in Keys : main[q][k] = PlainValue(db[q][k])
    BY Zenon DEF Init, EmptyDB, EmptyMain, PlainValue, Absent
  <2> QED
    BY <2>1, Zenon DEF MainBehind
<1>2. TypeOK /\ AllGood /\ Inv /\ [Next]_vars => Inv'
  BY BehindStep, Zenon
<1> QED
  BY <1>1, <1>2, GoodAlways, PTL DEF Spec
-------------------------------------------------------------------------------
(*****************************************************************************)
(* What lastSyncedTxnID stands for, in both modes.                           *)
(*****************************************************************************)
\* The bucket keeps every snapshot.
BucketKept ==
  \A j \in Instances : \A n \in 1..Len(storage[j]) :
    n \in 1..Len(storage'[j]) /\ storage'[j][n] = storage[j][n]

\* No step removes or changes a snapshot of the bucket.
LEMMA BucketStep ==
  ASSUME TypeOK, [Next]_vars
  PROVE  BucketKept
<1>1. ASSUME UNCHANGED storage PROVE BucketKept
  BY <1>1, Zenon DEF BucketKept
<1>2. ASSUME NEW i \in Instances, Store(i) PROVE BucketKept
  <2>1. /\ Len(storage'[i]) = Len(storage[i]) + 1
        /\ \A n \in 1..Len(storage[i]) : storage'[i][n] = storage[i][n]
        /\ \A q \in Instances \ {i} : storage'[q] = storage[q]
    BY <1>2, StoreEffect, Zenon
  <2>2. Len(storage[i]) \in Nat
    BY DBTypes, Zenon
  <2>3. \A n \in 1..Len(storage[i]) : n \in 1..Len(storage'[i])
    BY <2>1, <2>2
  <2> QED
    BY <2>1, <2>3, Zenon DEF BucketKept
<1>3. ASSUME NEW i \in Instances, NEW k \in Keys,
             AppDelete(i, k) \/ \E v \in AppValues : AppPut(i, k, v)
      PROVE  UNCHANGED storage
  BY <1>3, Zenon DEF AppDelete, AppPut, NativeWrite, AppCommit
<1>4. ASSUME NEW i \in Instances, ShadowInit(i) \/ SendTxn(i) \/ LoseLMDB(i)
      PROVE  UNCHANGED storage
  BY <1>4, Zenon DEF ShadowInit, SendTxn, LoseLMDB
<1>5. ASSUME NEW i \in Instances, NEW j \in Instances, LoadTxn(i, j)
      PROVE  UNCHANGED storage
  BY <1>5, Zenon DEF LoadTxn
<1> QED
  BY <1>1, <1>2, <1>3, <1>4, <1>5, StepGroups, Zenon

\* The snapshot being sent has what the LMDB holds.
Dumped(i) ==
  /\ db[i] = tx[i].db
  /\ SchemaTracksChanges \/ main[i] = shadowToMain(db[i])

\* While the loop is not inside LoadOnce or SendOnce, a transaction ID that is
\* not above lastSyncedTxnID means that all is in the bucket.  Between the commit
\* of a load and env.Info() the same holds for the ID of its transaction, and a
\* snapshot being sent has the contents that belong to its ID.  All but the first
\* three conjuncts except a reused ID.
SyncedInv(i) ==
  /\ lastSyncedTxnID[i] <= lastTxnID[i]
  /\ lastTxnID[i] = 0 => db[i] = EmptyDB /\ main[i] = EmptyMain
  /\ pc[i] \in {"down", "list", "shadow"} => lastSyncedTxnID[i] = 0
  /\ /\ pc[i] \in {"load", "check", "done"} /\ i \notin ReceiveOnly
     /\ lastTxnID[i] <= lastSyncedTxnID[i]
     => raced[i] \/ Stored(i)
  /\ pc[i] = "loadinfo" =>
       /\ tx[i].localChanged => lastSyncedTxnID[i] < lastTxnID[i]
       /\ ~tx[i].empty => tx[i].txnID <= lastTxnID[i]
       /\ /\ ~tx[i].localChanged /\ i \notin ReceiveOnly
          /\ lastTxnID[i] <= tx[i].txnID
          => raced[i] \/ Stored(i)
  /\ pc[i] \in {"sendinfo", "store"} =>
       /\ ~(pc[i] = "sendinfo" /\ tx[i].empty) => tx[i].txnID <= lastTxnID[i]
       /\ lastTxnID[i] <= tx[i].txnID => raced[i] \/ Dumped(i)

\* What is in the bucket stays so while the DBIs do not change.
LEMMA StoredKept ==
  ASSUME BucketKept, NEW q \in Instances, db'[q] = db[q], main'[q] = main[q],
         Stored(q)
  PROVE  Stored(q)'
  BY Zenon DEF Stored, BucketKept, shadowToMain

\* A step of one instance leaves SyncedInv of the others.
LEMMA OthersSynced ==
  ASSUME BucketKept, NEW q \in Instances, SyncedInv(q),
         db'[q] = db[q], main'[q] = main[q], lastTxnID'[q] = lastTxnID[q],
         pc'[q] = pc[q], lastSyncedTxnID'[q] = lastSyncedTxnID[q],
         tx'[q] = tx[q], raced'[q] = raced[q]
  PROVE  SyncedInv(q)'
<1>1. Stored(q) => Stored(q)'
  BY StoredKept, Zenon
<1>2. Dumped(q) => Dumped(q)'
  BY Zenon DEF Dumped, shadowToMain
<1> QED
  BY <1>1, <1>2, Zenon DEF SyncedInv

\* An empty LMDB has nothing that is not in the bucket.
LEMMA EmptyIsStored ==
  ASSUME NEW q \in Instances
  PROVE  /\ db[q] = EmptyDB /\ main[q] = EmptyMain => Stored(q)
         /\ db'[q] = EmptyDB /\ main'[q] = EmptyMain => Stored(q)'
<1>1. \A k \in Keys : EmptyDB[k] = Absent
  BY Zenon DEF EmptyDB
<1>2. shadowToMain(EmptyDB) = EmptyMain
  <2>1. PlainValue(Absent) = NoValue
    BY Zenon DEF PlainValue, Absent
  <2> QED
    BY <1>1, <2>1, Zenon DEF shadowToMain, EmptyMain
<1> QED
  BY <1>1, <1>2, Zenon DEF Stored, shadowToMain

\* A loaded snapshot adds only entries that are in the bucket.
LEMMA LoadedIsStored ==
  ASSUME TypeOK, ReferencesExist, AllGood, NEW i \in Instances,
         NEW j \in Instances, LoadTxn(i, j), ~localChanged(i), Stored(i)
  PROVE  Stored(i)'
<1>1. PICK snap, old, n : /\ snap = storage[j][ready[i][j]] /\ old = db[i]
                          /\ n = ready[i][j]
  BY Zenon
<1>2. /\ snap \in DB /\ n \in 1..Len(storage[j]) /\ snap = storage[j][n]
      /\ old \in DB
  BY <1>1, ReadyIsSnapshot, DBTypes, Zenon DEF LoadTxn
<1>3. /\ UNCHANGED storage /\ db'[i] = Update(old, snap)
      /\ SchemaTracksChanges \/ main'[i] = shadowToMain(db'[i])
  <2>1. LoadedDB(i, snap) = Update(old, snap)
    BY <1>1, Zenon DEF LoadedDB
  <2>2. PICK m : m = LoadedMain(i, snap)
    BY Zenon
  <2>3. /\ db' = [db EXCEPT ![i] = LoadedDB(i, snap)]
        /\ main' = [main EXCEPT ![i] = m] /\ UNCHANGED storage
    BY <1>1, <2>2, Zenon DEF LoadTxn
  <2>4. db'[i] = LoadedDB(i, snap) /\ main'[i] = m
    BY <2>3, Zenon DEF TypeOK, LMDBTypeOK
  <2> QED
    BY <2>1, <2>2, <2>3, <2>4, Zenon DEF LoadedMain
<1> SUFFICES ASSUME NEW k \in Keys, db'[i][k] # Absent
             PROVE  \E p \in Instances : \E m \in 1..Len(storage[p]) :
                      Leq(db'[i][k], storage[p][m][k])
  <2>1. SchemaTracksChanges \/ (main[i] = shadowToMain(db[i]))'
    BY <1>3, Zenon DEF shadowToMain
  <2> QED
    BY <1>3, <2>1, Zenon DEF Stored
<1>4. old[k] \in Entry \cup {Absent} /\ snap[k] \in Entry \cup {Absent}
  BY <1>2, Zenon DEF DB
<1>5. CASE db'[i][k] = old[k]
  BY <1>1, <1>5, Zenon DEF Stored
<1>6. CASE db'[i][k] # old[k]
  <2>1. snap[k] # Absent /\ snap[k] \in Entry
        /\ db'[i][k] = Merge(old[k], snap[k], 0, 0, CurrentFormatVersion)
    BY <1>3, <1>4, <1>6, Zenon DEF Update
  <2>2. db'[i][k] = addHeader(snap[k].val, snap[k].ts, snap[k].kind = "deleted", 0,
                              CurrentFormatVersion)
    BY <1>4, <1>6, <2>1, MergeChooses, Zenon DEF CurrentFormatVersion
  <2>3. WellFormed(snap[k])
    BY <1>2, Zenon DEF AllGood, GoodDB, GoodEntry
  <2>4. db'[i][k] = snap[k]
    BY <2>1, <2>2, <2>3, EntryFields, SMTT(30)
       DEF addHeader, CurrentFormatVersion, Empty, WellFormed, Entry
  <2>5. Leq(db'[i][k], snap[k])
    BY <1>4, <2>4, LeqReflexive, Zenon
  <2> QED
    BY <1>2, <2>5, Zenon
<1> QED
  BY <1>5, <1>6, Zenon

\* The application, a crash, the loss of an LMDB and the start of syncLoop.
LEMMA RestartSynced ==
  ASSUME TypeOK, NEW i \in Instances, SyncedInv(i),
         \/ \E k \in Keys : AppDelete(i, k) \/ \E v \in AppValues : AppPut(i, k, v)
         \/ Crash(i) \/ LoseLMDB(i) \/ Start(i) \/ InitialListing(i) \/ ShadowInit(i)
  PROVE  SyncedInv(i)'
<1> USE DEF lmdbVars, syncVars, historyVars
<1>1. /\ lastTxnID \in [Instances -> Nat] /\ lastSyncedTxnID \in [Instances -> Nat]
      /\ db \in [Instances -> DB]
      /\ main \in [Instances -> [Keys -> Values \cup {NoValue}]]
      /\ pc \in [Instances -> Pcs]
      /\ tx \in [Instances -> [txnID : Nat, localChanged : BOOLEAN,
                               empty : BOOLEAN, db : DB]]
      /\ raced \in [Instances -> BOOLEAN]
  BY Zenon DEF TypeOK, LMDBTypeOK, TxTypeOK, LoopTypeOK
<1>2. /\ lastTxnID[i] \in Nat /\ lastSyncedTxnID[i] \in Nat /\ tx[i].txnID \in Nat
      /\ lastSyncedTxnID[i] <= lastTxnID[i]
      /\ pc[i] \in {"down", "list", "shadow"} => lastSyncedTxnID[i] = 0
      /\ lastTxnID[i] = 0 => db[i] = EmptyDB /\ main[i] = EmptyMain
  BY <1>1, Zenon DEF SyncedInv
<1>3. ASSUME NEW k \in Keys,
             AppDelete(i, k) \/ \E v \in AppValues : AppPut(i, k, v)
      PROVE  SyncedInv(i)'
  <2>1. AppCommit(i)
    BY <1>3, Zenon DEF AppDelete, AppPut, NativeWrite
  <2>2. /\ UNCHANGED <<pc, tx, lastSyncedTxnID>>
        /\ lastTxnID'[i] = lastTxnID[i] + 1
    BY <1>1, <2>1, Zenon DEF AppCommit, Commit
  <2>3. pc[i] \in {"loadinfo", "sendinfo"} /\ tx[i].empty => raced'[i]
    BY <1>1, <2>1, Zenon DEF AppCommit
  <2>4. pc[i] = "loadinfo" =>
          /\ tx[i].localChanged => lastSyncedTxnID[i] < lastTxnID[i]
          /\ ~tx[i].empty => tx[i].txnID <= lastTxnID[i]
    BY Zenon DEF SyncedInv
  <2>5. pc[i] \in {"sendinfo", "store"} /\ ~(pc[i] = "sendinfo" /\ tx[i].empty) =>
          tx[i].txnID <= lastTxnID[i]
    BY Zenon DEF SyncedInv
  <2>6. /\ \A n \in Nat : n <= lastTxnID[i] => n < lastTxnID'[i]
        /\ \A n \in Nat : n < lastTxnID[i] => n < lastTxnID'[i]
        /\ \A n \in Nat : n < lastTxnID'[i] =>
             n <= lastTxnID'[i] /\ ~(lastTxnID'[i] <= n) /\ lastTxnID'[i] # n
        /\ lastTxnID'[i] # 0
    <3>1. PICK a, b : a = lastTxnID[i] /\ b = lastTxnID'[i]
      BY Zenon
    <3>2. a \in Nat /\ b = a + 1
      BY <1>2, <2>2, <3>1, Zenon
    <3>3. /\ \A n \in Nat : n <= a => n < b
          /\ \A n \in Nat : n < a => n < b
          /\ \A n \in Nat : n < b => n <= b /\ ~(b <= n) /\ b # n
          /\ b # 0
      BY ONLY <3>2
    <3> QED
      BY ONLY <3>1, <3>3, Zenon
  <2>7. /\ lastSyncedTxnID'[i] <= lastTxnID'[i]
        /\ ~(lastTxnID'[i] <= lastSyncedTxnID'[i])
        /\ lastTxnID'[i] # 0
    BY <1>2, <2>2, <2>6, Zenon
  <2>8. pc'[i] = "loadinfo" =>
          /\ tx'[i].localChanged => lastSyncedTxnID'[i] < lastTxnID'[i]
          /\ ~tx'[i].empty => tx'[i].txnID <= lastTxnID'[i]
          /\ lastTxnID'[i] <= tx'[i].txnID => raced'[i]
    BY <1>2, <2>2, <2>3, <2>4, <2>6, Zenon
  <2>9. pc'[i] \in {"sendinfo", "store"} =>
          /\ ~(pc'[i] = "sendinfo" /\ tx'[i].empty) => tx'[i].txnID <= lastTxnID'[i]
          /\ lastTxnID'[i] <= tx'[i].txnID => raced'[i]
    BY <1>2, <2>2, <2>3, <2>5, <2>6, Zenon
  <2>10. pc'[i] \in {"down", "list", "shadow"} => lastSyncedTxnID'[i] = 0
    BY <1>2, <2>2, Zenon
  <2> QED
    BY <2>7, <2>8, <2>9, <2>10, Zenon DEF SyncedInv
<1>4. CASE Crash(i)
  <2>1. /\ pc'[i] = "down" /\ lastSyncedTxnID'[i] = 0
        /\ UNCHANGED <<db, main, lastTxnID>>
    BY <1>1, <1>4, Zenon DEF Crash
  <2>2. lastSyncedTxnID'[i] <= lastTxnID'[i]
    BY <1>2, <2>1, NatOrder, Zenon
  <2> QED
    BY <1>2, <2>1, <2>2, Zenon DEF SyncedInv
<1>5. CASE LoseLMDB(i)
  <2>1. /\ pc'[i] = "down" /\ lastSyncedTxnID'[i] = 0 /\ lastTxnID'[i] = 0
        /\ db'[i] = EmptyDB /\ main'[i] = EmptyMain
    BY <1>1, <1>2, <1>5, Zenon DEF LoseLMDB
  <2>2. lastSyncedTxnID'[i] <= lastTxnID'[i]
    BY <2>1, NatOrder, Zenon
  <2> QED
    BY <2>1, <2>2, Zenon DEF SyncedInv
<1>6. CASE Start(i)
  <2>1. /\ pc'[i] = "list" /\ lastSyncedTxnID'[i] = 0
        /\ UNCHANGED <<db, main, lastTxnID>>
    BY <1>1, <1>2, <1>6, Zenon DEF Start
  <2>2. lastSyncedTxnID'[i] <= lastTxnID'[i]
    BY <1>2, <2>1, NatOrder, Zenon
  <2> QED
    BY <1>2, <2>1, <2>2, Zenon DEF SyncedInv
<1>7. ASSUME pc'[i] \in {"shadow", "send", "load"}, lastSyncedTxnID[i] = 0,
             UNCHANGED lastSyncedTxnID, lastTxnID'[i] \in Nat,
             lastTxnID'[i] = 0 => db'[i] = EmptyDB /\ main'[i] = EmptyMain
      PROVE  SyncedInv(i)'
  <2>1. lastTxnID'[i] = 0 => Stored(i)'
    BY <1>7, EmptyIsStored, Zenon
  <2>2. /\ lastTxnID'[i] <= lastSyncedTxnID'[i] => lastTxnID'[i] = 0
        /\ lastSyncedTxnID'[i] <= lastTxnID'[i]
    BY <1>7, NatOrder, Zenon
  <2> QED
    BY <1>7, <2>1, <2>2, Zenon DEF SyncedInv
<1>8. CASE InitialListing(i)
  <2>1. PICK l \in {"shadow", "send", "load"} : pc' = [pc EXCEPT ![i] = l]
    BY <1>8, Zenon DEF InitialListing, NextAfterShadow
  <2>2. pc[i] = "list" /\ UNCHANGED <<db, main, lastTxnID, lastSyncedTxnID>>
    BY <1>8, Zenon DEF InitialListing
  <2>3. pc'[i] = l
    BY <1>1, <2>1, Zenon
  <2> QED
    BY <1>2, <1>7, <2>2, <2>3, Zenon
<1>9. CASE ShadowInit(i)
  <2>1. PICK l \in {"shadow", "send", "load"} : pc' = [pc EXCEPT ![i] = l]
    BY <1>9, Zenon DEF ShadowInit, NextAfterShadow
  <2>2. /\ pc[i] = "shadow" /\ UNCHANGED <<main, lastSyncedTxnID>>
        /\ Commit(i, db' # db \/ ~hasShadow[i])
    BY <1>9, Zenon DEF ShadowInit
  <2>3. \/ lastTxnID'[i] = lastTxnID[i] + 1
        \/ lastTxnID'[i] = lastTxnID[i] /\ db' = db
    BY <1>1, <2>2, Zenon DEF Commit
  <2>4. /\ lastTxnID'[i] \in Nat
        /\ lastTxnID'[i] = 0 => db'[i] = EmptyDB /\ main'[i] = EmptyMain
    <3>1. lastTxnID[i] + 1 \in Nat /\ lastTxnID[i] + 1 # 0
      BY <1>2, NatNext, Zenon
    <3> QED
      BY <1>2, <2>2, <2>3, <3>1, Zenon
  <2>5. pc'[i] = l
    BY <1>1, <2>1, Zenon
  <2> QED
    BY <1>2, <1>7, <2>2, <2>4, <2>5, Zenon
<1> QED
  BY <1>3, <1>4, <1>5, <1>6, <1>8, <1>9, Zenon

\* LoadOnce.
LEMMA LoadSynced ==
  ASSUME TypeOK, ReferencesExist, AllGood, BucketKept,
         NEW i \in Instances, SyncedInv(i),
         (\E j \in Instances : LoadTxn(i, j)) \/ LoadInfo(i)
  PROVE  SyncedInv(i)'
<1> USE DEF lmdbVars, syncVars, historyVars
<1>1. /\ lastTxnID \in [Instances -> Nat] /\ lastSyncedTxnID \in [Instances -> Nat]
      /\ db \in [Instances -> DB]
      /\ main \in [Instances -> [Keys -> Values \cup {NoValue}]]
      /\ pc \in [Instances -> Pcs]
      /\ tx \in [Instances -> [txnID : Nat, localChanged : BOOLEAN,
                               empty : BOOLEAN, db : DB]]
      /\ raced \in [Instances -> BOOLEAN]
  BY Zenon DEF TypeOK, LMDBTypeOK, TxTypeOK, LoopTypeOK
<1>2. /\ lastTxnID[i] \in Nat /\ lastSyncedTxnID[i] \in Nat /\ tx[i].txnID \in Nat
      /\ lastSyncedTxnID[i] <= lastTxnID[i]
      /\ lastTxnID[i] = 0 => db[i] = EmptyDB /\ main[i] = EmptyMain
  BY <1>1, Zenon DEF SyncedInv
<1>3. ASSUME NEW j \in Instances, LoadTxn(i, j)
      PROVE  SyncedInv(i)'
  <2>1. PICK snap : snap = storage[j][ready[i][j]]
    BY Zenon
  <2>2. /\ pc[i] = "load" /\ pc'[i] = "loadinfo"
        /\ UNCHANGED <<lastSyncedTxnID, raced>>
        /\ db'[i] = LoadedDB(i, snap) /\ main'[i] = LoadedMain(i, snap)
        /\ LoadIsDirty(i, snap) => lastTxnID'[i] = lastTxnID[i] + 1
        /\ ~LoadIsDirty(i, snap) => lastTxnID'[i] = lastTxnID[i]
        /\ tx'[i] = [txnID |-> lastTxnID[i] + 1, localChanged |-> localChanged(i),
                     empty |-> ~LoadIsDirty(i, snap), db |-> EmptyDB]
    BY <1>1, <1>3, <2>1, Zenon DEF LoadTxn, Commit
  <2>3. /\ tx'[i].txnID = lastTxnID[i] + 1
        /\ tx'[i].localChanged <=> localChanged(i)
        /\ tx'[i].empty <=> ~LoadIsDirty(i, snap)
    <3>1. PICK lc, em : lc = localChanged(i) /\ em = ~LoadIsDirty(i, snap)
      BY Zenon
    <3>2. tx'[i] = [txnID |-> lastTxnID[i] + 1, localChanged |-> lc, empty |-> em,
                    db |-> EmptyDB]
      BY <2>2, <3>1, Zenon
    <3>3. /\ tx'[i].txnID = lastTxnID[i] + 1
          /\ tx'[i].localChanged = lc /\ tx'[i].empty = em
      BY <3>2, SMTT(30)
    <3> QED
      BY <3>1, <3>3, Zenon
  <2>4. ~LoadIsDirty(i, snap) => db'[i] = db[i] /\ main'[i] = main[i]
    BY <2>2, Zenon DEF LoadIsDirty
  <2>5. localChanged(i) <=> lastSyncedTxnID[i] < lastTxnID[i]
    BY <1>2, NatNext, Zenon DEF localChanged
  <2>6. ~localChanged(i) /\ i \notin ReceiveOnly => raced'[i] \/ Stored(i)'
    <3>1. ASSUME ~localChanged(i), i \notin ReceiveOnly PROVE raced[i] \/ Stored(i)
      <4>1. lastTxnID[i] <= lastSyncedTxnID[i]
        BY <1>2, <2>5, <3>1, NatOrder, Zenon
      <4> QED
        BY <2>2, <3>1, <4>1, Zenon DEF SyncedInv
    <3>2. ~localChanged(i) /\ Stored(i) => Stored(i)'
      BY <1>3, LoadedIsStored, Zenon
    <3> QED
      BY <2>2, <3>1, <3>2, Zenon
  <2>7. /\ lastSyncedTxnID'[i] <= lastTxnID'[i]
        /\ lastTxnID'[i] = 0 => db'[i] = EmptyDB /\ main'[i] = EmptyMain
    <3>1. CASE LoadIsDirty(i, snap)
      <4>1. lastTxnID'[i] = lastTxnID[i] + 1
        BY <2>2, <3>1, Zenon
      <4> QED
        BY ONLY <1>2, <2>2, <4>1, SMTT(30)
    <3>2. CASE ~LoadIsDirty(i, snap)
      BY <1>2, <2>2, <2>4, <3>2, Zenon
    <3> QED
      BY <3>1, <3>2, Zenon
  <2>8. /\ tx'[i].localChanged => lastSyncedTxnID'[i] < lastTxnID'[i]
        /\ ~tx'[i].empty => tx'[i].txnID <= lastTxnID'[i]
    <3>1. tx'[i].localChanged => lastSyncedTxnID'[i] < lastTxnID'[i]
      <4>1. lastTxnID[i] <= lastTxnID'[i]
        <5>1. CASE LoadIsDirty(i, snap)
          BY <1>2, <2>2, <5>1, NatNext, Zenon
        <5>2. CASE ~LoadIsDirty(i, snap)
          BY <1>2, <2>2, <5>2, NatOrder, Zenon
        <5> QED
          BY <5>1, <5>2, Zenon
      <4>2. tx'[i].localChanged => lastSyncedTxnID[i] < lastTxnID[i]
        BY <2>3, <2>5, Zenon
      <4>3. lastSyncedTxnID'[i] = lastSyncedTxnID[i] /\ lastTxnID'[i] \in Nat
        BY <1>2, <2>2, SMTT(30)
      <4> QED
        BY <1>2, <4>1, <4>2, <4>3, NatOrder, ZenonT(30)
    <3>2. ~tx'[i].empty => lastTxnID'[i] = lastTxnID[i] + 1
      BY <2>2, <2>3, Zenon
    <3> QED
      BY <1>2, <2>3, <3>1, <3>2, NatNext, Zenon
  <2> QED
    BY <2>2, <2>3, <2>6, <2>7, <2>8, Zenon DEF SyncedInv
<1>4. CASE LoadInfo(i)
  <2>1. /\ pc[i] = "loadinfo" /\ pc'[i] \in {"check", "load"}
        /\ UNCHANGED <<db, main, lastTxnID, raced>>
        /\ lastSyncedTxnID'[i] = IF tx[i].localChanged THEN lastSyncedTxnID[i]
                                 ELSE AdjustedTxnID(i)
    BY <1>1, <1>4, Zenon DEF LoadInfo
  <2>2. /\ tx[i].localChanged => lastSyncedTxnID[i] < lastTxnID[i]
        /\ /\ ~tx[i].localChanged /\ i \notin ReceiveOnly
           /\ lastTxnID[i] <= tx[i].txnID
           => raced[i] \/ Stored(i)
    BY <2>1, Zenon DEF SyncedInv
  <2>3. Stored(i) => Stored(i)'
    BY <2>1, StoredKept, Zenon
  <2>4. /\ AdjustedTxnID(i) <= lastTxnID[i] /\ AdjustedTxnID(i) \in Nat
        /\ lastTxnID[i] <= AdjustedTxnID(i) => lastTxnID[i] <= tx[i].txnID
    BY <1>2, SMTT(30) DEF AdjustedTxnID
  <2>5. CASE tx[i].localChanged
    <3>1. ~(lastTxnID'[i] <= lastSyncedTxnID'[i])
      BY <1>2, <2>1, <2>2, <2>5, NatBelow, Zenon
    <3> QED
      BY <1>2, <2>1, <2>5, <3>1, Zenon DEF SyncedInv
  <2>6. CASE ~tx[i].localChanged
    <3>1. i \notin ReceiveOnly /\ lastTxnID'[i] <= lastSyncedTxnID'[i]
            => raced'[i] \/ Stored(i)'
      BY <2>1, <2>2, <2>3, <2>4, <2>6, Zenon
    <3>2. lastSyncedTxnID'[i] <= lastTxnID'[i]
      BY <2>1, <2>4, <2>6, Zenon
    <3> QED
      BY <1>2, <2>1, <3>1, <3>2, Zenon DEF SyncedInv
  <2> QED
    BY <2>5, <2>6, Zenon
<1> QED
  BY <1>3, <1>4, Zenon

\* The check for local changes.
LEMMA CheckSynced ==
  ASSUME TypeOK, BucketKept, NEW i \in Instances, SyncedInv(i), Check(i)
  PROVE  SyncedInv(i)'
<1> USE DEF lmdbVars, historyVars
<1>1. /\ lastTxnID[i] \in Nat /\ lastSyncedTxnID[i] \in Nat
      /\ lastSyncedTxnID[i] <= lastTxnID[i]
      /\ lastTxnID[i] = 0 => db[i] = EmptyDB /\ main[i] = EmptyMain
  BY Zenon DEF SyncedInv, TypeOK, LMDBTypeOK, LoopTypeOK
<1>2. PICK waiting : waiting = waitingForInstances[i] \cap SeenInstances(i)
  BY Zenon
<1>3. /\ pc[i] \in {"load", "check"} /\ UNCHANGED <<db, main, lastTxnID, raced>>
      /\ lastSyncedTxnID'[i] = IF Sends(i, waiting) THEN lastTxnID[i]
                               ELSE lastSyncedTxnID[i]
      /\ IF Sends(i, waiting) /\ (hasDataAtStart[i] \/ lastTxnID[i] > 0)
         THEN pc' = [pc EXCEPT ![i] = "send"] ELSE EndPass(i, waiting, {})
  BY <1>2, Zenon DEF Check, TypeOK, LoopTypeOK
<1>4. CASE Sends(i, waiting) /\ (hasDataAtStart[i] \/ lastTxnID[i] > 0)
  <2>1. pc'[i] = "send" /\ lastSyncedTxnID'[i] = lastTxnID[i]
    BY <1>3, <1>4, Zenon DEF TypeOK, LoopTypeOK
  <2>2. lastSyncedTxnID'[i] <= lastTxnID'[i]
    BY <1>1, <1>3, <2>1, NatOrder, Zenon
  <2> QED
    BY <1>1, <1>3, <2>1, <2>2, Zenon DEF SyncedInv
<1>5. CASE ~(Sends(i, waiting) /\ (hasDataAtStart[i] \/ lastTxnID[i] > 0))
  <2>1. pc'[i] \in {"load", "done"}
    BY <1>3, <1>5, EndPassEffect, Zenon
  <2>2. i \notin ReceiveOnly /\ lastTxnID'[i] <= lastSyncedTxnID'[i]
          => raced'[i] \/ Stored(i)'
    <3>1. CASE Sends(i, waiting)
      <4>1. lastTxnID[i] = 0
        <5>1. ~(lastTxnID[i] > 0)
          BY <1>5, <3>1, Zenon
        <5> QED
          BY ONLY <1>1, <5>1, SMTT(30)
      <4> QED
        BY <1>1, <1>3, <4>1, EmptyIsStored, Zenon
    <3>2. CASE ~Sends(i, waiting)
      <4>1. Stored(i) => Stored(i)'
        BY <1>3, StoredKept, Zenon
      <4>2. i \notin ReceiveOnly /\ lastTxnID[i] <= lastSyncedTxnID[i]
              => raced[i] \/ Stored(i)
        BY <1>3, Zenon DEF SyncedInv
      <4> QED
        BY <1>3, <3>2, <4>1, <4>2, Zenon
    <3> QED
      BY <3>1, <3>2, Zenon
  <2>3. lastSyncedTxnID'[i] <= lastTxnID'[i]
    BY <1>1, <1>3, NatOrder, Zenon
  <2> QED
    BY <1>1, <1>3, <2>1, <2>2, <2>3, Zenon DEF SyncedInv
<1> QED
  BY <1>4, <1>5, Zenon

\* SendOnce.
LEMMA SendSynced ==
  ASSUME TypeOK, BucketKept, NEW i \in Instances, SyncedInv(i),
         SchemaTracksChanges \/ main[i] = shadowToMain(DumpedDB(i)),
         SendTxn(i) \/ SendInfo(i) \/ Store(i)
  PROVE  SyncedInv(i)'
<1> USE DEF lmdbVars, historyVars
<1>1. /\ tx \in [Instances -> [txnID : Nat, localChanged : BOOLEAN,
                               empty : BOOLEAN, db : DB]]
      /\ pc \in [Instances -> Pcs] /\ lastTxnID \in [Instances -> Nat]
      /\ lastSyncedTxnID \in [Instances -> Nat] /\ db \in [Instances -> DB]
  BY Zenon DEF TypeOK, LMDBTypeOK, TxTypeOK, LoopTypeOK
<1>2. /\ lastTxnID[i] \in Nat /\ lastSyncedTxnID[i] \in Nat /\ tx[i].txnID \in Nat
      /\ lastSyncedTxnID[i] <= lastTxnID[i]
      /\ lastTxnID[i] = 0 => db[i] = EmptyDB /\ main[i] = EmptyMain
      /\ pc[i] \in {"sendinfo", "store"} =>
           /\ ~(pc[i] = "sendinfo" /\ tx[i].empty) => tx[i].txnID <= lastTxnID[i]
           /\ lastTxnID[i] <= tx[i].txnID => raced[i] \/ Dumped(i)
  BY <1>1, Zenon DEF SyncedInv
<1>3. CASE SendTxn(i)
  <2>1. PICK d : d = DumpedDB(i)
    BY Zenon
  <2>2. /\ pc'[i] = "sendinfo" /\ UNCHANGED <<main, lastSyncedTxnID>>
        /\ db'[i] = d /\ tx'[i].db = d
    BY <1>1, <1>3, <2>1, Zenon DEF SendTxn, syncVars
  <2>3. Dumped(i)'
    <3>1. SchemaTracksChanges \/ (main[i] = shadowToMain(db[i]))'
      BY <2>1, <2>2, Zenon DEF shadowToMain
    <3> QED
      BY <2>2, <3>1, Zenon DEF Dumped
  <2>4. PICK em : em = (~SchemaTracksChanges /\ ~SendIsDirty(i))
    BY Zenon
  <2>5. PICK t : t = IF SchemaTracksChanges THEN lastTxnID[i] ELSE lastTxnID[i] + 1
    BY Zenon
  <2>6. /\ tx' = [tx EXCEPT ![i] = [txnID |-> t, localChanged |-> FALSE,
                                    empty |-> em, db |-> d]]
        /\ Commit(i, SendIsDirty(i))
    BY <1>3, <2>1, <2>4, <2>5, Zenon DEF SendTxn
  <2>7. tx'[i].txnID = t /\ tx'[i].empty = em
    BY <1>1, <2>6, Zenon
  <2>8. /\ lastTxnID'[i] \in {lastTxnID[i], lastTxnID[i] + 1}
        /\ SendIsDirty(i) => lastTxnID'[i] = lastTxnID[i] + 1
        /\ ~SendIsDirty(i) => lastTxnID'[i] = lastTxnID[i]
    BY <1>1, <2>6, Zenon DEF Commit
  <2>9. ~SendIsDirty(i) => db'[i] = db[i]
    BY <2>1, <2>2, Zenon DEF SendIsDirty, DumpedDB
  <2>10. lastTxnID[i] + 1 \in Nat /\ lastTxnID[i] + 1 # 0
         /\ lastTxnID[i] <= lastTxnID[i] /\ lastTxnID[i] <= lastTxnID[i] + 1
    BY ONLY <1>2, SMTT(30)
  <2>11. lastTxnID'[i] = 0 => db'[i] = EmptyDB /\ main'[i] = EmptyMain
    BY <1>2, <2>2, <2>8, <2>9, <2>10, Zenon
  <2>12. lastSyncedTxnID'[i] <= lastTxnID'[i]
    <3>1. lastSyncedTxnID'[i] = lastSyncedTxnID[i]
      BY <2>2, Zenon
    <3> QED
      BY ONLY <1>2, <2>8, <3>1, SMTT(30)
  <2>13. ~tx'[i].empty => tx'[i].txnID <= lastTxnID'[i]
    <3>1. CASE SchemaTracksChanges
      BY <2>5, <2>7, <2>8, <2>10, <3>1, Zenon
    <3>2. CASE ~SchemaTracksChanges
      <4>1. ~tx'[i].empty => lastTxnID'[i] = lastTxnID[i] + 1
        BY <2>4, <2>7, <2>8, <3>2, Zenon
      <4>2. t = lastTxnID[i] + 1 /\ t <= t
        BY <2>5, <2>10, <3>2, NatOrder, Zenon
      <4> QED
        BY <2>7, <4>1, <4>2, Zenon
    <3> QED
      BY <3>1, <3>2, Zenon
  <2> QED
    BY <2>2, <2>3, <2>11, <2>12, <2>13, Zenon DEF SyncedInv
<1>4. CASE SendInfo(i)
  <2>1. pc[i] = "sendinfo" /\ UNCHANGED <<db, main, lastTxnID, raced>>
    BY <1>4, Zenon DEF SendInfo
  <2>2. /\ AdjustedTxnID(i) <= lastTxnID[i] /\ AdjustedTxnID(i) \in Nat
        /\ lastTxnID[i] <= AdjustedTxnID(i) => lastTxnID[i] <= tx[i].txnID
    BY ONLY <1>2, SMTT(30) DEF AdjustedTxnID
  <2>3. CASE i \in ReceiveOnly
    <3>1. SendReturns(i, AdjustedTxnID(i))
      BY <1>4, <2>3, Zenon DEF SendInfo
    <3>2. lastSyncedTxnID'[i] = AdjustedTxnID(i)
      BY <1>1, <3>1, Zenon DEF SendReturns
    <3>3. pc'[i] \in {"load", "done"}
      BY <3>1, SendReturnsEffect, Zenon
    <3> QED
      BY <1>2, <2>1, <2>2, <2>3, <3>2, <3>3, Zenon DEF SyncedInv
  <2>4. CASE i \notin ReceiveOnly
    <3>1. PICK t : t = AdjustedTxnID(i)
      BY Zenon
    <3>2. /\ tx' = [tx EXCEPT ![i].txnID = t]
          /\ pc'[i] = "store" /\ UNCHANGED lastSyncedTxnID
      BY <1>1, <1>4, <2>4, <3>1, Zenon DEF SendInfo, syncVars
    <3>3. tx'[i].txnID = t /\ tx'[i].db = tx[i].db
      BY <1>1, <3>2, Zenon
    <3>4. Dumped(i) => Dumped(i)'
      BY <2>1, <3>3, Zenon DEF Dumped, shadowToMain
    <3>5. /\ tx'[i].txnID <= lastTxnID'[i]
          /\ lastTxnID'[i] <= tx'[i].txnID => raced'[i] \/ Dumped(i)'
      BY <1>2, <2>1, <2>2, <3>1, <3>3, <3>4, Zenon
    <3> QED
      BY <1>2, <2>1, <3>2, <3>5, Zenon DEF SyncedInv
  <2> QED
    BY <2>3, <2>4, Zenon
<1>5. CASE Store(i)
  <2>1. /\ pc[i] = "store" /\ UNCHANGED <<db, main, lastTxnID, raced>>
        /\ SendReturns(i, tx[i].txnID)
    BY <1>5, Zenon DEF Store
  <2>2. lastSyncedTxnID'[i] = tx[i].txnID
    BY <1>1, <2>1, Zenon DEF SendReturns
  <2>3. pc'[i] \in {"load", "done"}
    BY <2>1, SendReturnsEffect, Zenon
  <2>4. /\ Len(storage'[i]) = Len(storage[i]) + 1
        /\ storage'[i][Len(storage[i]) + 1] = tx[i].db
    BY <1>5, StoreEffect, Zenon
  <2>5. Len(storage[i]) + 1 \in 1..Len(storage'[i])
    BY <2>4, DBTypes, SMTT(30)
  <2>6. ASSUME Dumped(i) PROVE Stored(i)'
    <3>1. /\ db'[i] = storage'[i][Len(storage[i]) + 1]
          /\ SchemaTracksChanges \/ (main[i] = shadowToMain(db[i]))'
      BY <2>1, <2>4, <2>6, Zenon DEF Dumped, shadowToMain
    <3>2. \A k \in Keys : Leq(db'[i][k], db'[i][k])
      BY <1>1, <2>1, LeqReflexive, ZenonT(30) DEF DB
    <3> QED
      BY <2>5, <3>1, <3>2, Zenon DEF Stored
  <2>7. /\ tx[i].txnID <= lastTxnID[i]
        /\ lastTxnID[i] <= tx[i].txnID => raced[i] \/ Dumped(i)
    BY <1>2, <2>1, Zenon
  <2> QED
    BY <1>2, <2>1, <2>2, <2>3, <2>6, <2>7, Zenon DEF SyncedInv
<1> QED
  BY <1>3, <1>4, <1>5, Zenon

\* Every step keeps SyncedInv of every instance.
LEMMA SyncedStep ==
  ASSUME TypeOK, ReferencesExist, AllGood,
         \A q \in Instances :
           SchemaTracksChanges \/ main[q] = shadowToMain(DumpedDB(q)),
         \A q \in Instances : SyncedInv(q), [Next]_vars
  PROVE  (\A q \in Instances : SyncedInv(q))'
<1> USE DEF lmdbVars, syncVars, historyVars
<1>1. TypeOK /\ ReferencesExist /\ BucketKept
  BY BucketStep, Zenon
<1>2. /\ lastTxnID \in [Instances -> Nat] /\ lastSyncedTxnID \in [Instances -> Nat]
      /\ db \in [Instances -> DB]
      /\ main \in [Instances -> [Keys -> Values \cup {NoValue}]]
      /\ pc \in [Instances -> Pcs]
      /\ tx \in [Instances -> [txnID : Nat, localChanged : BOOLEAN,
                               empty : BOOLEAN, db : DB]]
      /\ raced \in [Instances -> BOOLEAN]
  BY <1>1, Zenon DEF TypeOK, LMDBTypeOK, TxTypeOK, LoopTypeOK
<1> SUFFICES ASSUME NEW q \in Instances PROVE SyncedInv(q)'
  BY Zenon
<1> DEFINE Same == /\ db'[q] = db[q] /\ main'[q] = main[q]
                   /\ lastTxnID'[q] = lastTxnID[q]
                   /\ pc'[q] = pc[q] /\ lastSyncedTxnID'[q] = lastSyncedTxnID[q]
                   /\ tx'[q] = tx[q] /\ raced'[q] = raced[q]
<1>3. ASSUME Same PROVE SyncedInv(q)'
  BY <1>1, <1>3, OthersSynced, Zenon
<1> HIDE DEF Same
<1>4. CASE UNCHANGED vars
  BY <1>3, <1>4, Zenon DEF vars, Same
<1>5. ASSUME NEW i \in Instances,
             List(i) \/ TimerExpires(i) \/ \E j \in Instances : Download(i, j)
      PROVE  Same
  BY <1>5, Zenon DEF List, TimerExpires, Download, Same
<1>6. ASSUME NEW i \in Instances,
             \/ \E k \in Keys : AppDelete(i, k) \/ \E v \in AppValues : AppPut(i, k, v)
             \/ Crash(i) \/ LoseLMDB(i) \/ Start(i) \/ InitialListing(i)
             \/ ShadowInit(i)
      PROVE  SyncedInv(q)'
  <2>1. CASE q = i
    BY <1>1, <1>6, <2>1, RestartSynced, Zenon
  <2>2. CASE q # i
    <3>1. ASSUME NEW k \in Keys,
                 AppDelete(i, k) \/ \E v \in AppValues : AppPut(i, k, v)
          PROVE  Same
      <4>1. /\ AppCommit(i)
            /\ UNCHANGED db \/ \E e : db' = [db EXCEPT ![i][k] = e]
            /\ UNCHANGED main \/ \E v : main' = [main EXCEPT ![i][k] = v]
        BY <3>1, Zenon DEF AppDelete, AppPut, NativeWrite
      <4>2. db'[q] = db[q] /\ main'[q] = main[q]
        BY <1>2, <2>2, <4>1, Zenon
      <4> QED
        BY <1>2, <2>2, <4>1, <4>2, Zenon DEF AppCommit, Commit, Same
    <3>2. CASE Crash(i)
      <4>1. /\ UNCHANGED <<db, main, lastTxnID>>
            /\ pc' = [pc EXCEPT ![i] = "down"]
            /\ lastSyncedTxnID' = [lastSyncedTxnID EXCEPT ![i] = 0]
            /\ tx' = [tx EXCEPT ![i] = NoTx]
            /\ raced' = [raced EXCEPT ![i] = FALSE]
        BY <3>2, Zenon DEF Crash, lmdbVars, syncVars, historyVars
      <4> QED
        BY <1>2, <1>3, <2>2, <4>1, Zenon DEF Same
    <3>3. CASE LoseLMDB(i)
      <4>1. /\ UNCHANGED <<pc, lastSyncedTxnID, tx, raced>>
            /\ db' = [db EXCEPT ![i] = EmptyDB]
            /\ main' = [main EXCEPT ![i] = EmptyMain]
            /\ lastTxnID' = [lastTxnID EXCEPT ![i] = 0]
        BY <3>3, Zenon DEF LoseLMDB, lmdbVars, syncVars, historyVars
      <4> QED
        BY <1>2, <1>3, <2>2, <4>1, Zenon DEF Same
    <3>4. CASE Start(i)
      <4>1. /\ UNCHANGED <<db, main, lastTxnID, lastSyncedTxnID, tx, raced>>
            /\ pc' = [pc EXCEPT ![i] = "list"]
        BY <3>4, Zenon DEF Start, lmdbVars, syncVars, historyVars
      <4> QED
        BY <1>2, <1>3, <2>2, <4>1, Zenon DEF Same
    <3>5. CASE InitialListing(i)
      <4>1. /\ UNCHANGED <<db, main, lastTxnID, lastSyncedTxnID, tx, raced>>
            /\ \E p : pc' = [pc EXCEPT ![i] = p]
        BY <3>5, Zenon DEF InitialListing, lmdbVars, syncVars, historyVars
      <4> QED
        BY <1>2, <1>3, <2>2, <4>1, Zenon DEF Same
    <3>6. CASE ShadowInit(i)
      <4>1. /\ UNCHANGED <<main, lastSyncedTxnID, tx, raced>>
            /\ \E d : db' = [db EXCEPT ![i] = d]
            /\ \E p : pc' = [pc EXCEPT ![i] = p]
            /\ \E n : lastTxnID' = [lastTxnID EXCEPT ![i] = n]
        BY <3>6, Zenon DEF ShadowInit, Commit, lmdbVars, syncVars, historyVars
      <4> QED
        BY <1>2, <1>3, <2>2, <4>1, Zenon DEF Same
    <3> QED
      BY <1>3, <1>6, <3>1, <3>2, <3>3, <3>4, <3>5, <3>6, Zenon
  <2> QED
    BY <2>1, <2>2, Zenon
<1>7. ASSUME NEW i \in Instances,
             (\E j \in Instances : LoadTxn(i, j)) \/ LoadInfo(i)
      PROVE  SyncedInv(q)'
  <2>1. CASE q = i
    BY <1>1, <1>7, <2>1, LoadSynced, Zenon
  <2>2. CASE q # i
    <3>1. ASSUME NEW j \in Instances, LoadTxn(i, j) PROVE Same
      <4>1. /\ UNCHANGED <<lastSyncedTxnID, raced>>
            /\ \E d : db' = [db EXCEPT ![i] = d]
            /\ \E m : main' = [main EXCEPT ![i] = m]
            /\ \E n : lastTxnID' = [lastTxnID EXCEPT ![i] = n]
            /\ \E t : tx' = [tx EXCEPT ![i] = t]
            /\ \E p : pc' = [pc EXCEPT ![i] = p]
        BY <3>1, Zenon DEF LoadTxn, Commit
      <4> QED
        BY <1>2, <2>2, <4>1, Zenon DEF Same
    <3>2. CASE LoadInfo(i)
      BY <1>2, <1>3, <2>2, <3>2, Zenon DEF LoadInfo, Same
    <3> QED
      BY <1>3, <1>7, <3>1, <3>2, Zenon
  <2> QED
    BY <2>1, <2>2, Zenon
<1>8. ASSUME NEW i \in Instances, Check(i) PROVE SyncedInv(q)'
  <2>1. CASE q = i
    BY <1>1, <1>8, <2>1, CheckSynced, Zenon
  <2>2. CASE q # i
    BY <1>2, <1>3, <1>8, <2>2, ZenonT(30) DEF Check, EndPass, Same
  <2> QED
    BY <2>1, <2>2, Zenon
<1>9. ASSUME NEW i \in Instances, SendTxn(i) \/ SendInfo(i) \/ Store(i)
      PROVE  SyncedInv(q)'
  <2>1. CASE q = i
    BY <1>1, <1>9, <2>1, SendSynced, Zenon
  <2>2. CASE q # i
    <3>1. CASE SendTxn(i)
      BY <1>2, <1>3, <2>2, <3>1, Zenon DEF SendTxn, Commit, Same
    <3>2. CASE SendInfo(i) \/ Store(i)
      BY <1>2, <1>3, <2>2, <3>2, ZenonT(30) DEF SendInfo, Store, SendReturns,
         EndPass, Same
    <3> QED
      BY <1>9, <3>1, <3>2, Zenon
  <2> QED
    BY <2>1, <2>2, Zenon
<1> QED
  BY <1>3, <1>4, <1>5, <1>6, <1>7, <1>8, <1>9, Zenon DEF Next

\* When no transaction is newer than lastSyncedTxnID, all that the LMDB holds is in
\* the bucket, unless the application reused the ID of an empty transaction before
\* LoadOnce or SendOnce called env.Info().  In shadow mode this takes clocks that
\* agree, as mainToShadow keeps an entry with a later timestamp, and no empty
\* values, which shadowToMain takes for deletions.
THEOREM UploadedUnlessRacedAlways ==
  ASSUME SchemaTracksChanges \/ (SameClocks /\ Empty \notin AppValues)
  PROVE  Spec => []UploadedUnlessRaced
<1> DEFINE Inv == \A q \in Instances : SyncedInv(q)
           Faithful == \A q \in Instances :
                         SchemaTracksChanges \/ main[q] = shadowToMain(DumpedDB(q))
<1>1. Init => Inv
  <2> SUFFICES ASSUME Init PROVE Inv
    BY Zenon
  <2>1. \A q \in Instances : /\ lastTxnID[q] = 0 /\ lastSyncedTxnID[q] = 0
                              /\ db[q] = EmptyDB /\ main[q] = EmptyMain
                              /\ pc[q] = "down"
    BY Zenon DEF Init
  <2> QED
    BY <2>1, NatOrder, ZenonT(30) DEF SyncedInv
<1>2. Spec => []Faithful
  <2>1. CASE SchemaTracksChanges
    <3>1. Faithful
      BY <2>1, Zenon
    <3> QED
      BY <3>1, PTL
  <2>2. CASE ~SchemaTracksChanges
    <3>1. Spec => [](\A q \in Instances : MainBehind(q))
      BY <2>2, BehindAlways, Zenon
    <3>2. TypeOK /\ AllGood /\ (\A q \in Instances : MainBehind(q)) => Faithful
      BY <2>2, DumpIsFaithful, Zenon
    <3> QED
      BY <3>1, <3>2, GoodAlways, PTL
  <2> QED
    BY <2>1, <2>2, Zenon
<1>3. TypeOK /\ ReferencesExist /\ AllGood /\ Faithful /\ Inv /\ [Next]_vars => Inv'
  BY SyncedStep, Zenon
<1>4. Inv => UploadedUnlessRaced
  BY Zenon DEF UploadedUnlessRaced, ConsidersStored, SyncedInv
<1> QED
  BY <1>1, <1>2, <1>3, <1>4, GoodAlways, PTL DEF Spec
-------------------------------------------------------------------------------
(*****************************************************************************)
(* Both modes: the main DBI after a load.                                    *)
(*****************************************************************************)
\* Only LoadOnce goes from "load" to "loadinfo".
LEMMA OnlyLoads ==
  ASSUME TypeOK, [Next]_vars, NEW q \in Instances,
         pc[q] = "load", pc'[q] = "loadinfo"
  PROVE  \E j \in Instances : LoadTxn(q, j)
<1> DEFINE Stays == pc'[q] # "loadinfo"
<1>1. pc \in [Instances -> Pcs]
  BY Zenon DEF TypeOK, LoopTypeOK
<1>2. ASSUME UNCHANGED pc PROVE Stays
  BY <1>2, Zenon
<1>3. ASSUME NEW i \in Instances, NEW l, pc' = [pc EXCEPT ![i] = l],
             l # "loadinfo"
      PROVE  Stays
  BY <1>1, <1>3, Zenon
<1>4. CASE UNCHANGED vars
  BY <1>2, <1>4, Zenon DEF vars
<1>5. ASSUME NEW i \in Instances, NEW k \in Keys,
             AppDelete(i, k) \/ \E v \in AppValues : AppPut(i, k, v)
      PROVE  Stays
  BY <1>2, <1>5, Zenon DEF AppDelete, AppPut, NativeWrite, AppCommit
<1>6. ASSUME NEW i \in Instances,
             LoseLMDB(i) \/ List(i) \/ TimerExpires(i)
             \/ \E j \in Instances : Download(i, j)
      PROVE  Stays
  BY <1>2, <1>6, Zenon DEF LoseLMDB, List, TimerExpires, Download
<1>7. ASSUME NEW i \in Instances, Crash(i) \/ Start(i) \/ SendTxn(i)
      PROVE  Stays
  <2>1. PICK l \in {"down", "list", "sendinfo"} : pc' = [pc EXCEPT ![i] = l]
    BY <1>7, Zenon DEF Crash, Start, SendTxn
  <2> QED
    BY <1>3, <2>1, Zenon
<1>8. ASSUME NEW i \in Instances, InitialListing(i) \/ ShadowInit(i)
      PROVE  Stays
  <2>1. PICK l \in {"shadow", "send", "load"} : pc' = [pc EXCEPT ![i] = l]
    BY <1>8, ZenonT(30) DEF InitialListing, ShadowInit, NextAfterShadow
  <2> QED
    BY <1>3, <2>1, Zenon
<1>9. ASSUME NEW i \in Instances, LoadInfo(i) \/ Check(i)
      PROVE  Stays
  <2>1. PICK l \in {"check", "load", "send", "done"} : pc' = [pc EXCEPT ![i] = l]
    BY <1>9, ZenonT(30) DEF LoadInfo, Check, EndPass
  <2> QED
    BY <1>3, <2>1, Zenon
<1>10. ASSUME NEW i \in Instances, SendInfo(i) \/ Store(i)
       PROVE  Stays
  <2>1. PICK l \in {"store", "load", "done"} : pc' = [pc EXCEPT ![i] = l]
    BY <1>10, ZenonT(30) DEF SendInfo, Store, SendReturns, EndPass
  <2> QED
    BY <1>3, <2>1, Zenon
<1>11. ASSUME NEW i \in Instances, NEW j \in Instances, LoadTxn(i, j)
       PROVE  q = i
  BY <1>1, <1>11, Zenon DEF LoadTxn
<1> QED
  BY <1>4, <1>5, <1>6, <1>7, <1>8, <1>9, <1>10, <1>11, Zenon DEF Next

\* After a load the main DBI has every live value of the shadow DBI, if the
\* application writes no empty value.  shadowToMain takes an empty value for a
\* deletion.
THEOREM MainHasAllOfShadowAlways ==
  ASSUME Empty \notin AppValues
  PROVE  Spec => MainHasAllOfShadow
<1> DEFINE Inv == TypeOK /\ ReferencesExist /\ AllGood
<1>3. Inv /\ Inv' /\ [Next]_vars =>
        [\A i \in Instances : pc[i] = "load" /\ pc'[i] = "loadinfo" =>
           SchemaTracksChanges \/ \A k \in Keys :
             db'[i][k].kind = "live" => main'[i][k] = db'[i][k].val]_vars
  <2> SUFFICES ASSUME Inv, Inv', [Next]_vars, NEW i \in Instances,
                      pc[i] = "load", pc'[i] = "loadinfo", ~SchemaTracksChanges,
                      NEW k \in Keys, db'[i][k].kind = "live"
               PROVE  main'[i][k] = db'[i][k].val
    BY Zenon
  <2>1. PICK j \in Instances : LoadTxn(i, j)
    BY OnlyLoads, Zenon
  <2>2. PICK d : d = LoadedDB(i, storage[j][ready[i][j]])
    BY Zenon
  <2>3. db'[i] = d /\ main'[i] = shadowToMain(d)
    BY <2>1, <2>2, Zenon DEF LoadTxn, LoadedMain, TypeOK, LMDBTypeOK
  <2>4. main'[i][k] = PlainValue(d[k])
    BY <2>3, Zenon DEF shadowToMain
  <2>5. db'[i][k].val # Empty
    BY Zenon DEF AllGood, GoodDB, GoodEntry, Full
  <2> QED
    BY <2>3, <2>4, <2>5, Zenon DEF PlainValue
<1>4. Spec => []Inv
  BY GoodAlways, Zenon
<1> QED
  BY <1>3, <1>4, PTL DEF Spec, MainHasAllOfShadow

===============================================================================
