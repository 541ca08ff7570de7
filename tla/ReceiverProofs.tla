---------------------------- MODULE ReceiverProofs ----------------------------
(***************************************************************************)
(* Proofs about Receiver, for any instances, limits, files and bounds: no  *)
(* token of the two limits is lost, no corrupt snapshot is offered, and no *)
(* wake-up of a downloader is lost.                                        *)
(***************************************************************************)
EXTENDS Receiver, FiniteSetTheorems, WellFoundedInduction, TLAPS

\* A set of natural numbers has a least element, which Min chooses.
LEMMA MinOfNaturals ==
  ASSUME NEW S \in SUBSET Nat, S # {}
  PROVE  Min(S) \in S /\ \A n \in S : Min(S) <= n
<1> DEFINE R == {p \in Nat \X Nat : p[1] < p[2]}
<1>1. R = OpToRel(<, Nat)
  BY Zenon DEF OpToRel
<1>2. IsWellFoundedOn(R, Nat)
  BY <1>1, NatLessThanWellFounded, Zenon
<1>3. PICK m \in S : \A n \in S : ~(<<n, m>> \in R)
  <2> HIDE DEF R
  <2> QED
    BY <1>2, WFMin, Zenon
<1>4. ASSUME NEW n \in S PROVE m <= n
  <2>1. ~(<<n, m>> \in Nat \X Nat /\ n < m)
    BY <1>3, Zenon
  <2> QED
    BY <2>1
<1> QED
  BY <1>4, Zenon DEF Min

\* A bounded set of natural numbers has a greatest element, which Max chooses.
LEMMA MaxOfNaturals ==
  ASSUME NEW b \in Nat, NEW S \in SUBSET (0..b), S # {}
  PROVE  Max(S) \in S /\ \A n \in S : n <= Max(S)
<1> DEFINE T == {m \in Nat : b - m \in S}
<1>1. T # {}
  <2>1. PICK n \in S : TRUE
    BY Zenon
  <2>2. b - n \in Nat /\ b - (b - n) = n
    BY <2>1
  <2> QED
    BY <2>2, Zenon
<1>2. Min(T) \in T /\ \A n \in T : Min(T) <= n
  BY <1>1, MinOfNaturals, Zenon
<1>3. PICK m \in T : \A n \in T : m <= n
  BY <1>2, Zenon
<1>4. b - m \in S /\ m \in Nat
  BY Zenon
<1>5. ASSUME NEW n \in S PROVE n <= b - m
  <2>1. b - n \in T
    OBVIOUS
  <2> QED
    BY <1>3, <1>4, <2>1
<1> QED
  BY <1>4, <1>5, Zenon DEF Max

\* The latest of the listed files of an instance is one of them, if there are any.
LEMMA LastOfFiles ==
  ASSUME NEW S \in SUBSET (1..MaxFiles)
  PROVE  /\ LastOf(S) \in FileNumber
         /\ LastOf(S) # 0 => LastOf(S) \in S
         /\ \A n \in S : n <= LastOf(S)
         /\ LastOf(S) = 0 => S = {}
<1>1. MaxFiles \in Nat
  BY ReceiverAssumption, Zenon
<1>2. CASE S = {}
  BY <1>1, <1>2 DEF LastOf, FileNumber
<1>3. CASE S # {}
  <2>1. Max(S) \in S /\ \A n \in S : n <= Max(S)
    BY <1>1, <1>3, MaxOfNaturals
  <2>2. LastOf(S) = Max(S)
    BY <1>3, Zenon DEF LastOf
  <2>3. Max(S) \in 1..MaxFiles
    BY <2>1, Zenon
  <2> QED
    BY <1>1, <2>1, <2>2, <2>3 DEF FileNumber
<1> QED
  BY <1>2, <1>3, Zenon
-------------------------------------------------------------------------------
\* The variables of the receiver have their types at the start.
LEMMA InitTypes == Init => TypeOK
<1> SUFFICES ASSUME Init PROVE TypeOK
  BY Zenon
<1>1. /\ files \in [Instances -> SUBSET (1..MaxFiles)]
      /\ bad \subseteq Instances \X (1..MaxFiles)
  BY ReceiverAssumption, Zenon DEF Init
<1>2. newest \in [Instances -> FileNumber]
  BY <1>1, LastOfFiles, Zenon DEF Init
<1> QED
  BY <1>1, <1>2, ReceiverAssumption
  DEF Init, TypeOK, NoFile, NoNames, NotLoading, FileNumber, DownloaderPcs

\* An upload and a deletion keep the types.
LEMMA BucketTypes ==
  ASSUME TypeOK, NEW j \in Instances,
         \/ \E isBad \in BOOLEAN : Upload(j, isBad)
         \/ \E n \in 1..MaxFiles : Delete(j, n)
  PROVE  TypeOK'
<1> USE ReceiverAssumption DEF TypeOK, FileNumber, runVars, downloaderVars,
        limitVars, syncVars
<1>1. ASSUME NEW isBad \in BOOLEAN, Upload(j, isBad) PROVE TypeOK'
  BY <1>1 DEF Upload
<1>2. ASSUME NEW n \in 1..MaxFiles, Delete(j, n) PROVE TypeOK'
  BY <1>2 DEF Delete
<1> QED
  BY <1>1, <1>2, Zenon

\* RunOnce keeps the types.
LEMMA RunTypes == TypeOK /\ RunStep => TypeOK'
<1> SUFFICES ASSUME TypeOK, RunStep PROVE TypeOK'
  BY Zenon
<1> USE ReceiverAssumption DEF TypeOK, FileNumber, DownloaderPcs, bucketVars,
        downloaderVars, limitVars, syncVars
<1>1. CASE List
  BY <1>1, Zenon DEF List
<1>2. CASE Filter
  BY <1>2, Zenon DEF Filter
<1>3. CASE Publish
  <2>1. lastSeenByInstance' \in [Instances -> FileNumber]
    BY <1>3, LastOfFiles, Zenon DEF Publish
  <2> QED
    BY <1>3, <2>1, Zenon DEF Publish, NoNames
<1>4. CASE RunOnceReturns
  BY <1>4, Zenon DEF RunOnceReturns
<1>5. ASSUME NEW j \in Instances, Notify(j) PROVE TypeOK'
  <2>1. CASE ~Notifies(j)
    BY <1>5, <2>1, Zenon DEF Notify
  <2>2. CASE Notifies(j)
    <3>1. dpc' \in [Instances -> DownloaderPcs]
      <4>1. CASE dpc[j] = "none"
        BY <1>5, <2>2, <4>1, Zenon DEF Notify
      <4>2. CASE dpc[j] # "none"
        BY <1>5, <2>2, <4>2, Zenon DEF Notify
      <4> QED
        BY <4>1, <4>2, Zenon
    <3>2. /\ todo' = todo \ {j}
          /\ signal' = [signal EXCEPT ![j] = TRUE]
          /\ lastNotifiedByInstance' =
               [lastNotifiedByInstance EXCEPT ![j] = lastSeenByInstance[j]]
      BY <1>5, <2>2, Zenon DEF Notify
    <3>3. UNCHANGED <<bucketVars, corruptSnapshots, names, lastSeenByInstance,
                      rpc, includingOwn, ni, last, snapshotsByInstance,
                      limitVars, syncVars>>
      BY <1>5, Zenon DEF Notify
    <3> QED
      BY <3>1, <3>2, <3>3, Zenon
  <2> QED
    BY <2>1, <2>2, Zenon
<1> QED
  BY <1>1, <1>2, <1>3, <1>4, <1>5, Zenon DEF RunStep

\* LoadOnce keeps the types, if the free tokens stay within their limits.
LEMMA DownloaderTypes ==
  ASSUME TypeOK, NEW j \in Instances, DownloaderStep(j),
         downloadTokens' \in 0..DownloadLimit,
         decompressTokens' \in 0..DecompressLimit
  PROVE  TypeOK'
<1> USE ReceiverAssumption DEF TypeOK, FileNumber, DownloaderPcs, bucketVars,
        runVars, limitVars, syncVars, Goto, Forget, Processed
<1>1. CASE Wake(j)
  BY <1>1, Zenon DEF Wake
<1>2. CASE CheckLatest(j)
  BY <1>2, SMTT(30) DEF CheckLatest
<1>3. CASE AcquireDownload(j)
  BY <1>3, Zenon DEF AcquireDownload
<1>4. CASE Load(j)
  BY <1>4, Zenon DEF Load
<1>5. CASE LoadFails(j)
  BY <1>5 DEF LoadFails
<1>6. CASE AcquireDecompress(j)
  BY <1>6, Zenon DEF AcquireDecompress
<1>7. CASE DecodeFails(j)
  <2>1. /\ corruptSnapshots' = corruptSnapshots \cup {<<j, ni[j]>>}
        /\ dpc' = [dpc EXCEPT ![j] = "sleep"]
        /\ last' = [last EXCEPT ![j] = ni[j]] /\ ni' = [ni EXCEPT ![j] = 0]
        /\ UNCHANGED <<bucketVars, runVars, signal, snapshotsByInstance, syncVars>>
    BY <1>7, Zenon DEF DecodeFails
  <2>2. corruptSnapshots' \subseteq bad
    BY <1>7, <2>1, Zenon DEF DecodeFails
  <2> QED
    BY <2>1, <2>2
<1>8. CASE Decode(j)
  BY <1>8, Zenon DEF Decode
<1>9. CASE Offer(j)
  <2>1. /\ snapshotsByInstance' = [snapshotsByInstance EXCEPT ![j] = ni[j]]
        /\ UNCHANGED <<bucketVars, corruptSnapshots, runVars, signal, limitVars,
                       syncVars>>
    BY <1>9, Zenon DEF Offer
  <2>2. \/ dpc' = [dpc EXCEPT ![j] = "close"] /\ UNCHANGED <<last, ni>>
        \/ /\ dpc' = [dpc EXCEPT ![j] = "wait"]
           /\ last' = [last EXCEPT ![j] = ni[j]] /\ ni' = [ni EXCEPT ![j] = 0]
    BY <1>9, Zenon DEF Offer
  <2>3. CASE dpc' = [dpc EXCEPT ![j] = "close"] /\ UNCHANGED <<last, ni>>
    BY <2>1, <2>3, Zenon
  <2>4. CASE /\ dpc' = [dpc EXCEPT ![j] = "wait"]
             /\ last' = [last EXCEPT ![j] = ni[j]] /\ ni' = [ni EXCEPT ![j] = 0]
    BY <2>1, <2>4
  <2> QED
    BY <2>2, <2>3, <2>4, Zenon
<1>10. CASE CloseOverwritten(j)
  BY <1>10 DEF CloseOverwritten
<1>11. CASE Retry(j)
  BY <1>11, Zenon DEF Retry
<1> QED
  BY <1>1, <1>2, <1>3, <1>4, <1>5, <1>6, <1>7, <1>8, <1>9, <1>10, <1>11, Zenon
  DEF DownloaderStep

\* syncLoop keeps the types, if the free tokens stay within their limit.
LEMMA SyncTypes ==
  ASSUME TypeOK, SyncStep, decompressTokens' \in 0..DecompressLimit,
         loading = NotLoading \/ loading.file # 0
  PROVE  TypeOK'
<1> USE ReceiverAssumption DEF TypeOK, FileNumber, bucketVars, runVars,
        downloaderVars, limitVars, NotLoading
<1>1. CASE Loaded
  <2>1. loading.file \in 1..MaxFiles
    BY <1>1 DEF Loaded
  <2> QED
    BY <1>1, <2>1 DEF Loaded
<1>2. CASE CleanDisappeared
  BY <1>2, Zenon DEF CleanDisappeared
<1>3. ASSUME NEW j \in Instances, NextSnapshot(j) PROVE TypeOK'
  BY <1>3, Zenon DEF NextSnapshot
<1> QED
  BY <1>1, <1>2, <1>3, Zenon DEF SyncStep
-------------------------------------------------------------------------------
(***************************************************************************)
(* The tokens.                                                             *)
(***************************************************************************)
One(condition) == IF condition THEN 1 ELSE 0

\* Two sets of instances that differ in j at most.
LEMMA CountOfChanged ==
  ASSUME NEW S \in SUBSET Instances, NEW T \in SUBSET Instances,
         NEW j \in Instances, \A q \in Instances \ {j} : q \in S <=> q \in T
  PROVE  /\ Cardinality(S) \in Nat /\ Cardinality(T) \in Nat
         /\ Cardinality(T) = Cardinality(S) + One(j \in T) - One(j \in S)
<1>1. IsFiniteSet(S) /\ IsFiniteSet(T)
  BY ReceiverAssumption, FS_Subset, Zenon
<1>2. Cardinality(S) \in Nat /\ Cardinality(T) \in Nat
  BY <1>1, FS_CardinalityType, Zenon
<1>3. CASE j \in S /\ j \notin T
  <2>1. S = T \cup {j}
    BY <1>3, Zenon
  <2>2. Cardinality(T \cup {j}) = Cardinality(T) + 1
    BY <1>1, <1>3, FS_AddElement, Zenon
  <2> QED
    BY <1>2, <1>3, <2>1, <2>2 DEF One
<1>4. CASE j \notin S /\ j \in T
  <2>1. T = S \cup {j}
    BY <1>4, Zenon
  <2>2. Cardinality(S \cup {j}) = Cardinality(S) + 1
    BY <1>1, <1>4, FS_AddElement, Zenon
  <2> QED
    BY <1>2, <1>4, <2>1, <2>2 DEF One
<1>5. CASE j \in S <=> j \in T
  <2>1. S = T
    BY <1>5
  <2> QED
    BY <1>2, <2>1 DEF One
<1> QED
  BY <1>3, <1>4, <1>5, Zenon

DownloadPcs == {"load", "decompress", "decode"}
DecompressPcs == {"decode", "offer", "close"}

\* How a step of the downloader of j changes the number of token holders.
LEMMA CountOfMoved ==
  ASSUME TypeOK, NEW j \in Instances, NEW pc, Goto(j, pc)
  PROVE  /\ Cardinality(HoldsDownload) \in Nat
         /\ Cardinality(HoldsDownload)' =
              Cardinality(HoldsDownload) + One(pc \in DownloadPcs)
                - One(dpc[j] \in DownloadPcs)
         /\ Cardinality(HoldsDecompress) \in Nat
         /\ Cardinality(HoldsDecompress)' =
              Cardinality(HoldsDecompress) + One(pc \in DecompressPcs)
                - One(dpc[j] \in DecompressPcs)
<1>1. /\ dpc'[j] = pc
      /\ \A q \in Instances \ {j} : dpc'[q] = dpc[q]
  BY Zenon DEF TypeOK, Goto
<1>2. /\ j \in HoldsDownload' <=> pc \in DownloadPcs
      /\ j \in HoldsDownload <=> dpc[j] \in DownloadPcs
      /\ j \in HoldsDecompress' <=> pc \in DecompressPcs
      /\ j \in HoldsDecompress <=> dpc[j] \in DecompressPcs
      /\ \A q \in Instances \ {j} :
           /\ q \in HoldsDownload <=> q \in HoldsDownload'
           /\ q \in HoldsDecompress <=> q \in HoldsDecompress'
  BY <1>1, Zenon DEF HoldsDownload, HoldsDecompress, DownloadPcs, DecompressPcs
<1>3. /\ HoldsDownload \in SUBSET Instances /\ HoldsDownload' \in SUBSET Instances
      /\ HoldsDecompress \in SUBSET Instances
      /\ HoldsDecompress' \in SUBSET Instances
  BY Zenon DEF HoldsDownload, HoldsDecompress
<1>4. /\ Cardinality(HoldsDownload) \in Nat
      /\ Cardinality(HoldsDownload') = Cardinality(HoldsDownload)
           + One(j \in HoldsDownload') - One(j \in HoldsDownload)
  BY <1>2, <1>3, CountOfChanged
<1>5. /\ Cardinality(HoldsDecompress) \in Nat
      /\ Cardinality(HoldsDecompress') = Cardinality(HoldsDecompress)
           + One(j \in HoldsDecompress') - One(j \in HoldsDecompress)
  BY <1>2, <1>3, CountOfChanged
<1> QED
  BY <1>2, <1>4, <1>5, Zenon DEF One

\* How a change of the snapshot that is ready for j changes their number.
LEMMA CountOfReady ==
  ASSUME TypeOK, NEW j \in Instances, NEW n,
         snapshotsByInstance' = [snapshotsByInstance EXCEPT ![j] = n]
  PROVE  /\ Cardinality(Ready) \in Nat
         /\ Cardinality(Ready)' =
              Cardinality(Ready) + One(n # 0) - One(snapshotsByInstance[j] # 0)
<1>1. /\ snapshotsByInstance'[j] = n
      /\ \A q \in Instances \ {j} :
           snapshotsByInstance'[q] = snapshotsByInstance[q]
  BY Zenon DEF TypeOK
<1>2. /\ j \in Ready' <=> n # 0
      /\ j \in Ready <=> snapshotsByInstance[j] # 0
      /\ \A q \in Instances \ {j} : q \in Ready <=> q \in Ready'
  BY <1>1, Zenon DEF Ready
<1>3. Ready \in SUBSET Instances /\ Ready' \in SUBSET Instances
  BY Zenon DEF Ready
<1>4. /\ Cardinality(Ready) \in Nat
      /\ Cardinality(Ready') =
           Cardinality(Ready) + One(j \in Ready') - One(j \in Ready)
  BY <1>2, <1>3, CountOfChanged
<1> QED
  BY <1>2, <1>4, Zenon DEF One

Waits(j) == dpc[j] \in {"none", "wait"}

\* The downloader has decided on a file and has not returned yet.
Works(j) ==
  dpc[j] \in {"acquire", "load", "decompress", "decode", "offer", "close"}

\* Every token is free or held, and what holds a decompress token is seen to do
\* so: 0 is not the number of a file.
TokenInv ==
  /\ \A j \in Instances : Works(j) => ni[j] # 0
  /\ loading = NotLoading \/ loading.file # 0
  /\ TokensConserved

\* A step that moves no downloader past a limit and changes no offer keeps the
\* tokens.
LEMMA OthersKeepTokens ==
  ASSUME TypeOK, TokenInv,
         UNCHANGED <<ni, snapshotsByInstance, downloadTokens, decompressTokens,
                     loading>>,
         \A j \in Instances :
           dpc'[j] = dpc[j] \/ (Waits(j) /\ dpc'[j] = "wait")
  PROVE  TokenInv'
<1>1. HoldsDownload' = HoldsDownload /\ HoldsDecompress' = HoldsDecompress
  BY Zenon DEF HoldsDownload, HoldsDecompress, Waits
<1>2. Ready' = Ready
  BY Zenon DEF Ready
<1>3. \A j \in Instances : Works(j)' => ni'[j] # 0
  BY Zenon DEF TokenInv, Works, Waits
<1> QED
  BY <1>1, <1>2, <1>3, Zenon DEF TokenInv, TokensConserved, NotLoading

WorkPcs == {"acquire", "load", "decompress", "decode", "offer", "close"}

\* What a step of the downloader of j to pc has to do for the tokens.
LEMMA MoveKeepsTokens ==
  ASSUME TypeOK, TokenInv, NEW j \in Instances, NEW pc, Goto(j, pc),
         UNCHANGED <<snapshotsByInstance, loading>>,
         NEW n, ni' = [ni EXCEPT ![j] = n], pc \in WorkPcs => n # 0,
         downloadTokens' = downloadTokens - One(pc \in DownloadPcs)
                             + One(dpc[j] \in DownloadPcs),
         decompressTokens' = decompressTokens - One(pc \in DecompressPcs)
                               + One(dpc[j] \in DecompressPcs)
  PROVE  TokenInv'
<1>1. \A q \in Instances : Works(q)' => ni'[q] # 0
  BY Zenon DEF TypeOK, TokenInv, Works, WorkPcs, Goto
<1>2. Ready' = Ready /\ NotLoading' = NotLoading
  BY Zenon DEF Ready, NotLoading
<1>3. Cardinality(Ready) \in Nat
  BY ReceiverAssumption, FS_Subset, FS_CardinalityType, Zenon DEF Ready
<1>4. downloadTokens \in Nat /\ decompressTokens \in Nat
  BY ReceiverAssumption DEF TypeOK
<1>5. downloadTokens' + Cardinality(HoldsDownload)'
        = downloadTokens + Cardinality(HoldsDownload)
  BY <1>4, CountOfMoved DEF One
<1>6. decompressTokens' + Cardinality(HoldsDecompress)'
        = decompressTokens + Cardinality(HoldsDecompress)
  BY <1>4, CountOfMoved, SMTT(30) DEF One
<1>7. TokensConserved'
  BY <1>2, <1>5, <1>6, Zenon DEF TokenInv, TokensConserved
<1> QED
  BY <1>1, <1>2, <1>7, Zenon DEF TokenInv

\* An offer takes the token of the downloader along.  If it replaces a snapshot,
\* the downloader keeps the token of that one until it is closed.
LEMMA OfferKeepsTokens ==
  ASSUME TypeOK, TokenInv, NEW j \in Instances, Offer(j)
  PROVE  TokenInv'
<1> DEFINE C == Cardinality(HoldsDecompress)
           R == Cardinality(Ready)
<1>1. /\ dpc[j] = "offer" /\ UNCHANGED <<downloadTokens, decompressTokens, loading>>
      /\ snapshotsByInstance' = [snapshotsByInstance EXCEPT ![j] = ni[j]]
      /\ IF snapshotsByInstance[j] # 0
         THEN Goto(j, "close") /\ ni' = ni
         ELSE Goto(j, "wait") /\ ni' = [ni EXCEPT ![j] = 0]
  BY Zenon DEF Offer, limitVars, syncVars, Processed, Forget
<1>2. ni[j] # 0
  BY <1>1, Zenon DEF TokenInv, Works
<1>3. /\ R \in Nat
      /\ R' = R + One(ni[j] # 0) - One(snapshotsByInstance[j] # 0)
  BY <1>1, CountOfReady, Zenon
<1>4. downloadTokens \in Nat /\ decompressTokens \in Nat
  BY ReceiverAssumption DEF TypeOK
<1>5. \A q \in Instances : Works(q)' => ni'[q] # 0
  BY <1>1, ZenonT(30) DEF TypeOK, TokenInv, Works, Goto
<1>6. Cardinality(HoldsDownload)' = Cardinality(HoldsDownload) /\ C' + R' = C + R
  <2>1. CASE snapshotsByInstance[j] # 0
    <3>1. Goto(j, "close")
      BY <1>1, <2>1, Zenon
    <3> QED
      BY <1>1, <1>2, <1>3, <2>1, <3>1, CountOfMoved
      DEF One, DownloadPcs, DecompressPcs
  <2>2. CASE snapshotsByInstance[j] = 0
    <3>1. Goto(j, "wait")
      BY <1>1, <2>2, Zenon
    <3> QED
      BY <1>1, <1>2, <1>3, <2>2, <3>1, CountOfMoved
      DEF One, DownloadPcs, DecompressPcs
  <2> QED
    BY <2>1, <2>2, Zenon
<1>7. C \in Nat /\ C' \in Nat /\ R' \in Nat
  BY ReceiverAssumption, FS_Subset, FS_CardinalityType, Zenon
  DEF HoldsDecompress, Ready
<1>8. TokensConserved'
  BY <1>1, <1>3, <1>4, <1>6, <1>7 DEF TokenInv, TokensConserved, NotLoading
<1> QED
  BY <1>1, <1>5, <1>8, Zenon DEF TokenInv, NotLoading

\* A step of a downloader keeps the tokens, on every path through LoadOnce.
LEMMA DownloaderKeepsTokens ==
  ASSUME TypeOK, TokenInv, NEW j \in Instances, DownloaderStep(j)
  PROVE  TokenInv'
<1> USE DEF limitVars, syncVars, Processed, Forget
<1>1. /\ downloadTokens \in Nat /\ decompressTokens \in Nat
      /\ ni = [ni EXCEPT ![j] = ni[j]] /\ (Works(j) => ni[j] # 0)
  BY ReceiverAssumption DEF TypeOK, TokenInv
<1>3. CASE Wake(j)
  <2>1. /\ dpc[j] = "wait" /\ Goto(j, "check")
        /\ ni' = ni
        /\ downloadTokens' = downloadTokens
        /\ decompressTokens' = decompressTokens
        /\ UNCHANGED <<snapshotsByInstance, loading>>
    BY <1>3, Zenon DEF Wake
  <2>2. /\ ni' = [ni EXCEPT ![j] = ni[j]] /\ ("check" \in WorkPcs => ni[j] # 0)
        /\ downloadTokens' = downloadTokens - One("check" \in DownloadPcs)
                               + One(dpc[j] \in DownloadPcs)
        /\ decompressTokens' = decompressTokens - One("check" \in DecompressPcs)
                                 + One(dpc[j] \in DecompressPcs)
    BY <1>1, <2>1 DEF Works, WorkPcs, DownloadPcs, DecompressPcs, One
  <2> QED
    BY <2>1, <2>2, MoveKeepsTokens, Zenon
<1>4. CASE CheckLatest(j)
  <2>1. /\ dpc[j] = "check" /\ UNCHANGED <<snapshotsByInstance, limitVars, loading>>
        /\ \/ Goto(j, "wait") /\ ni' = ni
           \/ /\ Goto(j, "acquire") /\ lastSeenByInstance[j] # 0
              /\ ni' = [ni EXCEPT ![j] = lastSeenByInstance[j]]
    BY <1>4, Zenon DEF CheckLatest
  <2>2. ASSUME NEW pc \in {"wait", "acquire"}
        PROVE  /\ downloadTokens' = downloadTokens - One(pc \in DownloadPcs)
                                      + One(dpc[j] \in DownloadPcs)
               /\ decompressTokens' = decompressTokens - One(pc \in DecompressPcs)
                                        + One(dpc[j] \in DecompressPcs)
    BY <1>1, <2>1 DEF DownloadPcs, DecompressPcs, One
  <2>3. CASE Goto(j, "wait") /\ ni' = ni
    <3>1. ni' = [ni EXCEPT ![j] = ni[j]] /\ "wait" \notin WorkPcs
      BY <1>1, <2>3, Zenon DEF WorkPcs
    <3> QED
      BY <2>1, <2>2, <2>3, <3>1, MoveKeepsTokens, Zenon
  <2>4. CASE /\ Goto(j, "acquire") /\ lastSeenByInstance[j] # 0
             /\ ni' = [ni EXCEPT ![j] = lastSeenByInstance[j]]
    BY <2>1, <2>2, <2>4, MoveKeepsTokens, Zenon
  <2> QED
    BY <2>1, <2>3, <2>4, Zenon
<1>5. CASE AcquireDownload(j)
  <2>1. /\ dpc[j] = "acquire" /\ Goto(j, "load")
        /\ ni' = ni
        /\ downloadTokens' = downloadTokens - 1
        /\ decompressTokens' = decompressTokens
        /\ UNCHANGED <<snapshotsByInstance, loading>>
    BY <1>5, Zenon DEF AcquireDownload
  <2>2. /\ ni' = [ni EXCEPT ![j] = ni[j]] /\ ("load" \in WorkPcs => ni[j] # 0)
        /\ downloadTokens' = downloadTokens - One("load" \in DownloadPcs)
                               + One(dpc[j] \in DownloadPcs)
        /\ decompressTokens' = decompressTokens - One("load" \in DecompressPcs)
                                 + One(dpc[j] \in DecompressPcs)
    BY <1>1, <2>1 DEF Works, WorkPcs, DownloadPcs, DecompressPcs, One
  <2> QED
    BY <2>1, <2>2, MoveKeepsTokens, Zenon
<1>6. CASE Load(j)
  <2>1. /\ dpc[j] = "load" /\ Goto(j, "decompress")
        /\ ni' = ni
        /\ downloadTokens' = downloadTokens
        /\ decompressTokens' = decompressTokens
        /\ UNCHANGED <<snapshotsByInstance, loading>>
    BY <1>6, Zenon DEF Load
  <2>2. /\ ni' = [ni EXCEPT ![j] = ni[j]] /\ ("decompress" \in WorkPcs => ni[j] # 0)
        /\ downloadTokens' = downloadTokens - One("decompress" \in DownloadPcs)
                               + One(dpc[j] \in DownloadPcs)
        /\ decompressTokens' = decompressTokens - One("decompress" \in DecompressPcs)
                                 + One(dpc[j] \in DecompressPcs)
    BY <1>1, <2>1 DEF Works, WorkPcs, DownloadPcs, DecompressPcs, One
  <2> QED
    BY <2>1, <2>2, MoveKeepsTokens, Zenon
<1>7. CASE LoadFails(j)
  <2>1. /\ dpc[j] = "load" /\ Goto(j, "sleep")
        /\ ni' = [ni EXCEPT ![j] = 0]
        /\ downloadTokens' = downloadTokens + 1
        /\ decompressTokens' = decompressTokens
        /\ UNCHANGED <<snapshotsByInstance, loading>>
    BY <1>7, Zenon DEF LoadFails
  <2>2. /\ ni' = [ni EXCEPT ![j] = 0] /\ ("sleep" \in WorkPcs => 0 # 0)
        /\ downloadTokens' = downloadTokens - One("sleep" \in DownloadPcs)
                               + One(dpc[j] \in DownloadPcs)
        /\ decompressTokens' = decompressTokens - One("sleep" \in DecompressPcs)
                                 + One(dpc[j] \in DecompressPcs)
    BY <1>1, <2>1 DEF Works, WorkPcs, DownloadPcs, DecompressPcs, One
  <2> QED
    BY <2>1, <2>2, MoveKeepsTokens, Zenon
<1>8. CASE AcquireDecompress(j)
  <2>1. /\ dpc[j] = "decompress" /\ Goto(j, "decode")
        /\ ni' = ni
        /\ downloadTokens' = downloadTokens
        /\ decompressTokens' = decompressTokens - 1
        /\ UNCHANGED <<snapshotsByInstance, loading>>
    BY <1>8, Zenon DEF AcquireDecompress
  <2>2. /\ ni' = [ni EXCEPT ![j] = ni[j]] /\ ("decode" \in WorkPcs => ni[j] # 0)
        /\ downloadTokens' = downloadTokens - One("decode" \in DownloadPcs)
                               + One(dpc[j] \in DownloadPcs)
        /\ decompressTokens' = decompressTokens - One("decode" \in DecompressPcs)
                                 + One(dpc[j] \in DecompressPcs)
    BY <1>1, <2>1 DEF Works, WorkPcs, DownloadPcs, DecompressPcs, One
  <2> QED
    BY <2>1, <2>2, MoveKeepsTokens, Zenon
<1>9. CASE DecodeFails(j)
  <2>1. /\ dpc[j] = "decode" /\ Goto(j, "sleep")
        /\ ni' = [ni EXCEPT ![j] = 0]
        /\ downloadTokens' = downloadTokens + 1
        /\ decompressTokens' = decompressTokens + 1
        /\ UNCHANGED <<snapshotsByInstance, loading>>
    BY <1>9, Zenon DEF DecodeFails
  <2>2. /\ ni' = [ni EXCEPT ![j] = 0] /\ ("sleep" \in WorkPcs => 0 # 0)
        /\ downloadTokens' = downloadTokens - One("sleep" \in DownloadPcs)
                               + One(dpc[j] \in DownloadPcs)
        /\ decompressTokens' = decompressTokens - One("sleep" \in DecompressPcs)
                                 + One(dpc[j] \in DecompressPcs)
    BY <1>1, <2>1 DEF Works, WorkPcs, DownloadPcs, DecompressPcs, One
  <2> QED
    BY <2>1, <2>2, MoveKeepsTokens, Zenon
<1>10. CASE Decode(j)
  <2>1. /\ dpc[j] = "decode" /\ Goto(j, "offer")
        /\ ni' = ni
        /\ downloadTokens' = downloadTokens + 1
        /\ decompressTokens' = decompressTokens
        /\ UNCHANGED <<snapshotsByInstance, loading>>
    BY <1>10, Zenon DEF Decode
  <2>2. /\ ni' = [ni EXCEPT ![j] = ni[j]] /\ ("offer" \in WorkPcs => ni[j] # 0)
        /\ downloadTokens' = downloadTokens - One("offer" \in DownloadPcs)
                               + One(dpc[j] \in DownloadPcs)
        /\ decompressTokens' = decompressTokens - One("offer" \in DecompressPcs)
                                 + One(dpc[j] \in DecompressPcs)
    BY <1>1, <2>1 DEF Works, WorkPcs, DownloadPcs, DecompressPcs, One
  <2> QED
    BY <2>1, <2>2, MoveKeepsTokens, Zenon
<1>11. CASE Offer(j)
  BY <1>11, OfferKeepsTokens, Zenon
<1>12. CASE CloseOverwritten(j)
  <2>1. /\ dpc[j] = "close" /\ Goto(j, "wait")
        /\ ni' = [ni EXCEPT ![j] = 0]
        /\ downloadTokens' = downloadTokens
        /\ decompressTokens' = decompressTokens + 1
        /\ UNCHANGED <<snapshotsByInstance, loading>>
    BY <1>12, Zenon DEF CloseOverwritten
  <2>2. /\ ni' = [ni EXCEPT ![j] = 0] /\ ("wait" \in WorkPcs => 0 # 0)
        /\ downloadTokens' = downloadTokens - One("wait" \in DownloadPcs)
                               + One(dpc[j] \in DownloadPcs)
        /\ decompressTokens' = decompressTokens - One("wait" \in DecompressPcs)
                                 + One(dpc[j] \in DecompressPcs)
    BY <1>1, <2>1 DEF Works, WorkPcs, DownloadPcs, DecompressPcs, One
  <2> QED
    BY <2>1, <2>2, MoveKeepsTokens, Zenon
<1>13. CASE Retry(j)
  <2>1. /\ dpc[j] = "sleep" /\ Goto(j, "check")
        /\ ni' = ni
        /\ downloadTokens' = downloadTokens
        /\ decompressTokens' = decompressTokens
        /\ UNCHANGED <<snapshotsByInstance, loading>>
    BY <1>13, Zenon DEF Retry
  <2>2. /\ ni' = [ni EXCEPT ![j] = ni[j]] /\ ("check" \in WorkPcs => ni[j] # 0)
        /\ downloadTokens' = downloadTokens - One("check" \in DownloadPcs)
                               + One(dpc[j] \in DownloadPcs)
        /\ decompressTokens' = decompressTokens - One("check" \in DecompressPcs)
                                 + One(dpc[j] \in DecompressPcs)
    BY <1>1, <2>1 DEF Works, WorkPcs, DownloadPcs, DecompressPcs, One
  <2> QED
    BY <2>1, <2>2, MoveKeepsTokens, Zenon
<1> QED
  BY <1>3, <1>4, <1>5, <1>6, <1>7, <1>8, <1>9, <1>10, <1>11, <1>12, <1>13, Zenon
  DEF DownloaderStep

\* The syncer takes the token of a snapshot over and returns it when it closes
\* the snapshot.
LEMMA SyncKeepsTokens ==
  ASSUME TypeOK, TokenInv, SyncStep
  PROVE  TokenInv'
<1> DEFINE R == Cardinality(Ready)
<1>1. /\ decompressTokens \in Nat /\ R \in Nat
      /\ Cardinality(HoldsDecompress) \in Nat
  BY ReceiverAssumption, FS_Subset, FS_CardinalityType
  DEF TypeOK, Ready, HoldsDecompress
<1>2. UNCHANGED <<ni, dpc, downloadTokens>>
  BY Zenon DEF SyncStep, Loaded, CleanDisappeared, NextSnapshot, downloaderVars,
               limitVars
<1>3. /\ \A q \in Instances : Works(q)' => ni'[q] # 0
      /\ HoldsDownload' = HoldsDownload /\ HoldsDecompress' = HoldsDecompress
  BY <1>2, Zenon DEF TokenInv, Works, HoldsDownload, HoldsDecompress
<1>4. CASE Loaded
  <2>1. /\ loading # NotLoading /\ loading' = NotLoading
        /\ decompressTokens' = decompressTokens + 1 /\ Ready' = Ready
    BY <1>4, Zenon DEF Loaded, Ready
  <2>2. TokensConserved'
    BY <1>1, <1>2, <1>3, <2>1 DEF TokenInv, TokensConserved, NotLoading
  <2> QED
    BY <1>3, <2>1, <2>2, Zenon DEF TokenInv, NotLoading
<1>5. CASE CleanDisappeared
  <2>1. /\ UNCHANGED <<ni, snapshotsByInstance, downloadTokens, decompressTokens,
                       loading>>
        /\ \A q \in Instances : dpc'[q] = dpc[q]
    BY <1>2, <1>5, Zenon DEF CleanDisappeared, limitVars
  <2> QED
    BY <2>1, OthersKeepTokens, Zenon
<1>6. ASSUME NEW j \in Instances, NextSnapshot(j) PROVE TokenInv'
  <2>1. /\ loading = NotLoading /\ snapshotsByInstance[j] # 0
        /\ loading' = [instance |-> j, file |-> snapshotsByInstance[j]]
        /\ snapshotsByInstance' = [snapshotsByInstance EXCEPT ![j] = 0]
        /\ decompressTokens' = decompressTokens
    BY <1>6, Zenon DEF NextSnapshot, limitVars
  <2>2. R' = R - 1
    <3>1. R' = R + One(0 # 0) - One(snapshotsByInstance[j] # 0)
      BY <2>1, CountOfReady, Zenon
    <3> QED
      BY <1>1, <2>1, <3>1 DEF One
  <2>3. loading' # NotLoading /\ loading'.file # 0
    BY <2>1, Zenon DEF NotLoading
  <2>4. TokensConserved'
    BY <1>1, <1>2, <1>3, <2>1, <2>2, <2>3 DEF TokenInv, TokensConserved, NotLoading
  <2> QED
    BY <1>3, <2>3, <2>4, Zenon DEF TokenInv
<1> QED
  BY <1>4, <1>5, <1>6, Zenon DEF SyncStep

\* Free tokens are counted within their limits if all tokens are.
LEMMA TokensInRange ==
  ASSUME TokenInv', downloadTokens' \in Nat, decompressTokens' \in Nat
  PROVE  /\ downloadTokens' \in 0..DownloadLimit
         /\ decompressTokens' \in 0..DecompressLimit
<1>1. /\ Cardinality(HoldsDownload)' \in Nat
      /\ Cardinality(HoldsDecompress)' \in Nat
      /\ Cardinality(Ready)' \in Nat
  BY ReceiverAssumption, FS_Subset, FS_CardinalityType, Zenon
  DEF HoldsDownload, HoldsDecompress, Ready
<1> QED
  BY <1>1, ReceiverAssumption DEF TokenInv, TokensConserved

\* The types and the tokens are kept by every step.
LEMMA TokensKept ==
  ASSUME TypeOK, TokenInv, [Next]_vars
  PROVE  TypeOK' /\ TokenInv'
<1>1. ASSUME NEW j \in Instances,
             \/ \E isBad \in BOOLEAN : Upload(j, isBad)
             \/ \E n \in 1..MaxFiles : Delete(j, n)
      PROVE  TypeOK' /\ TokenInv'
  <2>1. /\ UNCHANGED <<ni, snapshotsByInstance, downloadTokens, decompressTokens,
                       loading>>
        /\ \A q \in Instances : dpc'[q] = dpc[q]
    BY <1>1, Zenon DEF Upload, Delete, downloaderVars, limitVars, syncVars
  <2> QED
    BY <1>1, <2>1, BucketTypes, OthersKeepTokens, Zenon
<1>2. ASSUME NEW j \in Instances, DownloaderStep(j) PROVE TypeOK' /\ TokenInv'
  <2>1. TokenInv'
    BY <1>2, DownloaderKeepsTokens, Zenon
  <2>2. downloadTokens' \in Nat /\ decompressTokens' \in Nat
    BY ReceiverAssumption, <1>2, SMTT(30)
    DEF TypeOK, DownloaderStep, Wake, CheckLatest, AcquireDownload, Load,
      LoadFails, AcquireDecompress, DecodeFails, Decode, Offer, CloseOverwritten,
      Retry, limitVars
  <2> QED
    BY <1>2, <2>1, <2>2, DownloaderTypes, TokensInRange, Zenon
<1>3. CASE RunStep
  <2>1. UNCHANGED <<ni, snapshotsByInstance, downloadTokens, decompressTokens,
                    loading>>
    BY <1>3, Zenon DEF RunStep, List, Filter, Publish, RunOnceReturns, Notify,
                       downloaderVars, limitVars, syncVars
  <2>2. \A j \in Instances :
          dpc'[j] = dpc[j] \/ (Waits(j) /\ dpc'[j] = "wait")
    <3>1. CASE List \/ Filter \/ Publish \/ RunOnceReturns
      BY <3>1, Zenon DEF List, Filter, Publish, RunOnceReturns, downloaderVars
    <3>2. ASSUME NEW q \in Instances, Notify(q), NEW j \in Instances
          PROVE  dpc'[j] = dpc[j] \/ (Waits(j) /\ dpc'[j] = "wait")
      <4>1. \/ dpc' = dpc
            \/ dpc' = [dpc EXCEPT ![q] = IF @ = "none" THEN "wait" ELSE @]
        BY <3>2, Zenon DEF Notify
      <4>2. CASE dpc' = dpc
        BY <4>2, Zenon
      <4>3. CASE dpc' = [dpc EXCEPT ![q] = IF @ = "none" THEN "wait" ELSE @]
        <5>1. dpc'[j] = IF j = q /\ dpc[j] = "none" THEN "wait" ELSE dpc[j]
          BY <4>3, Zenon DEF TypeOK
        <5> QED
          BY <5>1, Zenon DEF Waits
      <4> QED
        BY <4>1, <4>2, <4>3, Zenon
    <3> QED
      BY <1>3, <3>1, <3>2, Zenon DEF RunStep
  <2> QED
    BY <1>3, <2>1, <2>2, RunTypes, OthersKeepTokens, Zenon
<1>4. CASE SyncStep
  <2>1. TokenInv'
    BY <1>4, SyncKeepsTokens, Zenon
  <2>2. downloadTokens' \in Nat /\ decompressTokens' \in Nat
    BY ReceiverAssumption, <1>4
    DEF TypeOK, SyncStep, Loaded, CleanDisappeared, NextSnapshot, limitVars
  <2> QED
    BY <1>4, <2>1, <2>2, SyncTypes, TokensInRange, Zenon DEF TokenInv
<1>5. CASE UNCHANGED vars
  <2>1. /\ UNCHANGED <<ni, snapshotsByInstance, downloadTokens, decompressTokens,
                       loading>>
        /\ \A q \in Instances : dpc'[q] = dpc[q]
    BY <1>5, Zenon DEF vars, downloaderVars, limitVars, syncVars
  <2>2. TypeOK'
    BY <1>5, Zenon DEF vars, bucketVars, runVars, downloaderVars, limitVars, syncVars,
                TypeOK
  <2> QED
    BY <2>1, <2>2, OthersKeepTokens, Zenon
<1> QED
  BY <1>1, <1>2, <1>3, <1>4, <1>5, Zenon DEF Next
-------------------------------------------------------------------------------
(***************************************************************************)
(* The files.                                                              *)
(***************************************************************************)
\* No reference to a file is ahead of the bucket.
KnownFiles ==
  \A j \in Instances :
    /\ \A n \in files[j] \cup names[j] : n <= newest[j]
    /\ lastSeenByInstance[j] <= newest[j]
    /\ lastNotifiedByInstance[j] <= newest[j]
    /\ ni[j] <= newest[j] /\ snapshotsByInstance[j] <= newest[j]

\* What is decoded is good, from its decoding until it is taken by the syncer.
GoodInv ==
  /\ \A j \in Instances : dpc[j] \in {"offer", "close"} => <<j, ni[j]>> \notin bad
  /\ OnlyGoodIsOffered

FileInv == KnownFiles /\ GoodInv

\* A file that is stored later is not the one that a reference is to.
LEMMA BucketKeepsFiles ==
  ASSUME TypeOK, FileInv, NEW j \in Instances,
         \/ \E isBad \in BOOLEAN : Upload(j, isBad)
         \/ \E n \in 1..MaxFiles : Delete(j, n)
  PROVE  FileInv'
<1> USE ReceiverAssumption DEF TypeOK, FileNumber, runVars, downloaderVars
<1>1. UNCHANGED <<names, lastSeenByInstance, lastNotifiedByInstance, ni, dpc,
                  snapshotsByInstance>>
  BY Zenon DEF Upload, Delete
<1>2. CASE \E n \in 1..MaxFiles : Delete(j, n)
  BY <1>1, <1>2, SMTT(30) DEF Delete, FileInv, KnownFiles, GoodInv, OnlyGoodIsOffered
<1>3. ASSUME NEW isBad \in BOOLEAN, Upload(j, isBad) PROVE FileInv'
  <2>1. /\ newest' = [newest EXCEPT ![j] = @ + 1]
        /\ files' = [files EXCEPT ![j] = @ \cup {newest[j] + 1}]
        /\ bad' = bad \/ bad' = bad \cup {<<j, newest[j] + 1>>}
    BY <1>3, Zenon DEF Upload
  <2>2. KnownFiles'
    BY <1>1, <2>1 DEF FileInv, KnownFiles
  <2>3. ASSUME NEW q \in Instances, NEW n \in FileNumber, n <= newest[q],
               <<q, n>> \in bad'
        PROVE  <<q, n>> \in bad
    BY <2>1, <2>3
  <2>4. GoodInv'
    BY <1>1, <2>3, Zenon DEF FileInv, GoodInv, KnownFiles, OnlyGoodIsOffered
  <2> QED
    BY <2>2, <2>4, Zenon DEF FileInv
<1> QED
  BY <1>2, <1>3, Zenon

\* RunOnce refers to listed files.
LEMMA RunKeepsFiles ==
  ASSUME TypeOK, FileInv, RunStep
  PROVE  FileInv'
<1> USE DEF bucketVars, downloaderVars
<1>1. UNCHANGED <<files, newest, bad, ni, snapshotsByInstance>>
  BY Zenon DEF RunStep, List, Filter, Publish, RunOnceReturns, Notify
<1>2. \A j \in Instances : dpc'[j] \in {"offer", "close"} => dpc'[j] = dpc[j]
  <2>1. CASE dpc' = dpc
    BY <2>1, Zenon
  <2>2. ASSUME NEW q \in Instances,
               dpc' = [dpc EXCEPT ![q] = IF @ = "none" THEN "wait" ELSE @]
        PROVE  \A j \in Instances :
                 dpc'[j] \in {"offer", "close"} => dpc'[j] = dpc[j]
    BY <2>2, Zenon DEF TypeOK
  <2> QED
    BY <2>1, <2>2, Zenon
    DEF RunStep, List, Filter, Publish, RunOnceReturns, Notify
<1>3. GoodInv'
  BY <1>1, <1>2, SMTT(30) DEF FileInv, GoodInv, OnlyGoodIsOffered
<1>4. KnownFiles'
  <2> USE DEF FileInv, KnownFiles, TypeOK
  <2>1. CASE List
    BY <1>1, <2>1, Zenon DEF List
  <2>2. CASE Filter
    BY <1>1, <2>2, Zenon DEF Filter
  <2>3. CASE Publish
    <3>1. \A j \in Instances : lastSeenByInstance'[j] <= newest[j]
      BY <2>3, LastOfFiles, ReceiverAssumption, SMTT(30) DEF Publish, FileNumber
    <3> QED
      BY <1>1, <2>3, <3>1, Zenon DEF Publish, NoNames
  <2>4. CASE RunOnceReturns
    BY <1>1, <2>4, Zenon DEF RunOnceReturns
  <2>5. ASSUME NEW j \in Instances, Notify(j) PROVE KnownFiles'
    BY <1>1, <2>5, Zenon DEF Notify
  <2> QED
    BY <2>1, <2>2, <2>3, <2>4, <2>5, Zenon DEF RunStep
<1> QED
  BY <1>3, <1>4, Zenon DEF FileInv

\* Only a file that decodes is offered.
LEMMA DownloaderKeepsFiles ==
  ASSUME TypeOK, FileInv, NEW j \in Instances, DownloaderStep(j)
  PROVE  FileInv'
<1> USE DEF bucketVars, runVars, Goto, Forget, Processed
<1>1. UNCHANGED <<newest, bad, names, lastSeenByInstance, lastNotifiedByInstance,
                  files>>
  BY Zenon DEF DownloaderStep, Wake, CheckLatest, AcquireDownload, Load,
      LoadFails, AcquireDecompress, DecodeFails, Decode, Offer, CloseOverwritten,
      Retry
<1>2. \/ ni' = ni
      \/ ni' = [ni EXCEPT ![j] = 0] /\ dpc'[j] \in {"wait", "sleep"}
      \/ /\ ni' = [ni EXCEPT ![j] = lastSeenByInstance[j]]
         /\ dpc'[j] = "acquire"
  BY ZenonT(30)
  DEF DownloaderStep, Wake, CheckLatest, AcquireDownload, Load, LoadFails,
         AcquireDecompress, DecodeFails, Decode, Offer, CloseOverwritten, Retry,
         TypeOK
<1>3. \/ snapshotsByInstance' = snapshotsByInstance
      \/ /\ snapshotsByInstance' = [snapshotsByInstance EXCEPT ![j] = ni[j]]
         /\ dpc[j] = "offer"
  BY Zenon DEF DownloaderStep, Wake, CheckLatest, AcquireDownload, Load,
      LoadFails, AcquireDecompress, DecodeFails, Decode, Offer, CloseOverwritten,
      Retry
<1>4. /\ \A q \in Instances \ {j} : dpc'[q] = dpc[q]
      /\ dpc'[j] \in {"offer", "close"} =>
           <<j, ni[j]>> \notin bad \/ dpc[j] \in {"offer", "close"}
  BY ZenonT(30)
  DEF DownloaderStep, Wake, CheckLatest, AcquireDownload, Load, LoadFails,
         AcquireDecompress, DecodeFails, Decode, Offer, CloseOverwritten, Retry,
         TypeOK
<1>5. ASSUME NEW q \in Instances
      PROVE  /\ ni'[q] \in {0, ni[q], lastSeenByInstance[q]}
             /\ snapshotsByInstance'[q] \in {ni[q], snapshotsByInstance[q]}
             /\ dpc'[q] \in {"offer", "close"} => ni'[q] = ni[q]
  BY <1>2, <1>3, <1>4 DEF TypeOK
<1>6. KnownFiles'
  BY <1>1, <1>5, ReceiverAssumption, SMTT(30)
  DEF FileInv, KnownFiles, TypeOK, FileNumber
<1>7. ASSUME NEW q \in Instances, dpc'[q] \in {"offer", "close"}
      PROVE  <<q, ni'[q]>> \notin bad'
  BY <1>1, <1>4, <1>5, <1>7, Zenon DEF FileInv, GoodInv
<1>8. ASSUME NEW q \in Instances, snapshotsByInstance'[q] # 0
      PROVE  <<q, snapshotsByInstance'[q]>> \notin bad'
  BY <1>1, <1>3, <1>8, Zenon DEF FileInv, GoodInv, OnlyGoodIsOffered, TypeOK
<1> QED
  BY <1>6, <1>7, <1>8, Zenon DEF FileInv, GoodInv, OnlyGoodIsOffered

\* The files are kept by every step.
LEMMA FilesKept ==
  ASSUME TypeOK, FileInv, [Next]_vars
  PROVE  FileInv'
<1>1. CASE SyncStep
  <2>1. UNCHANGED <<files, newest, bad, names, lastSeenByInstance,
                    lastNotifiedByInstance, ni, dpc>>
    BY <1>1, Zenon DEF SyncStep, Loaded, CleanDisappeared, NextSnapshot,
                       bucketVars, runVars, downloaderVars
  <2>2. \A j \in Instances :
          snapshotsByInstance'[j] \in {0, snapshotsByInstance[j]}
    BY <1>1, Zenon DEF SyncStep, Loaded, CleanDisappeared, NextSnapshot, TypeOK
  <2> QED
    BY <2>1, <2>2, ReceiverAssumption, SMTT(30)
    DEF FileInv, KnownFiles, GoodInv, OnlyGoodIsOffered, TypeOK, FileNumber
<1>2. CASE UNCHANGED vars
  BY <1>2, Zenon DEF vars, bucketVars, runVars, downloaderVars, FileInv, KnownFiles,
              GoodInv, OnlyGoodIsOffered
<1> QED
  BY <1>1, <1>2, BucketKeepsFiles, RunKeepsFiles, DownloaderKeepsFiles, Zenon
  DEF Next
-------------------------------------------------------------------------------
(***************************************************************************)
(* The wake-ups.                                                           *)
(***************************************************************************)
\* No listing will show file n of j again: it was deleted, and numbers are not
\* used twice, or it is marked as corrupt.
Gone(j, n) ==
  /\ n # lastSeenByInstance[j]
  /\ n \in files[j] => <<j, n>> \in corruptSnapshots
  /\ rpc = "filter" /\ n \in names[j] => <<j, n>> \in corruptSnapshots
  /\ rpc = "publish" => n \notin names[j]

\* The file that was notified last is in the listing in progress, if it exists.
Listed(j) ==
  LET n == lastNotifiedByInstance[j]
  IN  n # 0 /\ n \in files[j] =>
        /\ rpc = "filter" => n \in names[j]
        /\ rpc = "publish" => n \in names[j] \/ <<j, n>> \in corruptSnapshots

\* Nothing was notified but n, or the notification is void.
Settled(j, n) ==
  \/ lastNotifiedByInstance[j] \in {0, n}
  \/ Gone(j, lastNotifiedByInstance[j])

\* RunOnce has nothing to tell the downloader of j.
Agrees(j) == lastSeenByInstance[j] \in {0, lastNotifiedByInstance[j]}

\* A notification that was consumed is settled by the file that the downloader
\* processed last or is working on.
WakesUp(j) ==
  /\ Listed(j)
  /\ j \notin todo => Agrees(j)
  /\ lastSeenByInstance[j] = 0 => Settled(j, 0)
  /\ Waits(j) /\ ~signal[j] /\ Agrees(j) => Settled(j, last[j])
  /\ Works(j) /\ ~signal[j] /\ Agrees(j) => Settled(j, ni[j])

WakeInv ==
  /\ rpc # "notify" => todo = {}
  /\ \A j \in Instances \ {Own} : WakesUp(j)

\* A consumed notification that is settled is one the property allows.
LEMMA WakeInvImplies ==
  ASSUME TypeOK, WakeInv
  PROVE  NoLostWakeUp
  BY Zenon DEF TypeOK, WakeInv, WakesUp, NoLostWakeUp, Agrees, Settled, Gone, Waits

\* A step that neither moves the downloader of j nor RunOnce: files of the bucket
\* do not come back and corrupt ones stay marked.
LEMMA OthersWake ==
  ASSUME TypeOK, KnownFiles, NEW j \in Instances, WakesUp(j),
         UNCHANGED <<names, lastSeenByInstance, lastNotifiedByInstance, todo, rpc>>,
         \A n \in files'[j] : n <= newest[j] => n \in files[j],
         corruptSnapshots \subseteq corruptSnapshots',
         ni'[j] = ni[j], last'[j] = last[j], dpc'[j] = dpc[j],
         signal'[j] = signal[j]
  PROVE  WakesUp(j)'
<1> DEFINE n == lastNotifiedByInstance[j]
<1>1. n <= newest[j]
  BY Zenon DEF KnownFiles
<1>2. n \in files'[j] => n \in files[j]
  BY <1>1, Zenon
<1>3. /\ Gone(j, n) => Gone(j, n)'
      /\ Listed(j) => Listed(j)'
      /\ Agrees(j)' <=> Agrees(j)
  BY <1>2, SMTT(30) DEF Gone, Listed, Agrees
<1>4. \A m : Settled(j, m) => Settled(j, m)'
  BY <1>3, SMTT(30) DEF Settled
<1>5. Waits(j)' = Waits(j) /\ Works(j)' = Works(j)
  BY Zenon DEF Waits, Works
<1> QED
  BY <1>3, <1>4, <1>5, Zenon DEF WakesUp

\* The steps of RunOnce.
LEMMA RunWakes ==
  ASSUME TypeOK, KnownFiles, WakeInv, RunStep
  PROVE  WakeInv'
<1> USE DEF bucketVars, downloaderVars
<1>1. UNCHANGED <<files, newest, corruptSnapshots, ni, last>>
  BY Zenon DEF RunStep, List, Filter, Publish, RunOnceReturns, Notify
<1>2. CASE List
  <2>1. /\ rpc = "list" /\ rpc' = "filter" /\ names' = files
        /\ UNCHANGED <<lastSeenByInstance, lastNotifiedByInstance, todo, dpc,
                       signal>>
    BY <1>2, Zenon DEF List
  <2>2. ASSUME NEW j \in Instances \ {Own} PROVE WakesUp(j)'
    BY <1>1, <2>1, SMTT(30)
    DEF WakeInv, WakesUp, Listed, Settled, Gone, Agrees, Waits, Works
  <2> QED
    BY <2>1, <2>2, Zenon DEF WakeInv
<1>3. CASE Filter
  <2>1. /\ rpc = "filter" /\ rpc' = "publish"
        /\ \A j \in Instances :
             names'[j] = {n \in names[j] : <<j, n>> \notin corruptSnapshots}
        /\ UNCHANGED <<lastSeenByInstance, lastNotifiedByInstance, todo, dpc,
                       signal>>
    BY <1>3, Zenon DEF Filter
  <2>2. ASSUME NEW j \in Instances \ {Own} PROVE WakesUp(j)'
    BY <1>1, <2>1, Zenon
    DEF WakeInv, WakesUp, Listed, Settled, Gone, Agrees, Waits, Works
  <2> QED
    BY <2>1, <2>2, Zenon DEF WakeInv
<1>4. CASE Publish
  <2>1. /\ rpc = "publish" /\ rpc' = "notify"
        /\ UNCHANGED <<lastNotifiedByInstance, dpc, signal>>
    BY <1>4, Zenon DEF Publish
  <2>2. ASSUME NEW j \in Instances \ {Own} PROVE WakesUp(j)'
    <3>1. /\ lastSeenByInstance'[j] # 0 => lastSeenByInstance'[j] \in names[j]
          /\ lastSeenByInstance'[j] = 0 => names[j] = {}
          /\ j \in todo' <=> names[j] # {}
      BY <1>4, LastOfFiles, Zenon DEF Publish, TypeOK
    <3>2. Agrees(j)
      BY <2>1, Zenon DEF WakeInv, WakesUp
    <3> QED
      BY <1>1, <2>1, <3>1, <3>2, Zenon
      DEF WakeInv, WakesUp, Listed, Settled, Gone, Agrees, Waits, Works
  <2> QED
    BY <2>1, <2>2, Zenon DEF WakeInv
<1>5. CASE RunOnceReturns
  <2>1. /\ rpc = "notify" /\ rpc' = "list" /\ todo = {}
        /\ UNCHANGED <<lastSeenByInstance, lastNotifiedByInstance, todo, dpc,
                       signal, names>>
    BY <1>5, Zenon DEF RunOnceReturns
  <2>2. ASSUME NEW j \in Instances \ {Own} PROVE WakesUp(j)'
    BY <1>1, <2>1, Zenon
    DEF WakeInv, WakesUp, Listed, Settled, Gone, Agrees, Waits, Works
  <2> QED
    BY <2>1, <2>2, Zenon DEF WakeInv
<1>6. ASSUME NEW q \in Instances, Notify(q) PROVE WakeInv'
  <2>1. /\ rpc = "notify" /\ todo' = todo \ {q}
        /\ UNCHANGED <<lastSeenByInstance, rpc, names>>
    BY <1>6, Zenon DEF Notify
  <2>2. ASSUME NEW j \in Instances \ {Own} PROVE WakesUp(j)'
    <3>1. CASE j # q
      <4>1. /\ dpc'[j] = dpc[j] /\ signal'[j] = signal[j]
            /\ lastNotifiedByInstance'[j] = lastNotifiedByInstance[j]
        BY <1>6, <3>1, Zenon DEF Notify, TypeOK
      <4> QED
        BY <1>1, <2>1, <3>1, <4>1, Zenon
        DEF WakeInv, WakesUp, Listed, Settled, Gone, Agrees, Waits, Works
    <3>2. CASE j = q /\ Notifies(q)
      <4>1. /\ signal'[j]
            /\ lastNotifiedByInstance'[j] = lastSeenByInstance[j]
        BY <1>6, <3>2, Zenon DEF Notify, TypeOK
      <4> QED
        BY <1>1, <2>1, <3>2, <4>1, Zenon
        DEF WakeInv, WakesUp, Listed, Settled, Gone, Agrees, Waits, Works, Notifies
    <3>3. CASE j = q /\ ~Notifies(q)
      <4>1. /\ lastSeenByInstance[j] = lastNotifiedByInstance[j]
            /\ UNCHANGED <<dpc, signal, lastNotifiedByInstance>>
        BY <1>6, <3>3, Zenon DEF Notify, Notifies
      <4> QED
        BY <1>1, <2>1, <3>3, <4>1, Zenon
        DEF WakeInv, WakesUp, Listed, Settled, Gone, Agrees, Waits, Works
    <3> QED
      BY <3>1, <3>2, <3>3, SMTT(30)
  <2> QED
    BY <2>1, <2>2, Zenon DEF WakeInv
<1> QED
  BY <1>2, <1>3, <1>4, <1>5, <1>6, Zenon DEF RunStep

\* The steps of a downloader.
LEMMA DownloaderWakes ==
  ASSUME TypeOK, KnownFiles, WakeInv, NEW j \in Instances, DownloaderStep(j)
  PROVE  WakeInv'
<1> USE DEF Goto, Forget, Processed
<1>1. /\ UNCHANGED <<files, names, lastSeenByInstance, lastNotifiedByInstance,
                     todo, rpc>>
      /\ corruptSnapshots \subseteq corruptSnapshots'
  BY Zenon DEF DownloaderStep, Wake, CheckLatest, AcquireDownload, Load, LoadFails,
         AcquireDecompress, DecodeFails, Decode, Offer, CloseOverwritten, Retry,
         bucketVars, runVars
<1>2. \A q \in Instances \ {j} : /\ ni'[q] = ni[q] /\ last'[q] = last[q]
                                  /\ dpc'[q] = dpc[q] /\ signal'[q] = signal[q]
  BY ZenonT(30)
  DEF DownloaderStep, Wake, CheckLatest, AcquireDownload, Load, LoadFails,
         AcquireDecompress, DecodeFails, Decode, Offer, CloseOverwritten, Retry,
         TypeOK
<1>3. \A q \in Instances \ {Own, j} : WakesUp(q)'
  BY <1>1, <1>2, OthersWake, Zenon DEF WakeInv
<1>4. ASSUME j # Own PROVE WakesUp(j)'
  <2>1. /\ Listed(j)' /\ (j \notin todo' => Agrees(j)')
        /\ (lastSeenByInstance'[j] = 0 => Settled(j, 0)')
        /\ Agrees(j)' = Agrees(j)
    BY <1>1, <1>4, Zenon DEF WakeInv, WakesUp, Listed, Agrees, Settled, Gone
  <2>2. \A m : Settled(j, m) => Settled(j, m)'
    BY <1>1, SMTT(30) DEF Settled, Gone
  <2>3. /\ Waits(j) /\ ~signal[j] /\ Agrees(j) => Settled(j, last[j])
        /\ Works(j) /\ ~signal[j] /\ Agrees(j) => Settled(j, ni[j])
        /\ lastSeenByInstance[j] = 0 => Settled(j, 0)
    BY <1>4, SMTT(30) DEF WakeInv, WakesUp
  <2>4. \/ ~Waits(j)' /\ ~Works(j)'
        \/ CheckLatest(j)
        \/ /\ Works(j) /\ Waits(j)' /\ ~Works(j)'
           /\ last'[j] = ni[j] /\ signal'[j] = signal[j]
        \/ /\ Works(j) /\ Works(j)' /\ ~Waits(j)'
           /\ ni'[j] = ni[j] /\ signal'[j] = signal[j]
    BY ZenonT(30) DEF DownloaderStep, Wake, AcquireDownload, Load, LoadFails,
           AcquireDecompress, DecodeFails, Decode, Offer, CloseOverwritten, Retry,
           Waits, Works, TypeOK
  <2>5. CASE CheckLatest(j)
    <3>1. \/ /\ lastSeenByInstance[j] \in {0, last[j]} /\ ~Works(j)'
             /\ last'[j] = last[j]
          \/ /\ lastSeenByInstance[j] # 0 /\ ~Waits(j)'
             /\ ni'[j] = lastSeenByInstance[j]
      BY <2>5, ZenonT(30) DEF CheckLatest, Waits, Works, TypeOK
    <3> QED
      BY <2>1, <2>2, <2>3, <3>1, <1>1, Zenon DEF WakesUp, Settled, Agrees
  <2> QED
    BY <2>1, <2>2, <2>3, <2>4, <2>5, Zenon DEF WakesUp
<1> QED
  BY <1>1, <1>3, <1>4, Zenon DEF WakeInv

\* The wake-ups are kept by every step.
LEMMA WakesKept ==
  ASSUME TypeOK, KnownFiles, WakeInv, [Next]_vars
  PROVE  WakeInv'
<1> USE DEF bucketVars, runVars, downloaderVars
<1>1. ASSUME UNCHANGED <<names, lastSeenByInstance, lastNotifiedByInstance, todo,
                         rpc, corruptSnapshots, ni, last, dpc, signal>>,
             \A j \in Instances :
               \A n \in files'[j] : n <= newest[j] => n \in files[j]
      PROVE  WakeInv'
  BY <1>1, OthersWake, Zenon DEF WakeInv
<1>2. ASSUME NEW q \in Instances,
             \/ \E isBad \in BOOLEAN : Upload(q, isBad)
             \/ \E n \in 1..MaxFiles : Delete(q, n)
      PROVE  WakeInv'
  <2>1. UNCHANGED <<names, lastSeenByInstance, lastNotifiedByInstance, todo, rpc,
                    corruptSnapshots, ni, last, dpc, signal>>
    BY <1>2, Zenon DEF Upload, Delete
  <2>2. \/ files' = [files EXCEPT ![q] = @ \cup {newest[q] + 1}]
        \/ \E n \in 1..MaxFiles : files' = [files EXCEPT ![q] = @ \ {n}]
    BY <1>2, Zenon DEF Upload, Delete
  <2>3. \A j \in Instances : \A n \in files'[j] : n <= newest[j] => n \in files[j]
    BY <2>2, ReceiverAssumption, SMTT(30) DEF TypeOK, FileNumber
  <2> QED
    BY <1>1, <2>1, <2>3, Zenon
<1>3. CASE SyncStep \/ UNCHANGED vars
  <2>1. UNCHANGED <<names, lastSeenByInstance, lastNotifiedByInstance, todo, rpc,
                    corruptSnapshots, ni, last, dpc, signal, files>>
    BY <1>3, Zenon
    DEF SyncStep, Loaded, CleanDisappeared, NextSnapshot, vars
  <2> QED
    BY <1>1, <2>1, Zenon
<1> QED
  BY <1>2, <1>3, RunWakes, DownloaderWakes, Zenon DEF Next
-------------------------------------------------------------------------------
\* The inductive invariant of the receiver.
ReceiverInv == TypeOK /\ TokenInv /\ FileInv /\ WakeInv

\* It holds at the start and is kept by every step.
LEMMA ReceiverInvAlways == Spec => []ReceiverInv
<1>1. Init => ReceiverInv
  <2> SUFFICES ASSUME Init PROVE ReceiverInv
    BY Zenon
  <2>1. TypeOK
    BY InitTypes, Zenon
  <2>2. TokenInv
    <3>1. HoldsDownload = {} /\ HoldsDecompress = {} /\ Ready = {}
      BY Zenon DEF Init, HoldsDownload, HoldsDecompress, Ready, NoFile
    <3>2. \A j \in Instances : ~Works(j)
      BY Zenon DEF Init, Works
    <3> QED
      BY <3>1, <3>2, FS_EmptySet, ReceiverAssumption
      DEF Init, TokenInv, TokensConserved
  <2>3. FileInv
    <3>1. \A j \in Instances : \A n \in files[j] : n <= newest[j]
      BY <2>1, LastOfFiles, SMTT(30) DEF Init, TypeOK
    <3> QED
      BY <2>1, <3>1, SMTT(30)
      DEF Init, FileInv, KnownFiles, GoodInv, OnlyGoodIsOffered, NoFile, NoNames,
          TypeOK, FileNumber
  <2>4. WakeInv
    BY Zenon DEF Init, WakeInv, WakesUp, Listed, Agrees, Settled, NoFile
  <2> QED
    BY <2>1, <2>2, <2>3, <2>4, Zenon DEF ReceiverInv
<1>2. ReceiverInv /\ [Next]_vars => ReceiverInv'
  BY TokensKept, FilesKept, WakesKept, Zenon DEF ReceiverInv, FileInv
<1> QED
  BY <1>1, <1>2, PTL DEF Spec

\* For any limits and any number of downloaders, LoadOnce, the replacement of a
\* snapshot and the syncer's Close conserve the tokens of both limits.
THEOREM TokensConservedAlways == Spec => []TokensConserved
<1>1. ReceiverInv => TokensConserved
  BY Zenon DEF ReceiverInv, TokenInv
<1> QED
  BY <1>1, ReceiverInvAlways, PTL

\* Next never hands out a snapshot that LoadData rejects.
THEOREM OnlyGoodIsOfferedAlways == Spec => []OnlyGoodIsOffered
<1>1. ReceiverInv => OnlyGoodIsOffered
  BY Zenon DEF ReceiverInv, FileInv, GoodInv
<1> QED
  BY <1>1, ReceiverInvAlways, PTL

\* NotifyNewSnapshot loses no wake-up, although it drops a signal when one is
\* pending and RunOnce skips files it has notified before: a file that a
\* downloader was notified of and has not processed is gone for good.
THEOREM NoLostWakeUpAlways == Spec => []NoLostWakeUp
<1>1. ReceiverInv => NoLostWakeUp
  BY WakeInvImplies, Zenon DEF ReceiverInv
<1> QED
  BY <1>1, ReceiverInvAlways, PTL
===============================================================================
