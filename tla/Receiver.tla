------------------------------- MODULE Receiver -------------------------------
(***************************************************************************)
(* The receiver of one instance, its downloaders and the syncer that       *)
(* consumes what they offer: syncer/receiver, the two concurrency limits of*)
(* utils/climit and the loads of syncer/sync.go.                           *)
(*                                                                         *)
(* The files of an instance are numbered in the order of their names, which*)
(* is the order of their timestamps; 0 stands for no file.  A bad file is  *)
(* one that snapshot.LoadData rejects.  What a load does to the LMDB is the*)
(* subject of module Syncer; here a load only takes time.                  *)
(***************************************************************************)
EXTENDS Integers, FiniteSets, FiniteSetsExt

CONSTANTS
  Instances,       \* the instances with snapshots in the bucket
  Own,             \* the instance this receiver belongs to
  DownloadLimit,   \* MemoryDownloadedSnapshots
  DecompressLimit, \* MemoryDecompressedSnapshots
  InitialFiles,    \* what the bucket can hold at the start, per instance
  InitialBad,      \* the bad files it can hold, as pairs of instance and number
  MaxFiles,        \* bound: the highest file number
  MaxFaults        \* bound: how many new files are bad, files are deleted and
                   \* downloads fail

ASSUME ReceiverAssumption ==
  /\ Own \in Instances /\ IsFiniteSet(Instances)
  /\ DownloadLimit \in Nat \ {0} /\ DecompressLimit \in Nat \ {0}
  /\ MaxFiles \in Nat /\ MaxFaults \in Nat
  /\ InitialFiles \subseteq [Instances -> SUBSET (1..MaxFiles)]
  /\ InitialBad \subseteq SUBSET (Instances \X (1..MaxFiles))

VARIABLES
  files,    \* the bucket: the files of each instance
  newest,   \* the highest file number each instance has used
  bad,      \* the files that do not decode
  faults,   \* how many faults there were
  corruptSnapshots,       \* Receiver: files marked as corrupt
  names,                  \* RunOnce: the files that were listed
  lastSeenByInstance,     \* Receiver: the latest listed file of each instance
  lastNotifiedByInstance, \* Receiver: what a downloader was notified of
  todo,                   \* RunOnce: instances its last loop has yet to visit
  rpc,                    \* where the goroutine of RunOnce is
  includingOwn,           \* RunOnce: the initial listing
  signal,                 \* Downloader: newSnapshotSignal holds a signal
  dpc,                    \* where each downloader is
  ni,                     \* LoadOnce: the file being loaded
  last,                   \* Downloader: the last file it processed
  snapshotsByInstance,    \* Receiver: decoded snapshots ready for the syncer
  downloadTokens, decompressTokens, \* free tokens of the two limits
  loading,                \* syncLoop: the update being loaded
  waitingForInstances,    \* syncLoop
  loaded                  \* history: the files loaded from each instance

bucketVars == <<files, newest, bad, faults>>
runVars == <<names, lastSeenByInstance, lastNotifiedByInstance, todo, rpc,
             includingOwn>>
downloaderVars == <<signal, dpc, ni, last>>
limitVars == <<downloadTokens, decompressTokens>>
syncVars == <<loading, waitingForInstances, loaded>>
vars == <<bucketVars, corruptSnapshots, runVars, downloaderVars,
          snapshotsByInstance, limitVars, syncVars>>

NoFile == [j \in Instances |-> 0]
NoNames == [j \in Instances |-> {}]
NotLoading == [instance |-> Own, file |-> 0]

\* The last name of a sorted list, or none.
LastOf(S) == IF S = {} THEN 0 ELSE Max(S)

Init ==
  /\ files \in InitialFiles
  /\ bad \in InitialBad /\ \A f \in bad : f[2] \in files[f[1]]
  /\ newest = [j \in Instances |-> LastOf(files[j])]
  /\ faults = 0
  /\ corruptSnapshots = {}
  /\ names = NoNames /\ lastSeenByInstance = NoFile
  /\ lastNotifiedByInstance = NoFile /\ todo = {}
  /\ rpc = "list" /\ includingOwn = TRUE
  /\ signal = [j \in Instances |-> FALSE]
  /\ dpc = [j \in Instances |-> "none"]
  /\ ni = NoFile /\ last = NoFile
  /\ snapshotsByInstance = NoFile
  /\ downloadTokens = DownloadLimit /\ decompressTokens = DecompressLimit
  /\ loading = NotLoading
  /\ waitingForInstances = {} /\ loaded = [j \in Instances |-> {}]
-------------------------------------------------------------------------------
(***************************************************************************)
(* The bucket, written by the other instances and by all cleaners.         *)
(***************************************************************************)
\* A new snapshot of another instance.
Upload(j, isBad) ==
  /\ j # Own /\ newest[j] < MaxFiles
  /\ isBad => faults < MaxFaults
  /\ newest' = [newest EXCEPT ![j] = @ + 1]
  /\ files' = [files EXCEPT ![j] = @ \cup {newest[j] + 1}]
  /\ bad' = IF isBad THEN bad \cup {<<j, newest[j] + 1>>} ELSE bad
  /\ faults' = IF isBad THEN faults + 1 ELSE faults
  /\ UNCHANGED <<corruptSnapshots, runVars, downloaderVars, snapshotsByInstance,
                 limitVars, syncVars>>

\* A cleaner removes a snapshot: an old one, or the last one of a dead instance.
Delete(j, n) ==
  /\ n \in files[j] /\ faults < MaxFaults
  /\ files' = [files EXCEPT ![j] = @ \ {n}]
  /\ faults' = faults + 1
  /\ UNCHANGED <<newest, bad, corruptSnapshots, runVars, downloaderVars,
                 snapshotsByInstance, limitVars, syncVars>>
-------------------------------------------------------------------------------
(***************************************************************************)
(* Receiver.RunOnce: list, publish, notify.                                *)
(***************************************************************************)
\* The listing of the bucket.  A failing one has no effect and is repeated.
List ==
  /\ rpc = "list"
  /\ names' = files
  /\ rpc' = "filter"
  /\ UNCHANGED <<bucketVars, corruptSnapshots, lastSeenByInstance,
                 lastNotifiedByInstance, todo, includingOwn, downloaderVars,
                 snapshotsByInstance, limitVars, syncVars>>

\* Mutant: corrupt snapshots are listed like the others.
FilterNothing ==
  /\ rpc = "filter"
  /\ rpc' = "publish"
  /\ UNCHANGED <<bucketVars, corruptSnapshots, names, lastSeenByInstance,
                 lastNotifiedByInstance, todo, includingOwn, downloaderVars,
                 snapshotsByInstance, limitVars, syncVars>>

\* Files that were marked as corrupt until now are ignored.
Filter ==
  /\ rpc = "filter"
  /\ names' = [j \in Instances |->
                {n \in names[j] : <<j, n>> \notin corruptSnapshots}]
  /\ rpc' = "publish"
  /\ UNCHANGED <<bucketVars, corruptSnapshots, lastSeenByInstance,
                 lastNotifiedByInstance, todo, includingOwn, downloaderVars,
                 snapshotsByInstance, limitVars, syncVars>>

\* The new map becomes visible to the downloaders and the syncer.
Publish ==
  /\ rpc = "publish"
  /\ lastSeenByInstance' = [j \in Instances |-> LastOf(names[j])]
  /\ names' = NoNames
  /\ todo' = {j \in Instances : names[j] # {}}
  /\ rpc' = "notify"
  /\ UNCHANGED <<bucketVars, corruptSnapshots, lastNotifiedByInstance,
                 includingOwn, downloaderVars, snapshotsByInstance, limitVars,
                 syncVars>>

\* The own instance is skipped, except in the initial listing.
Notifies(j) ==
  /\ lastSeenByInstance[j] # lastNotifiedByInstance[j]
  /\ includingOwn \/ j # Own

\* Mutant: an existing downloader is not notified again.
NotifyOnce(j) ==
  /\ rpc = "notify" /\ j \in todo
  /\ todo' = todo \ {j}
  /\ IF Notifies(j)
     THEN /\ dpc' = [dpc EXCEPT ![j] = IF @ = "none" THEN "wait" ELSE @]
          /\ signal' = [signal EXCEPT ![j] = @ \/ dpc[j] = "none"]
          /\ lastNotifiedByInstance' =
               [lastNotifiedByInstance EXCEPT ![j] = lastSeenByInstance[j]]
     ELSE UNCHANGED <<dpc, signal, lastNotifiedByInstance>>
  /\ UNCHANGED <<bucketVars, corruptSnapshots, names, lastSeenByInstance, rpc,
                 includingOwn, ni, last, snapshotsByInstance, limitVars,
                 syncVars>>

\* One iteration of the last loop, with getDownloader and NotifyNewSnapshot,
\* which does nothing if the channel already holds a signal.
Notify(j) ==
  /\ rpc = "notify" /\ j \in todo
  /\ todo' = todo \ {j}
  /\ IF Notifies(j)
     THEN /\ dpc' = [dpc EXCEPT ![j] = IF @ = "none" THEN "wait" ELSE @]
          /\ signal' = [signal EXCEPT ![j] = TRUE]
          /\ lastNotifiedByInstance' =
               [lastNotifiedByInstance EXCEPT ![j] = lastSeenByInstance[j]]
     ELSE UNCHANGED <<dpc, signal, lastNotifiedByInstance>>
  /\ UNCHANGED <<bucketVars, corruptSnapshots, names, lastSeenByInstance, rpc,
                 includingOwn, ni, last, snapshotsByInstance, limitVars,
                 syncVars>>

\* The end of RunOnce.  After the initial one syncLoop waits for all instances
\* it listed, and Run repeats the listing without the own instance.
RunOnceReturns ==
  /\ rpc = "notify" /\ todo = {}
  /\ rpc' = "list"
  /\ includingOwn' = FALSE
  /\ waitingForInstances' = IF includingOwn
                            THEN {j \in Instances : lastSeenByInstance[j] # 0}
                            ELSE waitingForInstances
  /\ UNCHANGED <<bucketVars, corruptSnapshots, names, lastSeenByInstance,
                 lastNotifiedByInstance, todo, downloaderVars,
                 snapshotsByInstance, limitVars, loading, loaded>>
-------------------------------------------------------------------------------
(***************************************************************************)
(* Downloader.Run and Downloader.LoadOnce.                                 *)
(***************************************************************************)
Goto(j, pc) == dpc' = [dpc EXCEPT ![j] = pc]

\* The file of LoadOnce is forgotten when it returns, or becomes the last one.
Forget(j) == ni' = [ni EXCEPT ![j] = 0]
Processed(j) == last' = [last EXCEPT ![j] = ni[j]] /\ Forget(j)

\* <-d.newSnapshotSignal
Wake(j) ==
  /\ dpc[j] = "wait" /\ signal[j]
  /\ signal' = [signal EXCEPT ![j] = FALSE]
  /\ Goto(j, "check")
  /\ UNCHANGED <<bucketVars, corruptSnapshots, runVars, ni, last,
                 snapshotsByInstance, limitVars, syncVars>>

\* The latest file seen by the receiver, unless it was already processed.
CheckLatest(j) ==
  LET seen == lastSeenByInstance[j]
  IN  /\ dpc[j] = "check"
      /\ IF seen = 0 \/ seen = last[j]
         THEN Goto(j, "wait") /\ UNCHANGED ni
         ELSE Goto(j, "acquire") /\ ni' = [ni EXCEPT ![j] = seen]
      /\ UNCHANGED <<bucketVars, corruptSnapshots, runVars, signal, last,
                     snapshotsByInstance, limitVars, syncVars>>

\* downloadSnapshotLimit.Acquire(), which blocks until a token is free.
AcquireDownload(j) ==
  /\ dpc[j] = "acquire" /\ downloadTokens > 0
  /\ downloadTokens' = downloadTokens - 1
  /\ Goto(j, "load")
  /\ UNCHANGED <<bucketVars, corruptSnapshots, runVars, signal, ni, last,
                 snapshotsByInstance, decompressTokens, syncVars>>

\* st.Load succeeds.
Load(j) ==
  /\ dpc[j] = "load" /\ ni[j] \in files[j]
  /\ Goto(j, "decompress")
  /\ UNCHANGED <<bucketVars, corruptSnapshots, runVars, signal, ni, last,
                 snapshotsByInstance, limitVars, syncVars>>

\* Mutant: the download token is not released when the load fails.
LoadFailsWithToken(j) ==
  /\ dpc[j] = "load"
  /\ \/ ni[j] \notin files[j] /\ UNCHANGED faults
     \/ faults < MaxFaults /\ faults' = faults + 1
  /\ Goto(j, "sleep") /\ Forget(j)
  /\ UNCHANGED <<files, newest, bad, corruptSnapshots, runVars, signal, last,
                 snapshotsByInstance, limitVars, syncVars>>

\* st.Load fails, because the file is gone or because of the network.
LoadFails(j) ==
  /\ dpc[j] = "load"
  /\ \/ ni[j] \notin files[j] /\ UNCHANGED faults
     \/ faults < MaxFaults /\ faults' = faults + 1
  /\ downloadTokens' = downloadTokens + 1
  /\ Goto(j, "sleep") /\ Forget(j)
  /\ UNCHANGED <<files, newest, bad, corruptSnapshots, runVars, signal, last,
                 snapshotsByInstance, decompressTokens, syncVars>>

\* decompressedSnapshotLimit.Acquire()
AcquireDecompress(j) ==
  /\ dpc[j] = "decompress" /\ decompressTokens > 0
  /\ decompressTokens' = decompressTokens - 1
  /\ Goto(j, "decode")
  /\ UNCHANGED <<bucketVars, corruptSnapshots, runVars, signal, ni, last,
                 snapshotsByInstance, downloadTokens, syncVars>>

\* snapshot.LoadData fails: the file is ignored from now on.
DecodeFails(j) ==
  /\ dpc[j] = "decode" /\ <<j, ni[j]>> \in bad
  /\ decompressTokens' = decompressTokens + 1
  /\ downloadTokens' = downloadTokens + 1
  /\ corruptSnapshots' = corruptSnapshots \cup {<<j, ni[j]>>}
  /\ Goto(j, "sleep") /\ Processed(j)
  /\ UNCHANGED <<bucketVars, runVars, signal, snapshotsByInstance, syncVars>>

\* Mutant: the error of snapshot.LoadData is ignored.
DecodeAnything(j) ==
  /\ dpc[j] = "decode"
  /\ downloadTokens' = downloadTokens + 1
  /\ Goto(j, "offer")
  /\ UNCHANGED <<bucketVars, corruptSnapshots, runVars, signal, ni, last,
                 snapshotsByInstance, decompressTokens, syncVars>>

\* snapshot.LoadData succeeds, and the download token is released.
Decode(j) ==
  /\ dpc[j] = "decode" /\ <<j, ni[j]>> \notin bad
  /\ downloadTokens' = downloadTokens + 1
  /\ Goto(j, "offer")
  /\ UNCHANGED <<bucketVars, corruptSnapshots, runVars, signal, ni, last,
                 snapshotsByInstance, decompressTokens, syncVars>>

\* The snapshot replaces one that the syncer has not taken yet, if any.
Offer(j) ==
  /\ dpc[j] = "offer"
  /\ snapshotsByInstance' = [snapshotsByInstance EXCEPT ![j] = ni[j]]
  /\ IF snapshotsByInstance[j] # 0
     THEN Goto(j, "close") /\ UNCHANGED <<last, ni>>
     ELSE Goto(j, "wait") /\ Processed(j)
  /\ UNCHANGED <<bucketVars, corruptSnapshots, runVars, signal, limitVars,
                 syncVars>>

\* Closing the replaced snapshot releases its decompress token.
CloseOverwritten(j) ==
  /\ dpc[j] = "close"
  /\ decompressTokens' = decompressTokens + 1
  /\ Goto(j, "wait") /\ Processed(j)
  /\ UNCHANGED <<bucketVars, corruptSnapshots, runVars, signal,
                 snapshotsByInstance, downloadTokens, syncVars>>

\* The end of the sleep after an error.
Retry(j) ==
  /\ dpc[j] = "sleep"
  /\ Goto(j, "check")
  /\ UNCHANGED <<bucketVars, corruptSnapshots, runVars, signal, ni, last,
                 snapshotsByInstance, limitVars, syncVars>>
-------------------------------------------------------------------------------
(***************************************************************************)
(* syncLoop, after the initial listing.                                    *)
(***************************************************************************)
\* Receiver.Next hands out any of the ready snapshots.
NextSnapshot(j) ==
  /\ ~includingOwn /\ loading = NotLoading /\ snapshotsByInstance[j] # 0
  /\ loading' = [instance |-> j, file |-> snapshotsByInstance[j]]
  /\ snapshotsByInstance' = [snapshotsByInstance EXCEPT ![j] = 0]
  /\ waitingForInstances' = waitingForInstances \ {j}
  /\ UNCHANGED <<bucketVars, corruptSnapshots, runVars, downloaderVars,
                 limitVars, loaded>>

\* LoadOnce returns, and Update.Close releases the decompress token.
Loaded ==
  /\ loading # NotLoading
  /\ loaded' = [loaded EXCEPT ![loading.instance] = @ \cup {loading.file}]
  /\ loading' = NotLoading
  /\ decompressTokens' = decompressTokens + 1
  /\ UNCHANGED <<bucketVars, corruptSnapshots, runVars, downloaderVars,
                 snapshotsByInstance, downloadTokens, waitingForInstances>>

\* Mutant: instances that disappeared are waited for.
CleanNothing ==
  /\ ~includingOwn /\ loading = NotLoading
  /\ UNCHANGED vars

\* Between two loads, when nothing was ready or after too many loads: instances
\* that disappeared are no longer waited for.
CleanDisappeared ==
  /\ ~includingOwn /\ loading = NotLoading
  /\ waitingForInstances' =
       {j \in waitingForInstances : lastSeenByInstance[j] # 0}
  /\ UNCHANGED <<bucketVars, corruptSnapshots, runVars, downloaderVars,
                 snapshotsByInstance, limitVars, loading, loaded>>
-------------------------------------------------------------------------------
DownloaderStep(j) ==
  \/ Wake(j) \/ CheckLatest(j) \/ AcquireDownload(j) \/ Load(j) \/ LoadFails(j)
  \/ AcquireDecompress(j) \/ DecodeFails(j) \/ Decode(j) \/ Offer(j)
  \/ CloseOverwritten(j) \/ Retry(j)

RunStep ==
  \/ List \/ Filter \/ Publish \/ RunOnceReturns
  \/ \E j \in Instances : Notify(j)

SyncStep == Loaded \/ CleanDisappeared \/ \E j \in Instances : NextSnapshot(j)

Next ==
  \/ \E j \in Instances : \/ \E isBad \in BOOLEAN : Upload(j, isBad)
                          \/ \E n \in 1..MaxFiles : Delete(j, n)
                          \/ DownloaderStep(j)
  \/ RunStep \/ SyncStep

Spec == Init /\ [][Next]_vars

\* Every goroutine keeps running.  A token that is released over and over again
\* goes to every downloader that waits for it, as Go channels are first come,
\* first served.
Fairness ==
  /\ WF_vars(RunStep)
  /\ WF_vars(Loaded)
  /\ WF_vars(CleanDisappeared)
  /\ \A j \in Instances : /\ WF_vars(DownloaderStep(j))
                          /\ SF_vars(AcquireDownload(j))
                          /\ SF_vars(AcquireDecompress(j))
                          /\ SF_vars(NextSnapshot(j))

FairSpec == Spec /\ Fairness
-------------------------------------------------------------------------------
FileNumber == 0..MaxFiles
DownloaderPcs == {"none", "wait", "check", "acquire", "load", "decompress",
                  "decode", "offer", "close", "sleep"}

TypeOK ==
  /\ files \in [Instances -> SUBSET (1..MaxFiles)]
  /\ newest \in [Instances -> FileNumber]
  /\ bad \subseteq Instances \X (1..MaxFiles)
  /\ faults \in 0..MaxFaults
  /\ corruptSnapshots \subseteq bad
  /\ names \in [Instances -> SUBSET (1..MaxFiles)]
  /\ lastSeenByInstance \in [Instances -> FileNumber]
  /\ lastNotifiedByInstance \in [Instances -> FileNumber]
  /\ todo \subseteq Instances
  /\ rpc \in {"list", "filter", "publish", "notify"} /\ includingOwn \in BOOLEAN
  /\ signal \in [Instances -> BOOLEAN]
  /\ dpc \in [Instances -> DownloaderPcs]
  /\ ni \in [Instances -> FileNumber] /\ last \in [Instances -> FileNumber]
  /\ snapshotsByInstance \in [Instances -> FileNumber]
  /\ downloadTokens \in 0..DownloadLimit
  /\ decompressTokens \in 0..DecompressLimit
  /\ loading \in [instance : Instances, file : FileNumber]
  /\ waitingForInstances \subseteq Instances
  /\ loaded \in [Instances -> SUBSET (1..MaxFiles)]

HoldsDownload == {j \in Instances : dpc[j] \in {"load", "decompress", "decode"}}

\* A replaced snapshot is held until it is closed.
HoldsDecompress == {j \in Instances : dpc[j] \in {"decode", "offer", "close"}}

Ready == {j \in Instances : snapshotsByInstance[j] # 0}

\* No token of the two limits is lost or returned twice, on any path through
\* LoadOnce, when a snapshot is replaced, or when the syncer closes it.  A lost
\* token would in the end block every download.
TokensConserved ==
  /\ downloadTokens + Cardinality(HoldsDownload) = DownloadLimit
  /\ decompressTokens + Cardinality(HoldsDecompress) + Cardinality(Ready)
       + (IF loading = NotLoading THEN 0 ELSE 1) = DecompressLimit

\* No wake-up is lost: a downloader of another instance that is waiting for a
\* signal has processed the latest file that was published.
NoLostWakeUp ==
  \A j \in Instances \ {Own} :
    dpc[j] \in {"none", "wait"} /\ ~signal[j] /\ j \notin todo =>
      lastSeenByInstance[j] \in {0, last[j]}

\* A corrupt snapshot never reaches the syncer.
OnlyGoodIsOffered ==
  \A j \in Instances :
    snapshotsByInstance[j] # 0 => <<j, snapshotsByInstance[j]>> \notin bad

\* The newest snapshot of j that decodes.
NewestGood(j) == LastOf({n \in files[j] : <<j, n>> \notin bad})

\* When the bucket comes to rest, the newest snapshot of every other instance
\* that decodes has been loaded, whatever corrupt, replaced or deleted files and
\* failing downloads came before.
NewestGoodIsLoaded ==
  \A j \in Instances \ {Own} :
    <>[](NewestGood(j) # 0 => NewestGood(j) \in loaded[j])

\* Every instance listed at the start is loaded or disappears, so that the
\* instance becomes ready and may write snapshots.
StartCompletes == <>(~includingOwn /\ waitingForInstances = {})
===============================================================================
