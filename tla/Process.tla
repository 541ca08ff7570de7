-------------------------------- MODULE Process -------------------------------
(***************************************************************************)
(* The process of the sync command: runSync starts one syncer for each     *)
(* LMDB in an error group, waits for all of them, and the first one that   *)
(* returns an error cancels the context of the others.  A syncer waits for *)
(* its first listing, then makes passes, and in some passes SendOnce       *)
(* stores a snapshot with retries, publishes UpdateStored and reports to   *)
(* its health tracker.  What a pass loads and sends is in Syncer.          *)
(***************************************************************************)
EXTENDS Topics, HealthTracker

CONSTANTS
  Syncers,            \* the LMDBs
  Senders,            \* those with local changes; also the topics and trackers
  StorageRetryCount,
  Settings,           \* StorageRetryForever, OnlyOnce, and the subscribers
  MaxStores           \* bound: the snapshots a syncer stores

ASSUME ProcessAssumption ==
  /\ Senders \subseteq Syncers /\ Topic = Senders /\ Tracker = Senders
  /\ StorageRetryCount \in Nat \ {0} /\ MaxStores \in Nat
  /\ Settings \subseteq [retryForever : BOOLEAN, onlyOnce : BOOLEAN,
                         subscribers : SUBSET Subscribers]

VARIABLES
  main,      \* where runSync is
  pc,        \* where a syncer is
  attempt,   \* i in the loop of SendOnce
  stored,    \* the number of snapshots stored
  canceled,  \* the context of the error group is canceled
  setting    \* one of Settings

processVars == <<main, pc, attempt, stored, canceled, setting>>

vars == <<processVars, topicVars, healthVars>>

Init ==
  /\ TopicsInit /\ HealthInit
  /\ main = "marker"
  /\ pc = [s \in Syncers |-> "none"]
  /\ attempt = [s \in Senders |-> 0]
  /\ stored = [s \in Senders |-> 0]
  /\ canceled = FALSE
  /\ setting \in Settings

Goto(s, l) == pc' = [pc EXCEPT ![s] = l]
-------------------------------------------------------------------------------
(***************************************************************************)
(* runSync.  The storage is set up before anything else and the context is *)
(* canceled only after the syncers have started.                           *)
(***************************************************************************)
\* The marker file is found, or none is waited for.
MarkerFound ==
  /\ main = "marker"
  /\ main' = "starting"
  /\ UNCHANGED <<pc, attempt, stored, canceled, setting, topicVars, healthVars>>

\* One round of the loop over the LMDBs: eg.Go
StartSyncer(s) ==
  /\ main = "starting" /\ pc[s] = "none"
  /\ Goto(s, "listing")
  /\ UNCHANGED <<main, attempt, stored, canceled, setting, topicVars, healthVars>>

\* OpenEnv or syncer.New fails: runSync returns, and its deferred cancel with it.
StartFails ==
  /\ main = "starting" /\ \E s \in Syncers : pc[s] = "none"
  /\ main' = "returned"
  /\ canceled' = TRUE
  /\ UNCHANGED <<pc, attempt, stored, setting, topicVars, healthVars>>

\* eg.Wait
Wait ==
  /\ main = "starting"
  /\ \A s \in Syncers : pc[s] = "done"
  /\ main' = "returned"
  /\ canceled' = TRUE
  /\ UNCHANGED <<pc, attempt, stored, setting, topicVars, healthVars>>

Main == MarkerFound \/ (\E s \in Syncers : StartSyncer(s)) \/ StartFails \/ Wait
-------------------------------------------------------------------------------
(***************************************************************************)
(* syncLoop and SendOnce of a syncer.                                      *)
(***************************************************************************)
\* Sync returns an error: the error group cancels the context.
Returns(s) ==
  /\ Goto(s, "done")
  /\ canceled' = TRUE

\* The first listing; if it fails it is tried again, whatever the context says.
InitialListing(s) ==
  /\ pc[s] = "listing"
  /\ Goto(s, "pass")
  /\ UNCHANGED <<main, attempt, stored, canceled, setting, topicVars, healthVars>>

\* A pass with nothing to send.
NothingToSend(s) ==
  /\ pc[s] = "pass"
  /\ Goto(s, "poll")
  /\ UNCHANGED <<main, attempt, stored, canceled, setting, topicVars, healthVars>>

\* A pass with an error of LoadOnce, of the transaction of SendOnce or of env.Info.
PassFails(s) ==
  /\ pc[s] = "pass"
  /\ Returns(s)
  /\ UNCHANGED <<main, attempt, stored, setting, topicVars, healthVars>>

\* A pass with something to send, up to the loop of SendOnce.
SendOnce(s) ==
  /\ pc[s] = "pass" /\ s \in Senders /\ stored[s] < MaxStores
  /\ Goto(s, "store")
  /\ attempt' = [attempt EXCEPT ![s] = 0]
  /\ UNCHANGED <<main, stored, canceled, setting, topicVars, healthVars>>

\* s.st.Store succeeds.
StoreSucceeds(s) ==
  /\ pc[s] = "store"
  /\ Goto(s, "publish")
  /\ stored' = [stored EXCEPT ![s] = @ + 1]
  /\ UNCHANGED <<main, attempt, canceled, setting, topicVars, healthVars>>

\* s.st.Store fails, and AddFailure.
StoreFails(s) ==
  /\ pc[s] = "store"
  /\ Goto(s, "since")
  /\ AddFailureLoad(s)
  /\ UNCHANGED <<main, attempt, stored, canceled, setting, topicVars>>

FailureSince(s) ==
  /\ pc[s] = "since"
  /\ Goto(s, "inc")
  /\ AddFailureSince(s)
  /\ UNCHANGED <<main, attempt, stored, canceled, setting, topicVars>>

FailureInc(s) ==
  /\ pc[s] = "inc"
  /\ Goto(s, "retry")
  /\ AddFailureInc(s)
  /\ UNCHANGED <<main, attempt, stored, canceled, setting, topicVars>>

\* Mutant: the pause between two attempts does not look at the context.
RetryIgnoresContext(s) ==
  /\ pc[s] = "retry"
  /\ IF ~setting.retryForever /\ attempt[s] + 1 >= StorageRetryCount
     THEN Returns(s) /\ UNCHANGED attempt
     ELSE /\ Goto(s, "store")
          /\ attempt' = [attempt EXCEPT ![s] = IF setting.retryForever THEN @ ELSE @ + 1]
          /\ UNCHANGED canceled
  /\ UNCHANGED <<main, stored, setting, topicVars, healthVars>>

\* SleepContext, and the condition of the loop.  Bound: i does not matter, and is
\* not counted, when StorageRetryForever is set.
Retry(s) ==
  /\ pc[s] = "retry"
  /\ IF canceled \/ (~setting.retryForever /\ attempt[s] + 1 >= StorageRetryCount)
     THEN Returns(s) /\ UNCHANGED attempt
     ELSE /\ Goto(s, "store")
          /\ attempt' = [attempt EXCEPT ![s] = IF setting.retryForever THEN @ ELSE @ + 1]
          /\ UNCHANGED canceled
  /\ UNCHANGED <<main, stored, setting, topicVars, healthVars>>

\* s.events.UpdateStored.Publish: the values are the numbers of the snapshots.
PublishLock(s) ==
  /\ pc[s] = "publish"
  /\ Goto(s, "sending")
  /\ Lock(s, stored[s])
  /\ UNCHANGED <<main, attempt, stored, canceled, setting, healthVars>>

PublishSend(s) ==
  /\ pc[s] = "sending"
  /\ Send(s)
  /\ UNCHANGED <<processVars, healthVars>>

PublishUnlock(s) ==
  /\ pc[s] = "sending"
  /\ Unlock(s)
  /\ Goto(s, "success")
  /\ UNCHANGED <<main, attempt, stored, canceled, setting, healthVars>>

\* AddSuccess and the rest of the pass.
Success(s) ==
  /\ pc[s] = "success"
  /\ Goto(s, "poll")
  /\ AddSuccess(s)
  /\ UNCHANGED <<main, attempt, stored, canceled, setting, topicVars>>

\* SleepContext at the end of a pass.
Poll(s) ==
  /\ pc[s] = "poll"
  /\ IF canceled THEN Returns(s) ELSE Goto(s, "pass") /\ UNCHANGED canceled
  /\ UNCHANGED <<main, attempt, stored, setting, topicVars, healthVars>>

\* With OnlyOnce, Sync returns without an error after a pass that has loaded a
\* snapshot of every instance that had one at the start.
OnlyOnceEnds(s) ==
  /\ pc[s] = "poll" /\ setting.onlyOnce
  /\ Goto(s, "done")
  /\ UNCHANGED <<main, attempt, stored, canceled, setting, topicVars, healthVars>>

\* The steps of a syncer that are sure to happen.
Proceeds(s) ==
  \/ NothingToSend(s)
  \/ StoreFails(s)
  \/ FailureSince(s)
  \/ FailureInc(s)
  \/ Retry(s)
  \/ PublishLock(s)
  \/ PublishSend(s)
  \/ PublishUnlock(s)
  \/ Success(s)
  \/ Poll(s)

SyncerStep(s) ==
  \/ InitialListing(s)
  \/ PassFails(s)
  \/ SendOnce(s)
  \/ StoreSucceeds(s)
  \/ OnlyOnceEnds(s)
  \/ Proceeds(s)

Next ==
  \/ Main
  \/ \E s \in Syncers : SyncerStep(s)
  \/ (\E h \in setting.subscribers : SubscriberStep(h, canceled))
     /\ UNCHANGED <<processVars, healthVars>>
  \/ HealthStep /\ UNCHANGED <<processVars, topicVars>>
     /\ ~setting.onlyOnce   \* StartHTTPServer is not called with OnlyOnce

\* Goroutines run.  A storage operation returns, but need not succeed, and nobody
\* has to call Close.
Fairness ==
  /\ WF_vars(Main)
  /\ \A s \in Syncers : WF_vars(Proceeds(s))
  /\ \A h \in Subscribers :
       /\ WF_vars(Receive(h) /\ UNCHANGED <<processVars, healthVars>>)
       /\ WF_vars(NextFails(h, canceled) /\ UNCHANGED <<processVars, healthVars>>)
       /\ WF_vars(Callback(h) /\ UNCHANGED <<processVars, healthVars>>)
       /\ WF_vars(unsubscribeID(h) /\ UNCHANGED <<processVars, healthVars>>)

Spec == Init /\ [][Next]_vars /\ Fairness
-------------------------------------------------------------------------------
(***************************************************************************)
(* Properties.                                                             *)
(***************************************************************************)
TypeOK ==
  /\ TopicsTypeOK /\ HealthTypeOK
  /\ main \in {"marker", "starting", "returned"}
  /\ pc \in [Syncers -> {"none", "listing", "pass", "store", "since", "inc",
                         "retry", "publish", "sending", "success", "poll", "done"}]
  /\ attempt \in [Senders -> 0..(StorageRetryCount - 1)]
  /\ stored \in [Senders -> 0..MaxStores]
  /\ canceled \in BOOLEAN /\ setting \in Settings

\* Publish and Close wait for each other: Publish has Topic.mu and waits for a
\* subscriber that does not receive, and whose Close has Subscription.mu, which
\* the next call of Next needs, and waits for Topic.mu.
Stuck(s) ==
  /\ pc[s] = "sending" /\ targets[s] # <<>>
  /\ LET h == Head(targets[s])
     IN  /\ closer[h] = "closing" /\ reader[h] # "next"
         /\ sendLast[h] => buffer[h] # <<>>

\* Publish ends, unless it and a Close come to wait for each other: a busy
\* callback, a canceled context and a closed channel do not hold it up for good
\* (Publish, Next, Handle).
PublishEnds ==
  \A s \in Senders : pc[s] = "sending" ~> (pc[s] # "sending" \/ Stuck(s))

\* When a syncer has returned an error, runSync returns after it, even if the
\* storage fails for good and StorageRetryForever is set, unless another syncer
\* waits for its first listing or for a Close (errgroup, SleepContext, SendOnce).
ProcessEnds ==
  canceled ~> (main = "returned"
               \/ \E s \in Syncers : pc[s] \in {"none", "listing"} \/ Stuck(s))
===============================================================================
