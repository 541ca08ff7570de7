----------------------------- MODULE ProcessProofs ----------------------------
(***************************************************************************)
(* Proofs about Process for any number of syncers, subscribers, attempts   *)
(* and stores: Publish never sends on a closed channel, subscribers miss   *)
(* nothing, and the health tracker raises no false alarm.                  *)
(***************************************************************************)
EXTENDS Process, FiniteSetTheorems, TLAPS

\* What the topics need of the rest of the process.
SyncerAt ==
  {"none", "listing", "pass", "store", "since", "inc", "retry", "publish",
   "sending", "success", "poll", "done"}

Publishing ==
  {"store", "since", "inc", "retry", "publish", "sending", "success"}

OnlySendersPublish ==
  /\ setting.subscribers \subseteq Subscribers
  /\ pc \in [Syncers -> SyncerAt]
  /\ \A s \in Syncers : pc[s] \in Publishing => s \in Topic

ReaderAt == {"new", "next", "callback", "nil", "ended"}

CloserAt == {"open", "closing", "closed"}

\* The invariant for NoSendOnClosed: a channel is in the map as long as it is
\* open, the targets of Publish are in the map, and only while it holds the mutex
\* are there targets.
TopicInv ==
  /\ locked \in [Topic -> BOOLEAN]
  /\ targets \in [Topic -> Seq(Subscribers)]
  /\ subscribers \in [Topic -> SUBSET Subscribers]
  /\ reader \in [Subscribers -> ReaderAt]
  /\ closer \in [Subscribers -> CloserAt]
  /\ \A t \in Topic :
       /\ ~locked[t] => targets[t] = << >>
       /\ \A n \in 1..Len(targets[t]) : targets[t][n] \in subscribers[t]
       /\ \A h \in subscribers[t] : TopicOf[h] = t /\ closer[h] # "closed"
  /\ \A h \in Subscribers : reader[h] = "new" => closer[h] = "open"

\* The subscribers of a topic can be visited in some order.
LEMMA OrdersType ==
  ASSUME NEW S \in SUBSET Subscribers, NEW s \in Orders(S)
  PROVE  s \in Seq(Subscribers) /\ \A n \in 1..Len(s) : s[n] \in S
<1>1. IsFiniteSet(S)
  BY TopicsAssumption, FS_Subset, Zenon
<1>2. Cardinality(S) \in Nat
  BY <1>1, FS_CardinalityType, Zenon
<1>3. s \in [1..Cardinality(S) -> S]
  BY Zenon DEF Orders
<1> QED
  BY <1>2, <1>3

\* What one step of a goroutine changes in a function of labels.
LEMMA ExceptLabel ==
  ASSUME NEW S, NEW L, NEW f \in [S -> L], NEW d, NEW c \in L, NEW g,
         g = [f EXCEPT ![d] = c]
  PROVE  /\ g \in [S -> L]
         /\ \A h \in S : g[h] = IF h = d THEN c ELSE f[h]
  BY Zenon

\* The steps of Publish keep the invariant of the topics.
LEMMA PublishPreserves ==
  ASSUME TopicInv, NEW t \in Topic, NEW v, Lock(t, v) \/ Send(t) \/ Unlock(t)
  PROVE  TopicInv'
<1>1. CASE Lock(t, v)
  <2>1. PICK s \in Orders(subscribers[t]) : targets' = [targets EXCEPT ![t] = s]
    BY <1>1, Zenon DEF Lock
  <2>2. s \in Seq(Subscribers) /\ \A n \in 1..Len(s) : s[n] \in subscribers[t]
    <3>1. subscribers[t] \in SUBSET Subscribers
      BY Zenon DEF TopicInv
    <3> QED
      BY <2>1, <3>1, OrdersType, Zenon
  <2>3. /\ locked' = [locked EXCEPT ![t] = TRUE]
        /\ UNCHANGED <<subscribers, reader, closer>>
    BY <1>1, Zenon DEF Lock
  <2> QED
    BY <2>1, <2>2, <2>3 DEF TopicInv
<1>2. CASE Send(t)
  <2>1. /\ targets[t] # << >> /\ targets' = [targets EXCEPT ![t] = Tail(@)]
        /\ UNCHANGED <<locked, subscribers, closer>>
        /\ \/ reader' = reader
           \/ reader' = [reader EXCEPT ![Head(targets[t])] = "callback"]
    BY <1>2, Zenon DEF Send
  <2>2. targets[t] \in Seq(Subscribers)
    BY Zenon DEF TopicInv
  <2>3. /\ Tail(targets[t]) \in Seq(Subscribers)
        /\ \A n \in 1..Len(Tail(targets[t])) :
             \E l \in 1..Len(targets[t]) : Tail(targets[t])[n] = targets[t][l]
    BY <2>1, <2>2
  <2>4. /\ reader' \in [Subscribers -> ReaderAt]
        /\ \A h \in Subscribers : reader'[h] = "new" => reader[h] = "new"
    <3>1. CASE reader' = reader
      BY <3>1, Zenon DEF TopicInv
    <3>2. CASE reader' = [reader EXCEPT ![Head(targets[t])] = "callback"]
      <4>0. "callback" \in ReaderAt
        BY Zenon DEF ReaderAt
      <4>1. reader \in [Subscribers -> ReaderAt]
        BY Zenon DEF TopicInv
      <4>2. /\ reader' \in [Subscribers -> ReaderAt]
            /\ \A h \in Subscribers :
                 reader'[h] = IF h = Head(targets[t]) THEN "callback" ELSE reader[h]
        BY <3>2, <4>0, <4>1, ExceptLabel, ZenonT(60)
      <4>3. "callback" # "new"
        BY Zenon
      <4> QED
        BY <4>2, <4>3, Zenon
    <3> QED
      BY <2>1, <3>1, <3>2, Zenon
  <2>5. targets' \in [Topic -> Seq(Subscribers)]
    BY <2>1, <2>3, Zenon DEF TopicInv
  <2>6. locked[t]
    BY <2>1, Zenon DEF TopicInv
  <2>7. \A q \in Topic : targets'[q] = IF q = t THEN Tail(targets[t]) ELSE targets[q]
    BY <2>1, ZenonT(30) DEF TopicInv
  <2>8. \A q \in Topic : \A n \in 1..Len(targets'[q]) : targets'[q][n] \in subscribers[q]
    <3> SUFFICES ASSUME NEW q \in Topic, NEW n \in 1..Len(targets'[q])
                 PROVE  targets'[q][n] \in subscribers[q]
      BY Zenon
    <3>1. CASE q = t
      <4>1. targets'[q] = Tail(targets[t])
        BY <2>7, <3>1, Zenon
      <4>2. PICK l \in 1..Len(targets[t]) : Tail(targets[t])[n] = targets[t][l]
        BY <2>3, <4>1, Zenon
      <4>3. targets[t][l] \in subscribers[t]
        BY <4>2, Zenon DEF TopicInv
      <4> QED
        BY <3>1, <4>1, <4>2, <4>3, Zenon
    <3>2. CASE q # t
      BY <2>7, <3>2, Zenon DEF TopicInv
    <3> QED
      BY <3>1, <3>2, Zenon
  <2>9. \A q \in Topic : ~locked[q] => targets'[q] = << >>
    BY <2>6, <2>7, Zenon DEF TopicInv
  <2>10. \A h \in Subscribers : reader'[h] = "new" => closer'[h] = "open"
    BY <2>1, <2>4, Zenon DEF TopicInv
  <2>11. UNCHANGED <<locked, subscribers, closer>>
    BY <2>1, Zenon
  <2>12. \A q \in Topic :
           /\ ~locked'[q] => targets'[q] = << >>
           /\ \A n \in 1..Len(targets'[q]) : targets'[q][n] \in subscribers'[q]
           /\ \A h \in subscribers'[q] : TopicOf[h] = q /\ closer'[h] # "closed"
    <3>1. \A q \in Topic : \A h \in subscribers[q] : TopicOf[h] = q /\ closer[h] # "closed"
      BY Zenon DEF TopicInv
    <3> QED
      BY <2>8, <2>9, <2>11, <3>1, Zenon
  <2>13. locked' \in [Topic -> BOOLEAN] /\ subscribers' \in [Topic -> SUBSET Subscribers]
         /\ closer' \in [Subscribers -> CloserAt]
    BY <2>11, Zenon DEF TopicInv
  <2> QED
    BY <2>4, <2>5, <2>10, <2>12, <2>13, Zenon DEF TopicInv
<1>3. CASE Unlock(t)
  BY <1>3, Zenon DEF Unlock, TopicInv
<1> QED
  BY <1>1, <1>2, <1>3, Zenon

\* A step that leaves the map alone and closes no channel keeps the invariant.
LEMMA NoChannelClosed ==
  ASSUME TopicInv, UNCHANGED <<locked, targets, subscribers>>,
         reader' \in [Subscribers -> ReaderAt], closer' \in [Subscribers -> CloserAt],
         \A h \in Subscribers : closer'[h] = "closed" => closer[h] = "closed",
         \A h \in Subscribers : reader'[h] = "new" => closer'[h] = "open"
  PROVE  TopicInv'
<1>1. \A t \in Topic : \A h \in subscribers'[t] :
        TopicOf[h] = t /\ closer'[h] # "closed"
  <2> SUFFICES ASSUME NEW t \in Topic, NEW h \in subscribers[t]
               PROVE  TopicOf[h] = t /\ closer'[h] # "closed"
    BY Zenon
  <2>1. h \in Subscribers
    BY Zenon DEF TopicInv
  <2>2. TopicOf[h] = t /\ closer[h] # "closed"
    BY Zenon DEF TopicInv
  <2> QED
    BY <2>1, <2>2, Zenon
<1> QED
  BY <1>1, Zenon DEF TopicInv

\* The steps of the subscribers keep the invariant of the topics.
LEMMA SubscriberPreserves ==
  ASSUME TopicInv, NEW h \in Subscribers, NEW c, SubscriberStep(h, c)
  PROVE  TopicInv'
<1>0. /\ reader \in [Subscribers -> ReaderAt] /\ closer \in [Subscribers -> CloserAt]
      /\ \A x \in Subscribers : reader[x] = "new" => closer[x] = "open"
  BY Zenon DEF TopicInv
<1>1. CASE Subscribe(h)
  <2>1. /\ UNCHANGED <<locked, targets, closer>>
        /\ subscribers' = [subscribers EXCEPT ![TopicOf[h]] = @ \cup {h}]
        /\ ~locked[TopicOf[h]]
        /\ reader[h] = "new" /\ reader' = [reader EXCEPT ![h] = "next"]
    BY <1>1, Zenon DEF Subscribe
  <2>2. /\ reader' \in [Subscribers -> ReaderAt]
        /\ \A x \in Subscribers : reader'[x] = "new" => reader[x] = "new"
    BY <1>0, <2>1, Zenon DEF ReaderAt, CloserAt
  <2>3. TopicOf[h] \in Topic
    BY TopicsAssumption, Zenon
  <2>4. /\ subscribers' \in [Topic -> SUBSET Subscribers]
        /\ \A t \in Topic : subscribers'[t] =
             IF t = TopicOf[h] THEN subscribers[t] \cup {h} ELSE subscribers[t]
    <3>1. subscribers \in [Topic -> SUBSET Subscribers]
      BY Zenon DEF TopicInv
    <3> QED
      BY <2>1, <2>3, <3>1, Zenon
  <2>5. closer[h] # "closed"
    BY <1>0, <2>1, Zenon DEF ReaderAt, CloserAt
  <2>6. \A t \in Topic : \A n \in 1..Len(targets'[t]) : targets'[t][n] \in subscribers'[t]
    <3>1. \A t \in Topic : subscribers[t] \subseteq subscribers'[t]
      BY <2>4, Zenon
    <3> QED
      BY <2>1, <3>1, Zenon DEF TopicInv
  <2>7. \A t \in Topic : \A x \in subscribers'[t] : TopicOf[x] = t /\ closer'[x] # "closed"
    <3>1. \A t \in Topic : \A x \in subscribers'[t] :
            x \in subscribers[t] \/ (x = h /\ t = TopicOf[h])
      BY <2>4, Zenon
    <3> QED
      BY <2>1, <2>5, <3>1, ZenonT(30) DEF TopicInv
  <2> QED
    BY <1>0, <2>1, <2>2, <2>4, <2>6, <2>7, Zenon DEF TopicInv
<1>2. CASE Receive(h)
  <2>1. /\ UNCHANGED <<locked, targets, subscribers, closer>>
        /\ reader' = [reader EXCEPT ![h] = "callback"]
    BY <1>2, Zenon DEF Receive
  <2>2. /\ reader' \in [Subscribers -> ReaderAt] /\ closer' \in [Subscribers -> CloserAt]
        /\ \A x \in Subscribers : closer'[x] = "closed" => closer[x] = "closed"
        /\ \A x \in Subscribers : reader'[x] = "new" => closer'[x] = "open"
    BY <1>0, <2>1, Zenon DEF ReaderAt, CloserAt
  <2> QED
    BY <2>1, <2>2, NoChannelClosed, Zenon
<1>3. CASE NextFails(h, c)
  <2>1. /\ UNCHANGED <<locked, targets, subscribers>>
        /\ reader' = [reader EXCEPT ![h] = "ended"]
        /\ closer' = [closer EXCEPT ![h] = IF @ = "open" THEN "closing" ELSE @]
    BY <1>3, Zenon DEF NextFails, Ends
  <2>2. /\ reader' \in [Subscribers -> ReaderAt] /\ closer' \in [Subscribers -> CloserAt]
        /\ \A x \in Subscribers : closer'[x] = "closed" => closer[x] = "closed"
        /\ \A x \in Subscribers : reader'[x] = "new" => closer'[x] = "open"
    BY <1>0, <2>1, Zenon DEF ReaderAt, CloserAt
  <2> QED
    BY <2>1, <2>2, NoChannelClosed, Zenon
<1>4. CASE Callback(h)
  <2>1. /\ UNCHANGED <<locked, targets, subscribers>>
        /\ \/ /\ reader' = [reader EXCEPT ![h] =
                              IF closer[h] = "closed" THEN "nil" ELSE "next"]
              /\ UNCHANGED closer
           \/ /\ reader' = [reader EXCEPT ![h] = "ended"]
              /\ closer' = [closer EXCEPT ![h] = IF @ = "open" THEN "closing" ELSE @]
    BY <1>4, Zenon DEF Callback, Ends
  <2>2. /\ reader' \in [Subscribers -> ReaderAt] /\ closer' \in [Subscribers -> CloserAt]
        /\ \A x \in Subscribers : closer'[x] = "closed" => closer[x] = "closed"
        /\ \A x \in Subscribers : reader'[x] = "new" => closer'[x] = "open"
    BY <1>0, <2>1, Zenon DEF ReaderAt, CloserAt
  <2> QED
    BY <2>1, <2>2, NoChannelClosed, Zenon
<1>5. CASE Close(h)
  <2>1. /\ UNCHANGED <<locked, targets, subscribers, reader>>
        /\ reader[h] # "new"
        /\ closer' = [closer EXCEPT ![h] = "closing"]
    BY <1>5, Zenon DEF Close
  <2>2. /\ reader' \in [Subscribers -> ReaderAt] /\ closer' \in [Subscribers -> CloserAt]
        /\ \A x \in Subscribers : closer'[x] = "closed" => closer[x] = "closed"
        /\ \A x \in Subscribers : reader'[x] = "new" => closer'[x] = "open"
    BY <1>0, <2>1, Zenon DEF ReaderAt, CloserAt
  <2> QED
    BY <2>1, <2>2, NoChannelClosed, Zenon
<1>6. CASE unsubscribeID(h)
  <2>1. /\ UNCHANGED <<locked, targets, reader>>
        /\ subscribers' = [subscribers EXCEPT ![TopicOf[h]] = @ \ {h}]
        /\ ~locked[TopicOf[h]] /\ closer[h] = "closing"
        /\ closer' = [closer EXCEPT ![h] = "closed"]
    BY <1>6, Zenon DEF unsubscribeID
  <2>2. /\ closer' \in [Subscribers -> CloserAt]
        /\ \A x \in Subscribers : x # h => closer'[x] = closer[x]
        /\ reader[h] # "new"
    BY <1>0, <2>1, Zenon DEF ReaderAt, CloserAt
  <2>3. TopicOf[h] \in Topic
    BY TopicsAssumption, Zenon
  <2>4. /\ subscribers' \in [Topic -> SUBSET Subscribers]
        /\ \A t \in Topic : subscribers'[t] =
             IF t = TopicOf[h] THEN subscribers[t] \ {h} ELSE subscribers[t]
    <3>1. subscribers \in [Topic -> SUBSET Subscribers]
      BY Zenon DEF TopicInv
    <3> QED
      BY <2>1, <2>3, <3>1, Zenon
  <2>5. targets[TopicOf[h]] = << >>
    BY <2>1, <2>3, Zenon DEF TopicInv
  <2>6. \A t \in Topic : \A n \in 1..Len(targets'[t]) : targets'[t][n] \in subscribers'[t]
    <3> SUFFICES ASSUME NEW t \in Topic, NEW n \in 1..Len(targets[t])
                 PROVE  targets[t][n] \in subscribers'[t]
      BY <2>1, Zenon
    <3>1. CASE t = TopicOf[h]
      BY <2>5, <3>1
    <3>2. CASE t # TopicOf[h]
      BY <2>4, <3>2, Zenon DEF TopicInv
    <3> QED
      BY <3>1, <3>2, Zenon
  <2>7. \A t \in Topic : \A x \in subscribers'[t] : TopicOf[x] = t /\ closer'[x] # "closed"
    <3> SUFFICES ASSUME NEW t \in Topic, NEW x \in subscribers'[t]
                 PROVE  TopicOf[x] = t /\ closer'[x] # "closed"
      BY Zenon
    <3>1. x \in subscribers[t] /\ x \in Subscribers
      BY <2>4, Zenon
    <3>2. TopicOf[x] = t /\ closer[x] # "closed"
      BY <3>1, Zenon DEF TopicInv
    <3>3. x # h
      BY <2>4, <3>2, Zenon
    <3> QED
      BY <2>2, <3>1, <3>2, <3>3, Zenon
  <2> QED
    BY <1>0, <2>1, <2>2, <2>4, <2>6, <2>7, Zenon DEF TopicInv
<1> QED
  BY <1>1, <1>2, <1>3, <1>4, <1>5, <1>6, Zenon DEF SubscriberStep

\* A step of a syncer goes to a label that exists, and only a syncer that sends
\* is at a label of SendOnce.
LEMMA SyncersPreserve ==
  ASSUME OnlySendersPublish, [Next]_vars
  PROVE  OnlySendersPublish'
<1> USE ProcessAssumption
<1>1. CASE Main
  <2>1. pc' = pc \/ \E s \in Syncers : pc' = [pc EXCEPT ![s] = "listing"]
    BY <1>1, Zenon DEF Main, MarkerFound, StartSyncer, StartFails, Wait, Goto
  <2>2. setting' = setting
    BY <1>1, Zenon DEF Main, MarkerFound, StartSyncer, StartFails, Wait
  <2> QED
    BY <2>1, <2>2, Zenon DEF OnlySendersPublish, Publishing, SyncerAt
<1>2. ASSUME NEW s \in Syncers, SyncerStep(s)
      PROVE  OnlySendersPublish'
  <2>1. setting' = setting
    BY <1>2, Zenon DEF SyncerStep, Proceeds, InitialListing, PassFails, SendOnce,
         StoreSucceeds, OnlyOnceEnds, NothingToSend, StoreFails, FailureSince,
         FailureInc, Retry, PublishLock, PublishSend, PublishUnlock, Success, Poll,
         processVars
  <2>2. pc' = pc \/ \E l \in SyncerAt :
          /\ pc' = [pc EXCEPT ![s] = l]
          /\ l \in Publishing => s \in Senders \/ pc[s] \in Publishing
    BY <1>2, Zenon DEF SyncerStep, Proceeds, InitialListing, PassFails, SendOnce,
         StoreSucceeds, OnlyOnceEnds, NothingToSend, StoreFails, FailureSince,
         FailureInc, Retry, PublishLock, PublishSend, PublishUnlock, Success, Poll,
         processVars, Goto, Returns, SyncerAt, Publishing
  <2> QED
    BY <2>1, <2>2, Zenon DEF OnlySendersPublish
<1>3. CASE UNCHANGED processVars
  BY <1>3, Zenon DEF processVars, OnlySendersPublish
<1> QED
  BY <1>1, <1>2, <1>3, Zenon DEF Next, vars

\* Every step keeps the invariant of the topics.
LEMMA TopicsPreserve ==
  ASSUME OnlySendersPublish, TopicInv, [Next]_vars
  PROVE  TopicInv'
<1>1. CASE UNCHANGED topicVars
  BY <1>1, Zenon DEF topicVars, TopicInv
<1>2. CASE Main
  BY <1>1, <1>2, Zenon DEF Main, MarkerFound, StartSyncer, StartFails, Wait
<1>3. ASSUME NEW s \in Syncers, SyncerStep(s)
      PROVE  TopicInv'
  <2>1. CASE PublishLock(s) \/ PublishSend(s) \/ PublishUnlock(s)
    <3>1. pc[s] \in Publishing
      BY <2>1, Zenon DEF PublishLock, PublishSend, PublishUnlock, Publishing
    <3>2. s \in Topic
      BY <3>1, ProcessAssumption, Zenon DEF OnlySendersPublish
    <3>3. Lock(s, stored[s]) \/ Send(s) \/ Unlock(s)
      BY <2>1, Zenon DEF PublishLock, PublishSend, PublishUnlock
    <3> QED
      BY <3>2, <3>3, PublishPreserves, Zenon
  <2>2. CASE ~(PublishLock(s) \/ PublishSend(s) \/ PublishUnlock(s))
    BY <1>1, <1>3, <2>2, Zenon DEF SyncerStep, Proceeds, InitialListing, PassFails,
         SendOnce, StoreSucceeds, OnlyOnceEnds, NothingToSend, StoreFails,
         FailureSince, FailureInc, Retry, Success, Poll
  <2> QED
    BY <2>1, <2>2, Zenon
<1>4. ASSUME NEW h \in setting.subscribers, SubscriberStep(h, canceled)
      PROVE  TopicInv'
  <2>1. h \in Subscribers
    BY Zenon DEF OnlySendersPublish
  <2> QED
    BY <1>4, <2>1, SubscriberPreserves, Zenon
<1> QED
  BY <1>1, <1>2, <1>3, <1>4, Zenon DEF Next, vars

\* Publish sends on no closed channel, for any number of topics and subscribers.
\* The channel stays open because unsubscribeID closes it, after removing it from
\* the map, under the mutex that Publish holds from its range over the map on.
THEOREM NoSendOnClosedAlways == Spec => []NoSendOnClosed
<1>1. Init => OnlySendersPublish /\ TopicInv
  <2> SUFFICES ASSUME Init PROVE OnlySendersPublish /\ TopicInv
    BY Zenon
  <2>1. OnlySendersPublish
    BY ProcessAssumption, Zenon DEF Init, OnlySendersPublish, SyncerAt, Publishing
  <2>2. TopicInv
    BY DEF Init, TopicsInit, TopicInv, ReaderAt, CloserAt
  <2> QED
    BY <2>1, <2>2, Zenon
<1>2. OnlySendersPublish /\ TopicInv /\ [Next]_vars
        => OnlySendersPublish' /\ TopicInv'
  BY SyncersPreserve, TopicsPreserve, Zenon
<1>3. TopicInv => NoSendOnClosed
  <2> SUFFICES ASSUME TopicInv, NEW t \in Topic, NEW h \in Range(targets[t])
               PROVE  h \in subscribers[t] /\ closer[h] # "closed"
    BY Zenon DEF NoSendOnClosed
  <2>1. targets[t] \in Seq(Subscribers)
    BY Zenon DEF TopicInv
  <2>2. PICK n \in 1..Len(targets[t]) : h = targets[t][n]
    BY <2>1 DEF Range
  <2>3. h \in subscribers[t]
    BY <2>2, Zenon DEF TopicInv
  <2> QED
    BY <2>3, Zenon DEF TopicInv
<1> QED
  BY <1>1, <1>2, <1>3, PTL DEF Spec
-------------------------------------------------------------------------------
\* What a subscriber has received or can receive without the publisher.
Seen(h) == received[h] \o buffer[h]

Waiting(h) ==
  \E n \in 1..Len(targets[TopicOf[h]]) : targets[TopicOf[h]][n] = h

\* The latest value that Publish is through with, as far as h is concerned.
Due(h) == IF Waiting(h) THEN last[TopicOf[h]] - 1 ELSE last[TopicOf[h]]

Consecutive(s) == \A n \in 2..Len(s) : s[n] = s[n - 1] + 1

SubscriberInv(h) ==
  /\ ~sendLast[h] => buffer[h] = << >>
  /\ reader[h] = "new" =>
       received[h] = << >> /\ h \notin subscribers[TopicOf[h]]
  /\ Consecutive(Seen(h))
  /\ h \in subscribers[TopicOf[h]] =>
       /\ Seen(h) # << >> => Seen(h)[Len(Seen(h))] = Due(h)
       /\ sendLast[h] /\ Due(h) > 0 => Seen(h) # << >>

\* The invariant for NothingMissed: a subscriber in the map has seen what it is
\* due, Publish sends to no one twice, and it publishes one value after another.
SeenTypes ==
  /\ last \in [Topic -> Nat]
  /\ received \in [Subscribers -> Seq(Nat)] /\ buffer \in [Subscribers -> Seq(Nat)]

TargetsInv ==
  \A t \in Topic : \A m, n \in 1..Len(targets[t]) :
    targets[t][m] = targets[t][n] => m = n

SeenInv == SeenTypes /\ TargetsInv /\ \A h \in Subscribers : SubscriberInv(h)

StoredInv ==
  /\ stored \in [Senders -> Nat]
  /\ \A t \in Topic :
       stored[t] = IF pc[t] = "publish" THEN last[t] + 1 ELSE last[t]

\* Nothing is lost or added when a value moves from the buffer to the receiver.
LEMMA ConcatEmpty ==
  ASSUME NEW s \in Seq(Nat)
  PROVE  s \o << >> = s /\ << >> \o s = s
  OBVIOUS

\* One value more that is the next one.
LEMMA OneMore ==
  ASSUME NEW s \in Seq(Nat), NEW v \in Nat, Consecutive(s),
         s # << >> => s[Len(s)] = v - 1
  PROVE  /\ Append(s, v) \in Seq(Nat) /\ s \o <<v>> = Append(s, v)
         /\ Consecutive(Append(s, v)) /\ Append(s, v) # << >>
         /\ Append(s, v)[Len(Append(s, v))] = v
<1>1. /\ Append(s, v) \in Seq(Nat) /\ Len(Append(s, v)) = Len(s) + 1
      /\ Append(s, v)[Len(s) + 1] = v /\ Len(s) \in Nat
      /\ \A n \in 1..Len(s) : Append(s, v)[n] = s[n]
  OBVIOUS
<1>2. s \o <<v>> = Append(s, v)
  OBVIOUS
<1>3. Append(s, v) # << >>
  BY <1>1
<1>4. ASSUME NEW n \in 2..Len(Append(s, v))
      PROVE  Append(s, v)[n] = Append(s, v)[n - 1] + 1
  <2>1. CASE n = Len(s) + 1
    <3>1. s # << >> /\ Len(s) \in 1..Len(s) /\ n - 1 = Len(s)
      BY <1>1, <1>4, <2>1
    <3>2. s[Len(s)] = v - 1 /\ Append(s, v)[n - 1] = s[Len(s)]
      BY <1>1, <3>1, Zenon
    <3> QED
      BY <1>1, <2>1, <3>2
  <2>2. CASE n # Len(s) + 1
    <3>1. n \in 2..Len(s) /\ n \in 1..Len(s) /\ n - 1 \in 1..Len(s)
      BY <1>1, <1>4, <2>2
    <3>2. s[n] = s[n - 1] + 1
      BY <3>1, Zenon DEF Consecutive
    <3> QED
      BY <1>1, <3>1, <3>2, Zenon
  <2> QED
    BY <2>1, <2>2, Zenon
<1> QED
  BY <1>1, <1>2, <1>3, <1>4, Zenon DEF Consecutive

VisitsOnce(s, S) ==
  /\ \A m, n \in 1..Len(s) : s[m] = s[n] => m = n
  /\ \A h \in S : \E n \in 1..Len(s) : s[n] = h

\* Publish visits every subscriber once.
LEMMA OrdersAll ==
  ASSUME NEW S \in SUBSET Subscribers, NEW s \in Orders(S)
  PROVE  VisitsOnce(s, S)
<1>1. IsFiniteSet(S)
  BY TopicsAssumption, FS_Subset, Zenon
<1>2. Cardinality(S) \in Nat
  BY <1>1, FS_CardinalityType, Zenon
<1>3. s \in [1..Cardinality(S) -> S] /\ IsInjective(s)
  BY Zenon DEF Orders
<1>4. Len(s) = Cardinality(S)
  BY <1>2, <1>3
<1>5. s \in Injection(1..Cardinality(S), S)
  BY <1>3, Zenon DEF Injection
<1>6. Cardinality(1..Cardinality(S)) = Cardinality(S)
  BY <1>2, FS_Interval
<1>7. s \in Surjection(1..Cardinality(S), S)
  BY <1>1, <1>5, <1>6, FS_Injection, Zenon
<1>8. \A h \in S : \E n \in 1..Cardinality(S) : s[n] = h
  BY <1>7, Zenon DEF Surjection
<1>9. \A m, n \in 1..Cardinality(S) : s[m] = s[n] => m = n
  BY <1>3, Zenon DEF IsInjective
<1> QED
  BY <1>4, <1>8, <1>9, Zenon DEF VisitsOnce

\* A subscriber for which nothing changes, or that is removed from the map.
LEMMA SameSeen ==
  ASSUME NEW h \in Subscribers, SubscriberInv(h), Seen(h)' = Seen(h),
         ~sendLast[h] => buffer'[h] = << >>,
         reader'[h] = "new" =>
           received'[h] = << >> /\ h \notin subscribers'[TopicOf[h]],
         h \in subscribers'[TopicOf[h]] =>
           h \in subscribers[TopicOf[h]] /\ Due(h)' = Due(h)
  PROVE  SubscriberInv(h)'
<1>1. Consecutive(Seen(h))'
  BY Zenon DEF SubscriberInv, Consecutive
<1>2. ASSUME h \in subscribers'[TopicOf[h]]
      PROVE  /\ Seen(h)' # << >> => (Seen(h)[Len(Seen(h))])' = Due(h)'
             /\ sendLast[h] /\ Due(h)' > 0 => Seen(h)' # << >>
  <2>1. h \in subscribers[TopicOf[h]] /\ Due(h)' = Due(h)
    BY <1>2, Zenon
  <2>2. /\ Seen(h) # << >> => Seen(h)[Len(Seen(h))] = Due(h)
        /\ sendLast[h] /\ Due(h) > 0 => Seen(h) # << >>
    BY <2>1, Zenon DEF SubscriberInv
  <2>3. (Seen(h)[Len(Seen(h))])' = Seen(h)[Len(Seen(h))]
    BY Zenon
  <2> QED
    BY <2>1, <2>2, <2>3, Zenon
<1> QED
  BY <1>1, <1>2, Zenon DEF SubscriberInv

\* Publish locks the topic: what a subscriber is due is what it was due before.
LEMMA LockKeepsSeen ==
  ASSUME TopicInv, SeenInv, NEW t \in Topic, Lock(t, last[t] + 1)
  PROVE  SeenInv'
<1>1. PICK s \in Orders(subscribers[t]) : targets' = [targets EXCEPT ![t] = s]
  BY Zenon DEF Lock
<1>2. /\ s \in Seq(Subscribers) /\ \A m, n \in 1..Len(s) : s[m] = s[n] => m = n
      /\ \A h \in subscribers[t] : \E n \in 1..Len(s) : s[n] = h
  <2>1. subscribers[t] \in SUBSET Subscribers
    BY Zenon DEF TopicInv
  <2>2. s \in Seq(Subscribers)
    BY <1>1, <2>1, OrdersType, Zenon
  <2>3. VisitsOnce(s, subscribers[t])
    BY <1>1, <2>1, OrdersAll, Zenon
  <2> QED
    BY <2>2, <2>3, Zenon DEF VisitsOnce
<1>3. /\ last' = [last EXCEPT ![t] = last[t] + 1] /\ targets[t] = << >>
      /\ subscribers' = subscribers /\ buffer' = buffer /\ reader' = reader
      /\ received' = received
  BY Zenon DEF Lock, TopicInv
<1>4. /\ \A q \in Topic : targets'[q] = IF q = t THEN s ELSE targets[q]
      /\ \A q \in Topic : last'[q] = IF q = t THEN last[t] + 1 ELSE last[q]
      /\ last \in [Topic -> Nat] /\ last' \in [Topic -> Nat]
  BY <1>1, <1>3 DEF TopicInv, SeenInv, SeenTypes
<1>5. SeenTypes'
  BY <1>3, <1>4, Zenon DEF SeenInv, SeenTypes
<1>6. TargetsInv'
  <2> SUFFICES ASSUME NEW q \in Topic, NEW m \in 1..Len(targets'[q]),
                      NEW n \in 1..Len(targets'[q]), targets'[q][m] = targets'[q][n]
               PROVE  m = n
    BY Zenon DEF TargetsInv
  <2>1. CASE q = t
    BY <1>2, <1>4, <2>1, ZenonT(30)
  <2>2. CASE q # t
    BY <1>4, <2>2, Zenon DEF SeenInv, TargetsInv
  <2> QED
    BY <2>1, <2>2, Zenon
<1>7. ASSUME NEW h \in Subscribers
      PROVE  SubscriberInv(h)'
  <2>1. TopicOf[h] \in Topic
    BY TopicsAssumption, Zenon
  <2>2. SubscriberInv(h) /\ Seen(h)' = Seen(h)
    BY <1>3, Zenon DEF SeenInv, Seen
  <2>3. ASSUME h \in subscribers[TopicOf[h]]
        PROVE  Due(h)' = Due(h)
    <3>1. CASE TopicOf[h] = t
      <4>1. ~Waiting(h)
        BY <1>3, <3>1 DEF Waiting
      <4>2. \E n \in 1..Len(s) : s[n] = h
        BY <1>2, <2>3, <3>1, Zenon
      <4>3. Waiting(h)'
        BY <1>4, <2>1, <3>1, <4>2, Zenon DEF Waiting
      <4>4. last'[TopicOf[h]] - 1 = last[TopicOf[h]]
        BY <1>4, <3>1
      <4> QED
        BY <4>1, <4>3, <4>4, Zenon DEF Due
    <3>2. CASE TopicOf[h] # t
      <4>1. targets'[TopicOf[h]] = targets[TopicOf[h]] /\ last'[TopicOf[h]] = last[TopicOf[h]]
        BY <1>4, <2>1, <3>2, Zenon
      <4> QED
        BY <4>1, Zenon DEF Due, Waiting
    <3> QED
      BY <3>1, <3>2, Zenon
  <2>4. /\ ~sendLast[h] => buffer'[h] = << >>
        /\ reader'[h] = "new" =>
             received'[h] = << >> /\ h \notin subscribers'[TopicOf[h]]
        /\ h \in subscribers'[TopicOf[h]] =>
             h \in subscribers[TopicOf[h]] /\ Due(h)' = Due(h)
    BY <1>3, <2>2, <2>3, Zenon DEF SubscriberInv
  <2> QED
    BY <2>2, <2>4, SameSeen, Zenon
<1> QED
  BY <1>5, <1>6, <1>7, Zenon DEF SeenInv

\* Publish sends to the next subscriber, which then has the value it is due.
LEMMA SendKeepsSeen ==
  ASSUME TopicInv, SeenInv, NEW t \in Topic, Send(t)
  PROVE  SeenInv'
<1>1. PICK x \in Subscribers :
        x = Head(targets[t]) /\ x = targets[t][1] /\ 1 \in 1..Len(targets[t])
  <2>1. targets[t] \in Seq(Subscribers) /\ targets[t] # << >>
    BY Zenon DEF TopicInv, Send
  <2> QED
    BY <2>1
<1>2. /\ targets' = [targets EXCEPT ![t] = Tail(@)]
      /\ last' = last /\ subscribers' = subscribers
      /\ IF sendLast[x]
         THEN /\ buffer[x] = << >> /\ buffer' = [buffer EXCEPT ![x] = <<last[t]>>]
              /\ reader' = reader /\ received' = received
         ELSE /\ reader[x] = "next" /\ reader' = [reader EXCEPT ![x] = "callback"]
              /\ received' = [received EXCEPT ![x] = Append(@, last[t])]
              /\ buffer' = buffer
  BY <1>1, Zenon DEF Send
<1>3. /\ x \in subscribers[t] /\ TopicOf[x] = t
      /\ \A q \in Topic : targets'[q] = IF q = t THEN Tail(targets[t]) ELSE targets[q]
      /\ targets[t] \in Seq(Subscribers) /\ targets[t] # << >>
  <2>1. x \in subscribers[t]
    <3>1. PICK n \in 1..Len(targets[t]) : x = targets[t][n]
      BY <1>1, Zenon
    <3> QED
      BY <3>1, Zenon DEF TopicInv
  <2>2. TopicOf[x] = t
    BY <2>1, Zenon DEF TopicInv
  <2>3. targets \in [Topic -> Seq(Subscribers)] /\ targets[t] # << >>
    BY Zenon DEF TopicInv, Send
  <2> QED
    BY <1>2, <2>1, <2>2, <2>3, Zenon
<1>4. /\ Len(Tail(targets[t])) = Len(targets[t]) - 1 /\ Len(targets[t]) \in Nat
      /\ \A n \in 1..(Len(targets[t]) - 1) :
           /\ Tail(targets[t])[n] = targets[t][n + 1]
           /\ n + 1 \in 1..Len(targets[t]) /\ n + 1 # 1
  BY <1>3
<1>5. /\ last[t] \in Nat /\ received[x] \in Seq(Nat) /\ buffer[x] \in Seq(Nat)
      /\ last \in [Topic -> Nat]
      /\ received \in [Subscribers -> Seq(Nat)] /\ buffer \in [Subscribers -> Seq(Nat)]
  BY Zenon DEF SeenInv, SeenTypes
<1>6. SubscriberInv(x) /\ Waiting(x) /\ Due(x) = last[t] - 1
  <2>1. Waiting(x)
    BY <1>1, <1>3, Zenon DEF Waiting
  <2> QED
    BY <1>3, <2>1, Zenon DEF SeenInv, Due
<1>7. ~Waiting(x)'
  <2> SUFFICES ASSUME NEW n \in 1..(Len(targets[t]) - 1), Tail(targets[t])[n] = x
               PROVE  FALSE
    BY <1>3, <1>4, Zenon DEF Waiting
  <2>1. targets[t][n + 1] = targets[t][1]
    BY <1>1, <1>4, Zenon
  <2>2. n + 1 = 1
    BY <1>1, <1>4, <2>1, Zenon DEF SeenInv, TargetsInv
  <2> QED
    BY <2>2
<1>8. Due(x)' = last[t]
  BY <1>2, <1>3, <1>7, Zenon DEF Due
<1>9. /\ Consecutive(Seen(x)) /\ (Seen(x) # << >> => Seen(x)[Len(Seen(x))] = last[t] - 1)
      /\ ~sendLast[x] => buffer[x] = << >>
  BY <1>3, <1>6, Zenon DEF SubscriberInv
<1>10. buffer[x] = << >> /\ Seen(x) = received[x]
  BY <1>2, <1>5, <1>9, ConcatEmpty, Zenon DEF Seen
<1>11. /\ Append(received[x], last[t]) \in Seq(Nat)
       /\ received[x] \o <<last[t]>> = Append(received[x], last[t])
       /\ Consecutive(Append(received[x], last[t]))
       /\ Append(received[x], last[t]) # << >>
       /\ Append(received[x], last[t])[Len(Append(received[x], last[t]))] = last[t]
  <2>1. PICK s, v : s = received[x] /\ v = last[t]
    BY Zenon
  <2>2. /\ s \in Seq(Nat) /\ v \in Nat /\ Consecutive(s)
        /\ s # << >> => s[Len(s)] = v - 1
    BY <1>5, <1>9, <1>10, <2>1, Zenon
  <2>3. /\ Append(s, v) \in Seq(Nat) /\ s \o <<v>> = Append(s, v)
        /\ Consecutive(Append(s, v)) /\ Append(s, v) # << >>
        /\ Append(s, v)[Len(Append(s, v))] = v
    BY <2>2, OneMore, Zenon
  <2> QED
    BY <2>1, <2>3, Zenon
<1>12. /\ Seen(x)' = Append(received[x], last[t])
       /\ received' \in [Subscribers -> Seq(Nat)] /\ buffer' \in [Subscribers -> Seq(Nat)]
       /\ \A h \in Subscribers \ {x} :
            received'[h] = received[h] /\ buffer'[h] = buffer[h] /\ reader'[h] = reader[h]
       /\ ~sendLast[x] => buffer'[x] = << >>
       /\ reader'[x] # "new"
  <2>0. reader[x] # "new" /\ reader \in [Subscribers -> ReaderAt]
    BY <1>3, <1>6, Zenon DEF SubscriberInv, TopicInv
  <2>1. CASE sendLast[x]
    <3>1. /\ buffer' = [buffer EXCEPT ![x] = <<last[t]>>] /\ <<last[t]>> \in Seq(Nat)
          /\ reader' = reader /\ received' = received
      BY <1>2, <1>5, <2>1
    <3>2. buffer'[x] = <<last[t]>> /\ buffer' \in [Subscribers -> Seq(Nat)]
          /\ \A h \in Subscribers \ {x} : buffer'[h] = buffer[h]
      BY <1>5, <3>1, Zenon
    <3>3. Seen(x)' = Append(received[x], last[t])
      BY <1>11, <3>1, <3>2, Zenon DEF Seen
    <3> QED
      BY <1>5, <2>0, <2>1, <3>1, <3>2, <3>3, Zenon
  <2>2. CASE ~sendLast[x]
    <3>1. /\ reader' = [reader EXCEPT ![x] = "callback"] /\ buffer' = buffer
          /\ received' = [received EXCEPT ![x] = Append(received[x], last[t])]
      BY <1>2, <2>2, Zenon
    <3>2. /\ received'[x] = Append(received[x], last[t])
          /\ received' \in [Subscribers -> Seq(Nat)]
          /\ \A h \in Subscribers \ {x} : received'[h] = received[h]
      BY <1>5, <1>11, <3>1, Zenon
    <3>3. reader'[x] = "callback" /\ \A h \in Subscribers \ {x} : reader'[h] = reader[h]
      BY <2>0, <3>1, Zenon
    <3>4. Seen(x)' = Append(received[x], last[t])
      BY <1>10, <1>11, <3>1, <3>2, ConcatEmpty, Zenon DEF Seen
    <3> QED
      BY <1>5, <1>10, <3>1, <3>2, <3>3, <3>4, Zenon
  <2> QED
    BY <2>1, <2>2, Zenon
<1>13. SubscriberInv(x)'
  BY <1>2, <1>8, <1>11, <1>12, Zenon DEF SubscriberInv, Consecutive
<1>14. ASSUME NEW h \in Subscribers, h # x
       PROVE  SubscriberInv(h)'
  <2>1. TopicOf[h] \in Topic
    BY TopicsAssumption, Zenon
  <2>2. SubscriberInv(h) /\ Seen(h)' = Seen(h)
    BY <1>12, <1>14, Zenon DEF SeenInv, Seen
  <2>3. Waiting(h)' <=> Waiting(h)
    <3>1. CASE TopicOf[h] # t
      BY <1>3, <2>1, <3>1, Zenon DEF Waiting
    <3>2. CASE TopicOf[h] = t
      <4>1. ASSUME Waiting(h) PROVE Waiting(h)'
        <5>1. PICK n \in 1..Len(targets[t]) : targets[t][n] = h
          BY <3>2, <4>1, Zenon DEF Waiting
        <5>2. n # 1 /\ n - 1 \in 1..(Len(targets[t]) - 1) /\ n = (n - 1) + 1
          BY <1>1, <1>4, <1>14, <5>1, SMTT(30)
        <5>3. Tail(targets[t])[n - 1] = h /\ n - 1 \in 1..Len(Tail(targets[t]))
          BY <1>4, <5>1, <5>2, Zenon
        <5> QED
          BY <1>3, <2>1, <3>2, <5>3, Zenon DEF Waiting
      <4>2. ASSUME Waiting(h)' PROVE Waiting(h)
        <5>1. PICK n \in 1..Len(Tail(targets[t])) : Tail(targets[t])[n] = h
          BY <1>3, <2>1, <3>2, <4>2, Zenon DEF Waiting
        <5>2. targets[t][n + 1] = h /\ n + 1 \in 1..Len(targets[t])
          BY <1>4, <5>1, Zenon
        <5> QED
          BY <3>2, <5>2, Zenon DEF Waiting
      <4> QED
        BY <4>1, <4>2, Zenon
    <3> QED
      BY <3>1, <3>2, Zenon
  <2>4. Due(h)' = Due(h)
    BY <1>2, <2>3, Zenon DEF Due
  <2>5. /\ ~sendLast[h] => buffer'[h] = << >>
        /\ reader'[h] = "new" =>
             received'[h] = << >> /\ h \notin subscribers'[TopicOf[h]]
        /\ h \in subscribers'[TopicOf[h]] =>
             h \in subscribers[TopicOf[h]] /\ Due(h)' = Due(h)
    BY <1>2, <1>12, <1>14, <2>2, <2>4, Zenon DEF SubscriberInv
  <2> QED
    BY <2>2, <2>5, SameSeen, Zenon
<1>15. TargetsInv'
  <2> SUFFICES ASSUME NEW q \in Topic, NEW m \in 1..Len(targets'[q]),
                      NEW n \in 1..Len(targets'[q]), targets'[q][m] = targets'[q][n]
               PROVE  m = n
    BY Zenon DEF TargetsInv
  <2>1. CASE q = t
    <3>1. m \in 1..(Len(targets[t]) - 1) /\ n \in 1..(Len(targets[t]) - 1)
      BY <1>3, <1>4, <2>1, Zenon
    <3>2. targets[t][m + 1] = targets[t][n + 1]
      BY <1>3, <1>4, <2>1, <3>1, Zenon
    <3>3. m + 1 = n + 1
      BY <1>4, <3>1, <3>2, Zenon DEF SeenInv, TargetsInv
    <3> QED
      BY <3>3
  <2>2. CASE q # t
    BY <1>3, <2>2, Zenon DEF SeenInv, TargetsInv
  <2> QED
    BY <2>1, <2>2, Zenon
<1> QED
  BY <1>2, <1>5, <1>12, <1>13, <1>14, <1>15, Zenon DEF SeenInv, SeenTypes

\* The steps of a subscriber: what it has seen stays, until it subscribes.
LEMMA SubscriberKeepsSeen ==
  ASSUME TopicInv, SeenInv, NEW h \in Subscribers, NEW c, SubscriberStep(h, c)
  PROVE  SeenInv'
<1>1. /\ last' = last /\ targets' = targets
  BY Zenon DEF SubscriberStep, Subscribe, Receive, NextFails, Callback, Close,
     unsubscribeID
<1>2. /\ last \in [Topic -> Nat] /\ reader \in [Subscribers -> ReaderAt]
      /\ received \in [Subscribers -> Seq(Nat)] /\ buffer \in [Subscribers -> Seq(Nat)]
      /\ subscribers \in [Topic -> SUBSET Subscribers] /\ TopicOf[h] \in Topic
  BY TopicsAssumption, Zenon DEF TopicInv, SeenInv, SeenTypes
<1>3. \A x \in Subscribers : SubscriberInv(x) /\ TopicOf[x] \in Topic
  BY TopicsAssumption, Zenon DEF SeenInv
<1>4. \A x \in Subscribers : Due(x)' = Due(x)
  BY <1>1, Zenon DEF Due, Waiting
<1>5. SUFFICES /\ received' \in [Subscribers -> Seq(Nat)]
               /\ buffer' \in [Subscribers -> Seq(Nat)]
               /\ \A x \in Subscribers : SubscriberInv(x)'
  BY <1>1, <1>5, Zenon DEF SeenInv, SeenTypes, TargetsInv
<1>6. ASSUME NEW x \in Subscribers, received'[x] = received[x], buffer'[x] = buffer[x],
             reader'[x] = "new" => reader[x] = "new",
             x \in subscribers'[TopicOf[x]] => x \in subscribers[TopicOf[x]]
      PROVE  SubscriberInv(x)'
  <2>1. SubscriberInv(x) /\ Seen(x)' = Seen(x)
    BY <1>3, <1>6, Zenon DEF Seen
  <2>2. /\ ~sendLast[x] => buffer'[x] = << >>
        /\ reader'[x] = "new" =>
             received'[x] = << >> /\ x \notin subscribers'[TopicOf[x]]
        /\ x \in subscribers'[TopicOf[x]] =>
             x \in subscribers[TopicOf[x]] /\ Due(x)' = Due(x)
    BY <1>4, <1>6, <2>1, Zenon DEF SubscriberInv
  <2> QED
    BY <2>1, <2>2, SameSeen, Zenon
<1>7. CASE Subscribe(h)
  <2> DEFINE t == TopicOf[h]
             b == IF sendLast[h] /\ last[t] # 0 THEN <<last[t]>> ELSE << >>
  <2>1. /\ reader[h] = "new" /\ ~locked[t] /\ received' = received
        /\ subscribers' = [subscribers EXCEPT ![t] = @ \cup {h}]
        /\ buffer' = [buffer EXCEPT ![h] = b]
        /\ reader' = [reader EXCEPT ![h] = "next"]
    BY <1>7, Zenon DEF Subscribe
  <2>2. /\ b \in Seq(Nat) /\ last[t] \in Nat
    BY <1>2
  <2>3. /\ buffer' \in [Subscribers -> Seq(Nat)] /\ buffer'[h] = b
        /\ reader'[h] = "next"
        /\ \A x \in Subscribers \ {h} : buffer'[x] = buffer[x] /\ reader'[x] = reader[x]
    BY <1>2, <2>1, <2>2, Zenon
  <2>4. \A q \in Topic : subscribers'[q] =
          IF q = t THEN subscribers[q] \cup {h} ELSE subscribers[q]
    BY <1>2, <2>1, Zenon
  <2>5. \A x \in Subscribers \ {h} : SubscriberInv(x)'
    <3> SUFFICES ASSUME NEW x \in Subscribers, x # h
                 PROVE  SubscriberInv(x)'
      BY Zenon
    <3>1. x \in subscribers'[TopicOf[x]] => x \in subscribers[TopicOf[x]]
      BY <1>3, <2>4, Zenon
    <3>2. /\ received'[x] = received[x] /\ buffer'[x] = buffer[x]
          /\ reader'[x] = reader[x]
      BY <2>1, <2>3, Zenon
    <3> QED
      BY <1>6, <3>1, <3>2, Zenon
  <2>6. SubscriberInv(h)'
    <3>1. received[h] = << >>
      BY <1>3, <2>1, Zenon DEF SubscriberInv
    <3>2. Seen(h)' = b
      BY <2>1, <2>2, <2>3, <3>1, ConcatEmpty, Zenon DEF Seen
    <3>3. targets[t] = << >>
      BY <1>2, <2>1, Zenon DEF TopicInv
    <3>4. Due(h)' = last[t]
      BY <1>4, <3>3 DEF Due, Waiting
    <3>5. CASE sendLast[h] /\ last[t] # 0
      <4>1. b = <<last[t]>> /\ Len(b) = 1 /\ b[1] = last[t] /\ b # << >>
        BY <3>5, Zenon
      <4>2. Consecutive(b)
        BY <4>1 DEF Consecutive
      <4>3. Consecutive(Seen(h))'
        BY <3>2, <4>2, Zenon DEF Consecutive
      <4> QED
        BY <2>3, <3>2, <3>4, <3>5, <4>1, <4>3, Zenon DEF SubscriberInv
    <3>6. CASE ~(sendLast[h] /\ last[t] # 0)
      <4>1. b = << >> /\ Len(b) = 0
        BY <3>6, Zenon
      <4>2. Consecutive(b)
        BY <4>1 DEF Consecutive
      <4>3. Consecutive(Seen(h))'
        BY <3>2, <4>2, Zenon DEF Consecutive
      <4>4. ~(sendLast[h] /\ Due(h)' > 0)
        BY <2>2, <3>4, <3>6
      <4> QED
        BY <2>3, <3>2, <4>1, <4>3, <4>4, Zenon DEF SubscriberInv
    <3> QED
      BY <3>5, <3>6, Zenon
  <2> QED
    BY <1>2, <2>1, <2>3, <2>5, <2>6, Zenon
<1>8. CASE Receive(h)
  <2>1. /\ reader[h] = "next" /\ buffer[h] # << >> /\ subscribers' = subscribers
        /\ buffer' = [buffer EXCEPT ![h] = << >>]
        /\ received' = [received EXCEPT ![h] = received[h] \o buffer[h]]
        /\ reader' = [reader EXCEPT ![h] = "callback"]
    BY <1>8, Zenon DEF Receive
  <2>2. received[h] \o buffer[h] \in Seq(Nat) /\ << >> \in Seq(Nat)
    BY <1>2
  <2>3. /\ buffer' \in [Subscribers -> Seq(Nat)] /\ buffer'[h] = << >>
        /\ received' \in [Subscribers -> Seq(Nat)] /\ received'[h] = Seen(h)
        /\ reader'[h] = "callback"
        /\ \A x \in Subscribers \ {h} : /\ buffer'[x] = buffer[x]
                                        /\ received'[x] = received[x]
                                        /\ reader'[x] = reader[x]
    BY <1>2, <2>1, <2>2, Zenon DEF Seen
  <2>4. SubscriberInv(h)'
    <3>1. Seen(h)' = Seen(h)
      BY <2>2, <2>3, ConcatEmpty, Zenon DEF Seen
    <3>2. /\ ~sendLast[h] => buffer'[h] = << >>
          /\ reader'[h] = "new" =>
               received'[h] = << >> /\ h \notin subscribers'[TopicOf[h]]
          /\ h \in subscribers'[TopicOf[h]] =>
               h \in subscribers[TopicOf[h]] /\ Due(h)' = Due(h)
      BY <1>4, <2>1, <2>3, Zenon
    <3> QED
      BY <1>3, <3>1, <3>2, SameSeen, Zenon
  <2>5. \A x \in Subscribers \ {h} : SubscriberInv(x)'
    BY <1>6, <2>1, <2>3, Zenon
  <2> QED
    BY <2>3, <2>4, <2>5, Zenon
<1>9. CASE NextFails(h, c) \/ Callback(h) \/ Close(h) \/ unsubscribeID(h)
  <2>1. received' = received /\ buffer' = buffer
    BY <1>9, Zenon DEF NextFails, Callback, Close, unsubscribeID
  <2>2. reader' = reader
        \/ \E l \in ReaderAt \ {"new"} : reader' = [reader EXCEPT ![h] = l]
    BY <1>9, Zenon DEF NextFails, Callback, Close, unsubscribeID, ReaderAt
  <2>3. \A x \in Subscribers : reader'[x] = "new" => reader[x] = "new"
    BY <1>2, <2>2, Zenon
  <2>4. subscribers' = subscribers
        \/ subscribers' = [subscribers EXCEPT ![TopicOf[h]] = @ \ {h}]
    BY <1>9, Zenon DEF NextFails, Callback, Close, unsubscribeID
  <2>5. \A q \in Topic : subscribers'[q] \subseteq subscribers[q]
    BY <1>2, <2>4, Zenon
  <2>6. \A x \in Subscribers : SubscriberInv(x)'
    BY <1>3, <1>6, <2>1, <2>3, <2>5, Zenon
  <2> QED
    BY <1>2, <2>1, <2>6, Zenon
<1> QED
  BY <1>7, <1>8, <1>9, Zenon DEF SubscriberStep

\* A syncer publishes the number of the snapshot it has just stored.
LEMMA StoredPreserved ==
  ASSUME OnlySendersPublish, SeenTypes, StoredInv, [Next]_vars
  PROVE  StoredInv'
<1> USE ProcessAssumption
<1>1. /\ stored \in [Senders -> Nat] /\ last \in [Topic -> Nat] /\ Topic = Senders
      /\ pc \in [Syncers -> SyncerAt] /\ Senders \subseteq Syncers
      /\ \A t \in Topic : stored[t] = IF pc[t] = "publish" THEN last[t] + 1 ELSE last[t]
  BY Zenon DEF StoredInv, SeenTypes, OnlySendersPublish
<1>2. ASSUME stored' = stored, last' = last, NEW s \in Syncers, NEW l \in SyncerAt,
             pc' = pc \/ (pc' = [pc EXCEPT ![s] = l] /\ pc[s] # "publish" /\ l # "publish")
      PROVE  StoredInv'
  BY <1>1, <1>2, Zenon DEF StoredInv
<1>3. CASE UNCHANGED processVars /\ last' = last
  BY <1>3, Zenon DEF processVars, StoredInv
<1>4. CASE Main
  <2>1. stored' = stored /\ last' = last
    BY <1>4, Zenon DEF Main, MarkerFound, StartSyncer, StartFails, Wait, topicVars
  <2>2. CASE pc' = pc
    BY <2>1, <2>2, Zenon DEF StoredInv
  <2>3. CASE \E s \in Syncers : StartSyncer(s)
    <3>1. PICK s \in Syncers : pc' = [pc EXCEPT ![s] = "listing"] /\ pc[s] = "none"
      BY <2>3, Zenon DEF StartSyncer, Goto
    <3>2. "listing" \in SyncerAt /\ "listing" # "publish" /\ pc[s] # "publish"
      BY <3>1, Zenon DEF SyncerAt
    <3> QED
      BY <1>2, <2>1, <3>1, <3>2, Zenon
  <2> QED
    BY <1>4, <2>2, <2>3, Zenon DEF Main, MarkerFound, StartFails, Wait
<1>5. ASSUME NEW s \in Syncers, SyncerStep(s)
      PROVE  StoredInv'
  <2>1. CASE StoreSucceeds(s)
    <3>1. /\ pc[s] = "store" /\ pc' = [pc EXCEPT ![s] = "publish"] /\ last' = last
          /\ stored' = [stored EXCEPT ![s] = stored[s] + 1]
      BY <2>1, Zenon DEF StoreSucceeds, Goto, topicVars
    <3>2. s \in Senders
      BY <3>1, Zenon DEF OnlySendersPublish, Publishing
    <3> QED
      BY <1>1, <3>1, <3>2 DEF StoredInv
  <2>2. CASE PublishLock(s)
    <3>1. /\ pc[s] = "publish" /\ pc' = [pc EXCEPT ![s] = "sending"]
          /\ stored' = stored /\ last' = [last EXCEPT ![s] = stored[s]]
      BY <2>2, Zenon DEF PublishLock, Goto, Lock
    <3>2. s \in Senders
      BY <3>1, Zenon DEF OnlySendersPublish, Publishing
    <3> QED
      BY <1>1, <3>1, <3>2, Zenon DEF StoredInv
  <2>3. CASE ~StoreSucceeds(s) /\ ~PublishLock(s)
    <3>1. stored' = stored /\ last' = last
      BY <1>5, <2>3, Zenon DEF SyncerStep, Proceeds, InitialListing, PassFails,
         SendOnce, OnlyOnceEnds, NothingToSend, StoreFails, FailureSince, FailureInc,
         Retry, PublishSend, PublishUnlock, Success, Poll, Send, Unlock, topicVars,
         processVars
    <3>2. \/ pc' = pc
          \/ \E l \in SyncerAt \ {"publish"} :
               pc' = [pc EXCEPT ![s] = l] /\ pc[s] # "publish"
      BY <1>5, <2>3, Zenon
      DEF SyncerStep, Proceeds, InitialListing, PassFails, SendOnce,
         OnlyOnceEnds, NothingToSend, StoreFails, FailureSince, FailureInc, Retry,
         PublishSend, PublishUnlock, Success, Poll, Goto, Returns, SyncerAt,
         processVars
    <3>3. CASE pc' = pc
      BY <3>1, <3>3, Zenon DEF StoredInv
    <3>4. CASE pc' # pc
      BY <1>2, <3>1, <3>2, <3>4, Zenon
    <3> QED
      BY <3>3, <3>4, Zenon
  <2> QED
    BY <2>1, <2>2, <2>3, Zenon
<1>6. ASSUME NEW h, SubscriberStep(h, canceled), UNCHANGED processVars
      PROVE  StoredInv'
  <2>1. last' = last
    BY <1>6, Zenon DEF SubscriberStep, Subscribe, Receive, NextFails, Callback, Close,
       unsubscribeID
  <2> QED
    BY <1>3, <1>6, <2>1, Zenon
<1>7. CASE UNCHANGED <<processVars, topicVars>>
  BY <1>3, <1>7, Zenon DEF topicVars
<1> QED
  BY <1>4, <1>5, <1>6, <1>7, Zenon DEF Next, vars

\* A step that leaves the topics and the subscribers alone keeps what they are due.
LEMMA SeenKept ==
  ASSUME SeenInv, UNCHANGED <<last, targets, subscribers, buffer, reader, received>>
  PROVE  SeenInv'
<1>1. SeenTypes' /\ TargetsInv'
  BY Zenon DEF SeenInv, SeenTypes, TargetsInv
<1>2. ASSUME NEW h \in Subscribers PROVE SubscriberInv(h)'
  <2>1. SubscriberInv(h)
    BY Zenon DEF SeenInv
  <2>2. Seen(h)' = Seen(h)
    BY Zenon DEF Seen
  <2>3. Due(h)' = Due(h)
    BY Zenon DEF Due, Waiting
  <2>4. Consecutive(Seen(h))'
    BY <2>1, <2>2, Zenon DEF SubscriberInv, Consecutive
  <2> QED
    BY <2>1, <2>2, <2>3, <2>4, Zenon DEF SubscriberInv
<1> QED
  BY <1>1, <1>2, Zenon DEF SeenInv

\* Every step keeps what the subscribers are due.
LEMMA SeenPreserved ==
  ASSUME OnlySendersPublish, TopicInv, SeenInv, StoredInv, [Next]_vars
  PROVE  SeenInv'
<1>1. CASE UNCHANGED topicVars
  BY <1>1, SeenKept, Zenon DEF topicVars
<1>2. CASE Main
  BY <1>1, <1>2, Zenon DEF Main, MarkerFound, StartSyncer, StartFails, Wait
<1>3. ASSUME NEW s \in Syncers, SyncerStep(s)
      PROVE  SeenInv'
  <2>1. pc[s] \in Publishing => s \in Topic
    BY Zenon DEF OnlySendersPublish
  <2>2. CASE PublishLock(s)
    <3>1. pc[s] = "publish" /\ Lock(s, stored[s])
      BY <2>2, Zenon DEF PublishLock
    <3>2. s \in Topic
      BY <2>1, <3>1, Zenon DEF Publishing
    <3>3. stored[s] = last[s] + 1
      BY <3>1, <3>2, Zenon DEF StoredInv
    <3> QED
      BY <3>1, <3>2, <3>3, LockKeepsSeen, Zenon
  <2>3. CASE PublishSend(s)
    <3>1. pc[s] = "sending" /\ Send(s)
      BY <2>3, Zenon DEF PublishSend
    <3>2. s \in Topic
      BY <2>1, <3>1, Zenon DEF Publishing
    <3> QED
      BY <3>1, <3>2, SendKeepsSeen, Zenon
  <2>4. CASE PublishUnlock(s)
    <3>1. /\ last' = last /\ targets' = targets /\ subscribers' = subscribers
          /\ buffer' = buffer /\ reader' = reader /\ received' = received
      BY <2>4, Zenon DEF PublishUnlock, Unlock
    <3> QED
      BY <3>1, SeenKept, Zenon
  <2>5. CASE ~(PublishLock(s) \/ PublishSend(s) \/ PublishUnlock(s))
    BY <1>1, <1>3, <2>5, Zenon DEF SyncerStep, Proceeds, InitialListing, PassFails,
         SendOnce, StoreSucceeds, OnlyOnceEnds, NothingToSend, StoreFails,
         FailureSince, FailureInc, Retry, Success, Poll
  <2> QED
    BY <2>2, <2>3, <2>4, <2>5, Zenon
<1>4. ASSUME NEW h \in setting.subscribers, SubscriberStep(h, canceled)
      PROVE  SeenInv'
  <2>1. h \in Subscribers
    BY Zenon DEF OnlySendersPublish
  <2> QED
    BY <1>4, <2>1, SubscriberKeepsSeen, Zenon
<1> QED
  BY <1>1, <1>2, <1>3, <1>4, Zenon DEF Next, vars

\* A subscriber receives consecutive values, and has or can get the latest one as
\* soon as Publish is through with it, for any number of topics and subscribers:
\* Publish sends under the mutex that Subscribe takes, so that a subscription
\* falls between two values.
THEOREM NothingMissedAlways == Spec => []NothingMissed
<1> DEFINE Inv == OnlySendersPublish /\ TopicInv /\ SeenInv /\ StoredInv
<1>1. Init => Inv
  <2> SUFFICES ASSUME Init PROVE Inv
    BY Zenon
  <2>1. OnlySendersPublish
    BY ProcessAssumption, Zenon DEF Init, OnlySendersPublish, SyncerAt, Publishing
  <2>2. TopicInv
    BY DEF Init, TopicsInit, TopicInv, ReaderAt, CloserAt
  <2>3. StoredInv
    BY ProcessAssumption, Zenon DEF Init, TopicsInit, StoredInv
  <2>4. SeenTypes /\ TargetsInv
    BY DEF Init, TopicsInit, SeenTypes, TargetsInv
  <2>5. ASSUME NEW h \in Subscribers
        PROVE  SubscriberInv(h)
    <3>1. /\ received[h] = << >> /\ buffer[h] = << >> /\ TopicOf[h] \in Topic
          /\ subscribers[TopicOf[h]] = {}
      BY TopicsAssumption, Zenon DEF Init, TopicsInit
    <3>2. Seen(h) = << >> /\ Len(Seen(h)) = 0
      BY <3>1 DEF Seen
    <3>3. Consecutive(Seen(h))
      BY <3>2 DEF Consecutive
    <3> QED
      BY <3>1, <3>3, Zenon DEF SubscriberInv
  <2> QED
    BY <2>1, <2>2, <2>3, <2>4, <2>5, Zenon DEF SeenInv
<1>2. Inv /\ [Next]_vars => Inv'
  <2>1. SeenInv => SeenTypes
    BY Zenon DEF SeenInv
  <2> QED
    BY <2>1, SyncersPreserve, TopicsPreserve, SeenPreserved, StoredPreserved, Zenon
<1>3. Inv => NothingMissed
  <2> SUFFICES ASSUME Inv, NEW h \in Subscribers
               PROVE  /\ \A n \in 2..Len(Seen(h)) : Seen(h)[n] = Seen(h)[n - 1] + 1
                      /\ /\ h \in subscribers[TopicOf[h]] /\ Seen(h) # << >>
                         /\ h \notin Range(targets[TopicOf[h]])
                         => Seen(h)[Len(Seen(h))] = last[TopicOf[h]]
                      /\ h \in subscribers[TopicOf[h]] /\ sendLast[h]
                         /\ last[TopicOf[h]] # 0
                         /\ h \notin Range(targets[TopicOf[h]])
                         => Seen(h) # << >>
    BY Zenon DEF NothingMissed, Seen
  <2>1. SubscriberInv(h) /\ TopicOf[h] \in Topic
    BY TopicsAssumption, Zenon DEF SeenInv
  <2>2. last[TopicOf[h]] \in Nat /\ targets[TopicOf[h]] \in Seq(Subscribers)
    BY <2>1, Zenon DEF SeenInv, SeenTypes, TopicInv
  <2>3. h \notin Range(targets[TopicOf[h]]) => Due(h) = last[TopicOf[h]]
    BY <2>2 DEF Range, Due, Waiting
  <2>4. \A n \in 2..Len(Seen(h)) : Seen(h)[n] = Seen(h)[n - 1] + 1
    BY <2>1, Zenon DEF SubscriberInv, Consecutive
  <2> QED
    BY <2>1, <2>2, <2>3, <2>4 DEF SubscriberInv
<1> QED
  BY <1>1, <1>2, <1>3, PTL DEF Spec
-------------------------------------------------------------------------------
\* The invariant for NoFalseAlarm: once a failure counts, or is about to, since
\* is not before the first failure of the sequence, and the same holds for what
\* a check has read.  Times are not in the future.
HealthTypes ==
  /\ now \in Nat
  /\ sequence \in [Tracker -> Nat] /\ failures \in [Tracker -> Nat]
  /\ since \in [Tracker -> Int] /\ failing \in [Tracker -> Int]
  /\ check \in [Tracker -> [at : {"idle", "since"}, conseqFails : Nat, failing : Int,
                            result : {"ok", "warning", "error"}]]

FailingSince(k) == failing[k] # NotFailing /\ since[k] >= failing[k]

TrackerInv(k) ==
  /\ failing[k] <= now /\ check[k].failing <= now
  /\ sequence[k] > 0 => FailingSince(k)
  /\ pc[k] = "since" => failing[k] # NotFailing /\ (failures[k] > 0 => FailingSince(k))
  /\ pc[k] = "inc" => FailingSince(k)
  /\ check[k].at = "since" /\ check[k].conseqFails > 0
     => check[k].failing # NotFailing /\ since[k] >= check[k].failing

HealthInv == HealthTypes /\ \A k \in Tracker : TrackerInv(k)

\* The clock and the checks keep the invariant of the trackers.
LEMMA ChecksPreserve ==
  ASSUME HealthInv, HealthStep, pc' = pc
  PROVE  HealthInv'
<1> USE HealthTrackerAssumption DEF HealthInv, HealthTypes, TrackerInv, FailingSince,
      NotFailing
<1>1. CASE Tick
  BY <1>1 DEF Tick
<1>2. ASSUME NEW k \in Tracker, CheckSequence(k)
      PROVE  HealthInv'
  BY <1>2, Zenon DEF CheckSequence
<1>3. ASSUME NEW k \in Tracker, CheckSince(k)
      PROVE  HealthInv'
  <2>1. Idle(Result(check[k].conseqFails, now - since[k]))
          \in [at : {"idle", "since"}, conseqFails : Nat, failing : Int,
              result : {"ok", "warning", "error"}]
    BY DEF Idle, Result
  <2> QED
    BY <1>3, <2>1 DEF CheckSince, Idle
<1> QED
  BY <1>1, <1>2, <1>3, Zenon DEF HealthStep

\* A step that leaves the trackers alone, and brings no syncer into AddFailure,
\* keeps their invariant.
LEMMA OthersPreserve ==
  ASSUME HealthInv, UNCHANGED healthVars,
         \A k \in Tracker : pc'[k] \in {"since", "inc"} => pc'[k] = pc[k]
  PROVE  HealthInv'
  BY Zenon DEF HealthInv, HealthTypes, TrackerInv, FailingSince, healthVars

\* The syncers keep the invariant of the trackers: AddFailure stores the time
\* before it counts the failure, and AddSuccess ends both.
LEMMA ReportsPreserve ==
  ASSUME HealthInv, OnlySendersPublish, NEW s \in Syncers, SyncerStep(s)
  PROVE  HealthInv'
<1>0. pc[s] \in Publishing => s \in Tracker
  BY ProcessAssumption, Zenon DEF OnlySendersPublish
<1>a. pc \in [Syncers -> SyncerAt] /\ Tracker \subseteq Syncers
  BY ProcessAssumption, Zenon DEF OnlySendersPublish
<1>1. CASE StoreFails(s)
  <2>1. /\ pc[s] = "store" /\ pc' = [pc EXCEPT ![s] = "since"]
        /\ failures' = [failures EXCEPT ![s] = sequence[s]]
        /\ failing' = [failing EXCEPT ![s] = IF @ = NotFailing THEN now ELSE @]
        /\ UNCHANGED <<now, sequence, since, check>>
    BY <1>1, Zenon DEF StoreFails, AddFailureLoad, Goto
  <2>2. s \in Tracker
    BY <1>0, <2>1, Zenon DEF Publishing
  <2> QED
    BY <1>a, <2>1, <2>2
    DEF HealthInv, HealthTypes, TrackerInv, FailingSince, NotFailing
<1>2. CASE FailureSince(s)
  <2>1. /\ pc[s] = "since" /\ pc' = [pc EXCEPT ![s] = "inc"]
        /\ since' = [since EXCEPT ![s] = IF failures[s] = 0 THEN now ELSE @]
        /\ UNCHANGED <<now, sequence, failures, check, failing>>
    BY <1>2, Zenon DEF FailureSince, AddFailureSince, Goto
  <2>2. s \in Tracker
    BY <1>0, <2>1, Zenon DEF Publishing
  <2> QED
    BY <1>a, <2>1, <2>2
    DEF HealthInv, HealthTypes, TrackerInv, FailingSince, NotFailing
<1>3. CASE FailureInc(s)
  <2>1. /\ pc[s] = "inc" /\ pc' = [pc EXCEPT ![s] = "retry"]
        /\ sequence' = [sequence EXCEPT ![s] = 1]
        /\ failures' = [failures EXCEPT ![s] = 0]
        /\ UNCHANGED <<now, since, check, failing>>
    BY <1>3, Zenon DEF FailureInc, AddFailureInc, Goto
  <2>2. s \in Tracker
    BY <1>0, <2>1, Zenon DEF Publishing
  <2> QED
    BY <1>a, <2>1, <2>2, Zenon
    DEF HealthInv, HealthTypes, TrackerInv, FailingSince, NotFailing
<1>4. CASE Success(s)
  <2>1. /\ pc[s] = "success" /\ pc' = [pc EXCEPT ![s] = "poll"]
        /\ sequence' = [sequence EXCEPT ![s] = 0]
        /\ failing' = [failing EXCEPT ![s] = NotFailing]
        /\ UNCHANGED <<now, since, failures, check>>
    BY <1>4, Zenon DEF Success, AddSuccess, Goto
  <2>2. s \in Tracker
    BY <1>0, <2>1, Zenon DEF Publishing
  <2> QED
    BY <1>a, <2>1, <2>2
    DEF HealthInv, HealthTypes, TrackerInv, FailingSince, NotFailing
<1>5. CASE ~(StoreFails(s) \/ FailureSince(s) \/ FailureInc(s) \/ Success(s))
  <2>1. UNCHANGED healthVars
    BY <1>5, Zenon DEF SyncerStep, Proceeds, InitialListing, PassFails, SendOnce,
         StoreSucceeds, OnlyOnceEnds, NothingToSend, Retry, PublishLock, PublishSend,
         PublishUnlock, Poll
  <2>2. pc' = pc \/ \E l \in SyncerAt \ {"since", "inc"} : pc' = [pc EXCEPT ![s] = l]
    BY <1>5, Zenon DEF SyncerStep, Proceeds, InitialListing, PassFails, SendOnce,
         StoreSucceeds, OnlyOnceEnds, NothingToSend, Retry, PublishLock, PublishSend,
         PublishUnlock, Poll, Goto, Returns, SyncerAt, processVars
  <2>3. \A k \in Tracker : pc'[k] \in {"since", "inc"} => pc'[k] = pc[k]
    BY <1>a, <2>2, Zenon
  <2> QED
    BY <2>1, <2>3, OthersPreserve, Zenon
<1> QED
  BY <1>1, <1>2, <1>3, <1>4, <1>5, Zenon

\* Every step keeps the invariant of the trackers.
LEMMA HealthPreserve ==
  ASSUME HealthInv, OnlySendersPublish, [Next]_vars
  PROVE  HealthInv'
<1>1. CASE UNCHANGED <<processVars, healthVars>>
  <2>1. pc' = pc /\ UNCHANGED healthVars
    BY <1>1, Zenon DEF processVars
  <2> QED
    BY <2>1, OthersPreserve, Zenon
<1>2. CASE Main
  <2>1. UNCHANGED healthVars
    BY <1>2, Zenon DEF Main, MarkerFound, StartSyncer, StartFails, Wait
  <2>2. pc' = pc \/ \E s \in Syncers : pc' = [pc EXCEPT ![s] = "listing"]
    BY <1>2, Zenon DEF Main, MarkerFound, StartSyncer, StartFails, Wait, Goto
  <2>3. \A k \in Tracker : pc'[k] \in {"since", "inc"} => pc'[k] = pc[k]
    BY <2>2, ProcessAssumption, Zenon DEF OnlySendersPublish
  <2> QED
    BY <2>1, <2>3, OthersPreserve, Zenon
<1>3. ASSUME NEW s \in Syncers, SyncerStep(s)
      PROVE  HealthInv'
  BY <1>3, ReportsPreserve, Zenon
<1>4. CASE HealthStep /\ UNCHANGED processVars
  <2>1. pc' = pc
    BY <1>4, Zenon DEF processVars
  <2> QED
    BY <1>4, <2>1, ChecksPreserve, Zenon
<1> QED
  BY <1>1, <1>2, <1>3, <1>4, Zenon DEF Next, vars

\* Only the end of a check brings it back to "idle".
LEMMA OnlyChecksReturn ==
  ASSUME HealthInv, [Next]_vars, NEW k \in Tracker,
         check[k].at = "since", check'[k].at = "idle"
  PROVE  CheckSince(k)
<1>1. check' # check
  BY Zenon
<1>2. HealthStep
  BY <1>1, ZenonT(30)
  DEF Next, vars, Main, MarkerFound, StartSyncer, StartFails, Wait,
       SyncerStep, Proceeds, InitialListing, PassFails, SendOnce, StoreSucceeds,
       OnlyOnceEnds, NothingToSend, StoreFails, FailureSince, FailureInc, Retry,
       PublishLock, PublishSend, PublishUnlock, Success, Poll, AddFailureLoad,
       AddFailureSince, AddFailureInc, AddSuccess, healthVars
<1>3. PICK j \in Tracker : CheckSequence(j) \/ CheckSince(j)
  BY <1>1, <1>2, Zenon DEF HealthStep, Tick
<1>4. j = k
  BY <1>3, Zenon DEF CheckSequence, CheckSince, HealthInv, HealthTypes
<1> QED
  BY <1>3, <1>4, Zenon DEF CheckSequence

\* A check reports an error only for an operation that was failing when the check
\* read the sequence and has been for ErrorDuration, for any durations and any
\* number of trackers: AddFailure stores the time before it counts the failure.
THEOREM NoFalseAlarmAlways == Spec => NoFalseAlarm
<1> DEFINE Alarm(k) ==
      check[k].at = "since" /\ check'[k].at = "idle" /\ check'[k].result = "error"
      => /\ check[k].failing # NotFailing
         /\ now - check[k].failing >= ErrorDuration
<1>1. Init => OnlySendersPublish /\ HealthInv
  <2> SUFFICES ASSUME Init PROVE OnlySendersPublish /\ HealthInv
    BY Zenon
  <2>1. OnlySendersPublish
    BY ProcessAssumption, Zenon DEF Init, OnlySendersPublish, SyncerAt, Publishing
  <2>2. HealthInv
    BY ProcessAssumption, HealthTrackerAssumption DEF Init, HealthInit, HealthInv,
       HealthTypes, TrackerInv, FailingSince, NotFailing, Idle
  <2> QED
    BY <2>1, <2>2, Zenon
<1>2. OnlySendersPublish /\ HealthInv /\ [Next]_vars
        => OnlySendersPublish' /\ HealthInv'
  BY SyncersPreserve, HealthPreserve, Zenon
<1>3. HealthInv /\ [Next]_vars => [\A k \in Tracker : Alarm(k)]_healthVars
  <2> SUFFICES ASSUME HealthInv, [Next]_vars, NEW k \in Tracker, check[k].at = "since",
                      check'[k].at = "idle", check'[k].result = "error"
               PROVE  /\ check[k].failing # NotFailing
                      /\ now - check[k].failing >= ErrorDuration
    BY Zenon
  <2>1. CheckSince(k)
    BY OnlyChecksReturn, Zenon
  <2>2. check[k].conseqFails > 0 /\ now - since[k] >= ErrorDuration
    BY <2>1, Zenon DEF CheckSince, Idle, Result, HealthInv, HealthTypes
  <2> QED
    BY <2>2, HealthTrackerAssumption
    DEF HealthInv, HealthTypes, TrackerInv, NotFailing
<1> QED
  BY <1>1, <1>2, <1>3, PTL DEF Spec, NoFalseAlarm
===============================================================================
