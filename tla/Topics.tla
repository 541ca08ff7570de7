-------------------------------- MODULE Topics --------------------------------
(***************************************************************************)
(* The package utils/topics: a Topic has one publisher here, a goroutine   *)
(* of the syncer of the same name, and subscribers that each run Handle,   *)
(* or a loop like it with Subscribe(true).                                 *)
(*                                                                         *)
(* Publish holds Topic.mu while it sends to one subscriber after another.  *)
(* The channel of Subscribe(false) has no buffer: the send is one step     *)
(* with the receive.  That of Subscribe(true) holds one value.             *)
(***************************************************************************)
EXTENDS Integers, Sequences, FiniteSets, Functions

CONSTANTS
  Topic,         \* the topics
  Subscribers,
  TopicOf,       \* the topic of each subscriber
  sendLast       \* the argument of Subscribe of each subscriber

ASSUME TopicsAssumption ==
  /\ IsFiniteSet(Subscribers)
  /\ TopicOf \in [Subscribers -> Topic] /\ sendLast \in [Subscribers -> BOOLEAN]

VARIABLES
  locked,      \* Topic.mu is held by Publish
  last,        \* Topic.last, 0 if nothing was published
  targets,     \* the subscribers Publish has still to send to
  subscribers, \* Topic.subscribers
  buffer,      \* what is in the channel of a subscription
  reader,      \* where the goroutine of a subscriber is
  closer,      \* where Subscription.Close is
  received     \* the values a subscriber has received

topicVars == <<locked, last, targets, subscribers, buffer, reader,
               closer, received>>

TopicsInit ==
  /\ locked = [t \in Topic |-> FALSE]
  /\ last = [t \in Topic |-> 0]
  /\ targets = [t \in Topic |-> <<>>]
  /\ subscribers = [t \in Topic |-> {}]
  /\ buffer = [h \in Subscribers |-> <<>>]
  /\ reader = [h \in Subscribers |-> "new"]
  /\ closer = [h \in Subscribers |-> "open"]
  /\ received = [h \in Subscribers |-> <<>>]

\* The orders in which a range over a map can visit a set.
Orders(S) == {s \in [1..Cardinality(S) -> S] : IsInjective(s)}

\* Publish up to its loop.
Lock(t, v) ==
  /\ ~locked[t]
  /\ locked' = [locked EXCEPT ![t] = TRUE]
  /\ last' = [last EXCEPT ![t] = v]
  /\ \E s \in Orders(subscribers[t]) : targets' = [targets EXCEPT ![t] = s]
  /\ UNCHANGED <<subscribers, buffer, reader, closer, received>>

\* Mutant: Publish does not wait for a subscriber that is busy.
SendOrDrop(t) ==
  /\ targets[t] # <<>>
  /\ targets' = [targets EXCEPT ![t] = Tail(@)]
  /\ LET h == Head(targets[t])
     IN  /\ buffer' = IF sendLast[h] /\ buffer[h] = <<>>
                      THEN [buffer EXCEPT ![h] = <<last[t]>>] ELSE buffer
         /\ IF ~sendLast[h] /\ reader[h] = "next"
            THEN /\ reader' = [reader EXCEPT ![h] = "callback"]
                 /\ received' = [received EXCEPT ![h] = Append(@, last[t])]
            ELSE UNCHANGED <<reader, received>>
  /\ UNCHANGED <<locked, last, subscribers, closer>>

\* ch <- v in the loop of Publish.
Send(t) ==
  /\ targets[t] # <<>>
  /\ targets' = [targets EXCEPT ![t] = Tail(@)]
  /\ LET h == Head(targets[t])
     IN  IF sendLast[h]
         THEN /\ buffer[h] = <<>>
              /\ buffer' = [buffer EXCEPT ![h] = <<last[t]>>]
              /\ UNCHANGED <<reader, received>>
         ELSE /\ reader[h] = "next"
              /\ reader' = [reader EXCEPT ![h] = "callback"]
              /\ received' = [received EXCEPT ![h] = Append(@, last[t])]
              /\ UNCHANGED buffer
  /\ UNCHANGED <<locked, last, subscribers, closer>>

\* The end of Publish.
Unlock(t) ==
  /\ targets[t] = <<>>
  /\ locked' = [locked EXCEPT ![t] = FALSE]
  /\ UNCHANGED <<last, targets, subscribers, buffer, reader, closer,
                 received>>
-------------------------------------------------------------------------------
\* Topic.Subscribe
Subscribe(h) ==
  LET t == TopicOf[h]
  IN  /\ reader[h] = "new" /\ ~locked[t]
      /\ subscribers' = [subscribers EXCEPT ![t] = @ \cup {h}]
      /\ buffer' = [buffer EXCEPT ![h] =
                      IF sendLast[h] /\ last[t] # 0 THEN <<last[t]>> ELSE <<>>]
      /\ reader' = [reader EXCEPT ![h] = "next"]
      /\ UNCHANGED <<locked, last, targets, closer, received>>

\* Subscription.Next returns a value from the buffer.
Receive(h) ==
  /\ reader[h] = "next" /\ buffer[h] # <<>>
  /\ buffer' = [buffer EXCEPT ![h] = <<>>]
  /\ received' = [received EXCEPT ![h] = @ \o buffer[h]]
  /\ reader' = [reader EXCEPT ![h] = "callback"]
  /\ UNCHANGED <<locked, last, targets, subscribers, closer>>

\* Mutant: Handle returns without closing its subscription.
EndsOpen(h) == UNCHANGED closer

\* The deferred Close of Handle.
Ends(h) ==
  closer' = [closer EXCEPT ![h] = IF @ = "open" THEN "closing" ELSE @]

\* Next returns an error: the context is canceled, or the channel was closed and
\* is empty.
NextFails(h, canceled) ==
  /\ \/ reader[h] \in {"next", "nil"} /\ canceled
     \/ reader[h] = "next" /\ closer[h] = "closed" /\ buffer[h] = <<>>
  /\ reader' = [reader EXCEPT ![h] = "ended"]
  /\ Ends(h)
  /\ UNCHANGED <<locked, last, targets, subscribers, buffer, received>>

\* The callback returns, and Handle calls Next or returns its error.  Next asks
\* for the channel, for which it needs Subscription.mu; after Close it is nil.
Callback(h) ==
  /\ reader[h] = "callback"
  /\ \/ /\ closer[h] # "closing"
        /\ reader' = [reader EXCEPT ![h] =
                        IF closer[h] = "closed" THEN "nil" ELSE "next"]
        /\ UNCHANGED closer
     \/ /\ reader' = [reader EXCEPT ![h] = "ended"]
        /\ Ends(h)
  /\ UNCHANGED <<locked, last, targets, subscribers, buffer, received>>

\* Another goroutine calls Close, which takes Subscription.mu.
Close(h) ==
  /\ reader[h] # "new" /\ closer[h] = "open"
  /\ closer' = [closer EXCEPT ![h] = "closing"]
  /\ UNCHANGED <<locked, last, targets, subscribers, buffer, reader,
                 received>>

\* Mutant: a subscription is removed and closed without Topic.mu.
unsubscribeUnlocked(h) ==
  /\ closer[h] = "closing"
  /\ closer' = [closer EXCEPT ![h] = "closed"]
  /\ subscribers' = [subscribers EXCEPT ![TopicOf[h]] = @ \ {h}]
  /\ UNCHANGED <<locked, last, targets, buffer, reader, received>>

\* Topic.unsubscribeID and the end of Close.
unsubscribeID(h) ==
  /\ closer[h] = "closing" /\ ~locked[TopicOf[h]]
  /\ closer' = [closer EXCEPT ![h] = "closed"]
  /\ subscribers' = [subscribers EXCEPT ![TopicOf[h]] = @ \ {h}]
  /\ UNCHANGED <<locked, last, targets, buffer, reader, received>>

SubscriberStep(h, canceled) ==
  \/ Subscribe(h)
  \/ Receive(h)
  \/ NextFails(h, canceled)
  \/ Callback(h)
  \/ Close(h)
  \/ unsubscribeID(h)
-------------------------------------------------------------------------------
(***************************************************************************)
(* Properties.                                                             *)
(***************************************************************************)
TopicsTypeOK ==
  /\ locked \in [Topic -> BOOLEAN]
  /\ subscribers \in [Topic -> SUBSET Subscribers]
  /\ reader \in [Subscribers -> {"new", "next", "callback", "nil", "ended"}]
  /\ closer \in [Subscribers -> {"open", "closing", "closed"}]

\* Publish never sends on a closed channel, which would panic (Publish keeps
\* Topic.mu until it is done, and unsubscribeID closes the channel under it).
NoSendOnClosed ==
  \A t \in Topic : \A h \in Range(targets[t]) :
    h \in subscribers[t] /\ closer[h] # "closed"

\* A subscriber receives consecutive values, each once and in their order, and it
\* has received or can receive the latest one as soon as Publish is through
\* with it (Publish, Subscribe with and without sendLast, Next).
NothingMissed ==
  \A h \in Subscribers :
    LET t    == TopicOf[h]
        seen == received[h] \o buffer[h]
    IN  /\ \A n \in 2..Len(seen) : seen[n] = seen[n - 1] + 1
        /\ /\ h \in subscribers[t] /\ seen # <<>>
           /\ h \notin Range(targets[t])
           => seen[Len(seen)] = last[t]
        /\ h \in subscribers[t] /\ sendLast[h] /\ last[t] # 0
           /\ h \notin Range(targets[t])
           => seen # <<>>
===============================================================================
