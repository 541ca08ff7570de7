----------------------------- MODULE HealthTracker ----------------------------
(***************************************************************************)
(* The package status/healthtracker: the sequence of failures of a storage *)
(* operation and the time since when it fails are two atomic variables,    *)
(* which AddFailure and AddSuccess write and a check of healthz reads one  *)
(* by one.  The text of the last error, a part of the message only, is not *)
(* in the model.  There is one tracker for each syncer, which has one      *)
(* caller: storageStoreHealth of SendOnce.                                 *)
(***************************************************************************)
EXTENDS Integers

CONSTANTS
  Tracker,        \* the trackers
  WarnDuration,
  ErrorDuration,
  MaxNow          \* bound: the ticks of the clock

ASSUME HealthTrackerAssumption ==
  WarnDuration \in Nat /\ ErrorDuration \in Nat /\ MaxNow \in Nat

VARIABLES
  now,       \* the clock
  sequence,  \* HealthTracker.sequence
  since,     \* HealthTracker.since
  failures,  \* the local variable of AddFailure
  check,     \* the check: where it is, what it has read and what it returned
  failing    \* history: the time of the first failure since the last success

healthVars == <<now, sequence, since, failures, check, failing>>

NotFailing == -1

Idle(result) ==
  [at |-> "idle", conseqFails |-> 0, failing |-> NotFailing, result |-> result]

HealthInit ==
  /\ now = 0
  /\ sequence = [k \in Tracker |-> 0]
  /\ since = [k \in Tracker |-> -(ErrorDuration + 1)]   \* the zero time
  /\ failures = [k \in Tracker |-> 0]
  /\ check = [k \in Tracker |-> Idle("ok")]
  /\ failing = [k \in Tracker |-> NotFailing]

Tick ==
  /\ now < MaxNow
  /\ now' = now + 1
  /\ UNCHANGED <<sequence, since, failures, check, failing>>
-------------------------------------------------------------------------------
\* AddFailure: failures := sequence.Load()
AddFailureLoad(k) ==
  /\ failures' = [failures EXCEPT ![k] = sequence[k]]
  /\ failing' = [failing EXCEPT ![k] = IF @ = NotFailing THEN now ELSE @]
  /\ UNCHANGED <<now, sequence, since, check>>

\* AddFailure: since.Store(time.Now())
AddFailureSince(k) ==
  /\ since' = [since EXCEPT ![k] = IF failures[k] = 0 THEN now ELSE @]
  /\ UNCHANGED <<now, sequence, failures, check, failing>>

\* AddFailure: sequence.Inc().  Bound: the sequence is only compared with zero.
AddFailureInc(k) ==
  /\ sequence' = [sequence EXCEPT ![k] = 1]
  /\ failures' = [failures EXCEPT ![k] = 0]
  /\ UNCHANGED <<now, since, check, failing>>

\* Mutant: a success does not end the sequence of failures.
AddSuccessKeeps(k) ==
  /\ failing' = [failing EXCEPT ![k] = NotFailing]
  /\ UNCHANGED <<now, sequence, since, failures, check>>

\* AddSuccess
AddSuccess(k) ==
  /\ sequence' = [sequence EXCEPT ![k] = 0]
  /\ failing' = [failing EXCEPT ![k] = NotFailing]
  /\ UNCHANGED <<now, since, failures, check>>
-------------------------------------------------------------------------------
\* The check of RegisterDuration: sequence.Load()
CheckSequence(k) ==
  /\ check[k].at = "idle"
  /\ check' = [check EXCEPT ![k] = [at |-> "since", conseqFails |-> sequence[k],
                                    failing |-> failing[k], result |-> @.result]]
  /\ UNCHANGED <<now, sequence, since, failures, failing>>

\* What the check returns.
Result(conseqFails, failingFor) ==
  IF conseqFails > 0 /\ failingFor >= ErrorDuration THEN "error"
  ELSE IF conseqFails > 0 /\ failingFor >= WarnDuration THEN "warning" ELSE "ok"

\* The check of RegisterDuration: since.Load() and the rest.
CheckSince(k) ==
  /\ check[k].at = "since"
  /\ check' = [check EXCEPT ![k] =
                 Idle(Result(check[k].conseqFails, now - since[k]))]
  /\ UNCHANGED <<now, sequence, since, failures, failing>>

HealthStep == Tick \/ \E k \in Tracker : CheckSequence(k) \/ CheckSince(k)
-------------------------------------------------------------------------------
HealthTypeOK ==
  /\ now \in 0..MaxNow
  /\ sequence \in [Tracker -> 0..1] /\ failures \in [Tracker -> 0..1]
  /\ check \in [Tracker -> [at : {"idle", "since"}, conseqFails : 0..1,
                            failing : {NotFailing} \cup 0..MaxNow,
                            result : {"ok", "warning", "error"}]]

\* A check reports an error only if the operation was failing when it read the
\* sequence, and had been failing for ErrorDuration when it returned: not for a
\* time left over from failures before a success (AddFailure stores the time
\* before it counts, AddSuccess, and the order of the loads in the check).
NoFalseAlarm ==
  [][\A k \in Tracker :
       check[k].at = "since" /\ check'[k].at = "idle" /\ check'[k].result = "error"
       => /\ check[k].failing # NotFailing
          /\ now - check[k].failing >= ErrorDuration]_healthVars
===============================================================================
