-------------------------------- MODULE Cleaner --------------------------------
(***************************************************************************)
(* The cleaners of all instances at work on one bucket: syncer/cleaner, with*)
(* what the sync loops do to the bucket and report to their cleaners.      *)
(*                                                                         *)
(* A snapshot is an instance and a number, which stands for the timestamp in*)
(* its name.  Its content is the set of snapshots whose data it has, itself*)
(* included, because a merge never loses what it does not replace (module  *)
(* Syncer).  Time is counted in ticks: every snapshot has the age of its   *)
(* timestamp, and every cleaner knows for how long it has seen a snapshot. *)
(* Both stop one tick above the interval they are compared with.           *)
(***************************************************************************)
EXTENDS Integers, FiniteSets, Functions

CONSTANTS
  Instances,
  Enabled,                    \* the instances with conf.Enabled
  First,                      \* the instance that stores the first snapshot
  MustKeepInterval,           \* conf.MustKeepInterval
  RemoveOldInstancesInterval, \* conf.RemoveOldInstancesInterval
  InOrder,      \* the snapshots of an instance appear in their order
  MaxSnapshots, \* bound: the snapshots of all instances together
  MaxEvents     \* bound: snapshots, restarts with or without the LMDB, and
                \* deletions that fail, together

ASSUME CleanerAssumption ==
  /\ IsFiniteSet(Instances) /\ Enabled \subseteq Instances /\ First \in Instances
  /\ InOrder \in BOOLEAN
  /\ MustKeepInterval \in Nat /\ RemoveOldInstancesInterval \in Nat
  /\ MaxSnapshots \in Nat \ {0} /\ MaxEvents \in Nat

Snapshots == [instance : Instances, num : 1..MaxSnapshots]

VARIABLES
  bucket,   \* the snapshots that a listing returns
  transit,  \* snapshots that were stored and do not appear yet
  count,    \* how many snapshots each instance has stored
  content,  \* the data of every snapshot that exists
  age,      \* the age of its timestamp
  lmdb,           \* Syncer: the snapshots whose data the LMDB has
  lastByInstance, \* Syncer: the last snapshot loaded from each instance, or 0
  waitingForOwn,  \* syncLoop: the instances that wait for their own snapshot
  committed,      \* Worker: lastByInstance, as of the last snapshot stored
  snapFirstSeen,  \* Worker: for how long it has seen the listed snapshots
  removalCandidates, tooOld, \* RunOnce: what it has yet to delete
  crashes, failures          \* how many there were

syncVars == <<lmdb, lastByInstance, waitingForOwn, committed>>
runVars == <<snapFirstSeen, removalCandidates, tooOld>>
bucketVars == <<bucket, transit, count, content, age>>
vars == <<bucketVars, syncVars, runVars, crashes, failures>>

NoneLoaded == [i \in Instances |-> 0]

\* All processes have started and one of them has stored a snapshot.  Nothing
\* happens before, and all instances are alike.
Init ==
  LET s == [instance |-> First, num |-> 1]
  IN  /\ bucket = {} /\ transit = {s}
      /\ count = [i \in Instances |-> IF i = First THEN 1 ELSE 0]
      /\ content = [x \in {s} |-> {s}] /\ age = [x \in {s} |-> 0]
      /\ lmdb = [i \in Instances |-> IF i = First THEN {s} ELSE {}]
      /\ lastByInstance = [i \in Instances |-> NoneLoaded]
      /\ waitingForOwn = {}
      /\ committed = [i \in Instances |-> NoneLoaded]
      /\ snapFirstSeen = [i \in Instances |-> <<>>]
      /\ removalCandidates = [i \in Instances |-> {}]
      /\ tooOld = [i \in Instances |-> {}]
      /\ crashes = 0 /\ failures = 0

\* Every snapshot ever stored.
Stored == {s \in Snapshots : s.num <= count[s.instance]}

\* The bound on events leaves room for another one.
Room == Cardinality(Stored) + crashes + failures < MaxEvents

Newer(s, t) == s.instance = t.instance /\ s.num > t.num

\* The newest snapshots of every instance in S.
Newest(S) == {s \in S : \A t \in S : ~Newer(t, s)}

Tick(f, limit) == [x \in DOMAIN f |-> IF f[x] > limit THEN f[x] ELSE f[x] + 1]

\* f, with a value for another argument.
With(f, x, v) == [y \in DOMAIN f \cup {x} |-> IF y = x THEN v ELSE f[y]]

TimePasses ==
  /\ age' = Tick(age, RemoveOldInstancesInterval)
  /\ snapFirstSeen' =
       [i \in Instances |-> Tick(snapFirstSeen[i], MustKeepInterval)]
  /\ <<age, snapFirstSeen>>' # <<age, snapFirstSeen>>
  /\ UNCHANGED <<bucket, transit, count, content, syncVars, removalCandidates,
                 tooOld, crashes, failures>>
--------------------------------------------------------------------------------
(***************************************************************************)
(* The syncers.                                                            *)
(***************************************************************************)
\* Mutant: what was loaded is reported when no snapshot was stored.
LoadAndCommit(i, s) ==
  /\ s \in Newest(bucket)
  /\ s.num # lastByInstance[i][s.instance]
  /\ s.instance = i => i \in waitingForOwn
  /\ lmdb' = [lmdb EXCEPT ![i] = @ \cup content[s]]
  /\ lastByInstance' = [lastByInstance EXCEPT ![i][s.instance] = s.num]
  /\ waitingForOwn' = waitingForOwn \ (IF s.instance = i THEN {i} ELSE {})
  /\ committed' = [committed EXCEPT ![i][s.instance] = s.num]
  /\ UNCHANGED <<bucketVars, runVars, crashes, failures>>

\* LoadOnce: the latest snapshot of an instance is merged.  The own one is only
\* loaded after a restart.
Load(i, s) ==
  /\ s \in Newest(bucket)
  /\ s.num # lastByInstance[i][s.instance]
  /\ s.instance = i => i \in waitingForOwn
  /\ lmdb' = [lmdb EXCEPT ![i] = @ \cup content[s]]
  /\ lastByInstance' = [lastByInstance EXCEPT ![i][s.instance] = s.num]
  /\ waitingForOwn' = waitingForOwn \ (IF s.instance = i THEN {i} ELSE {})
  /\ UNCHANGED <<bucketVars, committed, runVars, crashes, failures>>

Own(i) == {s \in bucket : s.instance = i}

\* SendOnce: a snapshot of the LMDB is stored, once the own snapshot was loaded
\* or has disappeared, and SetCommitted tells the cleaner what it contains.
Send(i) ==
  LET new == [instance |-> i, num |-> count[i] + 1]
      data == lmdb[i] \cup {new}
  IN  /\ Cardinality(Stored) < MaxSnapshots /\ Room
      /\ i \in waitingForOwn => Own(i) = {}
      /\ waitingForOwn' = waitingForOwn \ {i}
      /\ transit' = transit \cup {new}
      /\ lmdb' = [lmdb EXCEPT ![i] = data]
      /\ count' = [count EXCEPT ![i] = @ + 1]
      /\ content' = With(content, new, data)
      /\ age' = With(age, new, 0)
      /\ committed' = [committed EXCEPT ![i] =
           [j \in Instances |-> IF lastByInstance[i][j] # 0
                                THEN lastByInstance[i][j] ELSE @[j]]]
      /\ UNCHANGED <<bucket, lastByInstance, runVars, crashes, failures>>

\* A snapshot becomes visible in the bucket.
Appear(s) ==
  /\ InOrder => \A t \in transit : ~Newer(s, t)
  /\ transit' = transit \ {s}
  /\ bucket' = bucket \cup {s}
  /\ UNCHANGED <<count, content, age, syncVars, runVars, crashes, failures>>

\* The process restarts.  If its LMDB is lost, it finds its own snapshots in the
\* bucket.
Restart(i, lost) ==
  /\ Room
  /\ lost => \A s \in transit : s.instance # i
  /\ crashes' = crashes + 1
  /\ lmdb' = IF lost THEN [lmdb EXCEPT ![i] = {}] ELSE lmdb
  /\ lastByInstance' = [lastByInstance EXCEPT ![i] = NoneLoaded]
  /\ waitingForOwn' =
       (waitingForOwn \ {i}) \cup (IF Own(i) = {} THEN {} ELSE {i})
  /\ committed' = [committed EXCEPT ![i] = NoneLoaded]
  /\ snapFirstSeen' = [snapFirstSeen EXCEPT ![i] = <<>>]
  /\ removalCandidates' = [removalCandidates EXCEPT ![i] = {}]
  /\ tooOld' = [tooOld EXCEPT ![i] = {}]
  /\ UNCHANGED <<bucketVars, failures>>
--------------------------------------------------------------------------------
(***************************************************************************)
(* Worker.RunOnce of the cleaner of instance i.                            *)
(***************************************************************************)
Seen(i) == DOMAIN snapFirstSeen[i]

\* Snapshots that were seen before, and not for longer than MustKeepInterval.
Recent(i) ==
  {s \in bucket \cap Seen(i) : snapFirstSeen[i][s] <= MustKeepInterval}

\* Snapshots that pass the first filter.
Considered(i) == (bucket \cap Seen(i)) \ Recent(i)

\* Mutant: nothing protects the newest snapshot.
RemovesAll(i) == Considered(i)

\* Mutant: old snapshots only go while a newer one is recent.
RemovableWhenRecent(i) ==
  {s \in Considered(i) : \E t \in Recent(i) : t.instance = s.instance}

\* Snapshots that pass the second filter: their instance has a recent one or
\* they are not the newest of those considered.
Removable(i) ==
  {s \in Considered(i) : \/ \E t \in Recent(i) : t.instance = s.instance
                         \/ s \notin Newest(Considered(i))}

\* The newest snapshots of instances without a new one for long.
Stale(i) ==
  {s \in Considered(i) \ Removable(i) : age[s] > RemoveOldInstancesInterval}

\* The listing and the two filters.
List(i) ==
  /\ i \in Enabled /\ removalCandidates[i] = {} /\ tooOld[i] = {}
  /\ snapFirstSeen' = [snapFirstSeen EXCEPT ![i] =
       [s \in bucket |-> IF s \in Seen(i) THEN @[s] ELSE 0]]
  /\ removalCandidates' = [removalCandidates EXCEPT ![i] = Removable(i)]
  /\ tooOld' = [tooOld EXCEPT ![i] = Stale(i)]
  /\ UNCHANGED <<bucketVars, syncVars, crashes, failures>>

\* st.Delete succeeds, or fails and the next run tries again.
Delete(s) ==
  \/ /\ bucket' = bucket \ {s}
     /\ content' = Restrict(content, DOMAIN content \ {s})
     /\ age' = Restrict(age, DOMAIN age \ {s})
     /\ UNCHANGED failures
  \/ /\ Room
     /\ failures' = failures + 1
     /\ UNCHANGED <<bucket, content, age>>

\* The first loop, from the newest to the oldest.
DeleteOld(i, s) ==
  /\ s \in Newest(removalCandidates[i])
  /\ removalCandidates' = [removalCandidates EXCEPT ![i] = @ \ {s}]
  /\ Delete(s)
  /\ UNCHANGED <<transit, count, syncVars, snapFirstSeen, tooOld, crashes>>

\* The second loop: the only snapshot of a dead instance goes if a snapshot of
\* this instance is known to have its data.
DeleteStale(i, s) ==
  /\ removalCandidates[i] = {}
  /\ tooOld' = [tooOld EXCEPT ![i] = @ \ {s}]
  /\ IF s.num > committed[i][s.instance]
     THEN UNCHANGED <<bucket, content, age, failures>>
     ELSE Delete(s)
  /\ UNCHANGED <<transit, count, syncVars, snapFirstSeen,
                 removalCandidates, crashes>>
--------------------------------------------------------------------------------
RunOnceStep(i) ==
  \/ List(i)
  \/ \E s \in removalCandidates[i] : DeleteOld(i, s)
  \/ \E s \in tooOld[i] : DeleteStale(i, s)

Next ==
  \/ TimePasses
  \/ \E s \in transit : Appear(s)
  \/ \E i \in Instances : \/ \E s \in bucket : Load(i, s)
                          \/ Send(i)
                          \/ \E lost \in BOOLEAN : Restart(i, lost)
                          \/ RunOnceStep(i)

Spec == Init /\ [][Next]_vars

\* Time passes, snapshots appear, and every cleaner keeps running.
Fairness ==
  /\ WF_vars(TimePasses)
  /\ WF_vars(\E s \in transit : Appear(s))
  /\ \A i \in Instances : WF_vars(RunOnceStep(i))

FairSpec == Spec /\ Fairness
--------------------------------------------------------------------------------
TypeOK ==
  /\ bucket \subseteq Stored /\ transit \subseteq Stored \ bucket
  /\ count \in [Instances -> 0..MaxSnapshots]
  /\ DOMAIN content = bucket \cup transit /\ DOMAIN age = DOMAIN content
  /\ \A s \in DOMAIN content : /\ content[s] \subseteq Stored
                       /\ age[s] \in 0..(RemoveOldInstancesInterval + 1)
  /\ lmdb \in [Instances -> SUBSET Stored]
  /\ lastByInstance \in [Instances -> [Instances -> 0..MaxSnapshots]]
  /\ waitingForOwn \subseteq Instances
  /\ committed \in [Instances -> [Instances -> 0..MaxSnapshots]]
  /\ DOMAIN snapFirstSeen = Instances
  /\ removalCandidates \in [Instances -> SUBSET Stored]
  /\ tooOld \in [Instances -> SUBSET Stored]
  /\ \A i \in Instances :
       /\ Seen(i) \subseteq Stored
       /\ \A s \in Seen(i) : snapFirstSeen[i][s] \in 0..(MustKeepInterval + 1)
       /\ removalCandidates[i] \subseteq Seen(i) /\ tooOld[i] \subseteq Seen(i)
       /\ removalCandidates[i] \cap tooOld[i] = {}
  /\ crashes \in 0..MaxEvents /\ failures \in 0..MaxEvents

\* However many cleaners delete from the bucket with RunOnce, each with its own
\* old listing, the data of every snapshot ever stored is in some snapshot there.
NoDataLost ==
  \A s \in Stored : \E t \in bucket \cup transit : s \in content[t]

\* RunOnce deletes the newest snapshot of an instance only if its timestamp is
\* older than RemoveOldInstancesInterval.
NewestIsKept ==
  [][\A s \in Newest(bucket) :
       s \in bucket' \/ age[s] > RemoveOldInstancesInterval]_vars

\* In the end RunOnce has deleted all old snapshots, whatever deletions failed.
OldAreDeleted == <>[](bucket = Newest(bucket))
================================================================================
