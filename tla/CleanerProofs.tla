----------------------------- MODULE CleanerProofs -----------------------------
(***************************************************************************)
(* No cleaner loses data, however many of them work on one bucket with old *)
(* listings, if the snapshots of an instance appear in their order.        *)
(***************************************************************************)
EXTENDS Cleaner, FiniteSetTheorems, TLAPS

Existing == bucket \cup transit

New(i) == [instance |-> i, num |-> count[i] + 1]
--------------------------------------------------------------------------------
(***************************************************************************)
(* The snapshots that were ever stored.                                    *)
(***************************************************************************)
\* There are finitely many snapshots.
LEMMA SnapshotsFinite == IsFiniteSet(Snapshots)
  <1> DEFINE P == Instances \X (1..MaxSnapshots)
             f == [p \in P |-> [instance |-> p[1], num |-> p[2]]]
  <1>1. IsFiniteSet(Instances) /\ IsFiniteSet(1..MaxSnapshots)
    BY FS_Interval, CleanerAssumption
  <1>2. IsFiniteSet(P)
    BY <1>1, FS_Product, Zenon
  <1>3. \A s \in Snapshots : \E p \in P : f[p] = s
    <2> TAKE s \in Snapshots
    <2>1. <<s.instance, s.num>> \in P /\ f[<<s.instance, s.num>>] = s
      BY Zenon DEF Snapshots
    <2> QED  BY <2>1, Zenon
  <1>4. f \in Surjection(P, Snapshots)
    <2>1. f \in [P -> Snapshots]
      BY Zenon DEF Snapshots
    <2> QED  BY <1>3, <2>1, Zenon DEF Surjection
  <1> QED  BY <1>2, <1>4, FS_Surjection, Zenon

\* Stored is a finite set, and while it is below the bound every instance is.
LEMMA StoredBound ==
  ASSUME count \in [Instances -> 0..MaxSnapshots]
  PROVE  /\ IsFiniteSet(Stored) /\ Cardinality(Stored) \in Nat
         /\ \A i \in Instances : Cardinality(Stored) < MaxSnapshots
                                 => count[i] < MaxSnapshots
  <1>1. Stored \in SUBSET Snapshots
    BY Zenon DEF Stored
  <1>2. IsFiniteSet(Stored) /\ Cardinality(Stored) \in Nat
    BY <1>1, SnapshotsFinite, FS_Subset, FS_CardinalityType, Zenon
  <1>3. ASSUME NEW i \in Instances, ~(count[i] < MaxSnapshots)
        PROVE  ~(Cardinality(Stored) < MaxSnapshots)
    <2> DEFINE f == [n \in 1..MaxSnapshots |-> [instance |-> i, num |-> n]]
    <2>1. count[i] = MaxSnapshots
      BY <1>3, CleanerAssumption
    <2>2. f \in [1..MaxSnapshots -> Stored]
      BY <2>1, CleanerAssumption DEF Stored, Snapshots
    <2>3. \A m, n \in 1..MaxSnapshots : f[m] = f[n] => m = n
      <3> TAKE m, n \in 1..MaxSnapshots
      <3>1. f[m].num = m /\ f[n].num = n
        BY Zenon
      <3> QED  BY <3>1, Zenon
    <2>4. f \in Injection(1..MaxSnapshots, Stored)
      BY <2>2, <2>3, Zenon DEF Injection, IsInjective
    <2>5. Cardinality(1..MaxSnapshots) <= Cardinality(Stored)
      BY <1>2, <2>4, FS_Injection, Zenon
    <2> QED  BY <1>2, <2>5, FS_Interval, CleanerAssumption
  <1> QED  BY <1>2, <1>3, Zenon

\* What Send does to the bucket.
LEMMA SendEffect ==
  ASSUME TypeOK, NEW i \in Instances, Send(i)
  PROVE  /\ count[i] < MaxSnapshots
         /\ New(i) \in Snapshots /\ New(i) \notin Stored
         /\ Stored' = Stored \cup {New(i)}
         /\ count' \in [Instances -> 0..MaxSnapshots]
         /\ DOMAIN content' = DOMAIN content \cup {New(i)}
         /\ DOMAIN age' = DOMAIN age \cup {New(i)}
         /\ \A s \in DOMAIN content : content'[s] = content[s] /\ age'[s] = age[s]
         /\ content'[New(i)] = lmdb[i] \cup {New(i)} /\ age'[New(i)] = 0
  <1>1. /\ count \in [Instances -> 0..MaxSnapshots]
        /\ DOMAIN content \subseteq Stored /\ DOMAIN age = DOMAIN content
    BY Zenon DEF TypeOK
  <1>2. /\ count' = [count EXCEPT ![i] = @ + 1]
        /\ content' = With(content, New(i), lmdb[i] \cup {New(i)})
        /\ age' = With(age, New(i), 0)
        /\ Cardinality(Stored) < MaxSnapshots
    BY Zenon DEF Send, New
  <1>3. count[i] < MaxSnapshots /\ count[i] \in Nat /\ MaxSnapshots \in Nat
    BY <1>1, <1>2, StoredBound, CleanerAssumption
  <1>4. New(i) \in Snapshots /\ New(i) \notin Stored
    BY <1>3 DEF New, Snapshots, Stored
  <1>5. count' \in [Instances -> 0..MaxSnapshots]
    BY <1>1, <1>2, <1>3
  <1>6. Stored' = Stored \cup {New(i)}
    <2>1. \A s \in Snapshots : s.num <= count'[s.instance]
                               <=> s.num <= count[s.instance] \/ s = New(i)
      <3> TAKE s \in Snapshots
      <3>1. s.num \in Nat /\ s.instance \in Instances
            /\ s = [instance |-> s.instance, num |-> s.num]
            /\ count[s.instance] \in Nat
        BY <1>1 DEF Snapshots
      <3>2. CASE s.instance = i
        <4>1. s = New(i) <=> s.num = count[i] + 1
          BY <3>1, <3>2 DEF New
        <4>2. count'[s.instance] = count[i] + 1
          BY <1>1, <1>2, <3>2, Zenon
        <4> QED  BY <4>1, <4>2, <3>1, <3>2
      <3>3. CASE s.instance # i
        BY <1>1, <1>2, <3>1, <3>3 DEF New
      <3> QED  BY <3>2, <3>3, Zenon
    <2> QED  BY <2>1, <1>4, Zenon DEF Stored
  <1>7. \A s \in DOMAIN content : s # New(i)
    BY <1>1, <1>4, Zenon
  <1>8. /\ DOMAIN content' = DOMAIN content \cup {New(i)}
        /\ content'[New(i)] = lmdb[i] \cup {New(i)}
        /\ \A s \in DOMAIN content : content'[s] = content[s]
    BY <1>2, <1>7, Zenon DEF With
  <1>9. /\ DOMAIN age' = DOMAIN age \cup {New(i)} /\ age'[New(i)] = 0
        /\ \A s \in DOMAIN content : age'[s] = age[s]
    BY <1>1, <1>2, <1>7, Zenon DEF With
  <1> QED  BY <1>3, <1>4, <1>5, <1>6, <1>8, <1>9, Zenon
--------------------------------------------------------------------------------
(***************************************************************************)
(* Type correctness.  It needs that nothing which was listed is in transit:*)
(* deleting it would leave a snapshot without content.                     *)
(***************************************************************************)
Known ==
  /\ \A i \in Instances : Seen(i) \cap transit = {}
  /\ \A i, j \in Instances :
       lastByInstance[i][j] <= count[j] /\ committed[i][j] <= count[j]

TypeInv == TypeOK /\ Known

\* What Delete does to the bucket if it succeeds.
Removes(s) ==
  /\ bucket' = bucket \ {s}
  /\ DOMAIN content' = DOMAIN content \ {s}
  /\ DOMAIN age' = DOMAIN age \ {s}
  /\ \A t \in DOMAIN content \ {s} : content'[t] = content[t] /\ age'[t] = age[t]
  /\ UNCHANGED <<transit, count>>

\* Delete removes the snapshot or leaves the bucket as it is.
LEMMA DeleteEffect ==
  ASSUME TypeOK, NEW s, Delete(s), UNCHANGED <<transit, count>>
  PROVE  /\ Removes(s) \/ UNCHANGED <<bucket, content, age>>
         /\ failures' \in 0..MaxEvents
  <1>1. DOMAIN age = DOMAIN content /\ failures \in 0..MaxEvents /\ crashes \in Nat
    BY DEF TypeOK
  <1>2. CASE /\ bucket' = bucket \ {s}
             /\ content' = Restrict(content, DOMAIN content \ {s})
             /\ age' = Restrict(age, DOMAIN age \ {s})
             /\ UNCHANGED failures
    BY <1>1, <1>2, Zenon DEF Removes, Restrict
  <1>3. CASE Room /\ failures' = failures + 1 /\ UNCHANGED <<bucket, content, age>>
    <2>1. Cardinality(Stored) \in Nat
      BY StoredBound, Zenon DEF TypeOK
    <2> QED  BY <1>1, <1>3, <2>1, CleanerAssumption DEF Room
  <1> QED  BY <1>2, <1>3, Zenon DEF Delete

\* The types hold initially.
LEMMA InitTypes ==
  ASSUME Init
  PROVE  TypeInv
  <1> DEFINE s == [instance |-> First, num |-> 1]
  <1>1. /\ bucket = {} /\ transit = {s}
        /\ count = [i \in Instances |-> IF i = First THEN 1 ELSE 0]
        /\ content = [x \in {s} |-> {s}] /\ age = [x \in {s} |-> 0]
        /\ lmdb = [i \in Instances |-> IF i = First THEN {s} ELSE {}]
        /\ snapFirstSeen = [i \in Instances |-> <<>>]
    BY Zenon DEF Init
  <1>2. s \in Stored
    BY <1>1, CleanerAssumption DEF Stored, Snapshots
  <1>3. \A i \in Instances : Seen(i) = {}
    BY <1>1 DEF Seen
  <1>4. /\ count \in [Instances -> 0..MaxSnapshots]
        /\ lastByInstance \in [Instances -> [Instances -> 0..MaxSnapshots]]
        /\ committed \in [Instances -> [Instances -> 0..MaxSnapshots]]
        /\ waitingForOwn \subseteq Instances
        /\ crashes \in 0..MaxEvents /\ failures \in 0..MaxEvents
        /\ \A i, j \in Instances :
             lastByInstance[i][j] <= count[j] /\ committed[i][j] <= count[j]
    BY CleanerAssumption DEF Init, NoneLoaded
  <1>5. lmdb \in [Instances -> SUBSET Stored]
    BY <1>1, <1>2, Zenon
  <1>6. /\ \A i \in Instances : removalCandidates[i] = {} /\ tooOld[i] = {}
        /\ removalCandidates \in [Instances -> SUBSET Stored]
        /\ tooOld \in [Instances -> SUBSET Stored]
        /\ DOMAIN snapFirstSeen = Instances
    BY Zenon DEF Init
  <1>7. /\ DOMAIN content = {s} /\ DOMAIN age = {s}
        /\ content[s] \subseteq Stored
        /\ age[s] \in 0..(RemoveOldInstancesInterval + 1)
    BY <1>1, <1>2, CleanerAssumption
  <1> QED  BY <1>1, <1>2, <1>3, <1>4, <1>5, <1>6, <1>7, Zenon DEF TypeInv, TypeOK, Known

\* Send keeps the types.
LEMMA SendTypes ==
  ASSUME TypeInv, NEW i \in Instances, Send(i)
  PROVE  TypeInv'
  <1> USE DEF TypeInv
  <1>1. /\ New(i) \notin Stored /\ Stored' = Stored \cup {New(i)}
        /\ count' \in [Instances -> 0..MaxSnapshots]
        /\ DOMAIN content' = DOMAIN content \cup {New(i)}
        /\ DOMAIN age' = DOMAIN age \cup {New(i)}
        /\ \A s \in DOMAIN content : content'[s] = content[s] /\ age'[s] = age[s]
        /\ content'[New(i)] = lmdb[i] \cup {New(i)} /\ age'[New(i)] = 0
    BY SendEffect, Zenon
  <1>2. /\ transit' = transit \cup {New(i)} /\ bucket' = bucket
        /\ lmdb' = [lmdb EXCEPT ![i] = lmdb[i] \cup {New(i)}]
        /\ waitingForOwn' = waitingForOwn \ {i}
        /\ count' = [count EXCEPT ![i] = @ + 1]
        /\ committed' = [committed EXCEPT ![i] =
             [j \in Instances |-> IF lastByInstance[i][j] # 0
                                  THEN lastByInstance[i][j] ELSE @[j]]]
        /\ UNCHANGED <<lastByInstance, snapFirstSeen, removalCandidates, tooOld,
                       crashes, failures>>
    BY Zenon DEF Send, New, runVars
  <1>3. /\ bucket' \subseteq Stored' /\ transit' \subseteq Stored' \ bucket'
        /\ DOMAIN content' = bucket' \cup transit' /\ DOMAIN age' = DOMAIN content'
    BY <1>1, <1>2 DEF TypeOK
  <1>4. \A s \in DOMAIN content' : /\ content'[s] \subseteq Stored'
                       /\ age'[s] \in 0..(RemoveOldInstancesInterval + 1)
    BY <1>1, CleanerAssumption DEF TypeOK
  <1>5. lmdb' \in [Instances -> SUBSET Stored']
    BY <1>1, <1>2 DEF TypeOK
  <1>6. committed' \in [Instances -> [Instances -> 0..MaxSnapshots]]
    BY <1>2 DEF TypeOK
  <1>7. \A k \in Instances : Seen(k)' = Seen(k)
    BY <1>2, Zenon DEF Seen
  <1>8. \A k \in Instances : Seen(k) \cap transit' = {}
    BY <1>1, <1>2 DEF TypeOK, Known
  <1>9. \A k, j \in Instances : lastByInstance'[k][j] <= count'[j]
    BY <1>2 DEF TypeOK, Known
  <1>10. \A k, j \in Instances : committed'[k][j] <= count'[j]
    <2> TAKE k, j \in Instances
    <2>1. count[j] <= count'[j] /\ count[j] \in Nat /\ count'[j] \in Nat
      BY <1>2 DEF TypeOK
    <2>2. committed'[k][j] = committed[k][j] \/ committed'[k][j] = lastByInstance[k][j]
      BY <1>2, Zenon DEF TypeOK
    <2>3. /\ committed[k][j] \in Nat /\ committed[k][j] <= count[j]
          /\ lastByInstance[k][j] \in Nat /\ lastByInstance[k][j] <= count[j]
      BY DEF TypeOK, Known
    <2> QED  BY <2>1, <2>2, <2>3
  <1>11. Known'
    BY <1>7, <1>8, <1>9, <1>10, Zenon DEF Known
  <1>12. /\ waitingForOwn' \subseteq Instances
         /\ lastByInstance' \in [Instances -> [Instances -> 0..MaxSnapshots]]
         /\ crashes' \in 0..MaxEvents /\ failures' \in 0..MaxEvents
         /\ DOMAIN snapFirstSeen' = Instances
         /\ removalCandidates' \in [Instances -> SUBSET Stored']
         /\ tooOld' \in [Instances -> SUBSET Stored']
    BY <1>1, <1>2, Zenon DEF TypeOK
  <1>13. \A k \in Instances :
           /\ Seen(k)' \subseteq Stored'
           /\ \A s \in Seen(k)' : snapFirstSeen'[k][s] \in 0..(MustKeepInterval + 1)
           /\ removalCandidates'[k] \subseteq Seen(k)' /\ tooOld'[k] \subseteq Seen(k)'
           /\ removalCandidates'[k] \cap tooOld'[k] = {}
    BY <1>1, <1>2, <1>7 DEF TypeOK
  <1> QED
    BY <1>1, <1>3, <1>4, <1>5, <1>6, <1>11, <1>12, <1>13, Zenon DEF TypeOK

\* The other steps of syncers, and time, keep the types.
LEMMA SyncTypes ==
  ASSUME TypeInv, TimePasses \/ (\E s \in transit : Appear(s))
                  \/ (\E i \in Instances : \/ \E s \in bucket : Load(i, s)
                                           \/ \E lost \in BOOLEAN : Restart(i, lost))
  PROVE  TypeInv'
  <1> USE DEF TypeInv
  <1>1. ASSUME TimePasses
        PROVE  TypeInv'
    <2>1. /\ age' = Tick(age, RemoveOldInstancesInterval)
          /\ snapFirstSeen' =
               [i \in Instances |-> Tick(snapFirstSeen[i], MustKeepInterval)]
          /\ UNCHANGED <<bucket, transit, count, content, lmdb, lastByInstance,
                         waitingForOwn, committed, removalCandidates, tooOld,
                         crashes, failures>>
      BY <1>1, Zenon DEF TimePasses, syncVars
    <2>2. Stored' = Stored
      BY <2>1, Zenon DEF Stored
    <2>3. \A i \in Instances : Seen(i)' = Seen(i)
      BY <2>1, Zenon DEF Seen, Tick
    <2>4. \A i \in Instances : \A s \in Seen(i) :
            snapFirstSeen'[i][s] \in 0..(MustKeepInterval + 1)
      BY <2>1, CleanerAssumption DEF Seen, Tick, TypeOK
    <2>5. DOMAIN age' = DOMAIN age /\ \A s \in DOMAIN age :
            age'[s] \in 0..(RemoveOldInstancesInterval + 1)
      BY <2>1, CleanerAssumption DEF Tick, TypeOK
    <2>6. Known'
      BY <2>1, <2>3, Zenon DEF Known
    <2> QED  BY <2>1, <2>2, <2>3, <2>4, <2>5, <2>6 DEF TypeOK
  <1>2. ASSUME NEW s \in transit, Appear(s)
        PROVE  TypeInv'
    <2>1. /\ transit' = transit \ {s} /\ bucket' = bucket \cup {s}
          /\ UNCHANGED <<count, content, age, lmdb, lastByInstance, waitingForOwn,
                         committed, snapFirstSeen, removalCandidates, tooOld,
                         crashes, failures>>
      BY <1>2, Zenon DEF Appear, syncVars, runVars
    <2>2. Stored' = Stored /\ \A i \in Instances : Seen(i)' = Seen(i)
      BY <2>1, Zenon DEF Stored, Seen
    <2>3. /\ bucket' \subseteq Stored /\ transit' \subseteq Stored \ bucket'
          /\ bucket' \cup transit' = bucket \cup transit
      BY <2>1 DEF TypeOK
    <2>4. Known'
      BY <2>1, <2>2, Zenon DEF Known
    <2> QED  BY <2>1, <2>2, <2>3, <2>4 DEF TypeOK
  <1>3. ASSUME NEW i \in Instances, NEW s \in bucket, Load(i, s)
        PROVE  TypeInv'
    <2>1. /\ lmdb' = [lmdb EXCEPT ![i] = @ \cup content[s]]
          /\ lastByInstance' = [lastByInstance EXCEPT ![i][s.instance] = s.num]
          /\ waitingForOwn' = waitingForOwn \ (IF s.instance = i THEN {i} ELSE {})
          /\ UNCHANGED <<bucket, transit, count, content, age, committed,
                         snapFirstSeen, removalCandidates, tooOld, crashes,
                         failures>>
      BY <1>3, Zenon DEF Load, bucketVars, runVars
    <2>2. Stored' = Stored /\ \A k \in Instances : Seen(k)' = Seen(k)
      BY <2>1, Zenon DEF Stored, Seen
    <2>3. /\ s \in DOMAIN content /\ content[s] \subseteq Stored
          /\ s.instance \in Instances /\ s.num \in 1..MaxSnapshots
          /\ s.num <= count[s.instance]
      BY Zenon DEF TypeOK, Stored, Snapshots
    <2>4. /\ lmdb' \in [Instances -> SUBSET Stored]
          /\ lastByInstance' \in [Instances -> [Instances -> 0..MaxSnapshots]]
          /\ waitingForOwn' \subseteq Instances
      BY <2>1, <2>3, SMTT(30) DEF TypeOK
    <2>5. \A k, j \in Instances : lastByInstance'[k][j] <= count[j]
      <3> TAKE k, j \in Instances
      <3>1. \/ lastByInstance'[k][j] = lastByInstance[k][j]
            \/ lastByInstance'[k][j] = s.num /\ j = s.instance
        BY <2>1, <2>3, Zenon DEF TypeOK
      <3> QED  BY <3>1, <2>3, Zenon DEF Known
    <2>6. Known'
      BY <2>1, <2>2, <2>5, Zenon DEF Known
    <2> QED  BY <2>1, <2>2, <2>4, <2>6, SMTT(30) DEF TypeOK
  <1>4. ASSUME NEW i \in Instances, NEW lost \in BOOLEAN, Restart(i, lost)
        PROVE  TypeInv'
    <2>1. /\ crashes' = crashes + 1
          /\ lmdb' = IF lost THEN [lmdb EXCEPT ![i] = {}] ELSE lmdb
          /\ lastByInstance' = [lastByInstance EXCEPT ![i] = NoneLoaded]
          /\ waitingForOwn' =
               (waitingForOwn \ {i}) \cup (IF Own(i) = {} THEN {} ELSE {i})
          /\ committed' = [committed EXCEPT ![i] = NoneLoaded]
          /\ snapFirstSeen' = [snapFirstSeen EXCEPT ![i] = <<>>]
          /\ removalCandidates' = [removalCandidates EXCEPT ![i] = {}]
          /\ tooOld' = [tooOld EXCEPT ![i] = {}]
          /\ UNCHANGED <<bucket, transit, count, content, age, failures>>
          /\ Room
      BY <1>4, Zenon DEF Restart, bucketVars
    <2>2. Stored' = Stored
      BY <2>1, Zenon DEF Stored
    <2>3. crashes' \in 0..MaxEvents
      <3>1. Cardinality(Stored) \in Nat
        BY StoredBound, Zenon DEF TypeOK
      <3>2. crashes \in Nat /\ failures \in Nat /\ MaxEvents \in Nat
        BY CleanerAssumption DEF TypeOK
      <3>3. Cardinality(Stored) + crashes + failures < MaxEvents
        BY <2>1, Zenon DEF Room
      <3>4. crashes + 1 \in 0..MaxEvents
        BY <3>1, <3>2, <3>3
      <3> QED  BY <2>1, <3>4, Zenon
    <2>4. NoneLoaded \in [Instances -> 0..MaxSnapshots]
      BY CleanerAssumption DEF NoneLoaded
    <2>5. /\ lmdb' \in [Instances -> SUBSET Stored]
          /\ lastByInstance' \in [Instances -> [Instances -> 0..MaxSnapshots]]
          /\ committed' \in [Instances -> [Instances -> 0..MaxSnapshots]]
          /\ waitingForOwn' \subseteq Instances
      BY <2>1, <2>4, Zenon DEF TypeOK
    <2>6. \A k \in Instances :
            /\ k # i => snapFirstSeen'[k] = snapFirstSeen[k]
            /\ k = i => Seen(k)' = {}
            /\ k # i => /\ removalCandidates'[k] = removalCandidates[k]
                        /\ tooOld'[k] = tooOld[k]
            /\ k = i => removalCandidates'[k] = {} /\ tooOld'[k] = {}
      BY <2>1, SMTT(30) DEF Seen, TypeOK
    <2>7. /\ DOMAIN snapFirstSeen' = Instances
          /\ removalCandidates' \in [Instances -> SUBSET Stored]
          /\ tooOld' \in [Instances -> SUBSET Stored]
      BY <2>1, Zenon DEF TypeOK
    <2>8. \A k \in Instances :
            /\ Seen(k)' \subseteq Stored
            /\ \A s \in Seen(k)' : snapFirstSeen'[k][s] \in 0..(MustKeepInterval + 1)
            /\ removalCandidates'[k] \subseteq Seen(k)' /\ tooOld'[k] \subseteq Seen(k)'
            /\ removalCandidates'[k] \cap tooOld'[k] = {}
            /\ Seen(k)' \cap transit = {}
      BY <2>6, SMTT(30) DEF TypeOK, Known, Seen
    <2>9. \A k, j \in Instances :
             lastByInstance'[k][j] <= count[j] /\ committed'[k][j] <= count[j]
      <3> TAKE k, j \in Instances
      <3>1. CASE k = i
        BY <2>1, <3>1, SMTT(30) DEF TypeOK, NoneLoaded
      <3>2. CASE k # i
        BY <2>1, <3>2, Zenon DEF TypeOK, Known
      <3> QED  BY <3>1, <3>2, Zenon
    <2>10. Known'
      BY <2>1, <2>8, <2>9, Zenon DEF Known
    <2> QED  BY <2>1, <2>2, <2>3, <2>5, <2>7, <2>8, <2>10, Zenon DEF TypeOK
  <1> QED  BY <1>1, <1>2, <1>3, <1>4, Zenon

\* The steps of the cleaners keep the types.
LEMMA CleanerTypes ==
  ASSUME TypeInv, NEW i \in Instances, RunOnceStep(i)
  PROVE  TypeInv'
  <1> USE DEF TypeInv
  <1>1. ASSUME List(i)
        PROVE  TypeInv'
    <2>1. /\ snapFirstSeen' = [snapFirstSeen EXCEPT ![i] =
               [s \in bucket |-> IF s \in Seen(i) THEN @[s] ELSE 0]]
          /\ removalCandidates' = [removalCandidates EXCEPT ![i] = Removable(i)]
          /\ tooOld' = [tooOld EXCEPT ![i] = Stale(i)]
          /\ UNCHANGED <<bucket, transit, count, content, age, lmdb, lastByInstance,
                         waitingForOwn, committed, crashes, failures>>
      BY <1>1, Zenon DEF List, bucketVars, syncVars
    <2>2. Stored' = Stored
      BY <2>1, Zenon DEF Stored
    <2>3. /\ Removable(i) \subseteq bucket /\ Stale(i) \subseteq bucket
          /\ Removable(i) \cap Stale(i) = {} /\ bucket \subseteq Stored
      BY Zenon DEF Removable, Stale, Considered, TypeOK
    <2>4. \A k \in Instances :
            /\ k # i => /\ snapFirstSeen'[k] = snapFirstSeen[k]
                        /\ Seen(k)' = Seen(k)
                        /\ removalCandidates'[k] = removalCandidates[k]
                        /\ tooOld'[k] = tooOld[k]
            /\ k = i => /\ Seen(k)' = bucket
                        /\ removalCandidates'[k] = Removable(i)
                        /\ tooOld'[k] = Stale(i)
      BY <2>1, Zenon DEF Seen, TypeOK
    <2>5. \A s \in bucket : snapFirstSeen'[i][s] \in 0..(MustKeepInterval + 1)
      BY <2>1, CleanerAssumption DEF TypeOK, Seen
    <2>6. /\ DOMAIN snapFirstSeen' = Instances
          /\ removalCandidates' \in [Instances -> SUBSET Stored]
          /\ tooOld' \in [Instances -> SUBSET Stored]
      BY <2>1, <2>3, Zenon DEF TypeOK
    <2>7. \A k \in Instances :
            /\ Seen(k)' \subseteq Stored
            /\ \A s \in Seen(k)' : snapFirstSeen'[k][s] \in 0..(MustKeepInterval + 1)
            /\ removalCandidates'[k] \subseteq Seen(k)' /\ tooOld'[k] \subseteq Seen(k)'
            /\ removalCandidates'[k] \cap tooOld'[k] = {}
            /\ Seen(k)' \cap transit = {}
      <3> TAKE k \in Instances
      <3>1. CASE k = i
        BY <2>3, <2>4, <2>5, <3>1 DEF TypeOK
      <3>2. CASE k # i
        BY <2>4, <3>2 DEF TypeOK, Known
      <3> QED  BY <3>1, <3>2, Zenon
    <2>8. Known'
      BY <2>1, <2>7, Zenon DEF Known
    <2> QED  BY <2>1, <2>2, <2>6, <2>7, <2>8, Zenon DEF TypeOK
  <1>2. ASSUME NEW s \in removalCandidates[i] \cup tooOld[i],
               UNCHANGED <<transit, count, syncVars, snapFirstSeen, crashes>>,
               \A k \in Instances : /\ removalCandidates'[k] \subseteq removalCandidates[k]
                                    /\ tooOld'[k] \subseteq tooOld[k],
               DOMAIN removalCandidates' = Instances, DOMAIN tooOld' = Instances,
               removalCandidates' \in [Instances -> SUBSET Stored],
               tooOld' \in [Instances -> SUBSET Stored],
               Delete(s) \/ UNCHANGED <<bucket, content, age, failures>>
        PROVE  TypeInv'
    <2>1. UNCHANGED <<transit, count, lmdb, lastByInstance, waitingForOwn, committed,
                      snapFirstSeen, crashes>>
      BY <1>2, Zenon DEF syncVars
    <2>2. Stored' = Stored /\ \A k \in Instances : Seen(k)' = Seen(k)
      BY <2>1, Zenon DEF Stored, Seen
    <2>3. s \notin transit
      BY Zenon DEF TypeOK, Known
    <2>4. /\ Removes(s) \/ UNCHANGED <<bucket, content, age>>
          /\ failures' \in 0..MaxEvents
      <3>1. CASE Delete(s)
        BY <2>1, <3>1, DeleteEffect, Zenon
      <3>2. CASE UNCHANGED <<bucket, content, age, failures>>
        BY <3>2, Zenon DEF TypeOK
      <3> QED  BY <1>2, <3>1, <3>2, Zenon
    <2>5. /\ bucket' \subseteq Stored /\ transit' \subseteq Stored \ bucket'
          /\ DOMAIN content' = bucket' \cup transit' /\ DOMAIN age' = DOMAIN content'
          /\ \A t \in DOMAIN content' : /\ content'[t] \subseteq Stored
                       /\ age'[t] \in 0..(RemoveOldInstancesInterval + 1)
      <3>1. CASE Removes(s)
        BY <2>1, <2>3, <3>1, ZenonT(30) DEF TypeOK, Removes
      <3>2. CASE UNCHANGED <<bucket, content, age>>
        BY <2>1, <3>2, Zenon DEF TypeOK
      <3> QED  BY <2>4, <3>1, <3>2, Zenon
    <2>6. \A k \in Instances :
            /\ removalCandidates'[k] \subseteq Seen(k) /\ tooOld'[k] \subseteq Seen(k)
            /\ removalCandidates'[k] \cap tooOld'[k] = {}
      BY <1>2, Zenon DEF TypeOK
    <2>7. Known'
      BY <2>1, <2>2, Zenon DEF Known
    <2> QED  BY <1>2, <2>1, <2>2, <2>4, <2>5, <2>6, <2>7, SMTT(30) DEF TypeOK
  <1>3. ASSUME NEW s \in removalCandidates[i], DeleteOld(i, s)
        PROVE  TypeInv'
    <2>1. /\ removalCandidates' = [removalCandidates EXCEPT ![i] = @ \ {s}]
          /\ UNCHANGED <<transit, count, syncVars, snapFirstSeen, crashes>>
          /\ tooOld' = tooOld /\ Delete(s)
      BY <1>3, Zenon DEF DeleteOld
    <2> QED  BY <2>1, <1>2, Zenon DEF TypeOK
  <1>4. ASSUME NEW s \in tooOld[i], DeleteStale(i, s)
        PROVE  TypeInv'
    <2>1. /\ tooOld' = [tooOld EXCEPT ![i] = @ \ {s}]
          /\ UNCHANGED <<transit, count, syncVars, snapFirstSeen, crashes>>
          /\ removalCandidates' = removalCandidates
          /\ Delete(s) \/ UNCHANGED <<bucket, content, age, failures>>
      BY <1>4, Zenon DEF DeleteStale
    <2> QED  BY <2>1, <1>2, Zenon DEF TypeOK
  <1> QED  BY <1>1, <1>3, <1>4, Zenon DEF RunOnceStep

\* Every step keeps the types.
LEMMA TypesKept ==
  ASSUME TypeInv, [Next]_vars
  PROVE  TypeInv'
  <1>1. CASE UNCHANGED vars
    BY <1>1, ZenonT(30)
    DEF TypeInv, TypeOK, Known, vars, bucketVars, syncVars, runVars, Seen,
                Stored
  <1> QED  BY <1>1, SendTypes, SyncTypes, CleanerTypes, Zenon DEF Next
--------------------------------------------------------------------------------
(***************************************************************************)
(* What the order of appearance gives a cleaner: if it has seen a snapshot,*)
(* then it has seen the older ones for at least as long, so that those it  *)
(* considers recent are newer than the ones it considers for removal.      *)
(***************************************************************************)
OrderInv ==
  /\ \A t \in transit : /\ \A s \in bucket : ~Newer(s, t)
                        /\ \A i \in Instances : \A s \in Seen(i) : ~Newer(s, t)
  /\ \A i \in Instances : \A s \in Seen(i), t \in bucket :
       Newer(s, t) => t \in Seen(i) /\ snapFirstSeen[i][s] <= snapFirstSeen[i][t]

\* Every step keeps the order.
LEMMA OrderKept ==
  ASSUME TypeInv, OrderInv, InOrder, [Next]_vars
  PROVE  OrderInv'
  <1> USE DEF TypeInv
  <1>1. ASSUME TimePasses
        PROVE  OrderInv'
    <2>1. /\ snapFirstSeen' =
               [i \in Instances |-> Tick(snapFirstSeen[i], MustKeepInterval)]
          /\ bucket' = bucket /\ transit' = transit
      BY <1>1, Zenon DEF TimePasses
    <2>2. \A i \in Instances :
            /\ Seen(i)' = Seen(i)
            /\ \A s \in Seen(i) : snapFirstSeen'[i][s] =
                 IF snapFirstSeen[i][s] > MustKeepInterval
                 THEN snapFirstSeen[i][s] ELSE snapFirstSeen[i][s] + 1
      BY <2>1, Zenon DEF Seen, Tick
    <2>3. ASSUME NEW i \in Instances, NEW s \in Seen(i), NEW t \in Seen(i),
                 snapFirstSeen[i][s] <= snapFirstSeen[i][t]
          PROVE  snapFirstSeen'[i][s] <= snapFirstSeen'[i][t]
      <3>1. /\ snapFirstSeen[i][s] \in 0..(MustKeepInterval + 1)
            /\ snapFirstSeen[i][t] \in 0..(MustKeepInterval + 1)
        BY Zenon DEF TypeOK
      <3> QED  BY <2>2, <2>3, <3>1, CleanerAssumption
    <2> QED  BY <2>1, <2>2, <2>3 DEF OrderInv
  <1>2. ASSUME NEW s \in transit, Appear(s)
        PROVE  OrderInv'
    <2>1. /\ transit' = transit \ {s} /\ bucket' = bucket \cup {s}
          /\ snapFirstSeen' = snapFirstSeen
          /\ \A t \in transit : ~Newer(s, t)
      BY <1>2, Zenon DEF Appear, runVars
    <2>2. \A i \in Instances : Seen(i)' = Seen(i)
      BY <2>1, Zenon DEF Seen
    <2> QED  BY <2>1, <2>2, Zenon DEF OrderInv
  <1>3. ASSUME NEW i \in Instances, Send(i)
        PROVE  OrderInv'
    <2>1. /\ transit' = transit \cup {New(i)} /\ bucket' = bucket
          /\ snapFirstSeen' = snapFirstSeen
      BY <1>3, Zenon DEF Send, New, runVars
    <2>2. \A k \in Instances : Seen(k)' = Seen(k)
      BY <2>1, SMTT(30) DEF Seen
    <2>3. \A s \in Stored : ~Newer(s, New(i))
      BY SMTT(30) DEF Stored, Snapshots, Newer, New, TypeOK
    <2>4. bucket \subseteq Stored /\ \A k \in Instances : Seen(k) \subseteq Stored
      BY Zenon DEF TypeOK
    <2> QED  BY <2>1, <2>2, <2>3, <2>4, Zenon DEF OrderInv
  <1>4. ASSUME NEW i \in Instances, NEW lost \in BOOLEAN, Restart(i, lost)
        PROVE  OrderInv'
    <2>1. /\ snapFirstSeen' = [snapFirstSeen EXCEPT ![i] = <<>>]
          /\ bucket' = bucket /\ transit' = transit
      BY <1>4, Zenon DEF Restart, bucketVars
    <2>2. \A k \in Instances :
            /\ k # i => snapFirstSeen'[k] = snapFirstSeen[k] /\ Seen(k)' = Seen(k)
            /\ k = i => Seen(k)' = {}
      BY <2>1 DEF Seen, TypeOK
    <2>3. ASSUME NEW k \in Instances, NEW s \in Seen(k)'
          PROVE  k # i
      BY <2>2, <2>3, Zenon
    <2> QED  BY <2>1, <2>2, <2>3 DEF OrderInv
  <1>5. ASSUME NEW i \in Instances, List(i)
        PROVE  OrderInv'
    <2>1. /\ snapFirstSeen' = [snapFirstSeen EXCEPT ![i] =
               [s \in bucket |-> IF s \in Seen(i) THEN @[s] ELSE 0]]
          /\ bucket' = bucket /\ transit' = transit
      BY <1>5, Zenon DEF List, bucketVars
    <2>2. \A k \in Instances :
            /\ k # i => snapFirstSeen'[k] = snapFirstSeen[k] /\ Seen(k)' = Seen(k)
            /\ k = i => /\ Seen(k)' = bucket
                        /\ \A s \in bucket : snapFirstSeen'[k][s] =
                             IF s \in Seen(i) THEN snapFirstSeen[i][s] ELSE 0
      BY <2>1, Zenon DEF Seen, TypeOK
    <2>3. \A k \in Instances, t \in transit : \A s \in Seen(k)' : ~Newer(s, t)
      BY <2>2, Zenon DEF OrderInv
    <2>4. ASSUME NEW k \in Instances, NEW s \in Seen(k)', NEW t \in bucket, Newer(s, t)
          PROVE  t \in Seen(k)' /\ snapFirstSeen'[k][s] <= snapFirstSeen'[k][t]
      <3>1. CASE k # i
        BY <2>2, <2>4, <3>1, Zenon DEF OrderInv
      <3>2. CASE k = i /\ s \in Seen(i)
        BY <2>2, <2>4, <3>2, Zenon DEF OrderInv
      <3>3. CASE k = i /\ s \notin Seen(i)
        <4>1. t \in Seen(i) => snapFirstSeen[i][t] \in 0..(MustKeepInterval + 1)
          BY Zenon DEF TypeOK
        <4> QED  BY <2>2, <3>3, <4>1
      <3> QED  BY <3>1, <3>2, <3>3, Zenon
    <2> QED  BY <2>1, <2>3, <2>4, Zenon DEF OrderInv
  <1>6. ASSUME bucket' \subseteq bucket, UNCHANGED <<transit, snapFirstSeen>>
        PROVE  OrderInv'
    BY <1>6, Zenon DEF OrderInv, Seen
  <1>7. ASSUME NEW s, Delete(s)
        PROVE  bucket' \subseteq bucket
    BY <1>7, Zenon DEF Delete
  <1>8. ASSUME NEW i \in Instances, NEW s, DeleteOld(i, s) \/ DeleteStale(i, s)
        PROVE  OrderInv'
    BY <1>6, <1>7, <1>8, Zenon DEF DeleteOld, DeleteStale
  <1>9. ASSUME NEW i \in Instances, NEW s, Load(i, s)
        PROVE  OrderInv'
    BY <1>6, <1>9, Zenon DEF Load, bucketVars, runVars
  <1>10. CASE UNCHANGED vars
    BY <1>6, <1>10, Zenon DEF vars, bucketVars, runVars
  <1> QED
    BY <1>1, <1>2, <1>3, <1>4, <1>5, <1>8, <1>9, <1>10, Zenon DEF Next, RunOnceStep

\* What the two filters of RunOnce select is older than something in the bucket.
LEMMA RemovableHasNewer ==
  ASSUME TypeInv, OrderInv, NEW i \in Instances, NEW s \in Removable(i)
  PROVE  s \in bucket /\ \E t \in bucket : Newer(t, s)
  <1>1. s \in bucket /\ s \in Seen(i) /\ s \notin Recent(i)
    BY Zenon DEF Removable, Considered
  <1>2. ASSUME NEW t \in Recent(i), t.instance = s.instance
        PROVE  Newer(t, s)
    <2>1. t \in bucket /\ t \in Seen(i) /\ t # s
      BY <1>1, Zenon DEF Recent
    <2>2. /\ snapFirstSeen[i][t] <= MustKeepInterval
          /\ ~(snapFirstSeen[i][s] <= MustKeepInterval)
      BY <1>1, Zenon DEF Recent
    <2>3. /\ snapFirstSeen[i][s] \in Nat /\ snapFirstSeen[i][t] \in Nat
      BY <1>1, <2>1 DEF TypeInv, TypeOK
    <2>4. ~Newer(s, t)
      BY <1>1, <2>1, <2>2, <2>3, CleanerAssumption DEF OrderInv
    <2>5. s \in Snapshots /\ t \in Snapshots
      BY <1>1, <2>1, Zenon DEF TypeInv, TypeOK, Stored
    <2> QED  BY <1>2, <2>1, <2>4, <2>5 DEF Newer, Snapshots
  <1>3. Recent(i) \subseteq bucket /\ Considered(i) \subseteq bucket
    BY Zenon DEF Recent, Considered
  <1>4. CASE \E t \in Recent(i) : t.instance = s.instance
    BY <1>1, <1>2, <1>3, <1>4, Zenon
  <1>5. CASE s \notin Newest(Considered(i))
    BY <1>1, <1>3, <1>5, Zenon DEF Newest, Removable
  <1> QED  BY <1>4, <1>5, Zenon DEF Removable
--------------------------------------------------------------------------------
(***************************************************************************)
(* The newest snapshot of an instance.  What a cleaner found to be old has *)
(* a newer one in the bucket, unless another cleaner has deleted that one  *)
(* because of its age; but then the old one is of that age as well.        *)
(***************************************************************************)
AgeInv ==
  /\ \A s, t \in Existing : Newer(t, s) => age[t] <= age[s]
  /\ \A i \in Instances :
       /\ \A s \in tooOld[i] \cap bucket : age[s] > RemoveOldInstancesInterval
       /\ \A s \in removalCandidates[i] \cap bucket :
            \/ age[s] > RemoveOldInstancesInterval
            \/ \E t \in bucket : Newer(t, s)

\* The steps that delete nothing keep the ages in order.
LEMMA OthersKeepAges ==
  ASSUME TypeInv, OrderInv, AgeInv,
         TimePasses \/ (\E s \in transit : Appear(s))
         \/ (\E i \in Instances : \/ \E s \in bucket : Load(i, s)
                                  \/ Send(i)
                                  \/ \E lost \in BOOLEAN : Restart(i, lost)
                                  \/ List(i))
  PROVE  AgeInv'
  <1> USE DEF TypeInv
  <1>0. /\ \A s \in Existing : age[s] \in 0..(RemoveOldInstancesInterval + 1)
        /\ Existing = DOMAIN age /\ DOMAIN content = DOMAIN age
        /\ Existing \subseteq Stored
    BY Zenon DEF TypeOK, Existing
  <1>1. ASSUME TimePasses
        PROVE  AgeInv'
    <2>1. /\ age' = Tick(age, RemoveOldInstancesInterval)
          /\ UNCHANGED <<bucket, transit, removalCandidates, tooOld>>
      BY <1>1, SMTT(30) DEF TimePasses
    <2>2. /\ Existing' = Existing
          /\ \A s \in Existing : age'[s] = IF age[s] > RemoveOldInstancesInterval
                                           THEN age[s] ELSE age[s] + 1
      BY <1>0, <2>1, Zenon DEF Tick, Existing
    <2>3. \A s, t \in Existing : age[t] <= age[s] => age'[t] <= age'[s]
      BY <1>0, <2>2, CleanerAssumption, SMTT(30)
    <2>4. \A s \in Existing : age[s] > RemoveOldInstancesInterval
                              => age'[s] > RemoveOldInstancesInterval
      BY <1>0, <2>2, CleanerAssumption, Zenon
    <2>5. bucket \subseteq Existing
      BY Zenon DEF Existing
    <2> QED  BY <2>1, <2>2, <2>3, <2>4, <2>5, Zenon DEF AgeInv
  <1>2. ASSUME NEW s \in transit, Appear(s)
        PROVE  AgeInv'
    <2>1. /\ transit' = transit \ {s} /\ bucket' = bucket \cup {s}
          /\ UNCHANGED <<age, removalCandidates, tooOld>>
      BY <1>2, Zenon DEF Appear, runVars
    <2>2. Existing' = Existing
      BY <2>1, Zenon DEF Existing
    <2>3. \A i \in Instances : s \notin removalCandidates[i] /\ s \notin tooOld[i]
      BY Zenon DEF TypeOK, Known
    <2> QED  BY <2>1, <2>2, <2>3, Zenon DEF AgeInv
  <1>3. ASSUME NEW i \in Instances, Send(i)
        PROVE  AgeInv'
    <2>1. /\ transit' = transit \cup {New(i)} /\ bucket' = bucket
          /\ UNCHANGED <<removalCandidates, tooOld>>
      BY <1>3, Zenon DEF Send, New, runVars
    <2>2. /\ \A s \in Existing : age'[s] = age[s]
          /\ age'[New(i)] = 0
      BY <1>0, <1>3, SendEffect, Zenon
    <2>3. Existing' = Existing \cup {New(i)} /\ bucket \subseteq Existing
      BY <2>1, SMTT(30) DEF Existing
    <2>4. \A s \in Stored : ~Newer(s, New(i))
      BY SMTT(30) DEF Stored, Snapshots, Newer, New, TypeOK
    <2>5. \A s, t \in Existing' : Newer(t, s) => age'[t] <= age'[s]
      <3> SUFFICES ASSUME NEW s \in Existing', NEW t \in Existing', Newer(t, s)
                   PROVE  age'[t] <= age'[s]
        BY Zenon
      <3>1. CASE t = New(i)
        BY <1>0, <2>2, <2>3, <3>1, SMTT(30)
      <3>2. CASE t # New(i)
        <4>1. t \in Existing /\ s \in Existing
          BY <1>0, <2>3, <2>4, <3>2, Zenon
        <4> QED  BY <2>2, <4>1, Zenon DEF AgeInv
      <3> QED  BY <3>1, <3>2, Zenon
    <2> QED  BY <2>1, <2>2, <2>3, <2>5, Zenon DEF AgeInv
  <1>4. ASSUME NEW i \in Instances, NEW s \in bucket, Load(i, s)
        PROVE  AgeInv'
    BY <1>4, Zenon DEF Load, bucketVars, runVars, AgeInv, Existing
  <1>5. ASSUME NEW i \in Instances, NEW lost \in BOOLEAN, Restart(i, lost)
        PROVE  AgeInv'
    <2>1. /\ removalCandidates' = [removalCandidates EXCEPT ![i] = {}]
          /\ tooOld' = [tooOld EXCEPT ![i] = {}]
          /\ UNCHANGED <<bucket, transit, age>>
      BY <1>5, Zenon DEF Restart, bucketVars
    <2>2. \A k \in Instances : /\ removalCandidates'[k] \subseteq removalCandidates[k]
                               /\ tooOld'[k] \subseteq tooOld[k]
      BY <2>1, Zenon DEF TypeOK
    <2> QED  BY <2>1, <2>2, Zenon DEF AgeInv, Existing
  <1>6. ASSUME NEW i \in Instances, List(i)
        PROVE  AgeInv'
    <2>1. /\ removalCandidates' = [removalCandidates EXCEPT ![i] = Removable(i)]
          /\ tooOld' = [tooOld EXCEPT ![i] = Stale(i)]
          /\ UNCHANGED <<bucket, transit, age>>
      BY <1>6, Zenon DEF List, bucketVars
    <2>2. \A s \in Removable(i) : \E t \in bucket : Newer(t, s)
      BY RemovableHasNewer, Zenon
    <2>3. \A s \in Stale(i) : age[s] > RemoveOldInstancesInterval
      BY Zenon DEF Stale
    <2>4. \A k \in Instances :
            /\ k # i => /\ removalCandidates'[k] = removalCandidates[k]
                        /\ tooOld'[k] = tooOld[k]
            /\ k = i => /\ removalCandidates'[k] = Removable(i)
                        /\ tooOld'[k] = Stale(i)
      BY <2>1, Zenon DEF TypeOK
    <2> QED  BY <2>1, <2>2, <2>3, <2>4, Zenon DEF AgeInv, Existing
  <1> QED  BY <1>1, <1>2, <1>3, <1>4, <1>5, <1>6, Zenon

\* What is deleted from the bucket has a newer snapshot there or is old.
LEMMA DeletedIsOld ==
  ASSUME TypeInv, AgeInv, NEW i \in Instances, NEW s \in bucket,
         (s \in removalCandidates[i] /\ DeleteOld(i, s))
         \/ (s \in tooOld[i] /\ DeleteStale(i, s))
  PROVE  age[s] > RemoveOldInstancesInterval \/ \E t \in bucket : Newer(t, s)
  BY Zenon DEF AgeInv

\* A step of a deletion loop removes one snapshot or none, and at most shortens
\* what is left to delete.
LEMMA DeletionStep ==
  ASSUME TypeInv, NEW i \in Instances, NEW s,
         (s \in removalCandidates[i] /\ DeleteOld(i, s))
         \/ (s \in tooOld[i] /\ DeleteStale(i, s))
  PROVE  /\ Removes(s) \/ UNCHANGED <<bucket, content, age>>
         /\ s \notin transit
         /\ \A k \in Instances : /\ removalCandidates'[k] \subseteq removalCandidates[k]
                                 /\ tooOld'[k] \subseteq tooOld[k]
         /\ UNCHANGED <<transit, count, lmdb, lastByInstance, waitingForOwn,
                        committed, snapFirstSeen, crashes>>
  <1> USE DEF TypeInv
  <1>1. s \notin transit
    BY Zenon DEF TypeOK, Known
  <1>2. CASE s \in removalCandidates[i] /\ DeleteOld(i, s)
    <2>1. /\ removalCandidates' = [removalCandidates EXCEPT ![i] = @ \ {s}]
          /\ UNCHANGED <<transit, count, lmdb, lastByInstance, waitingForOwn,
                         committed, snapFirstSeen, tooOld, crashes>>
          /\ Delete(s)
      BY <1>2, Zenon DEF DeleteOld, syncVars
    <2>2. Removes(s) \/ UNCHANGED <<bucket, content, age>>
      BY <2>1, DeleteEffect, Zenon
    <2> QED  BY <1>1, <2>1, <2>2, Zenon DEF TypeOK
  <1>3. CASE s \in tooOld[i] /\ DeleteStale(i, s)
    <2>1. /\ tooOld' = [tooOld EXCEPT ![i] = @ \ {s}]
          /\ UNCHANGED <<transit, count, lmdb, lastByInstance, waitingForOwn,
                         committed, snapFirstSeen, removalCandidates, crashes>>
          /\ Delete(s) \/ UNCHANGED <<bucket, content, age>>
      BY <1>3, Zenon DEF DeleteStale, syncVars
    <2>2. Removes(s) \/ UNCHANGED <<bucket, content, age>>
      BY <2>1, DeleteEffect, Zenon
    <2> QED  BY <1>1, <2>1, <2>2, Zenon DEF TypeOK
  <1> QED  BY <1>2, <1>3, Zenon

\* Deletions keep the ages in order.
LEMMA DeletionsKeepAges ==
  ASSUME TypeInv, AgeInv, NEW i \in Instances, NEW s,
         (s \in removalCandidates[i] /\ DeleteOld(i, s))
         \/ (s \in tooOld[i] /\ DeleteStale(i, s))
  PROVE  AgeInv'
  <1>1. /\ Removes(s) \/ UNCHANGED <<bucket, content, age>>
        /\ s \notin transit
        /\ \A k \in Instances : /\ removalCandidates'[k] \subseteq removalCandidates[k]
                                /\ tooOld'[k] \subseteq tooOld[k]
        /\ transit' = transit
    BY DeletionStep, Zenon
  <1>2. CASE UNCHANGED <<bucket, content, age>>
    BY <1>1, <1>2, SMTT(30) DEF AgeInv, Existing
  <1>3. CASE Removes(s) /\ s \notin bucket
    <2>1. bucket' = bucket /\ Existing' = Existing
      BY <1>1, <1>3, Zenon DEF Removes, Existing
    <2>2. \A t \in Existing : age'[t] = age[t]
      BY <1>1, <1>3, Zenon DEF Removes, Existing, TypeInv, TypeOK
    <2>3. bucket \subseteq Existing
      BY SMTT(30) DEF Existing
    <2> QED  BY <1>1, <2>1, <2>2, <2>3, Zenon DEF AgeInv
  <1>4. CASE Removes(s) /\ s \in bucket
    <2>1. /\ bucket' = bucket \ {s} /\ Existing' = Existing \ {s}
          /\ bucket \subseteq Existing
      BY <1>1, <1>4, Zenon DEF Removes, Existing
    <2>2. \A t \in Existing \ {s} : age'[t] = age[t]
      BY <1>4, Zenon DEF Removes, Existing, TypeInv, TypeOK
    <2>3. age[s] > RemoveOldInstancesInterval \/ \E t \in bucket : Newer(t, s)
      BY <1>4, DeletedIsOld, Zenon
    <2>4. ASSUME NEW t \in bucket \ {s},
                 \/ age[t] > RemoveOldInstancesInterval
                 \/ \E u \in bucket : Newer(u, t)
          PROVE  \/ age[t] > RemoveOldInstancesInterval
                 \/ \E u \in bucket \ {s} : Newer(u, t)
      <3> SUFFICES ASSUME Newer(s, t)
                   PROVE  \/ age[t] > RemoveOldInstancesInterval
                          \/ \E u \in bucket \ {s} : Newer(u, t)
        BY <2>4, Zenon
      <3>1. CASE age[s] > RemoveOldInstancesInterval
        <4>1. age[s] <= age[t]
          BY <1>4, <2>1, SMTT(30) DEF AgeInv
        <4>2. age[s] \in Nat /\ age[t] \in Nat
          BY <1>4, <2>1, SMTT(30) DEF TypeInv, TypeOK, Existing
        <4> QED  BY <3>1, <4>1, <4>2, CleanerAssumption, SMTT(30)
      <3>2. ASSUME NEW u \in bucket, Newer(u, s)
            PROVE  u # s /\ Newer(u, t)
        <4>1. s \in Snapshots /\ t \in Snapshots /\ u \in Snapshots
          BY <1>4, Zenon DEF TypeInv, TypeOK, Stored
        <4> QED  BY <3>2, <4>1 DEF Newer, Snapshots
      <3> QED  BY <2>3, <3>1, <3>2, Zenon
    <2>5. \A t, u \in Existing' : Newer(u, t) => age'[u] <= age'[t]
      BY <2>1, <2>2, Zenon DEF AgeInv
    <2>6. ASSUME NEW k \in Instances
          PROVE  /\ \A t \in tooOld'[k] \cap bucket' :
                      age'[t] > RemoveOldInstancesInterval
                 /\ \A t \in removalCandidates'[k] \cap bucket' :
                      \/ age'[t] > RemoveOldInstancesInterval
                      \/ \E u \in bucket' : Newer(u, t)
      <3>1. \A t \in tooOld'[k] \cap bucket' : age'[t] > RemoveOldInstancesInterval
        BY <1>1, <2>1, <2>2, Zenon DEF AgeInv
      <3>2. ASSUME NEW t \in removalCandidates'[k] \cap bucket'
            PROVE  \/ age'[t] > RemoveOldInstancesInterval
                   \/ \E u \in bucket' : Newer(u, t)
        <4>1. t \in removalCandidates[k] \cap bucket /\ t \in bucket \ {s}
          BY <1>1, <2>1, Zenon
        <4>2. \/ age[t] > RemoveOldInstancesInterval
              \/ \E u \in bucket : Newer(u, t)
          BY <4>1, Zenon DEF AgeInv
        <4> QED  BY <2>1, <2>2, <2>4, <4>1, <4>2, Zenon
      <3> QED  BY <3>1, <3>2, Zenon
    <2> QED  BY <2>5, <2>6, Zenon DEF AgeInv
  <1> QED  BY <1>1, <1>2, <1>3, <1>4, Zenon
--------------------------------------------------------------------------------
(***************************************************************************)
(* The data.  Whatever a cleaner may delete is covered: another snapshot   *)
(* has all its data, and more.  As deletions go up this order, the data of *)
(* what several cleaners delete is still there at its upper end.           *)
(***************************************************************************)
Covered(s) ==
  \E t \in Existing : /\ content[s] \subseteq content[t]
                      /\ ~(content[t] \subseteq content[s])

\* A snapshot has its own data, and no newer data of its instance.
OwnContent ==
  \A s \in Existing : s \in content[s] /\ \A t \in content[s] : ~Newer(t, s)

\* A snapshot has the data of the older ones of its instance, if they exist.
NewerHasAll ==
  \A s, t \in Existing : Newer(t, s) => content[s] \subseteq content[t]

\* The LMDB has the data of its own snapshots, unless it still waits for them.
LmdbHasOwn ==
  \A s \in Existing :
    s \in transit \/ s.instance \notin waitingForOwn
    => content[s] \subseteq lmdb[s.instance]

\* The LMDB has the data of every snapshot up to the one it loaded last.
LmdbHasLoaded ==
  \A i \in Instances : \A s \in Existing :
    s.num <= lastByInstance[i][s.instance] => content[s] \subseteq lmdb[i]

\* What the cleaner knows to be committed is covered, and so is what it found
\* to be old.
DeletableCovered ==
  \A i \in Instances : \A s \in Existing :
    \/ s.num <= committed[i][s.instance]
    \/ s \in removalCandidates[i]
    => Covered(s)

DataInv ==
  /\ OwnContent /\ NewerHasAll /\ LmdbHasOwn /\ LmdbHasLoaded
  /\ DeletableCovered /\ NoDataLost

\* A newer snapshot covers an older one.
LEMMA NewerCovers ==
  ASSUME OwnContent, NewerHasAll, NEW s \in Existing, NEW t \in Existing, Newer(t, s)
  PROVE  Covered(s)
  BY Zenon DEF OwnContent, NewerHasAll, Covered

\* Steps that leave the snapshots alone keep what is said of the snapshots only.
LEMMA SameSnapshots ==
  ASSUME OwnContent, NewerHasAll, NoDataLost,
         Existing' = Existing, content' = content, Stored' = Stored
  PROVE  /\ OwnContent' /\ NewerHasAll' /\ NoDataLost'
         /\ \A s : Covered(s)' = Covered(s)
  BY Zenon DEF OwnContent, NewerHasAll, NoDataLost, Covered, Existing

\* The steps that neither store nor delete a snapshot keep the data.
LEMMA OthersKeepData ==
  ASSUME TypeInv, OrderInv, DataInv,
         TimePasses \/ (\E s \in transit : Appear(s))
         \/ (\E i \in Instances : \/ \E s \in bucket : Load(i, s)
                                  \/ \E lost \in BOOLEAN : Restart(i, lost)
                                  \/ List(i))
  PROVE  DataInv'
  <1> USE DEF TypeInv
  <1>1. OwnContent /\ NewerHasAll /\ NoDataLost
    BY SMTT(30) DEF DataInv
  <1>2. \A s \in Existing : /\ s \in Snapshots /\ s.num \in Nat \ {0}
                            /\ s.instance \in Instances
    BY SMTT(30) DEF TypeOK, Stored, Existing, Snapshots
  <1>3. ASSUME TimePasses
        PROVE  DataInv'
    <2>1. UNCHANGED <<bucket, transit, count, content, lmdb, lastByInstance,
                      waitingForOwn, committed, removalCandidates>>
      BY <1>3, Zenon DEF TimePasses, syncVars
    <2>2. Existing' = Existing /\ Stored' = Stored
      BY <2>1, Zenon DEF Existing, Stored
    <2>3. /\ OwnContent' /\ NewerHasAll' /\ NoDataLost'
          /\ \A s : Covered(s)' = Covered(s)
      BY <1>1, <2>1, <2>2, SameSnapshots, Zenon
    <2>4. LmdbHasOwn' /\ LmdbHasLoaded' /\ DeletableCovered'
      BY <2>1, <2>2, <2>3, Zenon
      DEF DataInv, LmdbHasOwn, LmdbHasLoaded, DeletableCovered
    <2> QED  BY <2>3, <2>4, Zenon DEF DataInv
  <1>4. ASSUME NEW s \in transit, Appear(s)
        PROVE  DataInv'
    <2>1. /\ transit' = transit \ {s} /\ bucket' = bucket \cup {s}
          /\ UNCHANGED <<count, content, lmdb, lastByInstance, waitingForOwn,
                         committed, removalCandidates>>
      BY <1>4, Zenon DEF Appear, syncVars, runVars
    <2>2. Existing' = Existing /\ Stored' = Stored
      BY <2>1, Zenon DEF Existing, Stored
    <2>3. /\ OwnContent' /\ NewerHasAll' /\ NoDataLost'
          /\ \A t : Covered(t)' = Covered(t)
      BY <1>1, <2>1, <2>2, SameSnapshots, Zenon
    <2>4. LmdbHasOwn' /\ LmdbHasLoaded' /\ DeletableCovered'
      BY <2>1, <2>2, <2>3, Zenon
      DEF DataInv, LmdbHasOwn, LmdbHasLoaded, DeletableCovered
    <2> QED  BY <2>3, <2>4, Zenon DEF DataInv
  <1>5. ASSUME NEW i \in Instances, NEW s \in bucket, Load(i, s)
        PROVE  DataInv'
    <2>1. /\ lmdb' = [lmdb EXCEPT ![i] = @ \cup content[s]]
          /\ lastByInstance' = [lastByInstance EXCEPT ![i][s.instance] = s.num]
          /\ waitingForOwn' = waitingForOwn \ (IF s.instance = i THEN {i} ELSE {})
          /\ UNCHANGED <<bucket, transit, count, content, committed,
                         removalCandidates>>
          /\ \A t \in bucket : ~Newer(t, s)
      BY <1>5, Zenon DEF Load, bucketVars, runVars, Newest
    <2>2. Existing' = Existing /\ Stored' = Stored
      BY <2>1, Zenon DEF Existing, Stored
    <2>3. /\ OwnContent' /\ NewerHasAll' /\ NoDataLost'
          /\ \A t : Covered(t)' = Covered(t)
      BY <1>1, <2>1, <2>2, SameSnapshots, Zenon
    <2>4. s \in Existing
      BY Zenon DEF Existing
    <2>5. \A t \in Existing : t.instance = s.instance /\ t.num <= s.num
                              => content[t] \subseteq content[s]
      <3> TAKE t \in Existing
      <3>1. t.instance = s.instance /\ t.num <= s.num => t = s \/ Newer(s, t)
        BY <1>2, <2>4, SMTT(30) DEF Newer, Snapshots
      <3> QED  BY <1>1, <2>4, <3>1, Zenon DEF NewerHasAll
    <2>6. \A k \in Instances : /\ lmdb[k] \subseteq lmdb'[k]
                               /\ k = i => content[s] \subseteq lmdb'[k]
      BY <2>1, SMTT(30) DEF TypeOK
    <2>7. LmdbHasOwn'
      <3> SUFFICES ASSUME NEW t \in Existing,
                          t \in transit \/ t.instance \notin waitingForOwn'
                   PROVE  content[t] \subseteq lmdb'[t.instance]
        BY <2>1, <2>2, Zenon DEF LmdbHasOwn
      <3>1. CASE t \in transit \/ t.instance \notin waitingForOwn
        BY <1>2, <2>6, <3>1, Zenon DEF DataInv, LmdbHasOwn
      <3>2. CASE t \notin transit /\ t.instance \in waitingForOwn
        <4>1. t \in bucket /\ t.instance = i /\ s.instance = i
          BY <2>1, <3>2, Zenon DEF Existing
        <4>2. t.num <= s.num
          BY <1>2, <2>1, <2>4, <4>1 DEF Newer
        <4> QED  BY <2>5, <2>6, <4>1, <4>2, Zenon
      <3> QED  BY <3>1, <3>2, Zenon
    <2>8. LmdbHasLoaded'
      <3> SUFFICES ASSUME NEW k \in Instances, NEW t \in Existing,
                          t.num <= lastByInstance'[k][t.instance]
                   PROVE  content[t] \subseteq lmdb'[k]
        BY <2>1, <2>2, Zenon DEF LmdbHasLoaded
      <3>1. CASE k = i /\ t.instance = s.instance
        <4>1. lastByInstance'[k][t.instance] = s.num
          BY <1>2, <2>1, <2>4, <3>1, Zenon DEF TypeOK
        <4> QED  BY <2>5, <2>6, <3>1, <4>1, Zenon
      <3>2. CASE ~(k = i /\ t.instance = s.instance)
        <4>1. lastByInstance'[k][t.instance] = lastByInstance[k][t.instance]
          BY <1>2, <2>1, <2>4, <3>2, Zenon DEF TypeOK
        <4> QED  BY <2>6, <4>1, Zenon DEF DataInv, LmdbHasLoaded
      <3> QED  BY <3>1, <3>2, Zenon
    <2>9. DeletableCovered'
      BY <2>1, <2>2, <2>3, Zenon DEF DataInv, DeletableCovered
    <2> QED  BY <2>3, <2>7, <2>8, <2>9, Zenon DEF DataInv
  <1>6. ASSUME NEW i \in Instances, NEW lost \in BOOLEAN, Restart(i, lost)
        PROVE  DataInv'
    <2>1. /\ lmdb' = IF lost THEN [lmdb EXCEPT ![i] = {}] ELSE lmdb
          /\ lost => \A s \in transit : s.instance # i
          /\ lastByInstance' = [lastByInstance EXCEPT ![i] = NoneLoaded]
          /\ waitingForOwn' =
               (waitingForOwn \ {i}) \cup (IF Own(i) = {} THEN {} ELSE {i})
          /\ committed' = [committed EXCEPT ![i] = NoneLoaded]
          /\ removalCandidates' = [removalCandidates EXCEPT ![i] = {}]
          /\ UNCHANGED <<bucket, transit, count, content>>
      BY <1>6, Zenon DEF Restart, bucketVars
    <2>2. Existing' = Existing /\ Stored' = Stored
      BY <2>1, Zenon DEF Existing, Stored
    <2>3. /\ OwnContent' /\ NewerHasAll' /\ NoDataLost'
          /\ \A t : Covered(t)' = Covered(t)
      BY <1>1, <2>1, <2>2, SameSnapshots, SMTT(30)
    <2>4. \A k \in Instances : k # i => /\ lmdb'[k] = lmdb[k]
                                        /\ lastByInstance'[k] = lastByInstance[k]
                                        /\ committed'[k] = committed[k]
                                        /\ removalCandidates'[k] = removalCandidates[k]
                                        /\ k \in waitingForOwn' <=> k \in waitingForOwn
      BY <2>1, Zenon DEF TypeOK
    <2>5. /\ removalCandidates'[i] = {}
          /\ \A j \in Instances : lastByInstance'[i][j] = 0 /\ committed'[i][j] = 0
          /\ ~lost => lmdb'[i] = lmdb[i]
      BY <2>1, Zenon DEF TypeOK, NoneLoaded
    <2>6. LmdbHasOwn'
      <3> SUFFICES ASSUME NEW t \in Existing,
                          t \in transit \/ t.instance \notin waitingForOwn'
                   PROVE  content[t] \subseteq lmdb'[t.instance]
        BY <2>1, <2>2, Zenon DEF LmdbHasOwn
      <3>1. CASE t.instance # i
        BY <1>2, <2>4, <3>1, Zenon DEF DataInv, LmdbHasOwn
      <3>2. CASE t.instance = i
        <4>1. t \in transit
          BY <2>1, <3>2, Zenon DEF Own, Existing
        <4>2. ~lost
          BY <2>1, <3>2, <4>1, SMTT(30)
        <4> QED  BY <2>5, <3>2, <4>1, <4>2, Zenon DEF DataInv, LmdbHasOwn
      <3> QED  BY <3>1, <3>2, Zenon
    <2>7. LmdbHasLoaded'
      <3> SUFFICES ASSUME NEW k \in Instances, NEW t \in Existing,
                          t.num <= lastByInstance'[k][t.instance]
                   PROVE  content[t] \subseteq lmdb'[k]
        BY <2>1, <2>2, Zenon DEF LmdbHasLoaded
      <3>1. k # i
        BY <1>2, <2>5
      <3> QED  BY <2>4, <3>1, Zenon DEF DataInv, LmdbHasLoaded
    <2>8. DeletableCovered'
      <3> SUFFICES ASSUME NEW k \in Instances, NEW t \in Existing,
                          \/ t.num <= committed'[k][t.instance]
                          \/ t \in removalCandidates'[k]
                   PROVE  Covered(t)
        BY <2>2, <2>3, Zenon DEF DeletableCovered
      <3>1. k # i
        BY <1>2, <2>5
      <3> QED  BY <2>4, <3>1, Zenon DEF DataInv, DeletableCovered
    <2> QED  BY <2>3, <2>6, <2>7, <2>8, Zenon DEF DataInv
  <1>7. ASSUME NEW i \in Instances, List(i)
        PROVE  DataInv'
    <2>1. /\ removalCandidates' = [removalCandidates EXCEPT ![i] = Removable(i)]
          /\ UNCHANGED <<bucket, transit, count, content, lmdb, lastByInstance,
                         waitingForOwn, committed>>
      BY <1>7, SMTT(30) DEF List, bucketVars, syncVars
    <2>2. Existing' = Existing /\ Stored' = Stored /\ bucket \subseteq Existing
      BY <2>1, Zenon DEF Existing, Stored
    <2>3. /\ OwnContent' /\ NewerHasAll' /\ NoDataLost'
          /\ \A s : Covered(s)' = Covered(s)
      BY <1>1, <2>1, <2>2, SameSnapshots, Zenon
    <2>4. \A s \in Removable(i) : Covered(s)
      <3> TAKE s \in Removable(i)
      <3>1. s \in bucket /\ \E t \in bucket : Newer(t, s)
        BY RemovableHasNewer, SMTT(30)
      <3> QED  BY <1>1, <2>2, <3>1, NewerCovers, Zenon
    <2>5. \A k \in Instances :
            removalCandidates'[k] = IF k = i THEN Removable(i) ELSE removalCandidates[k]
      BY <2>1, Zenon DEF TypeOK
    <2>6. LmdbHasOwn' /\ LmdbHasLoaded'
      BY <2>1, <2>2, Zenon DEF DataInv, LmdbHasOwn, LmdbHasLoaded
    <2>7. DeletableCovered'
      BY <2>1, <2>2, <2>3, <2>4, <2>5, Zenon DEF DataInv, DeletableCovered
    <2> QED  BY <2>3, <2>6, <2>7, Zenon DEF DataInv
  <1> QED  BY <1>3, <1>4, <1>5, <1>6, <1>7, Zenon

\* Send keeps the data.
LEMMA SendKeepsData ==
  ASSUME TypeInv, DataInv, NEW i \in Instances, Send(i)
  PROVE  DataInv'
  <1> USE DEF TypeInv
  <1>1. /\ New(i) \notin Stored /\ Stored' = Stored \cup {New(i)}
        /\ \A s \in Existing : content'[s] = content[s]
        /\ content'[New(i)] = lmdb[i] \cup {New(i)}
    BY SendEffect, Zenon DEF TypeOK, Existing
  <1>2. /\ transit' = transit \cup {New(i)} /\ bucket' = bucket
        /\ lmdb' = [lmdb EXCEPT ![i] = lmdb[i] \cup {New(i)}]
        /\ i \in waitingForOwn => Own(i) = {}
        /\ waitingForOwn' = waitingForOwn \ {i}
        /\ committed' = [committed EXCEPT ![i] =
             [j \in Instances |-> IF lastByInstance[i][j] # 0
                                  THEN lastByInstance[i][j] ELSE @[j]]]
        /\ UNCHANGED <<lastByInstance, removalCandidates>>
    BY Zenon DEF Send, New, runVars
  <1>3. /\ Existing' = Existing \cup {New(i)} /\ Existing \subseteq Stored
        /\ \A s \in Existing : content[s] \subseteq Stored
        /\ New(i) \notin Existing
    BY <1>1, <1>2, Zenon DEF Existing, TypeOK
  <1>4. \A s \in Existing : s.instance \in Instances /\ s.num \in Nat \ {0}
    BY <1>3, SMTT(30) DEF Stored, Snapshots
  <1>5. /\ New(i).instance = i /\ New(i).num = count[i] + 1
        /\ \A j \in Instances : count[j] \in Nat
        /\ \A s \in Stored : ~Newer(s, New(i))
    BY SMTT(30) DEF New, Stored, Snapshots, Newer, TypeOK
  <1>old. \A k \in Instances :
            /\ lastByInstance[k][i] \in Nat /\ committed[k][i] \in Nat
            /\ lastByInstance[k][i] <= count[i] /\ committed[k][i] <= count[i]
    BY DEF Known, TypeOK
  <1>6. \A k \in Instances :
          lmdb'[k] = IF k = i THEN lmdb[i] \cup {New(i)} ELSE lmdb[k]
    BY <1>2, Zenon DEF TypeOK
  <1>7. \A s \in Existing : s.instance = i => content[s] \subseteq lmdb[i]
    <2> SUFFICES ASSUME NEW s \in Existing, s.instance = i
                 PROVE  s \in transit \/ i \notin waitingForOwn
      BY Zenon DEF DataInv, LmdbHasOwn
    <2> QED  BY <1>2, Zenon DEF Own, Existing
  <1>8. \A s \in Existing : Covered(s) => Covered(s)'
    BY <1>1, <1>3, Zenon DEF Covered
  <1>9. ASSUME NEW s \in Existing, content[s] \subseteq lmdb[i]
        PROVE  Covered(s)'
    <2>1. /\ content'[s] \subseteq content'[New(i)]
          /\ New(i) \in content'[New(i)] /\ New(i) \notin content'[s]
      BY <1>1, <1>3, <1>9, SMTT(30)
    <2> QED  BY <1>3, <2>1, Zenon DEF Covered
  <1>10. OwnContent'
    <2>1. lmdb[i] \subseteq Stored
      BY Zenon DEF TypeOK
    <2>2. ~Newer(New(i), New(i))
      BY <1>5, SMTT(30) DEF Newer
    <2> QED  BY <1>1, <1>3, <1>5, <2>1, <2>2, SMTT(30) DEF DataInv, OwnContent
  <1>11. NewerHasAll'
    <2> SUFFICES ASSUME NEW s \in Existing', NEW t \in Existing', Newer(t, s)
                 PROVE  content'[s] \subseteq content'[t]
      BY Zenon DEF NewerHasAll
    <2>1. s \in Existing
      <3>1. ~Newer(New(i), New(i))
        BY <1>5 DEF Newer
      <3> QED  BY <1>3, <1>5, <3>1, Zenon
    <2>2. CASE t = New(i)
      BY <1>1, <1>5, <1>7, <2>1, <2>2, Zenon DEF Newer
    <2>3. CASE t # New(i)
      BY <1>1, <1>3, <2>1, <2>3, Zenon DEF DataInv, NewerHasAll
    <2> QED  BY <2>2, <2>3, Zenon
  <1>12. LmdbHasOwn'
    <2> SUFFICES ASSUME NEW s \in Existing',
                        s \in transit' \/ s.instance \notin waitingForOwn'
                 PROVE  content'[s] \subseteq lmdb'[s.instance]
      BY SMTT(30) DEF LmdbHasOwn
    <2>1. CASE s = New(i)
      BY <1>1, <1>5, <1>6, <2>1, Zenon
    <2>2. CASE s # New(i) /\ s.instance = i
      BY <1>1, <1>3, <1>6, <1>7, <2>2, SMTT(30)
    <2>3. CASE s # New(i) /\ s.instance # i
      <3>1. s \in Existing /\ (s \in transit \/ s.instance \notin waitingForOwn)
        BY <1>2, <1>3, <2>3, SMTT(30)
      <3> QED  BY <1>1, <1>4, <1>6, <2>3, <3>1, SMTT(30) DEF DataInv, LmdbHasOwn
    <2> QED  BY <2>1, <2>2, <2>3, SMTT(30)
  <1>13. LmdbHasLoaded'
    <2> SUFFICES ASSUME NEW k \in Instances, NEW s \in Existing',
                        s.num <= lastByInstance'[k][s.instance]
                 PROVE  content'[s] \subseteq lmdb'[k]
      BY Zenon DEF LmdbHasLoaded
    <2>1. s # New(i)
      <3>1. lastByInstance' = lastByInstance
        BY <1>2, Zenon
      <3> QED  BY <1>5, <1>old, <3>1, SMTT(30)
    <2>2. content[s] \subseteq lmdb[k]
      BY <1>2, <1>3, <2>1, Zenon DEF DataInv, LmdbHasLoaded
    <2> QED  BY <1>1, <1>3, <1>6, <2>1, <2>2, SMTT(30)
  <1>14. DeletableCovered'
    <2> SUFFICES ASSUME NEW k \in Instances, NEW s \in Existing',
                        \/ s.num <= committed'[k][s.instance]
                        \/ s \in removalCandidates'[k]
                 PROVE  Covered(s)'
      BY Zenon DEF DeletableCovered
    <2>1. s.instance \in Instances
      BY <1>3, <1>4, <1>5, Zenon
    <2>2. \/ committed'[k][s.instance] = committed[k][s.instance]
          \/ /\ committed'[k][s.instance] = lastByInstance[i][s.instance] /\ k = i
      BY <1>2, <2>1, Zenon DEF TypeOK
    <2>3. s \in Existing
      <3>1. New(i) \notin removalCandidates'[k]
        BY <1>1, <1>2, Zenon DEF TypeOK
      <3>2. \/ committed'[k][i] <= count[i] /\ committed'[k][i] \in Nat
            \/ s # New(i)
        BY <1>5, <1>old, <2>2, Zenon
      <3>3. s # New(i)
        BY <1>5, <3>1, <3>2
      <3> QED  BY <1>3, <3>3, Zenon
    <2>4. CASE s.num <= committed[k][s.instance] \/ s \in removalCandidates[k]
      BY <1>8, <2>3, <2>4, Zenon DEF DataInv, DeletableCovered
    <2>5. CASE s.num <= lastByInstance[i][s.instance]
      <3>1. content[s] \subseteq lmdb[i]
        BY <2>3, <2>5, Zenon DEF DataInv, LmdbHasLoaded
      <3> QED  BY <1>9, <2>3, <3>1, Zenon
    <2> QED  BY <1>2, <2>2, <2>4, <2>5, Zenon
  <1>15. NoDataLost'
    <2>1. \A s \in Stored : \E t \in Existing : s \in content[t]
      BY Zenon DEF DataInv, NoDataLost, Existing
    <2>2. \A s \in Stored' : \E t \in Existing' : s \in content'[t]
      BY <1>1, <1>3, <2>1, Zenon
    <2> QED  BY <2>2, Zenon DEF NoDataLost, Existing
  <1> QED  BY <1>10, <1>11, <1>12, <1>13, <1>14, <1>15, Zenon DEF DataInv

\* What is deleted from the bucket is covered.
LEMMA DeletedIsCovered ==
  ASSUME TypeInv, DataInv, NEW i \in Instances, NEW s \in bucket,
         (s \in removalCandidates[i] /\ DeleteOld(i, s))
         \/ (s \in tooOld[i] /\ DeleteStale(i, s)),
         bucket' # bucket
  PROVE  Covered(s)
  <1>1. s \in Existing
    BY Zenon DEF Existing
  <1>2. CASE s \in removalCandidates[i]
    BY <1>1, <1>2, Zenon DEF DataInv, DeletableCovered
  <1>3. CASE DeleteStale(i, s)
    <2>1. ~(s.num > committed[i][s.instance])
      BY <1>3, SMTT(30) DEF DeleteStale
    <2>2. /\ s.num \in Nat /\ s.instance \in Instances
          /\ committed[i][s.instance] \in Nat
      BY SMTT(30) DEF TypeInv, TypeOK, Stored, Snapshots
    <2> QED  BY <1>1, <2>1, <2>2 DEF DataInv, DeletableCovered
  <1> QED  BY <1>2, <1>3, Zenon

\* Deletions keep the data.
LEMMA DeletionsKeepData ==
  ASSUME TypeInv, DataInv, NEW i \in Instances, NEW s,
         (s \in removalCandidates[i] /\ DeleteOld(i, s))
         \/ (s \in tooOld[i] /\ DeleteStale(i, s))
  PROVE  DataInv'
  <1>1. /\ Removes(s) \/ UNCHANGED <<bucket, content, age>>
        /\ s \notin transit
        /\ \A k \in Instances : removalCandidates'[k] \subseteq removalCandidates[k]
        /\ UNCHANGED <<transit, count, lmdb, lastByInstance, waitingForOwn, committed>>
    BY DeletionStep, SMTT(30)
  <1>2. Stored' = Stored
    BY <1>1, Zenon DEF Stored
  <1>3. /\ Existing' = IF bucket' = bucket THEN Existing ELSE Existing \ {s}
        /\ \A t \in Existing' : content'[t] = content[t]
    BY <1>1, ZenonT(30) DEF Removes, Existing, TypeInv, TypeOK
  <1>4. bucket' # bucket => s \in bucket
    BY <1>1, Zenon DEF Removes
  <1>5. Existing' # Existing => Covered(s)
    BY <1>3, <1>4, DeletedIsCovered, Zenon
  <1>6. ASSUME NEW d
        PROVE  (\E t \in Existing : d \in content[t])
               => \E t \in Existing' : d \in content'[t]
    <2> SUFFICES ASSUME NEW t \in Existing, d \in content[t]
                 PROVE  \E u \in Existing' : d \in content'[u]
      BY Zenon
    <2>1. CASE t \in Existing'
      BY <1>3, <2>1, Zenon
    <2>2. CASE t \notin Existing'
      <3>1. t = s /\ Existing' # Existing /\ Existing' = Existing \ {s}
        BY <1>3, <2>2, Zenon
      <3>2. PICK u \in Existing : /\ content[s] \subseteq content[u]
                                  /\ ~(content[u] \subseteq content[s])
        BY <1>5, <3>1, Zenon DEF Covered
      <3> QED  BY <1>3, <3>1, <3>2, Zenon
    <2> QED  BY <2>1, <2>2, Zenon
  <1>7. ASSUME NEW t \in Existing', Covered(t)
        PROVE  Covered(t)'
    <2>1. PICK u \in Existing : /\ content[t] \subseteq content[u]
                                /\ ~(content[u] \subseteq content[t])
      BY <1>7, Zenon DEF Covered
    <2>2. CASE u \in Existing'
      BY <1>3, <2>1, <2>2, Zenon DEF Covered
    <2>3. CASE u \notin Existing'
      <3>1. u = s /\ Existing' # Existing /\ Existing' = Existing \ {s}
        BY <1>3, <2>3, Zenon
      <3>2. PICK v \in Existing : /\ content[s] \subseteq content[v]
                                  /\ ~(content[v] \subseteq content[s])
        BY <1>5, <3>1, Zenon DEF Covered
      <3>3. v \in Existing' /\ content[t] \subseteq content[v]
            /\ ~(content[v] \subseteq content[t])
        BY <2>1, <3>1, <3>2, Zenon
      <3> QED  BY <1>3, <3>3, Zenon DEF Covered
    <2> QED  BY <2>2, <2>3, SMTT(30)
  <1>8. Existing' \subseteq Existing
    BY <1>3, SMTT(30)
  <1>9. OwnContent' /\ NewerHasAll'
    BY <1>3, <1>8, SMTT(30) DEF DataInv, OwnContent, NewerHasAll
  <1>10. LmdbHasOwn' /\ LmdbHasLoaded'
    BY <1>1, <1>3, <1>8, Zenon DEF DataInv, LmdbHasOwn, LmdbHasLoaded
  <1>11. DeletableCovered'
    <2> SUFFICES ASSUME NEW k \in Instances, NEW t \in Existing',
                        \/ t.num <= committed'[k][t.instance]
                        \/ t \in removalCandidates'[k]
                 PROVE  Covered(t)'
      BY Zenon DEF DeletableCovered
    <2>1. Covered(t)
      BY <1>1, <1>8, Zenon DEF DataInv, DeletableCovered
    <2> QED  BY <1>7, <2>1, Zenon
  <1>12. NoDataLost'
    <2>1. \A d \in Stored : \E t \in Existing : d \in content[t]
      BY Zenon DEF DataInv, NoDataLost, Existing
    <2>2. \A d \in Stored' : \E t \in Existing' : d \in content'[t]
      BY <1>2, <1>6, <2>1, Zenon
    <2> QED  BY <2>2, Zenon DEF NoDataLost, Existing
  <1> QED  BY <1>9, <1>10, <1>11, <1>12, Zenon DEF DataInv
--------------------------------------------------------------------------------
CleanerInv == TypeInv /\ OrderInv /\ AgeInv /\ DataInv

\* The invariant holds initially: one snapshot, in transit.
LEMMA InitInv ==
  ASSUME Init
  PROVE  CleanerInv
  <1> DEFINE s == [instance |-> First, num |-> 1]
  <1>1. /\ bucket = {} /\ transit = {s}
        /\ content = [x \in {s} |-> {s}]
        /\ count = [i \in Instances |-> IF i = First THEN 1 ELSE 0]
        /\ lmdb = [i \in Instances |-> IF i = First THEN {s} ELSE {}]
        /\ snapFirstSeen = [i \in Instances |-> <<>>]
        /\ removalCandidates = [i \in Instances |-> {}]
        /\ tooOld = [i \in Instances |-> {}]
    BY Zenon DEF Init
  <1>2. TypeInv
    BY InitTypes, Zenon
  <1>3. Existing = {s} /\ content[s] = {s}
    BY <1>1, Zenon DEF Existing
  <1>4. s.instance = First /\ s.num = 1 /\ ~Newer(s, s)
    BY DEF Newer
  <1>5. OrderInv
    BY <1>1 DEF OrderInv, Seen
  <1>6. AgeInv
    BY <1>1, <1>3, <1>4, SMTT(30) DEF AgeInv
  <1>7. OwnContent /\ NewerHasAll
    BY <1>3, <1>4, Zenon DEF OwnContent, NewerHasAll
  <1>8. LmdbHasOwn
    BY <1>1, <1>3, <1>4, CleanerAssumption, Zenon DEF LmdbHasOwn
  <1>9. \A i, j \in Instances : lastByInstance[i][j] = 0 /\ committed[i][j] = 0
    BY SMTT(30) DEF Init, NoneLoaded
  <1>10. LmdbHasLoaded /\ DeletableCovered
    BY <1>1, <1>3, <1>4, <1>9, CleanerAssumption, SMTT(30)
    DEF LmdbHasLoaded, DeletableCovered
  <1>11. NoDataLost
    <2>1. \A d \in Stored : d = s
      <3> TAKE d \in Stored
      <3>1. /\ d.instance = First /\ d.num = 1
            /\ d = [instance |-> d.instance, num |-> d.num]
        BY <1>1 DEF Stored, Snapshots
      <3> QED  BY <3>1, Zenon
    <2> QED  BY <1>3, <2>1, Zenon DEF NoDataLost, Existing
  <1> QED
    BY <1>2, <1>5, <1>6, <1>7, <1>8, <1>10, <1>11, Zenon DEF CleanerInv, DataInv

\* Every step keeps the invariant.
LEMMA InvKept ==
  ASSUME CleanerInv, InOrder, [Next]_vars
  PROVE  CleanerInv'
  <1> USE DEF CleanerInv
  <1>1. TypeInv' /\ OrderInv'
    BY TypesKept, OrderKept, Zenon
  <1>2. CASE UNCHANGED vars
    <2>1. UNCHANGED <<bucket, transit, count, content, age, lmdb, lastByInstance,
                      waitingForOwn, committed, removalCandidates, tooOld>>
      BY <1>2, Zenon DEF vars, bucketVars, syncVars, runVars
    <2>2. Existing' = Existing /\ Stored' = Stored
      BY <2>1, Zenon DEF Existing, Stored
    <2>3. AgeInv'
      BY <2>1, <2>2, Zenon DEF AgeInv
    <2>4. /\ OwnContent' /\ NewerHasAll' /\ NoDataLost'
          /\ \A s : Covered(s)' = Covered(s)
      BY <2>1, <2>2, SameSnapshots, Zenon DEF DataInv
    <2>5. LmdbHasOwn' /\ LmdbHasLoaded' /\ DeletableCovered'
      BY <2>1, <2>2, <2>4, Zenon
      DEF DataInv, LmdbHasOwn, LmdbHasLoaded, DeletableCovered
    <2> QED  BY <1>1, <2>3, <2>4, <2>5, Zenon DEF DataInv
  <1>3. CASE TimePasses \/ (\E s \in transit : Appear(s))
             \/ (\E i \in Instances : \/ \E s \in bucket : Load(i, s)
                                      \/ \E lost \in BOOLEAN : Restart(i, lost)
                                      \/ List(i))
    BY <1>1, <1>3, OthersKeepAges, OthersKeepData, Zenon
  <1>4. ASSUME NEW i \in Instances, Send(i)
        PROVE  CleanerInv'
    BY <1>1, <1>4, OthersKeepAges, SendKeepsData, Zenon
  <1>5. ASSUME NEW i \in Instances, NEW s,
               (s \in removalCandidates[i] /\ DeleteOld(i, s))
               \/ (s \in tooOld[i] /\ DeleteStale(i, s))
        PROVE  CleanerInv'
    BY <1>1, <1>5, DeletionsKeepAges, DeletionsKeepData, Zenon
  <1> QED  BY <1>2, <1>3, <1>4, <1>5, Zenon DEF Next, RunOnceStep

\* If the snapshots of an instance appear in their order, RunOnce of all the
\* cleaners together never loses data: whatever was stored is in some snapshot.
THEOREM NoDataLostAlways == InOrder => (Spec => []NoDataLost)
  <1> SUFFICES ASSUME InOrder
               PROVE  Spec => []NoDataLost
    BY Zenon
  <1>1. Init => CleanerInv
    BY InitInv, Zenon
  <1>2. CleanerInv /\ [Next]_vars => CleanerInv'
    BY InvKept, Zenon
  <1>3. CleanerInv => NoDataLost
    BY Zenon DEF CleanerInv, DataInv
  <1> QED  BY <1>1, <1>2, <1>3, PTL DEF Spec

\* A step deletes the newest snapshot of an instance only if it is too old.
LEMMA NewestStays ==
  ASSUME CleanerInv, [Next]_vars
  PROVE  \A s \in Newest(bucket) : s \in bucket' \/ age[s] > RemoveOldInstancesInterval
  <1> SUFFICES ASSUME NEW d \in bucket, \A t \in bucket : ~Newer(t, d), d \notin bucket'
               PROVE  age[d] > RemoveOldInstancesInterval
    BY Zenon DEF Newest
  <1>1. ASSUME NEW i \in Instances, NEW s,
               (s \in removalCandidates[i] /\ DeleteOld(i, s))
               \/ (s \in tooOld[i] /\ DeleteStale(i, s))
        PROVE  age[d] > RemoveOldInstancesInterval
    <2>1. Removes(s) \/ UNCHANGED <<bucket, content, age>>
      BY <1>1, DeletionStep, Zenon DEF CleanerInv
    <2>2. s = d
      BY <2>1, Zenon DEF Removes
    <2>3. age[d] > RemoveOldInstancesInterval \/ \E t \in bucket : Newer(t, d)
      BY <1>1, <2>2, DeletedIsOld, Zenon DEF CleanerInv
    <2> QED  BY <2>3, Zenon
  <1>2. ASSUME bucket \subseteq bucket'
        PROVE  FALSE
    BY <1>2, Zenon
  <1>3. ASSUME TimePasses \/ (\E s \in transit : Appear(s))
               \/ (\E i \in Instances : \/ \E s \in bucket : Load(i, s)
                                        \/ Send(i)
                                        \/ \E lost \in BOOLEAN : Restart(i, lost)
                                        \/ List(i))
               \/ UNCHANGED vars
        PROVE  FALSE
    BY <1>2, <1>3, Zenon
    DEF TimePasses, Appear, Load, Send, Restart, List, vars, bucketVars
  <1> QED  BY <1>1, <1>3, Zenon DEF Next, RunOnceStep

\* If the snapshots of an instance appear in their order, RunOnce deletes the
\* newest of them only if its timestamp is older than RemoveOldInstancesInterval.
THEOREM NewestIsKeptAlways == InOrder => (Spec => NewestIsKept)
  <1> SUFFICES ASSUME InOrder
               PROVE  Spec => NewestIsKept
    BY Zenon
  <1>1. Init => CleanerInv
    BY InitInv, Zenon
  <1>2. CleanerInv /\ [Next]_vars => CleanerInv'
    BY InvKept, Zenon
  <1>3. CleanerInv /\ [Next]_vars =>
          [\A s \in Newest(bucket) :
             s \in bucket' \/ age[s] > RemoveOldInstancesInterval]_vars
    BY NewestStays, Zenon
  <1> QED  BY <1>1, <1>2, <1>3, PTL DEF Spec, NewestIsKept
================================================================================
