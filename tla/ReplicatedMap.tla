----------------------------- MODULE ReplicatedMap ----------------------------
(***************************************************************************)
(* What Lightning Stream promises the applications of native mode, without *)
(* its loops, transactions and downloads: a map that is replicated by      *)
(* exchanging whole copies of it.  For each key the newest entry wins.  A  *)
(* replica can be lost, but it never publishes a copy that lacks anything  *)
(* it has published before.                                                *)
(***************************************************************************)
EXTENDS Integers

CONSTANTS
  Instances,
  Keys,
  Absent,     \* what a key that was never written holds
  Leq(_, _)   \* the order of the entries

VARIABLES
  replica,    \* the contents at each instance
  published,  \* the set of the copies each instance has published
  clock       \* the number of writes, from wherever it started

mapVars == <<replica, published, clock>>

Nothing == [k \in Keys |-> Absent]

Newest(old, new) == IF Leq(new, old) THEN old ELSE new

Join(c, d) == [k \in Keys |-> Newest(c[k], d[k])]

\* The contents c are nowhere older than d.
AtLeast(c, d) == \A k \in Keys : Leq(d[k], c[k])

Init ==
  /\ replica = [i \in Instances |-> Nothing]
  /\ published = [i \in Instances |-> {}]
  /\ clock \in Nat

\* A key gets any newer entry.
Write(i, k) ==
  /\ clock' = clock + 1
  /\ ~Leq(replica'[i][k], replica[i][k])
  /\ replica' = [replica EXCEPT ![i][k] = replica'[i][k]]
  /\ UNCHANGED published

\* A copy of what the replica holds now or held a while ago.
Publish(i, copy) ==
  /\ AtLeast(replica[i], copy)
  /\ \A c \in published[i] : AtLeast(copy, c)
  /\ published' = [published EXCEPT ![i] = @ \cup {copy}]
  /\ UNCHANGED <<replica, clock>>

\* A published copy is merged.
Load(i, copy) ==
  /\ replica' = [replica EXCEPT ![i] = Join(@, copy)]
  /\ UNCHANGED <<published, clock>>

Lose(i) ==
  /\ replica' = [replica EXCEPT ![i] = Nothing]
  /\ UNCHANGED <<published, clock>>

Next ==
  \E i \in Instances :
    \/ \E k \in Keys : Write(i, k)
    \/ \E copy \in published'[i] : Publish(i, copy)
    \/ \E j \in Instances : \E copy \in published[j] : Load(i, copy)
    \/ Lose(i)

Spec == Init /\ [][Next]_mapVars
===============================================================================
