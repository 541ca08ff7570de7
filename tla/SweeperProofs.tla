----------------------------- MODULE SweeperProofs -----------------------------
(***************************************************************************)
(* Proofs about Sweeper, for any DBIs, keys, durations and bounds: a sweep *)
(* removes only stale deletion markers, skips none of them, and a load that*)
(* runs meanwhile does not bring them back.                                *)
(***************************************************************************)
EXTENDS Sweeper, IteratorsProofs, FiniteSetTheorems

\* Keys that are not all gone have a least one.
LEMMA LeastNatural ==
  ASSUME NEW S \in SUBSET Nat, S # {}
  PROVE  \E m \in S : \A n \in S : m <= n
<1> DEFINE R == {p \in Nat \X Nat : p[1] < p[2]}
<1>1. R = OpToRel(<, Nat)
  BY Zenon DEF OpToRel
<1>2. IsWellFoundedOn(R, Nat)
  BY <1>1, NatLessThanWellFounded, Zenon
<1>3. PICK m \in S : \A n \in S : ~(<<n, m>> \in R)
  <2> HIDE DEF R
  <2> QED
    BY <1>2, WFMin, Zenon
<1>4. ASSUME NEW n \in S PROVE m <= n
  <2>1. ~(<<n, m>> \in Nat \X Nat /\ n < m)
    BY <1>3, Zenon
  <2> QED
    BY <2>1
<1> QED
  BY <1>4, Zenon

\* Finitely many keys have a greatest one: there is no smallest set without.
LEMMA GreatestNatural ==
  ASSUME NEW S \in SUBSET Nat, S # {}, IsFiniteSet(S)
  PROVE  \E m \in S : \A n \in S : n <= m
<1> DEFINE HasMax(T) == \E m \in T : \A n \in T : n <= m
           Bad == {T \in SUBSET S : T # {} /\ ~HasMax(T)}
           Sizes == {Cardinality(T) : T \in Bad}
<1>1. \A T \in SUBSET S : IsFiniteSet(T) /\ Cardinality(T) \in Nat
  BY FS_Subset, FS_CardinalityType, Zenon
<1>2. SUFFICES Bad = {}
  BY <1>2, Zenon
<1>3. SUFFICES ASSUME Bad # {} PROVE FALSE
  BY <1>3, Zenon
<1>4. Sizes \in SUBSET Nat /\ Sizes # {}
  <2>1. Sizes \in SUBSET Nat
    BY <1>1, Zenon
  <2>2. PICK T \in Bad : TRUE
    BY <1>3, Zenon
  <2>3. Cardinality(T) \in Sizes
    BY <2>2, Zenon
  <2> QED
    BY <2>1, <2>3, Zenon
<1>5. PICK c \in Sizes : \A n \in Sizes : c <= n
  <2> HIDE DEF Sizes
  <2> QED
    BY <1>4, LeastNatural, Zenon
<1>6. PICK T \in Bad : c = Cardinality(T)
  BY <1>5, Zenon
<1>7. PICK x \in T : TRUE
  BY <1>6, Zenon
<1>8. x \in Nat /\ T \in SUBSET S /\ T \ {x} \in SUBSET S
  BY <1>6, <1>7, Zenon
<1>9. Cardinality(T \ {x}) = Cardinality(T) - 1 /\ Cardinality(T) \in Nat
  BY <1>1, <1>7, <1>8, FS_RemoveElement, Zenon
<1>10. CASE T \ {x} = {}
  <2>1. HasMax(T)
    BY <1>7, <1>8, <1>10
  <2> QED
    BY <2>1, <1>6, Zenon
<1>11. CASE T \ {x} # {}
  <2>1. HasMax(T \ {x})
    <3>1. SUFFICES ASSUME T \ {x} \in Bad PROVE FALSE
      BY <1>8, <1>11, <3>1, Zenon
    <3>2. Cardinality(T \ {x}) \in Sizes
      BY <3>1, Zenon
    <3>3. c <= Cardinality(T \ {x})
      BY <1>5, <3>2, Zenon
    <3> QED
      BY <1>6, <1>9, <3>3
  <2>2. PICK m \in T \ {x} : \A n \in T \ {x} : n <= m
    BY <2>1, Zenon
  <2>3. m \in Nat /\ \A n \in T : n \in Nat
    BY <1>8, Zenon
  <2>4. CASE x <= m
    BY <1>6, <2>2, <2>3, <2>4, Zenon
  <2>5. CASE ~(x <= m)
    <3>1. \A n \in T : n <= x
      BY <1>8, <2>2, <2>3, <2>5
    <3> QED
      BY <1>6, <1>7, <3>1, Zenon
  <2> QED
    BY <2>4, <2>5, Zenon
<1> QED
  BY <1>10, <1>11, Zenon
--------------------------------------------------------------------------------
\* What a key of a DBI holds.
Held(t) == Written(t) \cup {Absent}

\* An entry has a timestamp, and is deleted or has a value.
LEMMA WrittenFields ==
  ASSUME NEW t \in Nat, NEW e \in Written(t)
  PROVE  /\ e.ts \in Nat /\ e.ts >= 1 /\ e.ts <= t
         /\ e \in Entry /\ e # Absent
         /\ e.kind = "deleted" \/ e.kind = "live"
         /\ (e.kind = "deleted") = (e.val = Empty)
  <1>1. e \in [kind : {"live", "deleted"}, ts : 1..t, val : Values]
    BY Zenon DEF Written
  <1>2. e \in Entry
    BY <1>1 DEF Entry
  <1> QED  BY <1>1, <1>2, AbsentIsNoEntry DEF Written

\* Entries stay entries as time passes, and Absent is never stale.
LEMMA HeldLater ==
  ASSUME NEW t \in Nat
  PROVE  Held(t) \subseteq Held(t + 1) /\ \A c : ~IsStale(Absent, c)
  BY DEF Held, Written, IsStale, Absent

\* Merge adds an entry as it is, keeps what it finds, or leaves a stale deletion
\* marker out.
LEMMA MergeOfWritten ==
  ASSUME NEW t \in Nat, NEW old \in Held(t), NEW e \in Written(t), NEW c \in Int
  PROVE  LET m == Merge(old, e, 0, c, CurrentFormatVersion)
         IN  /\ m \in Held(t)
             /\ old # Absent => m # Absent
             /\ old = Absent => m = Absent \/ (m = e /\ ~IsStale(e, c))
  <1> DEFINE added == addHeader(e.val, EffectiveTS(e, 0), e.kind = "deleted", 0,
                                CurrentFormatVersion)
             m == Merge(old, e, 0, c, CurrentFormatVersion)
  <1>1. /\ e.ts \in Nat /\ e.ts >= 1 /\ e # Absent
        /\ e.kind = "deleted" \/ e.kind = "live"
        /\ (e.kind = "deleted") = (e.val = Empty)
    BY WrittenFields, Zenon
  <1>2. e = [kind |-> e.kind, ts |-> e.ts, val |-> e.val]
    BY Zenon DEF Written
  <1>3. EffectiveTS(e, 0) = e.ts
    BY <1>1, Zenon DEF EffectiveTS
  <1>4. ~(CurrentFormatVersion < 2)
    BY DEF CurrentFormatVersion
  <1>5. CASE e.kind = "deleted"
    <2>1. added = [kind |-> "deleted", ts |-> e.ts, val |-> Empty]
      BY <1>1, <1>3, <1>5, Zenon DEF addHeader
    <2> QED  BY <2>1, <1>1, <1>2, <1>5, Zenon DEF Merge, StaleDeletion, IsStale, Held
  <1>6. CASE e.kind = "live"
    <2>1. added = [kind |-> "live", ts |-> e.ts, val |-> e.val]
      BY <1>1, <1>3, <1>4, <1>6, Zenon DEF addHeader
    <2> QED  BY <2>1, <1>1, <1>2, <1>6, Zenon DEF Merge, StaleDeletion, IsStale, Held
  <1> QED  BY <1>1, <1>5, <1>6, Zenon
--------------------------------------------------------------------------------
TypeInv ==
  /\ now \in Nat \ {0}
  /\ entries \in [Dbis -> [Keys -> Held(now)]]
  /\ todo \in Seq(Dbis)
  /\ running \in BOOLEAN /\ limitReached \in BOOLEAN
  /\ cutoffTS \in Int /\ loadStart \in Nat
  /\ last.key \in Nat
  /\ unswept \subseteq Dbis \X Keys

\* No marker is stale before it is as old as the retention, and a load is over
\* before the time that its own cutoff allows for.
TimeInv ==
  /\ cutoffTS <= 0 \/ cutoffTS <= now - Retention
  /\ loadStart # 0 => loadStart <= now /\ now <= loadStart + LoadCutoff

\* What the sweep still has to remove is stale.
UnsweptInv == \A i \in unswept : IsStale(entries[i[1]][i[2]], cutoffTS)

\* The types hold at all times.
LEMMA InitTypes ==
  ASSUME Init
  PROVE  TypeInv /\ TimeInv /\ UnsweptInv /\ NothingSkipped
  <1>1. /\ now = 1 /\ todo = <<>> /\ running = FALSE /\ cutoffTS = 0
        /\ last = NoCursor /\ limitReached = FALSE /\ loadStart = 0 /\ unswept = {}
        /\ entries \in [Dbis -> [Keys -> Written(1) \cup {Absent}]]
    BY Zenon DEF Init
  <1>2. last.key = 0
    BY <1>1, Zenon DEF NoCursor
  <1>3. TypeInv
    <2>1. now \in Nat \ {0} /\ cutoffTS \in Int /\ loadStart \in Nat /\ last.key \in Nat
      BY <1>1, <1>2
    <2>2. entries \in [Dbis -> [Keys -> Held(now)]] /\ unswept \subseteq Dbis \X Keys
      BY <1>1, Zenon DEF Held
    <2>3. todo \in Seq(Dbis)
      BY <1>1
    <2>4. running \in BOOLEAN /\ limitReached \in BOOLEAN
      BY <1>1, Zenon
    <2> QED  BY <2>1, <2>2, <2>3, <2>4, Zenon DEF TypeInv
  <1> QED  BY <1>1, <1>3 DEF TimeInv, UnsweptInv, NothingSkipped

\* Put changes one key, which is then no marker of the start of the sweep.
LEMMA PutEffect ==
  ASSUME TypeInv, UnsweptInv, NothingSkipped, NEW d \in Dbis, NEW k \in Keys,
         NEW e \in Held(now), Put(d, k, e),
         UNCHANGED <<now, todo, running, cutoffTS, last>>
  PROVE  /\ entries' \in [Dbis -> [Keys -> Held(now)]]
         /\ unswept' \subseteq unswept
         /\ UnsweptInv' /\ NothingSkipped'
         /\ \A c \in Dbis, j \in Keys :
              entries'[c][j] = IF c = d /\ j = k THEN e ELSE entries[c][j]
  <1>1. /\ entries' = [entries EXCEPT ![d][k] = e]
        /\ unswept' = IF entries[d][k] = e THEN unswept ELSE unswept \ {<<d, k>>}
    BY Zenon DEF Put
  <1>2. entries' \in [Dbis -> [Keys -> Held(now)]]
    BY <1>1, Zenon DEF TypeInv
  <1>3. \A c \in Dbis, j \in Keys :
          entries'[c][j] = IF c = d /\ j = k THEN e ELSE entries[c][j]
    BY <1>1, Zenon DEF TypeInv
  <1>4. ASSUME NEW i \in unswept'
        PROVE  /\ i \in unswept /\ i[1] \in Dbis /\ i[2] \in Keys
               /\ entries'[i[1]][i[2]] = entries[i[1]][i[2]]
    <2>1. i \in unswept /\ i[1] \in Dbis /\ i[2] \in Keys /\ i = <<i[1], i[2]>>
      BY <1>1 DEF TypeInv
    <2> QED  BY <1>1, <1>3, <2>1
  <1>5. UnsweptInv'
    BY <1>4, Zenon DEF UnsweptInv
  <1>6. NothingSkipped'
    <2> SUFFICES ASSUME running, NEW i \in unswept'
                 PROVE  /\ i[1] \in Range(todo')
                        /\ i[1] = Current' => i[2] \in Ahead'
      BY Zenon DEF NothingSkipped
    <2>1. /\ i[1] \in Range(todo)
          /\ i[1] = Current => i[2] \in Ahead
      BY <1>4, Zenon DEF NothingSkipped
    <2>2. Current' = Current
      BY Zenon DEF Current
    <2>3. ASSUME i[1] = Current
          PROVE  i[2] \in Ahead'
      <3>1. /\ i[2] \in Keys /\ entries'[Current][i[2]] = entries[Current][i[2]]
            /\ i[2] \in Ahead
        BY <1>4, <2>1, <2>3, Zenon
      <3> QED  BY <2>2, <3>1, Zenon DEF Ahead, Present
    <2> QED  BY <2>1, <2>2, <2>3, Zenon
  <1> QED  BY <1>1, <1>2, <1>3, <1>5, <1>6, Zenon

\* The steps of the application and of the syncer, and time.
LEMMA OthersKeepInv ==
  ASSUME TypeInv, TimeInv, UnsweptInv, NothingSkipped,
         Tick \/ StartLoad
         \/ (\E d \in Dbis, k \in Keys, e \in Written(now) :
               Write(d, k, e) \/ Load(d, k, e))
  PROVE  TypeInv' /\ TimeInv' /\ UnsweptInv' /\ NothingSkipped'
  <1>1. ASSUME Tick
        PROVE  TypeInv' /\ TimeInv' /\ UnsweptInv' /\ NothingSkipped'
    <2>1. /\ now' = now + 1
          /\ loadStart # 0 => now < loadStart + LoadCutoff
          /\ UNCHANGED <<entries, todo, running, cutoffTS, last, limitReached,
                         loadStart, unswept>>
      BY <1>1, Zenon DEF Tick, sweepVars
    <2>2. Held(now) \subseteq Held(now')
      BY <2>1, HeldLater, Zenon DEF TypeInv
    <2>3. TypeInv'
      BY <2>1, <2>2 DEF TypeInv
    <2>4. TimeInv'
      BY <2>1, SweeperAssumption DEF TypeInv, TimeInv
    <2>5. UnsweptInv' /\ NothingSkipped'
      BY <2>1, Zenon DEF UnsweptInv, NothingSkipped, Ahead, Present, Current
    <2> QED  BY <2>3, <2>4, <2>5, Zenon
  <1>2. ASSUME StartLoad
        PROVE  TypeInv' /\ TimeInv' /\ UnsweptInv' /\ NothingSkipped'
    <2>1. /\ loadStart' = now
          /\ UNCHANGED <<now, entries, todo, running, cutoffTS, last, limitReached,
                         unswept>>
      BY <1>2, Zenon DEF StartLoad, lmdbVars, sweepVars
    <2>2. TypeInv' /\ TimeInv'
      BY <2>1, SweeperAssumption DEF TypeInv, TimeInv
    <2>3. UnsweptInv' /\ NothingSkipped'
      BY <2>1, Zenon DEF UnsweptInv, NothingSkipped, Ahead, Present, Current
    <2> QED  BY <2>2, <2>3, Zenon
  <1>3. ASSUME NEW d \in Dbis, NEW k \in Keys, NEW e \in Held(now), Put(d, k, e),
               UNCHANGED <<now, todo, running, cutoffTS, last, limitReached>>,
               loadStart' = loadStart \/ loadStart' = 0
        PROVE  TypeInv' /\ TimeInv' /\ UnsweptInv' /\ NothingSkipped'
    <2>1. /\ entries' \in [Dbis -> [Keys -> Held(now)]]
          /\ unswept' \subseteq unswept
          /\ UnsweptInv' /\ NothingSkipped'
      BY <1>3, PutEffect, Zenon
    <2>2. TypeInv' /\ TimeInv'
      BY <1>3, <2>1 DEF TypeInv, TimeInv
    <2> QED  BY <2>1, <2>2, Zenon
  <1>4. ASSUME NEW d \in Dbis, NEW k \in Keys, NEW e \in Written(now), Write(d, k, e)
        PROVE  TypeInv' /\ TimeInv' /\ UnsweptInv' /\ NothingSkipped'
    <2>1. /\ e \in Held(now) /\ Put(d, k, e)
          /\ UNCHANGED <<now, todo, running, cutoffTS, last, limitReached>>
          /\ loadStart' = loadStart \/ loadStart' = 0
      BY <1>4, Zenon DEF Write, sweepVars, Held
    <2> QED  BY <2>1, <1>3, Zenon
  <1>5. ASSUME NEW d \in Dbis, NEW k \in Keys, NEW e \in Written(now), Load(d, k, e)
        PROVE  TypeInv' /\ TimeInv' /\ UnsweptInv' /\ NothingSkipped'
    <2> DEFINE m == Merge(entries[d][k], e, 0, deletedCutoff(loadStart),
                          CurrentFormatVersion)
    <2>1. /\ Put(d, k, m)
          /\ UNCHANGED <<now, todo, running, cutoffTS, last, limitReached>>
          /\ loadStart' = loadStart \/ loadStart' = 0
      BY <1>5, Zenon DEF Load, sweepVars
    <2>2. /\ now \in Nat /\ entries[d][k] \in Held(now)
          /\ deletedCutoff(loadStart) \in Int
      BY SweeperAssumption DEF TypeInv, deletedCutoff
    <2>3. m \in Held(now)
      BY <2>2, MergeOfWritten, Zenon
    <2> HIDE DEF m
    <2> QED  BY <2>1, <2>3, <1>3, Zenon
  <1> QED  BY <1>1, <1>2, <1>4, <1>5, Zenon

\* A sweep starts.
LEMMA StartKeepsInv ==
  ASSUME TypeInv, TimeInv, StartSweep
  PROVE  TypeInv' /\ TimeInv' /\ UnsweptInv' /\ NothingSkipped'
  <1>1. /\ running' = TRUE /\ cutoffTS' = now - Retention
        /\ todo' = dbiNames /\ last' = NoCursor /\ limitReached' = FALSE
        /\ unswept' = {i \in Dbis \X Keys :
                         IsStale(entries[i[1]][i[2]], now - Retention)}
        /\ UNCHANGED <<now, entries, loadStart>>
    BY Zenon DEF StartSweep, lmdbVars
  <1>2. last'.key = 0
    BY <1>1, Zenon DEF NoCursor
  <1>3. dbiNames \in Seq(Dbis) /\ Retention \in Nat /\ Keys \subseteq Nat \ {0}
    BY SweeperAssumption, Zenon
  <1>4. TypeInv' /\ TimeInv'
    <2>1. /\ now' \in Nat \ {0} /\ cutoffTS' \in Int /\ loadStart' \in Nat
          /\ last'.key \in Nat /\ TimeInv'
      BY <1>1, <1>2, <1>3 DEF TypeInv, TimeInv
    <2>2. /\ entries' \in [Dbis -> [Keys -> Held(now')]]
          /\ unswept' \subseteq Dbis \X Keys /\ todo' \in Seq(Dbis)
      BY <1>1, <1>3, Zenon DEF TypeInv
    <2>3. running' \in BOOLEAN /\ limitReached' \in BOOLEAN
      BY <1>1, Zenon
    <2> QED  BY <2>1, <2>2, <2>3, Zenon DEF TypeInv
  <1>5. UnsweptInv'
    BY <1>1, Zenon DEF UnsweptInv
  <1>6. NothingSkipped'
    <2> SUFFICES ASSUME NEW i \in unswept'
                 PROVE  /\ i[1] \in Range(todo')
                        /\ i[1] = Current' => i[2] \in Ahead'
      BY Zenon DEF NothingSkipped
    <2>1. /\ i[1] \in Dbis /\ i[2] \in Keys
          /\ IsStale(entries[i[1]][i[2]], now - Retention)
      BY <1>1, Zenon
    <2>2. entries[i[1]][i[2]] # Absent
      BY <2>1 DEF IsStale, Absent
    <2>3. i[2] > last'.key
      <3>1. \A k \in Keys : k > 0
        BY <1>3
      <3> QED  BY <1>2, <2>1, <3>1, Zenon
    <2> QED  BY <1>1, <2>1, <2>2, <2>3, Zenon DEF Ahead, Present, Dbis
  <1> QED  BY <1>4, <1>5, <1>6, Zenon
--------------------------------------------------------------------------------
\* A chunk removes what is stale in the keys it scans, and nothing else.
LEMMA ScanEffect ==
  ASSUME TypeInv, UnsweptInv, todo # <<>>, NEW S \in SUBSET Keys, Scan(S),
         UNCHANGED <<now, cutoffTS>>
  PROVE  /\ Current \in Dbis
         /\ entries' \in [Dbis -> [Keys -> Held(now)]]
         /\ \A c \in Dbis, j \in Keys :
              entries'[c][j] = IF c = Current /\ j \in S /\ Cleans(entries[c][j])
                               THEN Absent ELSE entries[c][j]
         /\ \A i \in unswept' : /\ i \in unswept /\ i[1] \in Dbis /\ i[2] \in Keys
                                /\ ~(i[1] = Current /\ i[2] \in S)
                                /\ entries'[i[1]][i[2]] = entries[i[1]][i[2]]
         /\ UnsweptInv'
  <1> DEFINE cleaned == {k \in S : Cleans(entries[Current][k])}
  <1>1. /\ entries' = [entries EXCEPT ![Current] =
                         [k \in Keys |-> IF k \in cleaned THEN Absent ELSE @[k]]]
        /\ unswept' = unswept \ {<<Current, k>> : k \in cleaned}
    BY Zenon DEF Scan
  <1>2. Current \in Dbis
    BY DEF TypeInv, Current
  <1>3. \A c \in Dbis, j \in Keys :
          entries'[c][j] = IF c = Current /\ j \in cleaned
                           THEN Absent ELSE entries[c][j]
    <2> HIDE DEF cleaned
    <2> QED  BY <1>1, <1>2, Zenon DEF TypeInv
  <1>4. entries' \in [Dbis -> [Keys -> Held(now)]]
    <2> HIDE DEF cleaned
    <2> QED  BY <1>1, <1>2, Zenon DEF TypeInv, Held
  <1>5. \A c \in Dbis, j \in Keys :
          entries'[c][j] = IF c = Current /\ j \in S /\ Cleans(entries[c][j])
                           THEN Absent ELSE entries[c][j]
    BY <1>3, Zenon
  <1>6. ASSUME NEW i \in unswept'
        PROVE  /\ i \in unswept /\ i[1] \in Dbis /\ i[2] \in Keys
               /\ ~(i[1] = Current /\ i[2] \in S)
               /\ entries'[i[1]][i[2]] = entries[i[1]][i[2]]
    <2>1. i \in unswept /\ i[1] \in Dbis /\ i[2] \in Keys /\ i = <<i[1], i[2]>>
      BY <1>1 DEF TypeInv
    <2>2. Cleans(entries[i[1]][i[2]])
      BY <2>1, Zenon DEF UnsweptInv, Cleans
    <2>3. ~(i[1] = Current /\ i[2] \in cleaned)
      BY <1>1, <2>1, Zenon
    <2>4. ~(i[1] = Current /\ i[2] \in S)
      BY <2>2, <2>3, Zenon
    <2> QED  BY <1>5, <2>1, <2>4, Zenon
  <1>7. UnsweptInv'
    BY <1>6, Zenon DEF UnsweptInv
  <1> QED  BY <1>2, <1>4, <1>5, <1>6, <1>7, Zenon

\* The steps of a sweep.
LEMMA SweepKeepsInv ==
  ASSUME TypeInv, TimeInv, UnsweptInv, NothingSkipped, SweepStep
  PROVE  TypeInv' /\ TimeInv' /\ UnsweptInv' /\ NothingSkipped'
  <1>0. \A k \in Keys : k \in Nat
    BY SweeperAssumption, Zenon
  <1>1. ASSUME NEW S \in SUBSET Keys, LimitedChunk(S)
        PROVE  TypeInv' /\ TimeInv' /\ UnsweptInv' /\ NothingSkipped'
    <2>1. /\ running /\ todo # <<>> /\ S \subseteq Ahead /\ S # {}
          /\ \A k \in S, j \in Ahead \ S : k < j
          /\ Scan(S)
          /\ last' = [key |-> Max(S), val |-> entries[Current][Max(S)]]
          /\ limitReached' = TRUE
          /\ UNCHANGED <<now, todo, running, cutoffTS, loadStart>>
      BY <1>1, Zenon DEF LimitedChunk
    <2>2. /\ entries' \in [Dbis -> [Keys -> Held(now)]]
          /\ \A i \in unswept' : /\ i \in unswept /\ i[1] \in Dbis /\ i[2] \in Keys
                                 /\ ~(i[1] = Current /\ i[2] \in S)
                                 /\ entries'[i[1]][i[2]] = entries[i[1]][i[2]]
          /\ UnsweptInv'
      BY <2>1, ScanEffect, Zenon
    <2>3. Max(S) \in S /\ \A n \in S : n <= Max(S)
      <3>1. S \in SUBSET Nat /\ IsFiniteSet(S)
        BY SweeperAssumption, FS_Subset, Zenon
      <3>2. \E m \in S : \A n \in S : n <= m
        BY <2>1, <3>1, GreatestNatural, Zenon
      <3> QED  BY <3>1, <3>2, Zenon DEF Max
    <2>4. last'.key = Max(S) /\ Max(S) \in Nat
      BY <1>0, <2>1, <2>3, Zenon
    <2>5. TypeInv'
      <3>1. unswept' \subseteq Dbis \X Keys
        BY <2>2, Zenon DEF TypeInv
      <3>2. last'.key \in Nat
        BY <2>4, Zenon
      <3>3. running' \in BOOLEAN /\ limitReached' \in BOOLEAN
        BY <2>1, Zenon DEF TypeInv
      <3>4. /\ now' \in Nat \ {0} /\ todo' \in Seq(Dbis) /\ cutoffTS' \in Int
            /\ loadStart' \in Nat /\ entries' \in [Dbis -> [Keys -> Held(now')]]
        BY <2>1, <2>2, Zenon DEF TypeInv
      <3> QED  BY <3>1, <3>2, <3>3, <3>4, Zenon DEF TypeInv
    <2>6. TimeInv'
      BY <2>1, Zenon DEF TimeInv
    <2>7. NothingSkipped'
      <3> SUFFICES ASSUME NEW i \in unswept'
                   PROVE  /\ i[1] \in Range(todo')
                          /\ i[1] = Current' => i[2] \in Ahead'
        BY Zenon DEF NothingSkipped
      <3>1. i \in unswept /\ i[2] \in Keys /\ Current' = Current /\ todo' = todo
        BY <2>1, <2>2, Zenon DEF Current
      <3>2. i[1] \in Range(todo)
        BY <2>1, <3>1, Zenon DEF NothingSkipped
      <3>3. ASSUME i[1] = Current
            PROVE  i[2] \in Ahead'
        <4>1. i[2] \in Ahead /\ i[2] \notin S
          BY <2>1, <2>2, <3>1, <3>3, Zenon DEF NothingSkipped
        <4>2. i[2] > last'.key
          BY <1>0, <2>1, <2>3, <2>4, <3>1, <4>1, Zenon
        <4>3. entries'[Current][i[2]] # Absent
          BY <2>2, <3>3, <4>1, Zenon DEF Ahead, Present
        <4> QED  BY <3>1, <4>2, <4>3, Zenon DEF Ahead, Present
      <3> QED  BY <3>1, <3>2, <3>3, Zenon
    <2> QED  BY <2>2, <2>5, <2>6, <2>7, Zenon
  <1>2. ASSUME LastChunk
        PROVE  TypeInv' /\ TimeInv' /\ UnsweptInv' /\ NothingSkipped'
    <2>1. /\ running /\ todo # <<>> /\ Scan(Ahead)
          /\ todo' = Tail(todo) /\ last' = NoCursor /\ limitReached' = FALSE
          /\ UNCHANGED <<now, running, cutoffTS, loadStart>>
      BY <1>2, Zenon DEF LastChunk
    <2>2. Ahead \in SUBSET Keys
      BY Zenon DEF Ahead, Present
    <2>3. /\ entries' \in [Dbis -> [Keys -> Held(now)]]
          /\ \A i \in unswept' : /\ i \in unswept /\ i[1] \in Dbis /\ i[2] \in Keys
                                 /\ ~(i[1] = Current /\ i[2] \in Ahead)
                                 /\ entries'[i[1]][i[2]] = entries[i[1]][i[2]]
          /\ UnsweptInv'
      BY <2>1, <2>2, ScanEffect, Zenon
    <2>4. /\ Tail(todo) \in Seq(Dbis) /\ Len(Tail(todo)) = Len(todo) - 1
          /\ \A n \in 1..Len(Tail(todo)) : Tail(todo)[n] = todo[n + 1]
      BY <2>1 DEF TypeInv
    <2>5. last'.key = 0
      BY <2>1, Zenon DEF NoCursor
    <2>6. TypeInv'
      <3>1. unswept' \subseteq Dbis \X Keys
        BY <2>3, Zenon DEF TypeInv
      <3>2. running' \in BOOLEAN /\ limitReached' \in BOOLEAN
        BY <2>1, Zenon DEF TypeInv
      <3>3. last'.key \in Nat
        BY <2>5
      <3>4. /\ now' \in Nat \ {0} /\ todo' \in Seq(Dbis) /\ cutoffTS' \in Int
            /\ loadStart' \in Nat /\ entries' \in [Dbis -> [Keys -> Held(now')]]
        BY <2>1, <2>3, <2>4, Zenon DEF TypeInv
      <3> QED  BY <3>1, <3>2, <3>3, <3>4, Zenon DEF TypeInv
    <2>7. TimeInv'
      BY <2>1, Zenon DEF TimeInv
    <2>8. NothingSkipped'
      <3> SUFFICES ASSUME NEW i \in unswept'
                   PROVE  /\ i[1] \in Range(todo')
                          /\ i[1] = Current' => i[2] \in Ahead'
        BY Zenon DEF NothingSkipped
      <3>1. i \in unswept /\ i[1] \in Range(todo) /\ i[1] # Current
        BY <2>1, <2>3, Zenon DEF NothingSkipped
      <3>2. PICK n \in 1..Len(todo) : i[1] = todo[n]
        BY <3>1 DEF Range, TypeInv
      <3>3. n # 1
        <4>1. Current = todo[1]
          BY <2>1 DEF Current, TypeInv
        <4> QED  BY <3>1, <3>2, <4>1, Zenon
      <3>4. n - 1 \in 1..Len(Tail(todo)) /\ Tail(todo)[n - 1] = todo[n]
        BY <2>4, <3>2, <3>3 DEF TypeInv
      <3>5. i[1] \in Range(todo')
        <4>1. DOMAIN todo' = 1..Len(Tail(todo)) /\ todo'[n - 1] = i[1]
          BY <2>1, <2>4, <3>2, <3>4
        <4> QED  BY <3>4, <4>1, Zenon DEF Range
      <3>6. IsStale(entries'[i[1]][i[2]], cutoffTS')
        BY <2>3, Zenon DEF UnsweptInv
      <3>7. entries'[i[1]][i[2]] # Absent
        BY <3>6 DEF IsStale, Absent
      <3>8. i[2] \in Keys /\ i[2] > last'.key
        <4>1. \A k \in Keys : k > 0
          BY SweeperAssumption
        <4> QED  BY <2>3, <2>5, <4>1, Zenon
      <3>9. i[1] = Current' => i[2] \in Ahead'
        <4>1. SUFFICES ASSUME i[1] = Current'
                       PROVE  i[2] \in Ahead'
          BY <4>1, Zenon
        <4>2. entries'[Current'][i[2]] # Absent
          BY <3>7, <4>1, Zenon
        <4> QED  BY <3>8, <4>2, Zenon DEF Ahead, Present
      <3> QED  BY <3>5, <3>9, Zenon
    <2> QED  BY <2>3, <2>6, <2>7, <2>8, Zenon
  <1>3. ASSUME FailedChunk \/ SweepReturns
        PROVE  TypeInv' /\ TimeInv' /\ UnsweptInv' /\ NothingSkipped'
    <2>1. /\ running /\ (running' = limitReached \/ running' = FALSE)
          /\ UNCHANGED <<now, entries, todo, cutoffTS, last, limitReached, loadStart,
                         unswept>>
      BY <1>3, Zenon DEF FailedChunk, SweepReturns, lmdbVars
    <2>2. running' \in BOOLEAN /\ limitReached' \in BOOLEAN
      BY <2>1, Zenon DEF TypeInv
    <2>3. TypeInv'
      BY <2>1, <2>2, Zenon DEF TypeInv
    <2>4. TimeInv' /\ UnsweptInv'
      BY <2>1, Zenon DEF TimeInv, UnsweptInv
    <2>5. Ahead' = Ahead /\ Current' = Current
      BY <2>1, Zenon DEF Ahead, Present, Current
    <2>6. NothingSkipped'
      BY <2>1, <2>5, Zenon DEF NothingSkipped
    <2> QED  BY <2>3, <2>4, <2>6, Zenon
  <1> QED  BY <1>1, <1>2, <1>3, Zenon DEF SweepStep
--------------------------------------------------------------------------------
SweeperInv == TypeInv /\ TimeInv /\ UnsweptInv /\ NothingSkipped

\* Every step keeps the invariant.
LEMMA InvKept ==
  ASSUME SweeperInv, [Next]_vars
  PROVE  SweeperInv'
  <1> USE DEF SweeperInv
  <1>1. CASE UNCHANGED vars
    <2>1. UNCHANGED <<now, entries, todo, running, cutoffTS, last, limitReached,
                      loadStart, unswept>>
      BY <1>1, Zenon DEF vars, lmdbVars, sweepVars
    <2>2. Ahead' = Ahead /\ Current' = Current
      BY <2>1, Zenon DEF Ahead, Present, Current
    <2> QED
      BY <2>1, <2>2, Zenon DEF TypeInv, TimeInv, UnsweptInv, NothingSkipped
  <1>2. CASE Tick \/ StartLoad
             \/ (\E d \in Dbis, k \in Keys, e \in Written(now) :
                   Write(d, k, e) \/ Load(d, k, e))
    BY <1>2, OthersKeepInv, Zenon
  <1>3. CASE StartSweep
    BY <1>3, StartKeepsInv, Zenon
  <1>4. CASE SweepStep
    BY <1>4, SweepKeepsInv, Zenon
  <1> QED  BY <1>1, <1>2, <1>3, <1>4, Zenon DEF Next

\* While sweep is running, the stale markers of its start which nobody replaced
\* are ahead of its cursor, however the application and the syncer write between
\* two chunks and whichever chunks fail.
THEOREM NothingSkippedAlways == Spec => []NothingSkipped
  <1>1. Init => SweeperInv
    BY InitTypes, Zenon DEF SweeperInv
  <1>2. SweeperInv /\ [Next]_vars => SweeperInv'
    BY InvKept, Zenon
  <1>3. SweeperInv => NothingSkipped
    BY Zenon DEF SweeperInv
  <1> QED  BY <1>1, <1>2, <1>3, PTL DEF Spec

\* What one step does to the key of a DBI: nothing, or it is written, loaded or
\* swept.
LEMMA KeyStep ==
  ASSUME SweeperInv, [Next]_vars, NEW d \in Dbis, NEW k \in Keys
  PROVE  \/ entries'[d][k] = entries[d][k]
         \/ entries'[d][k] \in Written(now) /\ entries'[d][k].ts = now
         \/ /\ loadStart # 0
            /\ \E e \in Written(now) : entries'[d][k] =
                 Merge(entries[d][k], e, 0, deletedCutoff(loadStart),
                       CurrentFormatVersion)
         \/ entries'[d][k] = Absent /\ IsStale(entries[d][k], cutoffTS)
  <1> USE DEF SweeperInv
  <1>1. ASSUME NEW c \in Dbis, NEW j \in Keys, NEW m, Put(c, j, m)
        PROVE  entries'[d][k] = IF c = d /\ j = k THEN m ELSE entries[d][k]
    <2>1. entries' = [entries EXCEPT ![c][j] = m]
      BY <1>1, Zenon DEF Put
    <2> QED  BY <2>1, Zenon DEF TypeInv
  <1>2. ASSUME NEW c \in Dbis, NEW j \in Keys, NEW e \in Written(now), Write(c, j, e)
        PROVE  \/ entries'[d][k] = entries[d][k]
               \/ entries'[d][k] \in Written(now) /\ entries'[d][k].ts = now
    <2>1. e.ts = now /\ Put(c, j, e)
      BY <1>2, Zenon DEF Write
    <2> QED  BY <1>1, <2>1, Zenon
  <1>3. ASSUME NEW c \in Dbis, NEW j \in Keys, NEW e \in Written(now), Load(c, j, e)
        PROVE  \/ entries'[d][k] = entries[d][k]
               \/ /\ loadStart # 0
                  /\ entries'[d][k] =
                       Merge(entries[d][k], e, 0, deletedCutoff(loadStart),
                             CurrentFormatVersion)
    <2>1. /\ loadStart # 0
          /\ Put(c, j, Merge(entries[c][j], e, 0, deletedCutoff(loadStart),
                             CurrentFormatVersion))
      BY <1>3, Zenon DEF Load
    <2> QED  BY <1>1, <2>1, Zenon
  <1>4. ASSUME NEW S \in SUBSET Keys, todo # <<>>, Scan(S), UNCHANGED <<now, cutoffTS>>
        PROVE  \/ entries'[d][k] = entries[d][k]
               \/ entries'[d][k] = Absent /\ IsStale(entries[d][k], cutoffTS)
    <2>1. entries'[d][k] = IF d = Current /\ k \in S /\ Cleans(entries[d][k])
                           THEN Absent ELSE entries[d][k]
      BY <1>4, ScanEffect
    <2> QED  BY <2>1, Zenon DEF Cleans
  <1>5. ASSUME LastChunk \/ (\E S \in SUBSET Keys : LimitedChunk(S))
        PROVE  \/ entries'[d][k] = entries[d][k]
               \/ entries'[d][k] = Absent /\ IsStale(entries[d][k], cutoffTS)
    <2>1. Ahead \in SUBSET Keys
      BY Zenon DEF Ahead, Present
    <2> QED  BY <1>4, <1>5, <2>1, Zenon DEF LastChunk, LimitedChunk
  <1>6. ASSUME Tick \/ StartLoad \/ StartSweep \/ FailedChunk \/ SweepReturns
               \/ UNCHANGED vars
        PROVE  entries'[d][k] = entries[d][k]
    BY <1>6, Zenon DEF Tick, StartLoad, StartSweep, FailedChunk, SweepReturns, vars,
                       lmdbVars
  <1> QED  BY <1>2, <1>3, <1>5, <1>6, Zenon DEF Next, SweepStep

\* sweep removes nothing but deletion markers older than the retention, and
\* neither the application nor a load removes anything.
THEOREM OnlyStaleRemovedAlways == Spec => OnlyStaleRemoved
  <1>1. Init => SweeperInv
    BY InitTypes, Zenon DEF SweeperInv
  <1>2. SweeperInv /\ [Next]_vars => SweeperInv'
    BY InvKept, Zenon
  <1>3. SweeperInv /\ [Next]_vars =>
          [\A d \in Dbis, k \in Keys :
             entries[d][k] # Absent /\ entries'[d][k] = Absent =>
               IsStale(entries[d][k], now - Retention)]_vars
    <2> SUFFICES ASSUME SweeperInv, [Next]_vars, NEW d \in Dbis, NEW k \in Keys,
                        entries[d][k] # Absent, entries'[d][k] = Absent
                 PROVE  IsStale(entries[d][k], now - Retention)
      BY Zenon
    <2> USE DEF SweeperInv
    <2>1. now \in Nat /\ entries[d][k] \in Written(now) /\ loadStart \in Nat
      BY Zenon DEF TypeInv, Held
    <2>2. Absent \notin Written(now)
      BY <2>1, WrittenFields, Zenon
    <2>3. \A e \in Written(now) : Merge(entries[d][k], e, 0, deletedCutoff(loadStart),
                                        CurrentFormatVersion) # Absent
      <3>1. entries[d][k] \in Held(now) /\ deletedCutoff(loadStart) \in Int
        BY <2>1, SweeperAssumption DEF Held, deletedCutoff
      <3> QED  BY <2>1, <3>1, MergeOfWritten, Zenon
    <2>4. IsStale(entries[d][k], cutoffTS)
      BY <2>2, <2>3, KeyStep, Zenon
    <2>5. entries[d][k].ts \in Nat /\ entries[d][k].ts >= 1
      BY <2>1, WrittenFields, Zenon
    <2> QED  BY <2>1, <2>4, <2>5, SweeperAssumption DEF IsStale, TimeInv, TypeInv
  <1> QED  BY <1>1, <1>2, <1>3, PTL DEF Spec, OnlyStaleRemoved

\* A load that runs while sweep does, and started before or after it, does not
\* bring back a marker that the sweep removes: its own cutoff is not earlier.
THEOREM StaleStaysAwayAlways == Spec => StaleStaysAway
  <1>1. Init => SweeperInv
    BY InitTypes, Zenon DEF SweeperInv
  <1>2. SweeperInv /\ [Next]_vars => SweeperInv'
    BY InvKept, Zenon
  <1>3. SweeperInv /\ [Next]_vars =>
          [\A d \in Dbis, k \in Keys :
             entries[d][k] = Absent => ~IsStale(entries'[d][k], cutoffTS)]_vars
    <2> SUFFICES ASSUME SweeperInv, [Next]_vars, NEW d \in Dbis, NEW k \in Keys,
                        entries[d][k] = Absent
                 PROVE  ~IsStale(entries'[d][k], cutoffTS)
      BY Zenon
    <2> USE DEF SweeperInv
    <2>1. now \in Nat \ {0} /\ loadStart \in Nat /\ cutoffTS \in Int
      BY Zenon DEF TypeInv
    <2>2. ~IsStale(Absent, cutoffTS)
      BY <2>1, HeldLater, Zenon
    <2>3. CASE entries'[d][k] = entries[d][k] \/ entries'[d][k] = Absent
      BY <2>2, <2>3, Zenon
    <2>4. CASE entries'[d][k].ts = now
      BY <2>1, <2>4, SweeperAssumption DEF TimeInv, IsStale
    <2>5. ASSUME loadStart # 0, NEW e \in Written(now),
                 entries'[d][k] = Merge(Absent, e, 0, deletedCutoff(loadStart),
                                        CurrentFormatVersion)
          PROVE  ~IsStale(entries'[d][k], cutoffTS)
      <3>1. Absent \in Held(now) /\ deletedCutoff(loadStart) \in Int
        BY <2>1, SweeperAssumption DEF Held, deletedCutoff
      <3>2. \/ entries'[d][k] = Absent
            \/ entries'[d][k] = e /\ ~IsStale(e, deletedCutoff(loadStart))
        BY <2>1, <2>5, <3>1, MergeOfWritten
      <3>3. ASSUME ~IsStale(e, deletedCutoff(loadStart))
            PROVE  ~IsStale(e, cutoffTS)
        <4>1. e.ts \in Nat /\ e.ts >= 1
          BY <2>1, WrittenFields, Zenon
        <4>2. cutoffTS <= 0 \/ cutoffTS <= deletedCutoff(loadStart)
          BY <2>1, <2>5, SweeperAssumption DEF TimeInv, deletedCutoff
        <4> QED  BY <2>1, <3>1, <3>3, <4>1, <4>2 DEF IsStale
      <3> QED  BY <2>2, <3>2, <3>3, Zenon
    <2> QED  BY <2>3, <2>4, <2>5, KeyStep, Zenon
  <1> QED  BY <1>1, <1>2, <1>3, PTL DEF Spec, StaleStaysAway
================================================================================
