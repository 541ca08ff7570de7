------------------------------ MODULE Snapshots -------------------------------
(***************************************************************************)
(* The way of the data of one DBI through a snapshot in shadow mode, from  *)
(* the application's values on one instance to those on another:           *)
(*                                                                         *)
(*   main --readDBI, dupsort_hack, header--> shadow --readDBI, WriteTo-->  *)
(*   file --ParseName, Unmarshal--> shadow --readDBI, dupsort_hack--> main *)
(*                                                                         *)
(* Every conversion on the way is that of the code.  When an instance      *)
(* sends and loads is the subject of the module Syncer; here it may do so  *)
(* at any time.                                                            *)
(*                                                                         *)
(* Keys, values and names are sequences of bytes.  A value with a header   *)
(* starts with one byte each for the timestamp, the version, the flags and *)
(* the number of extra blocks; an extra block is one byte.                 *)
(***************************************************************************)
EXTENDS Wire, DupSortHack, Iterators

CONSTANTS
  Instances,
  OldInstances,    \* instances that have left a snapshot of format version 2
  Configured,      \* the name each instance is configured with
  DatabaseName,    \* the name of the LMDB
  ForeignNames,    \* the other files of the bucket
  Added,           \* what the version an instance runs adds to its messages
  Pairs,           \* the key-value pairs the application may write
  OldKVs,          \* the entries of the snapshots of OldInstances
  Settings,        \* the flags the application creates the DBI with, and the
                   \* option dupsort_hack of all instances
  HeaderExtraPaddingBlock,
  MaxTime,         \* bound: the number of timestamps taken
  MaxWrites        \* bound: the number of writes of the application

ASSUME SnapshotsAssumption ==
  /\ \A p \in Pairs : p.key # <<>> /\ p.value # <<>>
  /\ MaxTime \in 1..9 /\ MaxWrites \in Nat

VARIABLES
  setting,  \* one of Settings
  flags,    \* the flags of the DBI of the application, if it exists
  main,     \* the DBI of the application: a set of pairs
  shadow,   \* the shadow DBI: a function from keys to values with a header
  changed,  \* the application has written since the last transaction
  unsent,   \* a change was copied to the shadow DBI but not sent
  files,    \* the bucket
  loaded,   \* the timestamp of the last snapshot loaded, by instance
  failed,   \* the error of the last transaction, if any
  clock,    \* the last timestamp taken
  writes    \* the number of writes

vars == <<setting, flags, main, shadow, changed, unsent, files, loaded, failed,
          clock, writes>>

DBIName == <<100>>

TransformDupSortHackV1 == <<104>>

DupSortFlag == 4

WriteCompatFormatVersion == 1

NoDBI == -1

SyncDBIPrefix == <<95>>

\* The order of a cursor.
PairLess(p, q) == Less(p.key, q.key) \/ (p.key = q.key /\ Less(p.value, q.value))

\* The position of a value among all of them: Iterators has numbers for values.
Rank(v) == Cardinality({w \in {p.value : p \in Pairs} \cup {<<>>} : Less(w, v)})

NoError == "none"

\* A file of the bucket; info is what every ParseName of its name returns.
File(name, data) == [name |-> name, info |-> ParseName(name), data |-> data]

\* The instance ID of every instance.
ids == [j \in Instances \cup OldInstances |-> instanceID(Configured[j])]

Meta(id, ts) ==
  [tag \in DOMAIN MetaTypes |->
     CASE tag = FieldMetaGenerationID  -> GX
       [] tag = FieldMetaInstanceID    -> id
       [] tag = FieldMetaDatabaseName  -> DatabaseName
       [] tag = FieldMetaTimestampNano -> ts
       [] tag = FieldMetaHostname      -> <<>>
       [] OTHER                        -> 0]

\* A snapshot of format version 2, before a transform and the flags of the
\* application's DBI were a part of it.  It also has a private DBI.
OldFile(j, dupSort) ==
  LET id  == ids[j]
      kvs == {IF dupSort THEN [EncodeOne(kv) EXCEPT !.ts = kv.ts] ELSE kv
                : kv \in OldKVs}
      dbi == FoldLeft(LAMBDA d, kv : AppendKV(d, kv, AddsNothing),
                      SetName(NewDBI, DBIName),
                      Ascending(kvs, LAMBDA a, b : Less(a.key, b.key)))
      msg == [formatVersion |-> 2, compatVersion |-> 0, meta |-> Meta(id, 1),
              databases |-> <<SetName(NewDBI, SyncDBIPrefix), dbi>>]
  IN  File(BuildName(DatabaseName, id, 1), DumpData(msg, AddsNothing))

Init ==
  /\ setting \in Settings
  /\ flags = [i \in Instances |-> NoDBI]
  /\ main = [i \in Instances |-> {}]
  /\ shadow = [i \in Instances |-> <<>>]
  /\ changed = [i \in Instances |-> FALSE]
  /\ unsent = [i \in Instances |-> FALSE]
  /\ files = {File(n, [other |-> n]) : n \in ForeignNames}
             \cup {OldFile(j, setting.flags = DupSortFlag) : j \in OldInstances}
  /\ loaded = [i \in Instances |-> [j \in Instances \cup OldInstances |-> 0]]
  /\ failed = [i \in Instances |-> NoError]
  /\ clock = 1 /\ writes = 0
-------------------------------------------------------------------------------
(***************************************************************************)
(* The value header.                                                       *)
(***************************************************************************)
MinHeaderSize == 4

FlagDeleted == 1

Masked(fl) == fl % 2

\* header.Parse
ParseHeader(val) ==
  [ts |-> val[1], flags |-> val[3],
   value |-> SubSeq(val, MinHeaderSize + val[4] + 1, Len(val))]

\* header.Parse returns an error.
ParseHeaderFails(val) ==
  Len(val) < MinHeaderSize \/ val[2] # 0 \/ Len(val) < MinHeaderSize + val[4]

\* NativeIterator.addHeader: header.PutBasic, the padding block, the value.
WithHeader(value, ts, fl, padding) ==
  <<ts, 0, fl>> \o (IF padding THEN <<1, 0>> ELSE <<0>>)
  \o (IF fl = FlagDeleted THEN <<>> ELSE value)

\* The entry of Iterators that a KV, or a value with a header, stands for.
EntryOf(kv) ==
  [kind |-> IF Masked(kv.flags) = FlagDeleted THEN "deleted" ELSE "live",
   ts |-> kv.ts, val |-> Rank(kv.value)]

\* NativeIterator.Merge for the value old of the key, empty if there is none.
MergeKV(old, kv, defaultTS, padding) ==
  IF old # <<>> /\ KeepsOld(EntryOf(ParseHeader(old)), EntryOf(kv), defaultTS)
  THEN old
  ELSE WithHeader(kv.value, EffectiveTS(kv, defaultTS), Masked(kv.flags), padding)

\* NativeIterator.Clean
CleanKV(old, defaultTS) ==
  IF Masked(ParseHeader(old).flags) = FlagDeleted THEN old
  ELSE WithHeader(<<>>, defaultTS, FlagDeleted, FALSE)
-------------------------------------------------------------------------------
(***************************************************************************)
(* The steps of a transaction.                                             *)
(***************************************************************************)
\* The LMDB entries of a shadow DBI as pairs.
ShadowPairs(sh) == {[key |-> k, value |-> sh[k]] : k \in DOMAIN sh}

\* The KV readDBI appends for an LMDB entry.
ReadKV(p, rawValues) ==
  IF rawValues THEN [key |-> p.key, value |-> p.value, ts |-> 0, flags |-> 0]
  ELSE LET h == ParseHeader(p.value)
       IN  [key |-> p.key, value |-> h.value, ts |-> h.ts,
            flags |-> Masked(h.flags)]

\* Mutant: the flags are those of the shadow DBI, as in format version 2.
readDBIShadowFlags(fl, pairs, rawValues, added) ==
  flushFields(FoldLeft(LAMBDA d, p : AppendKV(d, ReadKV(p, rawValues), added),
                       SetFlags(SetName(NewDBI, DBIName), 0),
                       Ascending(pairs, PairLess)))

\* Syncer.readDBI; fl are the flags of the main DBI.
readDBI(fl, pairs, rawValues, added) ==
  LET named == SetName(NewDBI, DBIName)
      typed == IF fl = DupSortFlag THEN SetTransform(named, TransformDupSortHackV1)
               ELSE named
  IN  flushFields(FoldLeft(LAMBDA d, p : AppendKV(d, ReadKV(p, rawValues), added),
                           SetFlags(typed, fl), Ascending(pairs, PairLess)))

\* The error of readDBI, the first that applies.
readDBIError(fl, pairs, rawValues) ==
  CASE fl = DupSortFlag /\ ~setting.dupSortHack -> "disabled"
    [] fl # DupSortFlag /\ \E p, q \in pairs : p # q /\ p.key = q.key
         -> "duplicate"
    [] ~rawValues /\ \E p \in pairs : ParseHeaderFails(p.value) -> "ErrEntry"
    [] OTHER -> NoError

\* The KVs mainToShadow gives to the iterator.
MainKVs(fl, pairs) ==
  LET kvs == Entries(readDBI(fl, pairs, TRUE, AddsNothing).data)
  IN  IF fl = DupSortFlag THEN [n \in DOMAIN kvs |-> EncodeOne(kvs[n])] ELSE kvs

\* IterUpdate of the shadow DBI.
IterUpdate(sh, kvs, ts) ==
  LET keys == {kvs[n].key : n \in DOMAIN kvs}
  IN  [k \in DOMAIN sh \cup keys |->
         IF k \in keys
         THEN MergeKV(IF k \in DOMAIN sh THEN sh[k] ELSE <<>>,
                      kvs[CHOOSE n \in DOMAIN kvs : kvs[n].key = k], ts, FALSE)
         ELSE CleanKV(sh[k], ts)]

\* Syncer.mainToShadow
mainToShadow(fl, sh, pairs, ts) ==
  IF fl = NoDBI THEN sh ELSE IterUpdate(sh, MainKVs(fl, pairs), ts)

\* The error of mainToShadow, the first that applies.
mainToShadowError(fl, pairs) ==
  LET kvs == MainKVs(fl, pairs)
  IN  CASE fl = NoDBI -> NoError
        [] readDBIError(fl, pairs, TRUE) # NoError -> readDBIError(fl, pairs, TRUE)
        [] /\ fl = DupSortFlag
           /\ EncodeFails(Entries(readDBI(fl, pairs, TRUE, AddsNothing).data))
             -> "dupsort_hack"
        [] \E n \in 2..Len(kvs) : ~Less(kvs[n - 1].key, kvs[n].key)
             -> "ErrNotSorted"
        [] OTHER -> NoError

\* Syncer.shadowToMain: the KVs it gives to the iterator, and EmptyPut or
\* IterUpdate with a PlainIterator: entries without a value are not put.
shadowToMain(fl, sh) ==
  LET kvs   == Entries(readDBI(fl, ShadowPairs(sh), FALSE, AddsNothing).data)
      plain == IF fl = DupSortFlag
               THEN [n \in DOMAIN kvs |-> DecodeOne(kvs[n])] ELSE kvs
  IN  {[key |-> plain[n].key, value |-> plain[n].value] :
         n \in {m \in DOMAIN plain : plain[m].value # <<>>}}

\* The error of shadowToMain, the first that applies.
shadowToMainError(fl, sh) ==
  LET pairs == ShadowPairs(sh)
      kvs   == Entries(readDBI(fl, pairs, FALSE, AddsNothing).data)
  IN  CASE readDBIError(fl, pairs, FALSE) # NoError
             -> readDBIError(fl, pairs, FALSE)
        [] fl = DupSortFlag /\ \E n \in DOMAIN kvs : DecodeOneFails(kvs[n])
             -> "dupsort_hack"
        [] OTHER -> NoError

\* DBI.ValidateTransform in shadow mode
ValidateTransformFails(formatVersion, d) ==
  \/ d.transform \notin {<<>>, TransformDupSortHackV1}
  \/ /\ formatVersion >= 3
     /\ ((d.flags = DupSortFlag) # (d.transform = TransformDupSortHackV1))

\* NewNativeIterator returns an error.
NewNativeIteratorFails(s) ==
  s.formatVersion = 0 \/ s.compatVersion > CurrentFormatVersion

\* Update of the shadow DBI from one DBI of a snapshot.
UpdateFrom(sh, d) ==
  FoldLeft(LAMBDA t, kv :
             [k \in DOMAIN t \cup {kv.key} |->
                IF k # kv.key THEN t[k]
                ELSE MergeKV(IF k \in DOMAIN t THEN t[k] ELSE <<>>, kv, 0,
                             HeaderExtraPaddingBlock)],
           sh, Entries(d.data))
-------------------------------------------------------------------------------
(***************************************************************************)
(* The actions.                                                            *)
(***************************************************************************)
\* The application puts or deletes a pair, with its first write in the DBI it
\* creates.  Without MDB_DUPSORT a key has one value.
Write(i) ==
  /\ writes < MaxWrites
  /\ \E p \in Pairs :
       main' = [main EXCEPT ![i] =
                  IF p \in @ THEN @ \ {p}
                  ELSE {q \in @ : setting.flags = DupSortFlag \/ q.key # p.key}
                       \cup {p}]
  /\ flags' = [flags EXCEPT ![i] = IF @ = NoDBI THEN setting.flags ELSE @]
  /\ changed' = [changed EXCEPT ![i] = TRUE]
  /\ writes' = writes + 1
  /\ UNCHANGED <<setting, shadow, unsent, files, loaded, failed, clock>>

\* A transaction that fails changes nothing; the run ends and is started again.
Fails(i, error) ==
  /\ failed' = [failed EXCEPT ![i] = error]
  /\ UNCHANGED <<setting, flags, main, shadow, changed, unsent, files, loaded,
                 clock, writes>>

\* The Snapshot message of SendOnce.
SnapshotOf(i, sh, ts) ==
  [formatVersion |-> CurrentFormatVersion,
   compatVersion |-> WriteCompatFormatVersion,
   meta |-> Meta(ids[i], ts),
   databases |-> IF flags[i] = NoDBI THEN <<>>
                 ELSE <<readDBI(flags[i], ShadowPairs(sh), FALSE, Added[i])>>]

\* Receiver.RunOnce: the last name of an instance in the order of the listing.
Listed(id) ==
  {f \in files : /\ f.info.valid /\ f.info.instanceID = id
                 /\ IsPrefix(prefix(DatabaseName), f.name)}

LastSeen(id) ==
  LET seen == Listed(id)
  IN  CHOOSE f \in seen : \A g \in seen : f = g \/ Less(g.name, f.name)

\* Syncer.SendOnce, at the start and when something has changed: one transaction
\* copies main to shadow and reads the shadow DBI; the snapshot is stored under
\* its name.
SendOnce(i) ==
  /\ clock < MaxTime
  /\ Listed(ids[i]) # {} => changed[i] \/ unsent[i]
  /\ LET ts    == clock + 1
         error == mainToShadowError(flags[i], main[i])
         sh    == mainToShadow(flags[i], shadow[i], main[i], ts)
         msg   == SnapshotOf(i, sh, ts)
     IN  IF error # NoError THEN Fails(i, error)
         ELSE /\ shadow' = [shadow EXCEPT ![i] = sh]
              /\ files' = files \cup
                   {File(BuildName(DatabaseName, ids[i], ts),
                         DumpData(msg, Added[i]))}
              /\ clock' = ts
              /\ changed' = [changed EXCEPT ![i] = FALSE]
              /\ unsent' = [unsent EXCEPT ![i] = FALSE]
              /\ failed' = [failed EXCEPT ![i] = NoError]
              /\ UNCHANGED <<setting, flags, main, loaded, writes>>

\* The DBIs of a snapshot that are loaded.
Loads(s) == SelectSeq(s.databases, LAMBDA d : ~IsPrefix(SyncDBIPrefix, d.name))

\* The flags of the DBI after it was created if it did not exist.
CreatedFlags(i, s) ==
  IF flags[i] = NoDBI /\ Loads(s) # <<>> THEN Loads(s)[1].flags ELSE flags[i]

\* Syncer.LoadOnce with the latest snapshot of instance j.  Its error is the
\* first that applies.
LoadOnce(i, j) ==
  LET f  == LastSeen(ids[j])
      s  == LoadData(f.data)
      dbis == Loads(s)
      fl   == CreatedFlags(i, s)
      ts   == clock + 1
      toShadow == IF changed[i] THEN mainToShadowError(flags[i], main[i]) ELSE NoError
      before   == IF changed[i] THEN mainToShadow(flags[i], shadow[i], main[i], ts)
                  ELSE shadow[i]
      after    == FoldLeft(UpdateFrom, before, dbis)
      error    == CASE LoadDataFails(f.data) -> "corrupt"
                    [] toShadow # NoError -> toShadow
                    [] \E n \in DOMAIN dbis :
                         ValidateTransformFails(s.formatVersion, dbis[n])
                         -> "transform"
                    [] flags[i] = NoDBI /\ dbis # <<>> /\ s.formatVersion < 3
                         -> "flags unknown"
                    [] NewNativeIteratorFails(s) -> "version"
                    [] \E n \in DOMAIN dbis : NextFails(dbis[n].data) -> "next"
                    [] fl = NoDBI -> NoError
                    [] OTHER -> shadowToMainError(fl, after)
  IN  /\ Listed(ids[j]) # {}
      /\ f.info.ts > loaded[i][j]
      /\ changed[i] => clock < MaxTime
      /\ IF error # NoError THEN Fails(i, error)
         ELSE /\ shadow' = [shadow EXCEPT ![i] = after]
              /\ flags' = [flags EXCEPT ![i] = fl]
              /\ main' = [main EXCEPT ![i] =
                            IF fl = NoDBI THEN @ ELSE shadowToMain(fl, after)]
              /\ clock' = IF changed[i] THEN ts ELSE clock
              /\ unsent' = [unsent EXCEPT ![i] = @ \/ changed[i]]
              /\ changed' = [changed EXCEPT ![i] = FALSE]
              /\ loaded' = [loaded EXCEPT ![i][j] = f.info.ts]
              /\ failed' = [failed EXCEPT ![i] = NoError]
              /\ UNCHANGED <<setting, files, writes>>

Next ==
  \E i \in Instances :
    \/ Write(i)
    \/ SendOnce(i)
    \/ \E j \in (Instances \cup OldInstances) \ {i} : LoadOnce(i, j)

Spec == Init /\ [][Next]_vars
-------------------------------------------------------------------------------
(***************************************************************************)
(* Properties.                                                             *)
(***************************************************************************)
TypeOK ==
  /\ setting \in Settings
  /\ flags \in [Instances -> {NoDBI, 0, DupSortFlag}]
  /\ main \in [Instances -> SUBSET (Pairs \cup {[key |-> kv.key, value |-> kv.value]
                                             : kv \in OldKVs})]
  /\ changed \in [Instances -> BOOLEAN] /\ unsent \in [Instances -> BOOLEAN]
  /\ failed \in [Instances -> {NoError, "dupsort_hack", "disabled",
                                "flags unknown"}]
  /\ clock \in 1..MaxTime /\ writes \in 0..MaxWrites

\* A new file can be read back as it was written, whatever fields its writer's
\* version has added: the name gives the instance and the time, and the message
\* every entry of the writer's shadow DBI (BuildName and ParseName; WriteTo and
\* Unmarshal; readDBI and Next).
ReadAsWritten ==
  [][\A f \in files' \ files :
       LET n == f.info
           s == LoadData(f.data)
           d == s.databases[1]
       IN  \E i \in Instances :
             /\ n.valid /\ n.syncerName = DatabaseName
             /\ n.instanceID = ids[i] /\ n.ts = clock'
             /\ ~LoadDataFails(f.data)
             /\ s.meta = Meta(ids[i], clock')
             /\ Len(s.databases) = IF flags[i] = NoDBI THEN 0 ELSE 1
             /\ flags[i] # NoDBI =>
                  /\ d.name = DBIName
                  /\ ~NextFails(d.data)
                  /\ {<<e.key, e.value, e.ts, e.flags>>
                        : e \in ToSet(Entries(d.data))}
                     = {LET h == ParseHeader(shadow'[i][k])
                        IN  <<k, h.value, h.ts, h.flags>>
                          : k \in DOMAIN shadow'[i]}]_vars

\* The DBI of the application has the same flags on every instance, on one where
\* a load has created it too (LoadOnce, from the flags readDBI takes from the
\* main DBI and not from the shadow DBI).
SameFlags == \A i \in Instances : flags[i] \in {NoDBI, setting.flags}

\* After a transaction of Lightning Stream the main DBI and the live entries of
\* the shadow DBI hold the same pairs (mainToShadow and shadowToMain).
MainIsShadow ==
  \A i \in Instances :
    ~changed[i] /\ flags[i] # NoDBI =>
      /\ shadowToMainError(flags[i], shadow[i]) = NoError
      /\ main[i] = shadowToMain(flags[i], shadow[i])

\* Two pairs the hack cannot keep apart or in order: the values of one key where
\* one is a prefix of the other or their first bytes are the same, or a key that
\* continues another one with a zero byte.
Clash(p, q) ==
  \/ /\ p.key = q.key
     /\ IsPrefix(SubSeq(p.value, 1, Min({Len(p.value), remaining(p.key)})), q.value)
  \/ IsPrefix(Append(p.key, 0), q.key)

\* A transaction fails only for a DBI with MDB_DUPSORT that has the hack disabled,
\* a key that is too long or two pairs that clash, and where a snapshot of format
\* version 2 comes before the DBI: all other data gets through the checks of
\* dupSortHackEncode, IterUpdate, ValidateTransform, readDBI and
\* dupSortHackDecode.
OnlyClashesFail ==
  [][\A i \in Instances :
       failed'[i] # failed[i] /\ failed'[i] # NoError =>
         \/ flags[i] = NoDBI /\ failed'[i] = "flags unknown"
         \/ /\ setting.flags = DupSortFlag
            /\ \/ ~setting.dupSortHack
               \/ \E p \in main[i] : Len(p.key) > DupSortHackMaxKeySize
               \/ \E p, q \in main[i] : p # q /\ Clash(p, q)]_vars

\* Nothing is left to send or to load.
Quiet ==
  \A i \in Instances :
    /\ ~changed[i] /\ ~unsent[i]
    /\ \A j \in (Instances \cup OldInstances) \ {i} :
         Listed(ids[j]) # {} => loaded[i][j] = LastSeen(ids[j]).info.ts

\* When nothing is left to send or to load, the applications of all instances
\* see the same pairs (the whole way of the data, and per-key resolution).
QuietAgree == Quiet => \A i, j \in Instances : main[i] = main[j]
===============================================================================
