--------------------------------- MODULE Wire ---------------------------------
(***************************************************************************)
(* The snapshot format of the package snapshot: the messages Snapshot,     *)
(* Meta, DBI and KV as protobuf data, written by hand-made encoders and    *)
(* read back by hand-made decoders.                                        *)
(*                                                                         *)
(* Data is a sequence of fields.  The value of a length-delimited field is *)
(* a byte string, or the data of an inner message.                         *)
(***************************************************************************)
EXTENDS Integers, SequencesExt, FiniteSetsExt

Varint == 0
Fixed64 == 1
LengthDelimited == 2
Fixed32 == 5

FieldKVKey == 1
FieldKVValue == 2
FieldKVTimestampNano == 3
FieldKVFlags == 4

FieldDBIName == 1
FieldDBIEntries == 2
FieldDBIFlags == 3
FieldDBITransform == 4

FieldSnapshotFormatVersion == 1
FieldSnapshotMeta == 2
FieldSnapshotDBI == 3
FieldSnapshotCompatVersion == 4

FieldMetaGenerationID == 1
FieldMetaInstanceID == 2
FieldMetaHostname == 3
FieldMetaLMDBTxnID == 4
FieldMetaTimestampNano == 5
FieldMetaDatabaseName == 7
FieldMetaFromLMDBTxnID == 8

MetaStrings == <<FieldMetaGenerationID, FieldMetaInstanceID, FieldMetaHostname,
                 FieldMetaDatabaseName>>

MetaTypes ==
  [tag \in {1, 2, 3, 4, 5, 7, 8} |->
     CASE tag \in ToSet(MetaStrings)    -> LengthDelimited
       [] tag = FieldMetaTimestampNano -> Fixed64
       [] OTHER                        -> Varint]

\* The fields the encoders write: none for the zero value.
NumField(tag, wireType, v) ==
  IF v = 0 THEN <<>> ELSE <<[tag |-> tag, wireType |-> wireType, val |-> v]>>

DataField(tag, b) ==
  IF b = <<>> THEN <<>>
  ELSE <<[tag |-> tag, wireType |-> LengthDelimited, val |-> b]>>
-------------------------------------------------------------------------------
(***************************************************************************)
(* Writing.  A DBI is built up by the setters and Append, and keeps its    *)
(* fields apart from the data until they are flushed.  A setter called     *)
(* after the flush panics.                                                 *)
(*                                                                         *)
(* A writer of a later version may add fields to every kind of message:    *)
(* added holds them, and AddsNothing is this version.                      *)
(***************************************************************************)
AddsNothing == [snapshot |-> <<>>, meta |-> <<>>, dbi |-> <<>>, kv |-> <<>>]

NewDBI == [name |-> <<>>, flags |-> 0, transform |-> <<>>, data |-> <<>>,
           dirty |-> FALSE, flushed |-> FALSE, panic |-> FALSE]

SetName(d, s) ==
  [d EXCEPT !.name = s, !.dirty = TRUE, !.panic = @ \/ d.flushed]

SetFlags(d, v) ==
  [d EXCEPT !.flags = v, !.dirty = TRUE, !.panic = @ \/ d.flushed]

SetTransform(d, s) ==
  [d EXCEPT !.transform = s, !.dirty = TRUE, !.panic = @ \/ d.flushed]

doFlushFields(d) ==
  DataField(FieldDBIName, d.name)
  \o NumField(FieldDBIFlags, Varint, d.flags)
  \o DataField(FieldDBITransform, d.transform)

flushFields(d) ==
  [d EXCEPT !.flushed = TRUE, !.dirty = FALSE,
            !.data = IF d.dirty THEN @ \o doFlushFields(d) ELSE @]

\* Mutant: an entry without a value is written without its flags.
MarshalKVNoEmptyFlags(kv) ==
  DataField(FieldKVKey, kv.key)
  \o DataField(FieldKVValue, kv.value)
  \o NumField(FieldKVFlags, Varint, IF kv.value = <<>> THEN 0 ELSE kv.flags)
  \o NumField(FieldKVTimestampNano, Fixed64, kv.ts)

\* The message DBI.Append writes for a KV.
MarshalKV(kv) ==
  DataField(FieldKVKey, kv.key)
  \o DataField(FieldKVValue, kv.value)
  \o NumField(FieldKVFlags, Varint, kv.flags)
  \o NumField(FieldKVTimestampNano, Fixed64, kv.ts)

\* DBI.Append
AppendKV(d, kv, added) ==
  LET f == IF d.dirty THEN flushFields(d) ELSE d
  IN  [f EXCEPT !.data = @ \o DataField(FieldDBIEntries,
                                    MarshalKV(kv) \o added.kv)]

\* DBI.Marshal
MarshalDBI(d) == flushFields(d).data

\* Meta.Marshal; a Meta is a function of its tags.
MarshalMeta(m) ==
  FlattenSeq([i \in DOMAIN MetaStrings |->
                DataField(MetaStrings[i], m[MetaStrings[i]])])
  \o NumField(FieldMetaLMDBTxnID, Varint, m[FieldMetaLMDBTxnID])
  \o NumField(FieldMetaTimestampNano, Fixed64, m[FieldMetaTimestampNano])
  \o NumField(FieldMetaFromLMDBTxnID, Varint, m[FieldMetaFromLMDBTxnID])

\* Snapshot.WriteTo
WriteTo(s, added) ==
  NumField(FieldSnapshotFormatVersion, Varint, s.formatVersion)
  \o NumField(FieldSnapshotCompatVersion, Varint, s.compatVersion)
  \o DataField(FieldSnapshotMeta, MarshalMeta(s.meta) \o added.meta)
  \o FlattenSeq([i \in DOMAIN s.databases |->
       DataField(FieldSnapshotDBI,
             MarshalDBI(s.databases[i]) \o added.dbi)])
  \o added.snapshot
-------------------------------------------------------------------------------
(***************************************************************************)
(* Reading.  The decoders loop over the fields of the data: a later field  *)
(* replaces an earlier one of the same tag, a known field must have the    *)
(* wire type of its tag, and skipTag passes over a field with another tag. *)
(***************************************************************************)
\* The value the loop leaves in a variable that starts as zero.
Decoded(data, tag, zero) ==
  LET at == {i \in DOMAIN data : data[i].tag = tag}
  IN  IF at = {} THEN zero ELSE data[Max(at)].val

\* expectWT for the tags of types; skipTag for all others.
WellTyped(data, types) ==
  \A i \in DOMAIN data :
    IF data[i].tag \in DOMAIN types
    THEN data[i].wireType = types[data[i].tag]
    ELSE data[i].wireType \in {Varint, Fixed64, LengthDelimited, Fixed32}

KVTypes == <<LengthDelimited, LengthDelimited, Fixed64, Varint>>

\* KV.Unmarshal; data without a single tag is an error.
UnmarshalKV(data) ==
  [key   |-> Decoded(data, FieldKVKey, <<>>),
   value |-> Decoded(data, FieldKVValue, <<>>),
   ts    |-> Decoded(data, FieldKVTimestampNano, 0),
   flags |-> Decoded(data, FieldKVFlags, 0)]

KVIsValid(data) == data # <<>> /\ WellTyped(data, KVTypes)

DBITypes == <<LengthDelimited, LengthDelimited, Varint, LengthDelimited>>

\* DBI.indexData.  To skip an unknown field it measures from the start of the
\* data, which is right unless the field has a length: it then reads on in the
\* middle of a field, modelled as an error.
indexDataFails(data) ==
  \/ ~WellTyped(data, DBITypes)
  \/ \E i \in DOMAIN data : /\ data[i].tag \notin DOMAIN DBITypes
                            /\ data[i].wireType = LengthDelimited

\* NewDBIFromData
NewDBIFromData(data) ==
  [name      |-> Decoded(data, FieldDBIName, <<>>),
   flags     |-> Decoded(data, FieldDBIFlags, 0),
   transform |-> Decoded(data, FieldDBITransform, <<>>),
   data      |-> data]

EntryFields(data) == SelectSeq(data, LAMBDA f : f.tag = FieldDBIEntries)

\* The KVs DBI.Next returns, from the first one to io.EOF.
Entries(data) ==
  LET fields == EntryFields(data)
  IN  [i \in DOMAIN fields |-> UnmarshalKV(fields[i].val)]

\* DBI.Next returns an error before io.EOF.
NextFails(data) ==
  \E f \in ToSet(EntryFields(data)) : ~KVIsValid(f.val)

\* Meta.Unmarshal
UnmarshalMeta(data) ==
  [tag \in DOMAIN MetaTypes |->
     Decoded(data, tag, IF tag \in ToSet(MetaStrings) THEN <<>> ELSE 0)]

SnapshotTypes == <<Varint, LengthDelimited, LengthDelimited, Varint>>

DBIFields(data) == SelectSeq(data, LAMBDA f : f.tag = FieldSnapshotDBI)

\* Snapshot.Unmarshal
Unmarshal(data) ==
  [formatVersion |-> Decoded(data, FieldSnapshotFormatVersion, 0),
   compatVersion |-> Decoded(data, FieldSnapshotCompatVersion, 0),
   meta          |-> UnmarshalMeta(Decoded(data, FieldSnapshotMeta, <<>>)),
   databases     |-> [i \in DOMAIN DBIFields(data) |->
                        NewDBIFromData(DBIFields(data)[i].val)]]

UnmarshalFails(data) ==
  \/ ~WellTyped(data, SnapshotTypes)
  \/ ~WellTyped(Decoded(data, FieldSnapshotMeta, <<>>), MetaTypes)
  \/ \E f \in ToSet(DBIFields(data)) : indexDataFails(f.val)
-------------------------------------------------------------------------------
(***************************************************************************)
(* The contents of a file: gzip is external and gives back what it got.    *)
(***************************************************************************)
DumpData(s, added) == [gzip |-> WriteTo(s, added)]

LoadData(contents) == Unmarshal(contents.gzip)

\* LoadData returns an error.
LoadDataFails(contents) ==
  "gzip" \notin DOMAIN contents \/ UnmarshalFails(contents.gzip)
===============================================================================
