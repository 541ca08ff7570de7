----------------------------- MODULE DupSortHack ------------------------------
(***************************************************************************)
(* The dupsort_hack of syncer/dupsorthack.go: a DBI with MDB_DUPSORT may   *)
(* hold several values for a key, a shadow DBI and a snapshot may not.     *)
(* The hack makes one key of key and value.                                *)
(***************************************************************************)
EXTENDS Names

CONSTANTS
  LMDBMaxKeySize,        \* 511 in LMDB
  DupSortHackMaxKeySize  \* 255 in the code

ASSUME DupSortHackAssumption ==
  /\ LMDBMaxKeySize \in Nat /\ DupSortHackMaxKeySize \in Nat
  /\ LMDBMaxKeySize > DupSortHackMaxKeySize + 5

Separator == <<0, 0, 0, 0>>

\* The bytes of the value that fit.
remaining(key) == LMDBMaxKeySize - Len(key) - Len(Separator) - 1

\* Mutant: the values are not made a part of the key.
EncodedKeyOnly(kv) == kv.key \o Separator \o <<Len(kv.key)>>

\* Mutant: the length of the key is not kept.
EncodedNoLength(kv) ==
  kv.key \o Separator
  \o SubSeq(kv.value, 1, Min({Len(kv.value), remaining(kv.key)}))

EncodedKey(kv) ==
  kv.key \o Separator
  \o SubSeq(kv.value, 1, Min({Len(kv.value), remaining(kv.key)}))
  \o <<Len(kv.key)>>

\* dupSortHackEncodeOne
EncodeOne(kv) ==
  [key |-> EncodedKey(kv), value |-> kv.value, ts |-> 0, flags |-> kv.flags]

\* dupSortHackEncodeOne returns an error.
EncodeOneFails(kv) == Len(kv.key) = 0 \/ Len(kv.key) > DupSortHackMaxKeySize

keyLen(kv) == Last(kv.key)

\* dupSortHackDecodeOne
DecodeOne(kv) ==
  [key |-> SubSeq(kv.key, 1, keyLen(kv)), value |-> kv.value, ts |-> 0,
   flags |-> kv.flags]

\* dupSortHackDecodeOne returns an error.
DecodeOneFails(kv) ==
  \/ Len(kv.key) < Len(Separator) + 2
  \/ Len(kv.key) < keyLen(kv) + Len(Separator) + 1
  \/ SubSeq(kv.key, keyLen(kv) + 1, keyLen(kv) + Len(Separator)) # Separator

\* dupSortHackEncode returns an error: an entry has one, or an encoded key
\* equals the one before it or sorts before it.
EncodeFails(kvs) ==
  \/ \E i \in DOMAIN kvs : EncodeOneFails(kvs[i])
  \/ \E i \in 2..Len(kvs) : ~Less(EncodedKey(kvs[i - 1]), EncodedKey(kvs[i]))
===============================================================================
