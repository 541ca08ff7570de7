----------------------------- MODULE MCSnapshots ------------------------------
EXTENDS Snapshots

CONSTANTS i1, i2, old

\* "b", "b_" and "o"
ConfiguredNames == i1 :> <<98>> @@ i2 :> <<98, 95>> @@ old :> <<111>>

\* The other files: of the LMDB "ab", with another extension, and too short.
OtherFiles == {BuildName(<<97, 98>>, <<98>>, 9),
               <<97, 95, 95, 98, 95, 95, 57, 95, 95, 71, 46, 113>>,
               <<97, 95, 95, 98, 46, 112>>}

\* The instance i2 runs a later version, which has added fields.
LaterVersion ==
  i1 :> AddsNothing
  @@ i2 :> [snapshot |-> <<[tag |-> 9, wireType |-> LengthDelimited, val |-> <<1>>]>>,
            meta     |-> <<[tag |-> 9, wireType |-> Fixed32, val |-> 1]>>,
            dbi      |-> <<[tag |-> 9, wireType |-> Varint, val |-> 1]>>,
            kv       |-> <<[tag |-> 9, wireType |-> LengthDelimited, val |-> <<1>>]>>]

Pair(key, value) == [key |-> key, value |-> value]

\* Three values of one key, two of them with the same first bytes, and a key that
\* continues it with a zero byte.
SomePairs == {Pair(<<2>>, <<6>>), Pair(<<2>>, <<7, 0, 0>>),
              Pair(<<2>>, <<7, 0, 0, 2>>), Pair(<<2, 0>>, <<5>>)}

OldEntries == {[key |-> <<3>>, value |-> <<5>>, ts |-> 1, flags |-> 0]}

AllSettings == {[flags |-> 0, dupSortHack |-> FALSE],
                [flags |-> DupSortFlag, dupSortHack |-> TRUE],
                [flags |-> DupSortFlag, dupSortHack |-> FALSE]}

DBName == <<97>>
===============================================================================
