-------------------------------- MODULE Names ---------------------------------
(***************************************************************************)
(* The names of snapshot files, snapshot/name.go: BuildName joins the name *)
(* of the LMDB, the instance, the timestamp and the generation, ParseName  *)
(* takes them apart, and a listing relies on the order of the names.       *)
(*                                                                         *)
(* A string is a sequence of character codes in the order of ASCII.  A     *)
(* timestamp is one digit: like the real ones it has a fixed length, and   *)
(* its order is that of time.                                              *)
(***************************************************************************)
EXTENDS Integers, SequencesExt, FiniteSetsExt

Dash == 45
Dot == 46
Digit(n) == 48 + n
GX == <<71>>      \* generationID
Underscore == 95
PbGz == <<112>>   \* DefaultExtension

Digits == {Digit(n) : n \in 0..9}

\* bytes.Compare(a, b) < 0, and the order of a listing
Less(a, b) ==
  \/ IsStrictPrefix(a, b)
  \/ \E n \in 1..Min({Len(a), Len(b)}) :
       a[n] < b[n] /\ SubSeq(a, 1, n - 1) = SubSeq(b, 1, n - 1)

\* The elements of a finite set in the order Before.
Ascending(S, Before(_, _)) ==
  [n \in 1..Cardinality(S) |->
     CHOOSE x \in S : Cardinality({y \in S : Before(y, x)}) = n - 1]

\* Mutant: the name of the instance is used as it was configured.
UnsafeInstanceID(configured) == configured

\* Syncer.instanceID: reUnsafe replaces every unsafe character by a dash.
instanceID(configured) ==
  [i \in DOMAIN configured |->
     IF configured[i] \in Digits \cup (65..90) \cup (97..122) THEN configured[i]
     ELSE Dash]

\* NameInfo.BuildName without extra values, and NameTimestamp.
BuildName(syncerName, instance, ts) ==
  syncerName \o <<Underscore, Underscore>> \o instance
  \o <<Underscore, Underscore, Digit(ts), Underscore, Underscore>> \o GX
  \o <<Dot>> \o PbGz

\* The positions of the separators strings.Split finds: from the left, not
\* overlapping.
Separators(s) ==
  {p \in 1..(Len(s) - 1) :
     /\ s[p] = Underscore /\ s[p + 1] = Underscore
     /\ (p - 1 - Max({0} \cup {q \in 1..(p - 1) : s[q] # Underscore})) % 2 = 0}

Split(s) ==
  LET p == Ascending(Separators(s), <)
  IN  [n \in 1..(Len(p) + 1) |->
         SubSeq(s, IF n = 1 THEN 1 ELSE p[n - 1] + 2,
                   IF n > Len(p) THEN Len(s) ELSE p[n] - 1)]

InvalidName == [valid |-> FALSE]

\* ParseName; the only registered extension is that of snapshots.
ParseName(name) ==
  LET dots  == {p \in DOMAIN name : name[p] = Dot}
      dot   == Min(dots)
      parts == Split(SubSeq(name, 1, dot - 1))
  IN  IF \/ dots = {}
         \/ SubSeq(name, dot + 1, Len(name)) # PbGz
         \/ Len(parts) < 4
         \/ Len(parts[3]) # 1 \/ parts[3][1] \notin Digits
      THEN InvalidName
      ELSE [valid |-> TRUE, syncerName |-> parts[1], instanceID |-> parts[2],
            ts |-> parts[3][1] - Digit(0), generationID |-> parts[4]]

\* The prefix of the names a Receiver lists.
prefix(syncerName) == syncerName \o <<Underscore, Underscore>>
===============================================================================
