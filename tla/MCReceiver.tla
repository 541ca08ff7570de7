------------------------------ MODULE MCReceiver ------------------------------
(***************************************************************************)
(* Instances of Receiver for TLC.                                          *)
(***************************************************************************)
EXTENDS Receiver

CONSTANTS own, b

\* Every instance has one snapshot.
OneEach == {[j \in Instances |-> {1}]}

\* The own instance has two.
TwoOwn == {[j \in Instances |-> IF j = Own THEN {1, 2} ELSE {1}]}

NoneBad == {{}}
LatestOwnBad == {{<<Own, 2>>}}
===============================================================================
