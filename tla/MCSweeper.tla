------------------------------- MODULE MCSweeper -------------------------------
(***************************************************************************)
(* Instances of Sweeper for TLC.                                           *)
(***************************************************************************)
EXTENDS Sweeper

CONSTANTS d1, d2

OneDbi == <<d1>>
TwoDbis == <<d1, d2>>
ThirdKey == {<<d1, 3>>}
================================================================================
