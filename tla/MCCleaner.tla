------------------------------- MODULE MCCleaner -------------------------------
(***************************************************************************)
(* Instances of Cleaner for TLC.                                           *)
(***************************************************************************)
EXTENDS Cleaner

CONSTANTS a, b
================================================================================
