---------------------------- MODULE MCCycleTask ----------------------------
(***************************************************************************)
(* A run of three attempts and up to two cycles: each attempt starts       *)
(* from whatever those before it left behind.                              *)
(***************************************************************************)
EXTENDS CycleTask
=============================================================================
