---------------------------- MODULE MCHmiBridge ----------------------------
(***************************************************************************)
(* Two runs in a row, one watched topic, and one failure to report in each *)
(* of them.                                                                *)
(***************************************************************************)
EXTENDS HmiBridge
=============================================================================
