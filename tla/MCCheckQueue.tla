---------------------------- MODULE MCCheckQueue ----------------------------
(***************************************************************************)
(* An instance of CheckQueue for TLC: four checks, of which the last fails *)
(* and which are enough for a batch of two.                                *)
(***************************************************************************)
EXTENDS CheckQueue

MCCheck == 1..4

MCBad == {4}
=============================================================================
