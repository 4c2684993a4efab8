---------------------------- MODULE MCKilledTask ----------------------------
(***************************************************************************)
(* KilledTask with one worker and one kill.                                *)
(***************************************************************************)
EXTENDS KilledTask

CONSTANTS w1, k1
=============================================================================
