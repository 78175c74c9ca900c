--------------------------- MODULE MCStreakOutbox ---------------------------
(***************************************************************************)
(* Instances of StreakOutbox for TLC.                                      *)
(***************************************************************************)
EXTENDS StreakOutbox, MCStreakService
=============================================================================
