--------------------------- MODULE MCStreakReads ----------------------------
(***************************************************************************)
(* Instances of StreakReads for TLC.                                       *)
(***************************************************************************)
EXTENDS StreakReads, MCStreakEngine
=============================================================================
