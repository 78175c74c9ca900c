----------------------------- MODULE MCStreakTx -----------------------------
(***************************************************************************)
(* Instances of StreakTx for TLC.  The hosts are interchangeable.          *)
(***************************************************************************)
EXTENDS StreakTx, MCStreakEngine, TLC

CONSTANTS h1, h2, ticker

TwoHosts == {h1, h2}
HostSymmetry == Permutations(TwoHosts)
=============================================================================
