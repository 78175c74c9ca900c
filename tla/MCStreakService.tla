-------------------------- MODULE MCStreakService ---------------------------
(***************************************************************************)
(* Instances of StreakService for TLC.                                     *)
(***************************************************************************)
EXTENDS StreakService

CONSTANTS p1, p2, s1, s2, k1, k2

\* Each streak has a key of its own, and one key is used for both.
SharedKey == {<<k1, s1>>, <<k1, s2>>, <<k2, s2>>}

\* Each streak has keys of its own.
OwnKeys == {<<k1, s1>>, <<k2, s2>>}

EveryDay == 0..6
NoOffset == [z \in {} |-> 0]
=============================================================================
