-------------------------- MODULE EagerRefinement ---------------------------
(***************************************************************************)
(* StreakEngine implements EagerStreak: the abstract streak is the one a   *)
(* settlement at this very instant would leave.                            *)
(***************************************************************************)
EXTENDS MCStreakEngine

\* The break Repair would find now, were there no limit on its age.
LiveLoss ==
  LET m == LatestBreak(SettleEvents(st, Cur))
  IN  IF m.kind = "broken" THEN m.count ELSE 0

Eager == INSTANCE EagerStreak WITH today <- Cur, streak <- Live, lost <- LiveLoss

\* Lateness is invisible: with records, ticks, zone changes and repairs within
\* the window, every step is a step of the streak that settles at once.
ImplementsEager == Eager!EagerSpec
=============================================================================
