----------------------------- MODULE StreakDue ------------------------------
(***************************************************************************)
(* What a tick of the scheduler (internal/engine/scheduler.go) looks for:  *)
(* the streaks it has to settle and the ones it may send a reminder for.   *)
(***************************************************************************)
EXTENDS StreakCore

\* Mutant of SettleIsDue: the period that closed last is not due yet.
SettleIsDueLater(s, cur) ==
  /\ s.lastEarned # NoDate
  /\ \/ s.settledThrough = NoDate
     \/ /\ Later(s.lastEarned, s.settledThrough) < PrevPeriod(PrevPeriod(cur))
        /\ Missed(s, cur) # {}

\* settleDue's prefilter: a boundary has passed since the last settlement, and
\* not only rest days with it.
SettleIsDue(s, cur) ==
  /\ s.lastEarned # NoDate
  /\ \/ s.settledThrough = NoDate
     \/ /\ Later(s.lastEarned, s.settledThrough) < PrevPeriod(cur)
        /\ Missed(s, cur) # {}

\* Mutant of AtRisk: an earned day is at risk.
AtRiskAnyway(view) == view.liveness # "broken" /\ ScheduledOn(view.currentPeriod)

\* Mutant of AtRisk: a rest day is at risk.
AtRiskOnRest(view) == view.liveness # "broken" /\ ~view.earnedThisPeriod

\* Never about a broken streak, an earned day or a rest day.
AtRisk(view) ==
  /\ view.liveness # "broken"
  /\ ~view.earnedThisPeriod
  /\ ScheduledOn(view.currentPeriod)
=============================================================================
