---------------------------- MODULE EagerStreak -----------------------------
(***************************************************************************)
(* What streakd promises about one streak, without its laziness: the       *)
(* moment a period closes unearned, a freeze is spent or the chain breaks. *)
(* There is no scheduler, no pending charge, no clock but the boundaries,  *)
(* and a zone change does nothing but move today's period.                 *)
(*                                                                         *)
(* StreakEngine settles late, at the next record, repair, zone change or   *)
(* tick, or never; EagerRefinement shows that nobody can tell.             *)
(***************************************************************************)
EXTENDS StreakCore

VARIABLES
  today,   \* the current period of the subject
  streak,  \* the state of the streak, always settled up to today
  lost     \* the count the last break lost; 0 when it was repaired

eagerVars == <<today, streak, lost>>

EagerInit ==
  /\ today \in Period \ {1}
  /\ streak = [NewState EXCEPT !.settledThrough = today - 1]
  /\ lost = 0

\* Period p closed and nothing had been earned in it or later.
Unearned(p) ==
  /\ streak.currentCount > 0
  /\ ScheduledOn(p) /\ streak.lastEarned < p /\ streak.settledThrough < p

CanFreeze == AutoConsume /\ streak.freezes > 0

\* Periods up to `to' cannot be charged any more.
Resolved(s, to) ==
  [s EXCEPT !.settledThrough = IF s.lastEarned = NoDate THEN to ELSE Later(@, to)]

\* Today's period closes and the next one begins.
Close ==
  /\ today' = today + 1
  /\ \/ /\ ~Unearned(today)
        /\ streak' = Resolved(streak, today)
        /\ lost' = lost
     \/ /\ Unearned(today) /\ CanFreeze
        /\ streak' = [Resolved(streak, today) EXCEPT !.freezes = @ - 1]
        /\ lost' = lost
     \/ /\ Unearned(today) /\ ~CanFreeze
        /\ streak' = [Resolved(streak, today) EXCEPT !.currentCount = 0,
                                                     !.freezeProgress = 0]
        /\ lost' = streak.currentCount

\* The activity of today reaches the amount that earns the period.
Earn ==
  /\ streak' = Apply(streak, today)
  /\ UNCHANGED <<today, lost>>

\* The subject moves to a zone where it is period `to'.
Travel(to) ==
  /\ today' = to
  /\ streak' = Resolved(streak, to - 1)
  /\ lost' = lost

\* What was lost comes back on top of what was earned since.
Restore ==
  /\ lost > 0
  /\ LET n == streak.currentCount + lost
     IN  streak' = [streak EXCEPT !.currentCount = n, !.longest = Later(@, n)]
  /\ lost' = 0
  /\ UNCHANGED today

EagerNext == Close \/ Earn \/ (\E to \in Period : Travel(to)) \/ Restore

EagerSpec == EagerInit /\ [][EagerNext]_eagerVars
=============================================================================
