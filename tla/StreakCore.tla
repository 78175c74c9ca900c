----------------------------- MODULE StreakCore -----------------------------
(***************************************************************************)
(* The pure core of streakd (internal/core): the persisted state of one    *)
(* streak and the functions Settle, Apply, Derive and Replay on it.  They  *)
(* take the period `cur' that contains the instant the code passes them.   *)
(*                                                                         *)
(* The loop of Settle is written in closed form, over the set of missed    *)
(* periods; SettleLoop checks it against the loop itself.  The events of *)
(* a call form a set: no call emits the same event twice.                  *)
(***************************************************************************)
EXTENDS StreakCalendar, FiniteSets

CONSTANTS
  Initial,      \* cfg.Freezes.Initial
  EarnEvery,    \* cfg.Freezes.EarnEveryNPeriods (0: freezes are not earned)
  FreezeCap,    \* cfg.Freezes.Max
  AutoConsume,  \* cfg.Freezes.AutoConsume
  Milestones,   \* cfg.Milestones
  Target        \* cfg.Target (0: endless)

\* What Config.Validate accepts.
ASSUME ConfigAssumption ==
  /\ Initial \in Nat /\ EarnEvery \in Nat /\ FreezeCap \in Nat
  /\ Initial <= FreezeCap
  /\ EarnEvery > 0 => FreezeCap > 0
  /\ AutoConsume \in BOOLEAN
  /\ Milestones \subseteq Nat \ {0}
  /\ Target \in Nat

State == [currentCount   : Nat,
          longest        : Nat,
          lastEarned     : Date,
          settledThrough : Date,
          freezes        : Nat,
          freezeProgress : Nat]

EventType == {"extended", "freeze_earned", "freeze_consumed", "broken",
              "milestone", "completed", "repaired", "at_risk"}

Event == [type : EventType, period : Period, count : Nat]

Ev(type, p, n) == [type |-> type, period |-> p, count |-> n]

Later(a, b) == IF a < b THEN b ELSE a

\* NewState: a fresh streak.
NewState ==
  [currentCount |-> 0, longest |-> 0, lastEarned |-> NoDate,
   settledThrough |-> NoDate, freezes |-> Initial, freezeProgress |-> 0]

-----------------------------------------------------------------------------
(***************************************************************************)
(* Settle                                                                  *)
(***************************************************************************)

\* Mutant of Missed: only an earned period resolves what is before it.
MissedSinceEarned(s, cur) == {q \in (s.lastEarned + 1)..(cur - 1) : ScheduledOn(q)}

\* The active periods that elapsed, before cur, since the last resolved one.
Missed(s, cur) ==
  {q \in (Later(s.lastEarned, s.settledThrough) + 1)..(cur - 1) : ScheduledOn(q)}

\* The misses a settlement charges for: none while nothing was ever earned,
\* and none on a chain that is already lost.
Charged(s, cur) ==
  IF s.lastEarned = NoDate \/ s.currentCount = 0 THEN {} ELSE Missed(s, cur)

\* Mutant of Spent: the freezes are not counted against the stock.
SpentUnbounded(s, cur) ==
  IF AutoConsume THEN Cardinality(Charged(s, cur)) ELSE 0

\* How many of them the freezes pay for.
Spent(s, cur) ==
  LET n == Cardinality(Charged(s, cur))
  IN  IF ~AutoConsume THEN 0 ELSE IF n < s.freezes THEN n ELSE s.freezes

\* One more miss than the freezes cover breaks the chain.
Breaks(s, cur) == Cardinality(Charged(s, cur)) > Spent(s, cur)

\* Mutant of Settle: the settle pointer stays where it was.
SettleKeepsPointer(s, cur) ==
  [s EXCEPT
     !.currentCount   = IF Breaks(s, cur) THEN 0 ELSE @,
     !.freezeProgress = IF Breaks(s, cur) THEN 0 ELSE @,
     !.freezes        = @ - Spent(s, cur)]

\* Mutant of Settle: a break does not restart the progress to a freeze.
SettleKeepsProgress(s, cur) ==
  [s EXCEPT
     !.currentCount   = IF Breaks(s, cur) THEN 0 ELSE @,
     !.freezes        = @ - Spent(s, cur),
     !.settledThrough = IF s.lastEarned = NoDate THEN PrevPeriod(cur)
                        ELSE Later(@, PrevPeriod(cur))]

\* While nothing was ever earned only the settle pointer moves, to just before
\* cur wherever it was; afterwards it never moves back.
Settle(s, cur) ==
  [s EXCEPT
     !.currentCount   = IF Breaks(s, cur) THEN 0 ELSE @,
     !.freezeProgress = IF Breaks(s, cur) THEN 0 ELSE @,
     !.freezes        = @ - Spent(s, cur),
     !.settledThrough = IF s.lastEarned = NoDate THEN PrevPeriod(cur)
                        ELSE Later(@, PrevPeriod(cur))]

\* The misses are charged in calendar order: freezes first, then the break.
SettleEvents(s, cur) ==
  LET misses  == Charged(s, cur)
      rank(q) == Cardinality({r \in misses : r < q})
  IN  {Ev("freeze_consumed", q, s.currentCount) :
         q \in {m \in misses : rank(m) < Spent(s, cur)}}
      \cup
      {Ev("broken", q, s.currentCount) :
         q \in {m \in misses : rank(m) = Spent(s, cur)}}

-----------------------------------------------------------------------------
(***************************************************************************)
(* Apply                                                                   *)
(***************************************************************************)

\* Period p can be earned: it is active and after the last earned one.
Earns(s, p) == ScheduledOn(p) /\ s.lastEarned < p

\* With this earn the progress towards the next freeze is complete.
FreezeDue(s) == EarnEvery > 0 /\ s.freezeProgress + 1 >= EarnEvery

FreezeGranted(s) == FreezeDue(s) /\ s.freezes < FreezeCap

\* Mutant of Apply: only the calendar's next period continues a chain.
ApplyConsecutive(s, p) ==
  IF ~Earns(s, p) THEN s ELSE
  LET n == IF s.lastEarned = PrevPeriod(p) THEN s.currentCount + 1 ELSE 1
  IN  [s EXCEPT !.currentCount = n, !.longest = Later(@, n), !.lastEarned = p]

\* Mutant of Apply: the progress is not held at the cap.
ApplyUncapped(s, p) ==
  IF ~Earns(s, p) THEN s ELSE
  [s EXCEPT
     !.currentCount   = @ + 1,
     !.longest        = Later(@, s.currentCount + 1),
     !.lastEarned     = p,
     !.freezes        = IF FreezeGranted(s) THEN @ + 1 ELSE @,
     !.freezeProgress = IF EarnEvery = 0 THEN @
                        ELSE IF FreezeGranted(s) THEN 0 ELSE @ + 1]

\* Apply: at the cap the progress is held, so that the next earn after a
\* spend grants at once.
Apply(s, p) ==
  IF ~Earns(s, p) THEN s ELSE
  [s EXCEPT
     !.currentCount   = @ + 1,
     !.longest        = Later(@, s.currentCount + 1),
     !.lastEarned     = p,
     !.freezes        = IF FreezeGranted(s) THEN @ + 1 ELSE @,
     !.freezeProgress = IF EarnEvery = 0 THEN @
                        ELSE IF FreezeGranted(s) THEN 0
                        ELSE IF FreezeDue(s) THEN EarnEvery
                        ELSE @ + 1]

ApplyEvents(s, p) ==
  LET n == s.currentCount + 1
  IN  IF ~Earns(s, p) THEN {} ELSE
      {Ev("extended", p, n)}
      \cup (IF FreezeGranted(s) THEN {Ev("freeze_earned", p, n)} ELSE {})
      \cup (IF n \in Milestones THEN {Ev("milestone", p, n)} ELSE {})
      \cup (IF Target > 0 /\ n = Target THEN {Ev("completed", p, n)} ELSE {})

-----------------------------------------------------------------------------
(***************************************************************************)
(* Derive                                                                  *)
(***************************************************************************)

\* Mutant of LossPeriod: the walk starts on a rest day.
LossPeriodFromRest(s, cur, spare) ==
  LET walk[n \in 0..spare] ==
        IF n > 0 THEN NextScheduled(walk[n - 1])
        ELSE IF s.lastEarned >= cur THEN NextScheduled(s.lastEarned)
        ELSE cur
  IN  walk[spare]

\* lossAt: the period whose end is the instant the streak breaks if nothing
\* happens: the first active one that can still be earned, moved on by the
\* spare freezes.
LossPeriod(s, cur, spare) ==
  LET walk[n \in 0..spare] ==
        IF n > 0 THEN NextScheduled(walk[n - 1])
        ELSE IF s.lastEarned >= cur THEN NextScheduled(s.lastEarned)
        ELSE IF ~ScheduledOn(cur) THEN NextScheduled(cur)
        ELSE cur
  IN  walk[spare]

\* Derive: the effective view of state s in period cur.  lossPeriod is NoDate
\* when the streak is broken.
Derive(s, cur) ==
  LET misses   == Cardinality(Missed(s, cur))
      started  == s.lastEarned # NoDate /\ s.currentCount > 0
      covered  == misses = 0 \/ (AutoConsume /\ misses <= s.freezes)
      alive    == started /\ covered
      pending  == IF ~started \/ ~AutoConsume THEN 0
                  ELSE IF covered THEN misses ELSE s.freezes
      spare    == IF AutoConsume THEN s.freezes - pending ELSE 0
  IN  [count             |-> IF alive THEN s.currentCount ELSE 0,
       longest           |-> s.longest,
       liveness          |-> IF ~alive THEN "broken"
                             ELSE IF misses = 0 THEN "alive" ELSE "frozen",
       earnedThisPeriod  |-> s.lastEarned = cur,
       currentPeriod     |-> cur,
       pendingSpend      |-> pending,
       freezesAfterSpend |-> s.freezes - pending,
       freezeProgress    |-> IF started /\ ~covered THEN 0 ELSE s.freezeProgress,
       lossPeriod        |-> IF alive THEN LossPeriod(s, cur, spare) ELSE NoDate]

-----------------------------------------------------------------------------
(***************************************************************************)
(* Replay                                                                  *)
(***************************************************************************)

\* One period of the ledger: settle up to it, then earn it.
ReplayStep(s, earned, p) ==
  IF p \in earned THEN Apply(Settle(s, p), p) ELSE s

\* Mutant of ReplayUpTo: the replay starts without the initial freezes.
ReplayUpToBare(earned) ==
  LET r[i \in 0..LastPeriod] ==
        IF i = 0 THEN [NewState EXCEPT !.freezes = 0]
        ELSE ReplayStep(r[i - 1], earned, i)
  IN  r

\* The state after the ledger's periods up to i, in ascending order.
ReplayUpTo(earned) ==
  LET r[i \in 0..LastPeriod] ==
        IF i = 0 THEN NewState ELSE ReplayStep(r[i - 1], earned, i)
  IN  r

\* Replay: the state a ledger of earned periods stands for.
Replay(earned, cur) == Settle(ReplayUpTo(earned)[LastPeriod], cur)
=============================================================================
