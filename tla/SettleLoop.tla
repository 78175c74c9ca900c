----------------------------- MODULE SettleLoop -----------------------------
(***************************************************************************)
(* The loop of core.Settle (internal/core/transition.go), one iteration to *)
(* a step, from any state and for any current period.  It is the reference *)
(* the closed form of Settle and SettleEvents in StreakCore is held        *)
(* against.                                                                *)
(***************************************************************************)
EXTENDS StreakCore, Sequences

CONSTANTS
  MaxCount,   \* bound: the counts a state starts with
  MaxStock    \* bound: the freezes a state starts with

ASSUME LoopAssumption == MaxCount \in Nat /\ MaxStock \in Nat

VARIABLES
  s0,      \* the state Settle is called with
  cur,     \* the period that contains the instant it is called with
  s,       \* the state being updated
  p,       \* the loop's period
  events,  \* the events so far
  done

loopVars == <<s0, cur, s, p, events, done>>

StartStates ==
  {x \in [currentCount : 0..MaxCount, longest : {MaxCount}, lastEarned : Date,
          settledThrough : Date, freezes : 0..MaxStock, freezeProgress : 0..EarnEvery] :
     x.lastEarned = NoDate => x.currentCount = 0}

LoopInit ==
  /\ s0 \in StartStates
  /\ cur \in 2..LastPeriod
  /\ s = s0
  /\ p = NextScheduled(Later(s0.lastEarned, s0.settledThrough))
  /\ events = <<>>
  /\ done = FALSE

\* Nothing was ever earned: only the settle pointer moves.
ReturnEarly ==
  /\ ~done /\ s.lastEarned = NoDate
  /\ s' = [s EXCEPT !.settledThrough = PrevPeriod(cur)]
  /\ done' = TRUE
  /\ UNCHANGED <<s0, cur, p, events>>

\* The loop has a miss to resolve.
AtMiss == ~done /\ s.lastEarned # NoDate /\ p < cur /\ s.currentCount > 0

SpendFreeze ==
  /\ AtMiss /\ AutoConsume /\ s.freezes > 0
  /\ s' = [s EXCEPT !.freezes = @ - 1]
  /\ events' = Append(events, Ev("freeze_consumed", p, s.currentCount))
  /\ p' = NextScheduled(p)
  /\ UNCHANGED <<s0, cur, done>>

BreakChain ==
  /\ AtMiss /\ ~(AutoConsume /\ s.freezes > 0)
  /\ s' = [s EXCEPT !.currentCount = 0, !.freezeProgress = 0]
  /\ events' = Append(events, Ev("broken", p, s.currentCount))
  /\ p' = NextScheduled(p)
  /\ UNCHANGED <<s0, cur, done>>

\* Mutant of LeaveLoop: a chain that is lost already is walked on.
LeaveLoopLate ==
  /\ ~done /\ s.lastEarned # NoDate
  /\ p >= cur
  /\ s' = [s EXCEPT !.settledThrough = Later(@, PrevPeriod(cur))]
  /\ done' = TRUE
  /\ UNCHANGED <<s0, cur, p, events>>

LeaveLoop ==
  /\ ~done /\ s.lastEarned # NoDate
  /\ p >= cur \/ s.currentCount = 0
  /\ s' = [s EXCEPT !.settledThrough = Later(@, PrevPeriod(cur))]
  /\ done' = TRUE
  /\ UNCHANGED <<s0, cur, p, events>>

LoopNext == ReturnEarly \/ SpendFreeze \/ BreakChain \/ LeaveLoop

LoopSpec == LoopInit /\ [][LoopNext]_loopVars /\ WF_loopVars(LoopNext)

-----------------------------------------------------------------------------
\* The closed form computes what the loop of transition.go:32-58 computes.
ClosedForm ==
  done => /\ s = Settle(s0, cur)
          /\ {events[i] : i \in DOMAIN events} = SettleEvents(s0, cur)
          /\ Len(events) = Cardinality(SettleEvents(s0, cur))

\* Settling late is settling often (transition.go:28-31, DESIGN.md:412): a
\* settlement leaves a later one nothing it would not have done anyway, and
\* at the same instant nothing at all.
Composes ==
  done => \A c \in cur..LastPeriod :
            /\ Settle(s, c) = Settle(s0, c)
            /\ SettleEvents(s, c) = {e \in SettleEvents(s0, c) : e.period >= cur}

\* The walk from one active period to the next always reaches the present.
LoopEnds == <>done
=============================================================================
