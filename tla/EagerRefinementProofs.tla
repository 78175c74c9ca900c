----------------------- MODULE EagerRefinementProofs ------------------------
(***************************************************************************)
(* StreakEngine implements EagerStreak: nobody can tell that a streak is   *)
(* settled late, for every configuration, calendar and set of zones.       *)
(***************************************************************************)
EXTENDS EagerRefinement, StreakEngineProofs

(***************************************************************************)
(* What is settled up to a period.                                         *)
(***************************************************************************)

\* Nothing before cur is left to resolve.
SettledAt(s, cur) ==
  IF s.lastEarned = NoDate THEN s.settledThrough = cur - 1 ELSE s.settledThrough >= cur - 1

\* A settlement settles.
LEMMA SettleSettles ==
  ASSUME NEW s \in State, NEW cur \in Period
  PROVE  SettledAt(Settle(s, cur), cur)
<1>1. s.settledThrough \in Int /\ cur \in Int
  BY CalendarAssumption DEF State, Date, Period, NoDate
<1> QED BY <1>1, SettlePointer DEF SettledAt, Later

\* What is settled stays as it is.
LEMMA SettledStays ==
  ASSUME NEW s \in State, NEW cur \in Period, SettledAt(s, cur)
  PROVE  Settle(s, cur) = s /\ ~Breaks(s, cur)
<1> DEFINE t == Settle(s, cur)
<1>1. t \in State /\ s.settledThrough \in Int /\ cur \in Int /\ s.currentCount \in Nat
  BY SettleType, CalendarAssumption DEF State, Date, Period, NoDate
<1>2. t.settledThrough = s.settledThrough /\ t.lastEarned = s.lastEarned /\ t.longest = s.longest
  BY <1>1, SettlePointer DEF SettledAt, Later
<1>3. /\ t.currentCount = s.currentCount /\ t.freezes = s.freezes
      /\ t.freezeProgress = s.freezeProgress /\ ~Breaks(s, cur)
  <2>1. CASE s.lastEarned = NoDate \/ s.currentCount = 0
    BY <2>1, SettleIdle
  <2>2. CASE s.lastEarned # NoDate /\ s.currentCount # 0
    <3>1. Charged(s, cur) = {}
      BY <2>2, NothingMissed DEF SettledAt, Charged
    <3>2. Spent(s, cur) = 0 /\ ~Breaks(s, cur)
      <4>1. Cardinality(Charged(s, cur)) = 0 /\ s.freezes \in Nat
        BY <3>1, FS_EmptySet DEF State
      <4> QED BY <4>1, ConfigAssumption DEF Spent, Breaks
    <3> QED BY <1>1, <3>2 DEF Settle, State
  <2> QED BY <2>1, <2>2
<1> QED BY <1>1, <1>2, <1>3, SameState

\* A settlement at c breaks what one at cur broke, or what it left.
LEMMA BreaksSplit ==
  ASSUME NEW s \in State, NEW cur \in Period, NEW c \in Period, cur <= c
  PROVE  Breaks(s, c) <=> Breaks(s, cur) \/ Breaks(Settle(s, cur), c)
<1> DEFINE t == Settle(s, cur)
<1>1. t \in State
  BY SettleType
<1>2. /\ Breaks(s, c) <=> \E e \in SettleEvents(s, c) : e.type = "broken"
      /\ Breaks(s, cur) <=> \E e \in SettleEvents(s, cur) : e.type = "broken"
      /\ Breaks(t, c) <=> \E e \in SettleEvents(t, c) : e.type = "broken"
  BY <1>1, SettleTold
<1>3. \A e \in SettleEvents(s, c) : e.period \in Int
  BY SettleEventsType, CalendarAssumption DEF Event, Period
<1>4. /\ SettleEvents(s, cur) = {e \in SettleEvents(s, c) : e.period < cur}
      /\ SettleEvents(t, c) = {e \in SettleEvents(s, c) : e.period >= cur}
  BY SettleEventsCompose
<1>5. \A e \in SettleEvents(s, c) : e.period < cur \/ e.period >= cur
  BY <1>3, CalendarAssumption DEF Period
<1>6. /\ \A e \in SettleEvents(s, cur) : e \in SettleEvents(s, c)
      /\ \A e \in SettleEvents(t, c) : e \in SettleEvents(s, c)
      /\ \A e \in SettleEvents(s, c) : e \in SettleEvents(s, cur) \/ e \in SettleEvents(t, c)
  BY <1>4, <1>5
<1> HIDE DEF t
<1> QED BY <1>2, <1>6, Zenon DEF t

\* One more period closes on what is settled up to it.
LEMMA ClosePeriod ==
  ASSUME NEW s \in State, NEW cur \in Period, cur + 1 \in Period, SettledAt(s, cur),
         Rooted(s)
  PROVE  LET unearned  == /\ s.currentCount > 0 /\ ScheduledOn(cur)
                          /\ s.lastEarned < cur /\ s.settledThrough < cur
             canFreeze == AutoConsume /\ s.freezes > 0
             t         == Settle(s, cur + 1)
         IN  /\ Breaks(s, cur + 1) <=> unearned /\ ~canFreeze
             /\ t.currentCount = IF unearned /\ ~canFreeze THEN 0 ELSE s.currentCount
             /\ t.freezeProgress = IF unearned /\ ~canFreeze THEN 0 ELSE s.freezeProgress
             /\ t.freezes = IF unearned /\ canFreeze THEN s.freezes - 1 ELSE s.freezes
             /\ t.longest = s.longest /\ t.lastEarned = s.lastEarned
             /\ t.settledThrough = IF s.lastEarned = NoDate THEN cur ELSE Later(s.settledThrough, cur)
<1> DEFINE unearned  == /\ s.currentCount > 0 /\ ScheduledOn(cur)
                        /\ s.lastEarned < cur /\ s.settledThrough < cur
           canFreeze == AutoConsume /\ s.freezes > 0
           t         == Settle(s, cur + 1)
           n         == IF unearned THEN 1 ELSE 0
<1>1. /\ cur \in Nat /\ (cur + 1) - 1 = cur /\ s.freezes \in Nat /\ s.currentCount \in Nat
      /\ s.lastEarned \in Int /\ s.settledThrough \in Int
  BY CalendarAssumption DEF State, Date, Period, NoDate
<1>2. Cardinality(Charged(s, cur + 1)) = n
  <2>1. CASE s.lastEarned = NoDate \/ s.currentCount = 0
    <3>1. Charged(s, cur + 1) = {} /\ ~unearned
      BY <1>1, <2>1, SettleIdle DEF Rooted
    <3> QED BY <3>1, FS_EmptySet
  <2>2. CASE s.lastEarned # NoDate /\ s.currentCount # 0
    <3>1. Charged(s, cur + 1) =
            {q \in (Later(s.lastEarned, s.settledThrough) + 1)..cur : ScheduledOn(q)}
      BY <1>1, <2>2 DEF Charged, Missed
    <3>2. Later(s.lastEarned, s.settledThrough) + 1 >= cur
      BY <1>1, <2>2 DEF SettledAt, Later
    <3>3. Charged(s, cur + 1) = IF unearned THEN {cur} ELSE {}
      <4> DEFINE from == Later(s.lastEarned, s.settledThrough)
      <4>1. from \in Int /\ from >= cur - 1 /\ (from < cur <=> s.lastEarned < cur /\ s.settledThrough < cur)
        BY <1>1, <3>2 DEF Later
      <4>2. unearned <=> from < cur /\ ScheduledOn(cur)
        BY <1>1, <2>2, <4>1
      <4> HIDE DEF from, unearned
      <4>3. \A q \in (from + 1)..cur : q = cur /\ from < cur
        BY <1>1, <4>1
      <4>4. from < cur => cur \in (from + 1)..cur
        BY <1>1, <4>1
      <4>5. Charged(s, cur + 1) = {q \in (from + 1)..cur : ScheduledOn(q)}
        BY <3>1 DEF from
      <4> QED BY <4>2, <4>3, <4>4, <4>5, Zenon
    <3> HIDE DEF unearned
    <3> QED BY <3>3, FS_EmptySet, FS_Singleton
  <2> QED BY <2>1, <2>2
<1>3. n \in {0, 1} /\ (n = 1 <=> unearned)
  OBVIOUS
<1> HIDE DEF n, unearned
<1>4. /\ Spent(s, cur + 1) = IF unearned /\ canFreeze THEN 1 ELSE 0
      /\ Breaks(s, cur + 1) <=> unearned /\ ~canFreeze
  BY <1>1, <1>2, <1>3, ConfigAssumption DEF Spent, Breaks
<1>5. /\ t.currentCount = IF Breaks(s, cur + 1) THEN 0 ELSE s.currentCount
      /\ t.freezeProgress = IF Breaks(s, cur + 1) THEN 0 ELSE s.freezeProgress
      /\ t.freezes = s.freezes - Spent(s, cur + 1)
  BY DEF Settle, State
<1>6. /\ t.longest = s.longest /\ t.lastEarned = s.lastEarned
      /\ t.settledThrough = IF s.lastEarned = NoDate THEN cur ELSE Later(s.settledThrough, cur)
  BY <1>1, SettlePointer
<1>7. t.freezes = IF unearned /\ canFreeze THEN s.freezes - 1 ELSE s.freezes
  <2> HIDE DEF canFreeze, t
  <2> QED BY <1>1, <1>4, <1>5
<1> QED BY <1>4, <1>5, <1>6, <1>7 DEF unearned

-----------------------------------------------------------------------------
(***************************************************************************)
(* The refinement, step by step.                                           *)
(***************************************************************************)

\* The operations of which EagerStreak has no counterpart: those that rewrite
\* the ledger, its days or the inventory.
RewriteOps == ReplayOps \cup {"shift", "setfreezes"}

\* The clock of a zone shows every period, in order.
SmoothClock ==
  \A z \in Zones : \A t \in Time :
    t < Horizon => PeriodKey(t + 1, z) \in {PeriodKey(t, z), PeriodKey(t, z) + 1}

\* EagerStreak means the same by the names it shares with StreakEngine.
LEMMA SharedNames ==
  /\ Eager!NewState = NewState /\ Eager!NoDate = NoDate /\ Eager!Period = Period
  /\ \A a, b : Eager!Later(a, b) = Later(a, b)
  /\ \A q : Eager!ScheduledOn(q) = ScheduledOn(q)
  /\ \A s, q : Eager!Apply(s, q) = Apply(s, q)
<1>1. /\ Eager!NewState = NewState /\ Eager!NoDate = NoDate /\ Eager!Period = Period
  BY DEF NewState, NoDate, Period, Eager!NewState, Eager!NoDate, Eager!Period
<1>2. \A a, b : Eager!Later(a, b) = Later(a, b)
  BY DEF Later, Eager!Later
<1>3. \A q : Eager!ScheduledOn(q) = ScheduledOn(q)
  BY DEF ScheduledOn, Eager!ScheduledOn
<1>4. ASSUME NEW s, NEW q PROVE Eager!Apply(s, q) = Apply(s, q)
  <2>1. Eager!Earns(s, q) = Earns(s, q)
    BY <1>3 DEF Earns, Eager!Earns
  <2>2. Eager!FreezeDue(s) = FreezeDue(s) /\ Eager!FreezeGranted(s) = FreezeGranted(s)
    BY DEF FreezeDue, Eager!FreezeDue, FreezeGranted, Eager!FreezeGranted
  <2> QED BY <1>2, <2>1, <2>2, Zenon DEF Apply, Eager!Apply
<1> QED BY <1>1, <1>2, <1>3, <1>4

\* What a row and the last marker say was lost.
LossOf(s, m, cur) ==
  IF Breaks(s, cur) THEN s.currentCount ELSE IF m.kind = "broken" THEN m.count ELSE 0

LEMMA RowType == TypeOK => st \in State /\ Cur \in Period
BY CurType DEF TypeOK

LEMMA LossIs == TypeOK => LiveLoss = LossOf(st, marker, Cur)
<1> SUFFICES ASSUME TypeOK PROVE LiveLoss = LossOf(st, marker, Cur)
  OBVIOUS
<1>1. LatestBreak(SettleEvents(st, Cur)) =
        IF Breaks(st, Cur) THEN [kind |-> "broken", count |-> st.currentCount, at |-> now]
        ELSE marker
  BY CurType, LatestBreakIs DEF TypeOK
<1> QED BY <1>1 DEF LiveLoss, LossOf

\* A step after which the row is settled up to today shows it as it is, and as
\* lost what the marker says.
LEMMA ShownSettled ==
  ASSUME TypeOK', SettledAt(st', Cur')
  PROVE  /\ Live' = st'
         /\ LiveLoss' = IF marker'.kind = "broken" THEN marker'.count ELSE 0
<1>1. st' \in State /\ Cur' \in Period
  <2>1. (st \in State /\ Cur \in Period)'
    BY RowType, PTL
  <2> QED BY <2>1
<1>2. LiveLoss' = LossOf(st', marker', Cur')
  <2>1. (LiveLoss = LossOf(st, marker, Cur))'
    BY LossIs, PTL
  <2> QED BY <2>1
<1>3. Settle(st', Cur') = st' /\ ~Breaks(st', Cur')
  BY <1>1, SettledStays
<1> QED BY <1>2, <1>3 DEF Live, LossOf

\* A step that leaves the row and the present period leaves what is shown.
LEMMA ShownSame ==
  ASSUME TypeOK, TypeOK', st' = st, marker' = marker, Cur' = Cur
  PROVE  Live' = Live /\ LiveLoss' = LiveLoss
<1>1. (LiveLoss = LossOf(st, marker, Cur))'
  BY LossIs, PTL
<1> QED BY <1>1, LossIs DEF Live, LossOf

\* What a settlement of today leaves to be seen.
LEMMA SettledLoss ==
  ASSUME TypeOK, NEW others, \A e \in others : e.type \notin MarkerTypes,
         NEW evs, evs = SettleEvents(st, Cur) \cup others, PersistEvents(evs)
  PROVE  /\ st \in State /\ Cur \in Period /\ Live \in State /\ Live = Settle(st, Cur)
         /\ SettledAt(Live, Cur)
         /\ LiveLoss = IF marker'.kind = "broken" THEN marker'.count ELSE 0
<1>1. st \in State /\ Cur \in Period
  BY CurType DEF TypeOK
<1>2. marker' = IF Breaks(st, Cur)
                THEN [kind |-> "broken", count |-> st.currentCount, at |-> now]
                ELSE marker
  BY <1>1, PersistSettled
<1> QED BY <1>1, <1>2, LossIs, SettleType, SettleSettles DEF LossOf, Live

\* A tick in time, or late, or twice: nobody can tell.
LEMMA SettleStutters ==
  ASSUME TypeOK, TypeOK', SettleDue
  PROVE  UNCHANGED <<Cur, Live, LiveLoss>>
<1>1. st' = Settle(st, Cur) /\ PersistEvents(SettleEvents(st, Cur)) /\ Cur' = Cur
  BY DEF SettleDue, SettleOne, Cur
<1>2. /\ Live = Settle(st, Cur) /\ SettledAt(Live, Cur)
      /\ LiveLoss = IF marker'.kind = "broken" THEN marker'.count ELSE 0
  <2>1. SettleEvents(st, Cur) = SettleEvents(st, Cur) \cup {}
        /\ \A e \in {} : e.type \notin MarkerTypes
    OBVIOUS
  <2> QED BY <1>1, <2>1, SettledLoss
<1> QED BY <1>1, <1>2, ShownSettled

\* A record earns today, or does not reach the amount.
LEMMA RecordEarns ==
  ASSUME TypeOK, TypeOK', NEW a \in Amounts, RecordCurrent(a)
  PROVE  Eager!Earn \/ UNCHANGED <<Cur, Live, LiveLoss>>
<1> DEFINE earns == IF ReachesMin(Cur, a) THEN ApplyEvents(Settle(st, Cur), Cur) ELSE {}
<1>1. /\ PersistEvents(SettleEvents(st, Cur) \cup earns) /\ Cur' = Cur
      /\ st' = IF ReachesMin(Cur, a) THEN Apply(Settle(st, Cur), Cur) ELSE Settle(st, Cur)
  BY DEF RecordCurrent, Cur
<1>2. \A e \in earns : e.type \notin MarkerTypes
  BY EarnsOther
<1> HIDE DEF earns
<1>3. /\ Cur \in Period /\ Live \in State /\ Live = Settle(st, Cur) /\ SettledAt(Live, Cur)
      /\ LiveLoss = IF marker'.kind = "broken" THEN marker'.count ELSE 0
  BY <1>1, <1>2, SettledLoss
<1>4. SettledAt(Apply(Live, Cur), Cur)
  <2>1. Cur \in Int /\ Live.settledThrough \in Int /\ Cur # NoDate
    BY <1>3, CalendarAssumption DEF State, Date, Period, NoDate
  <2>2. Live.settledThrough >= Cur - 1
    BY <1>3, <2>1 DEF SettledAt
  <2> QED BY <1>3, <2>1, <2>2, ApplyFields DEF SettledAt
<1>5. Live' = st' /\ LiveLoss' = LiveLoss
  BY <1>1, <1>3, <1>4, ShownSettled
<1> QED BY <1>1, <1>3, <1>5, SharedNames, Zenon DEF Eager!Earn

\* The subject moves to another zone.
LEMMA TravelMoves ==
  ASSUME TypeOK, TypeOK', Sane, NEW z \in Zones, SetTimezone(z)
  PROVE  Eager!Travel(Cur')
<1> DEFINE to == Cur'
           L  == Live
           resolved == [L EXCEPT !.settledThrough =
                          IF L.lastEarned = NoDate THEN to - 1 ELSE Later(@, to - 1)]
<1>1. /\ to \in Period /\ to \in Int /\ to = PeriodKey(now, z) /\ L \in State
      /\ L.settledThrough \in Int /\ L.lastEarned \in Date
  <2>1. (st \in State /\ Cur \in Period)'
    BY RowType, PTL
  <2>2. L \in State
    BY CurType, SettleType DEF TypeOK, Live
  <2> QED BY <2>1, <2>2, CalendarAssumption
          DEF SetTimezone, Rezone, Cur, State, Date, Period, NoDate
<1>2. Live' = resolved /\ LiveLoss' = LiveLoss
  <2>1. CASE exists
    <3>1. st' = Forgive(L, to) /\ PersistEvents(SettleEvents(st, Cur))
      BY <1>1, <2>1 DEF SetTimezone, Rezone, Live
    <3>2. LiveLoss = IF marker'.kind = "broken" THEN marker'.count ELSE 0
      <4>1. SettleEvents(st, Cur) = SettleEvents(st, Cur) \cup {}
            /\ \A e \in {} : e.type \notin MarkerTypes
        OBVIOUS
      <4> QED BY <3>1, <4>1, SettledLoss
    <3>3. /\ st'.settledThrough = Later(L.settledThrough, to - 1)
          /\ st'.lastEarned = L.lastEarned
          /\ st' = [L EXCEPT !.settledThrough = Later(@, to - 1)]
      BY <1>1, <3>1 DEF Forgive, PrevPeriod, State
    <3>4. CASE L.lastEarned # NoDate
      <4>1. SettledAt(st', to)
        BY <1>1, <3>3, <3>4 DEF SettledAt, Later
      <4> QED BY <3>2, <3>3, <3>4, <4>1, ShownSettled
    <3>5. CASE L.lastEarned = NoDate
      <4>1. st' \in State /\ st'.lastEarned = NoDate
        BY <3>3, <3>5 DEF TypeOK
      <4>2. Live' = Settle(st', to) /\ ~Breaks(st', to)
        BY <1>1, <4>1, SettleIdle DEF Live
      <4>3. Settle(st', to) = resolved
        <5> DEFINE t == Settle(st', to)
        <5>1. /\ t.currentCount = L.currentCount /\ t.longest = L.longest
              /\ t.lastEarned = L.lastEarned /\ t.freezes = L.freezes
              /\ t.freezeProgress = L.freezeProgress /\ t.settledThrough = to - 1
          BY <1>1, <3>3, <4>1, SettleIdle, SettlePointer DEF State
        <5>2. t \in State /\ to - 1 \in Date
          BY <1>1, <4>1, SettleType, CalendarAssumption DEF Date, Period, NoDate
        <5>3. /\ resolved \in State /\ resolved.currentCount = L.currentCount
              /\ resolved.longest = L.longest /\ resolved.lastEarned = L.lastEarned
              /\ resolved.freezes = L.freezes /\ resolved.freezeProgress = L.freezeProgress
              /\ resolved.settledThrough = to - 1
          BY <1>1, <3>5, <5>2 DEF State
        <5> HIDE DEF t, resolved
        <5>4. t = resolved
          BY <5>1, <5>2, <5>3, SameState
        <5> QED BY <5>4 DEF t
      <4>4. LiveLoss' = LossOf(st', marker', to)
        <5>1. (LiveLoss = LossOf(st, marker, Cur))'
          BY LossIs, PTL
        <5> QED BY <5>1
      <4> QED BY <3>2, <4>2, <4>3, <4>4 DEF LossOf
    <3> QED BY <3>4, <3>5
  <2>2. CASE ~exists
    <3>1. st = NewState /\ st' = st /\ marker' = marker
      BY <2>2, PersistOther DEF Sane, SetTimezone, Rezone
    <3>2. /\ st \in State /\ Cur \in Period /\ st.lastEarned = NoDate
          /\ st.currentCount = 0
      BY <3>1, RowType DEF NewState
    <3>3. /\ ~Breaks(st, Cur) /\ ~Breaks(st, to)
          /\ Live = [st EXCEPT !.settledThrough = Cur - 1]
          /\ Live' = [st EXCEPT !.settledThrough = to - 1]
      <4>1. ASSUME NEW c \in Period
            PROVE  ~Breaks(st, c) /\ Settle(st, c) = [st EXCEPT !.settledThrough = c - 1]
        <5>1. Spent(st, c) = 0 /\ ~Breaks(st, c) /\ st.freezes - 0 = st.freezes
          BY <3>2, SettleIdle DEF State
        <5> QED BY <3>2, <5>1 DEF Settle, State, PrevPeriod
      <4> QED BY <1>1, <3>1, <3>2, <4>1 DEF Live
    <3>4. LiveLoss' = LossOf(st', marker', to)
      <4>1. (LiveLoss = LossOf(st, marker, Cur))'
        BY LossIs, PTL
      <4> QED BY <4>1
    <3> QED BY <3>1, <3>2, <3>3, <3>4, LossIs DEF LossOf, State
  <2> QED BY <2>1, <2>2
<1>3. Eager!Resolved(L, to - 1) = resolved
  BY SharedNames, Zenon DEF Eager!Resolved
<1> QED BY <1>2, <1>3 DEF Eager!Travel

\* A repair restores what a reader would have seen lost.
LEMMA RepairRestores ==
  ASSUME TypeOK, TypeOK', Repair
  PROVE  Eager!Restore
<1> DEFINE L == Live
<1>1. PICK n \in Nat :
        LET lost == IF Breaks(st, Cur) THEN st.currentCount ELSE marker.count
        IN  /\ lost > 0 /\ n = L.currentCount + lost
            /\ Breaks(st, Cur) \/ marker.kind = "broken"
            /\ st'.currentCount = n /\ st'.longest = Later(L.longest, n)
            /\ st'.lastEarned = L.lastEarned
            /\ st'.settledThrough = Later(L.settledThrough, Cur - 1)
            /\ st'.freezes = L.freezes
            /\ st'.freezeProgress = L.freezeProgress
            /\ marker'.kind = "repaired"
  BY RepairIs DEF Live
<1>2. /\ L \in State /\ Cur \in Int /\ L.settledThrough \in Int /\ SettledAt(L, Cur)
      /\ Cur' = Cur
  BY RowType, SettleType, SettleSettles, CalendarAssumption
     DEF Live, State, Date, Period, NoDate, Repair, Cur
<1>3. LiveLoss = IF Breaks(st, Cur) THEN st.currentCount ELSE marker.count
  BY <1>1, LossIs DEF LossOf
<1>4. st'.settledThrough = L.settledThrough
  BY <1>1, <1>2 DEF SettledAt, Later
<1>5. SettledAt(st', Cur')
  BY <1>1, <1>2, <1>4 DEF SettledAt
<1>6. Live' = st' /\ LiveLoss' = 0
  BY <1>1, <1>5, ShownSettled
<1> DEFINE restored == [L EXCEPT !.currentCount = n, !.longest = Later(L.longest, n)]
<1>7. st' = restored
  <2>1. st' \in State /\ Later(L.longest, n) \in Nat
    BY <1>2 DEF TypeOK, Later, State
  <2>2. /\ restored \in State /\ restored.currentCount = n
        /\ restored.longest = Later(L.longest, n) /\ restored.lastEarned = L.lastEarned
        /\ restored.settledThrough = L.settledThrough /\ restored.freezes = L.freezes
        /\ restored.freezeProgress = L.freezeProgress
    BY <1>2, <2>1 DEF State
  <2> HIDE DEF restored, L
  <2> QED BY <1>1, <1>4, <2>1, <2>2, SameState
<1>8. LiveLoss > 0 /\ n = L.currentCount + LiveLoss
  BY <1>1, <1>3
<1> QED BY <1>2, <1>6, <1>7, <1>8, SharedNames DEF Eager!Restore

\* Time passes inside a period, or closes it.
LEMMA AdvanceCloses ==
  ASSUME TypeOK, TypeOK', Started, SmoothClock, Advance
  PROVE  Eager!Close \/ UNCHANGED <<Cur, Live, LiveLoss>>
<1>1. /\ st' = st /\ marker' = marker /\ Cur' \in {Cur, Cur + 1}
  BY DEF Advance, Cur, SmoothClock, TypeOK
<1>2. CASE Cur' = Cur
  BY <1>1, <1>2, ShownSame
<1>3. CASE Cur' = Cur + 1
  <2> DEFINE L == Live
             unearned  == /\ L.currentCount > 0 /\ ScheduledOn(Cur)
                          /\ L.lastEarned < Cur /\ L.settledThrough < Cur
             canFreeze == AutoConsume /\ L.freezes > 0
  <2>1. (st \in State /\ Cur \in Period)'
    BY RowType, PTL
  <2>2. /\ st \in State /\ Cur \in Period /\ Cur + 1 \in Period /\ Cur <= Cur + 1
        /\ L \in State /\ SettledAt(L, Cur) /\ Rooted(L)
    <3>1. Rooted(st) /\ st \in State /\ Cur \in Period
      BY RowType DEF Started, StartedAs
    <3> QED BY <1>3, <2>1, <3>1, SettleType, SettleSettles, RootedKept, CalendarAssumption
            DEF Live, Period
  <2>3. Live' = Settle(L, Cur + 1)
    BY <1>1, <1>3, <2>2, SettleComposes DEF Live
  <2> HIDE DEF L
  <2>4. /\ Breaks(L, Cur + 1) <=> unearned /\ ~canFreeze
        /\ Live'.currentCount = IF unearned /\ ~canFreeze THEN 0 ELSE L.currentCount
        /\ Live'.freezeProgress = IF unearned /\ ~canFreeze THEN 0 ELSE L.freezeProgress
        /\ Live'.freezes = IF unearned /\ canFreeze THEN L.freezes - 1 ELSE L.freezes
        /\ Live'.longest = L.longest /\ Live'.lastEarned = L.lastEarned
        /\ Live'.settledThrough = IF L.lastEarned = NoDate THEN Cur
                                  ELSE Later(L.settledThrough, Cur)
    BY <2>2, <2>3, ClosePeriod
  <2>5. LiveLoss' = IF unearned /\ ~canFreeze THEN L.currentCount ELSE LiveLoss
    <3>1. (LiveLoss = LossOf(st, marker, Cur))'
      BY LossIs, PTL
    <3>2. LiveLoss' = LossOf(st, marker, Cur + 1)
      BY <1>1, <1>3, <3>1
    <3>3. Breaks(st, Cur + 1) <=> Breaks(st, Cur) \/ Breaks(L, Cur + 1)
      BY <2>2, BreaksSplit DEF Live, L
    <3>4. L.currentCount = IF Breaks(st, Cur) THEN 0 ELSE st.currentCount
      BY <2>2, SettleCount DEF Live, L
    <3>5. Breaks(L, Cur + 1) => L.currentCount > 0
      BY <2>2, BreaksNeedsChain
    <3> HIDE DEF unearned, canFreeze
    <3> QED BY <2>4, <3>2, <3>3, <3>4, <3>5, LossIs DEF LossOf
  <2> DEFINE resolved == [L EXCEPT !.settledThrough =
                            IF L.lastEarned = NoDate THEN Cur ELSE Later(@, Cur)]
  <2>6. /\ ~unearned => Live' = resolved
        /\ unearned /\ canFreeze => Live' = [resolved EXCEPT !.freezes = @ - 1]
        /\ unearned /\ ~canFreeze =>
             Live' = [resolved EXCEPT !.currentCount = 0, !.freezeProgress = 0]
    <3>1. Live' \in State
      BY <2>2, <2>3, SettleType
    <3> HIDE DEF unearned, canFreeze
    <3> QED BY <2>2, <2>4, <3>1 DEF State
  <2>7. /\ Eager!Unearned(Cur) <=> unearned
        /\ Eager!CanFreeze <=> canFreeze
        /\ Eager!Resolved(Live, Cur) = resolved
    BY SharedNames, Zenon DEF Eager!Unearned, Eager!CanFreeze, Eager!Resolved, L
  <2> HIDE DEF unearned, canFreeze, resolved
  <2> QED BY <1>3, <2>5, <2>6, <2>7 DEF Eager!Close, L
<1> QED BY <1>1, <1>2, <1>3

\* At the start nothing is owed and nothing is lost.
LEMMA EagerStarts ==
  ASSUME Init, TypeOK
  PROVE  Eager!EagerInit
<1>1. /\ st = NewState /\ st \in State /\ Cur \in Period /\ Cur # 1 /\ marker.kind = "none"
      /\ st.lastEarned = NoDate /\ st.currentCount = 0
  BY RowType, CurType DEF Init, NewState, NoMarker, Period
<1>2. Spent(st, Cur) = 0 /\ ~Breaks(st, Cur) /\ st.freezes - 0 = st.freezes
  BY <1>1, SettleIdle DEF State
<1>3. Live = [NewState EXCEPT !.settledThrough = Cur - 1]
  BY <1>1, <1>2 DEF Live, Settle, State, PrevPeriod
<1>4. LiveLoss = 0
  BY <1>1, <1>2, LossIs DEF LossOf
<1> QED BY <1>1, <1>3, <1>4, SharedNames, Zenon DEF Eager!EagerInit

\* Every step is a step of EagerStreak, or one that nobody can tell.
LEMMA EagerStep ==
  ASSUME Ops \cap RewriteOps = {}, Delays = {}, SmoothClock,
         TypeOK, TypeOK', Sane, Started, [Next]_vars
  PROVE  Eager!EagerNext \/ UNCHANGED <<Cur, Live, LiveLoss>>
<1>1. ASSUME UNCHANGED vars \/ RemindDue
             \/ \E r \in Reminders \cup {NoReminder} : SetReminder(r)
      PROVE  UNCHANGED <<Cur, Live, LiveLoss>>
  <2>1. CASE RemindDue
    <3>1. /\ PersistEvents({Ev("at_risk", Cur, Derive(st, Cur).count)}) /\ st' = st
          /\ now' = now /\ tz' = tz
      BY <2>1 DEF RemindDue, RemindOne
    <3>2. marker' = marker
      BY <3>1, PersistOther DEF Ev, MarkerTypes
    <3> QED BY <3>1, <3>2, ShownSame DEF Cur
  <2>2. CASE \E r \in Reminders \cup {NoReminder} : SetReminder(r)
    BY <2>2, PersistOther, ShownSame DEF SetReminder, Cur
  <2>3. CASE UNCHANGED vars
    BY <2>3, ShownSame DEF vars, Cur
  <2> QED BY <1>1, <2>1, <2>2, <2>3
<1>2. ASSUME NEW a \in Amounts, RecordCurrent(a)
      PROVE  Eager!Earn \/ UNCHANGED <<Cur, Live, LiveLoss>>
  BY <1>2, RecordEarns
<1>3. ASSUME NEW z \in Zones, SetTimezone(z)
      PROVE  \E to \in Eager!Period : Eager!Travel(to)
  <2>1. (st \in State /\ Cur \in Period)'
    BY RowType, PTL
  <2>2. Eager!Travel(Cur')
    BY <1>3, TravelMoves
  <2> QED BY <2>1, <2>2, SharedNames
<1>4. /\ \A d \in Delays, a \in Amounts : ~RecordGrace(d, a)
      /\ ~Unrecord /\ ~Recount
      /\ \A h \in Histories : ~ReplaceHistory(h)
      /\ \A n \in ShiftDays : ~ShiftHistory(n)
      /\ \A n \in FreezeGrants : ~SetFreezes(n)
  BY DEF RewriteOps, ReplayOps, Unrecord, Recount, ReplaceHistory, ShiftHistory, SetFreezes
<1>5. Advance => Eager!Close \/ UNCHANGED <<Cur, Live, LiveLoss>>
  BY AdvanceCloses
<1>6. Repair => Eager!Restore
  BY RepairRestores
<1>7. SettleDue => UNCHANGED <<Cur, Live, LiveLoss>>
  BY SettleStutters
<1> QED BY <1>1, <1>2, <1>3, <1>4, <1>5, <1>6, <1>7 DEF Next, Eager!EagerNext

\* Lateness is invisible (DESIGN.md:412, scheduler.go:18-20): with records,
\* reminders, ticks in time, late or never, zone changes and repairs, what a
\* settlement at this very instant would leave behaves as a streak that is
\* settled at every boundary, and so does what a repair would restore.
THEOREM ImplementsEagerCorrect ==
  ASSUME Ops \cap RewriteOps = {}, Delays = {}, SmoothClock
  PROVE  Spec => ImplementsEager
<1>1. Init /\ TypeOK => Eager!EagerInit
  BY EagerStarts
<1>2. TypeOK /\ TypeOK' /\ Sane /\ Started /\ [Next]_vars
        => [Eager!EagerNext]_(Eager!eagerVars)
  BY EagerStep DEF Eager!eagerVars
<1>3. Spec => []Started
  BY StartedCorrect DEF RewriteOps
<1> QED BY <1>1, <1>2, <1>3, TypeCorrect, SaneCorrect, PTL
        DEF Spec, ImplementsEager, Eager!EagerSpec
=============================================================================
