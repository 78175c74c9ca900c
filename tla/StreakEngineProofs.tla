------------------------- MODULE StreakEngineProofs -------------------------
(***************************************************************************)
(* Theorems about StreakEngine: they hold for every set of operations, any *)
(* number of zones, any calendar, any configuration and any bound.         *)
(***************************************************************************)
EXTENDS StreakProperties, StreakCoreProofs

\* The current period is one of the calendar.
LEMMA CurType ==
  ASSUME TypeOK
  PROVE  Cur \in Period /\ Cur \in 2..LastPeriod
BY CalendarAssumption DEF TypeOK, Cur, Period

\* persistEvents keeps the types of what it writes (engine.go:162-175).
LEMMA PersistType ==
  ASSUME TypeOK, NEW evs \in SUBSET Event, PersistEvents(evs)
  PROVE  out' \subseteq Event /\ charged' \subseteq Period /\ marker' \in Marker
<1> DEFINE breaks  == OfType(evs, {"broken"})
           repairs == OfType(evs, {"repaired"})
<1>1. breaks \subseteq Event /\ repairs \subseteq Event
  BY DEF OfType
<1>2. /\ breaks # {} => (CHOOSE e \in breaks : TRUE).count \in Nat
      /\ repairs # {} => (CHOOSE e \in repairs : TRUE).count \in Nat
  <2> HIDE DEF breaks, repairs
  <2> QED BY <1>1 DEF Event
<1>3. marker' \in Marker
  <2>1. now \in Time /\ marker \in Marker
    BY DEF TypeOK
  <2>2. CASE repairs # {}
    BY <1>2, <2>1, <2>2 DEF PersistEvents, Marker
  <2>3. CASE repairs = {} /\ breaks # {}
    BY <1>2, <2>1, <2>3 DEF PersistEvents, Marker
  <2>4. CASE repairs = {} /\ breaks = {}
    BY <2>1, <2>4 DEF PersistEvents, Marker
  <2> QED BY <2>2, <2>3, <2>4
<1>4. charged' \subseteq Period
  <2>1. PeriodsOf(OfType(evs, ChargeTypes)) \subseteq Period
    BY DEF PeriodsOf, OfType, Event
  <2> QED BY <2>1 DEF PersistEvents, TypeOK
<1>5. out' \subseteq Event
  BY DEF PersistEvents
<1> QED BY <1>3, <1>4, <1>5

\* The empty schema is typed.
LEMMA TypeInit == Init => TypeOK
<1> SUFFICES ASSUME Init PROVE TypeOK
  OBVIOUS
<1>1. now \in Time /\ 0 \in Time
  BY CalendarAssumption DEF Init, Time
<1>2. marks \in [Period -> 0..MaxAmount]
  BY EngineAssumption DEF Init
<1>3. marker \in Marker
  BY <1>1 DEF Init, NoMarker, Marker
<1>4. st \in State
  BY NewStateType DEF Init
<1> QED BY <1>1, <1>2, <1>3, <1>4, EngineAssumption DEF Init, TypeOK

\* Record of the current period keeps the types.
LEMMA TypeRecordCurrent ==
  ASSUME TypeOK, NEW a \in Amounts, RecordCurrent(a)
  PROVE  TypeOK'
<1> DEFINE settled == Settle(st, Cur)
<1>1. st \in State /\ Cur \in Period
  BY CurType DEF TypeOK
<1>2. settled \in State /\ Apply(settled, Cur) \in State
  BY <1>1, SettleType, ApplyType
<1>3. st' \in State
  BY <1>2 DEF RecordCurrent
<1>4. PICK evs \in SUBSET Event : PersistEvents(evs)
  <2>1. SettleEvents(st, Cur) \subseteq Event /\ ApplyEvents(settled, Cur) \subseteq Event
    BY <1>1, <1>2, SettleEventsType, ApplyEventsType
  <2> QED BY <2>1 DEF RecordCurrent
<1>5. marks' \in [Period -> 0..MaxAmount]
  BY <1>1, EngineAssumption DEF RecordCurrent, AddMark, TypeOK
<1> QED BY <1>3, <1>4, <1>5, PersistType DEF RecordCurrent, TypeOK

\* Record of a period that closed moments ago keeps the types.
LEMMA TypeRecordGrace ==
  ASSUME TypeOK, NEW d \in Delays, NEW a \in Amounts, RecordGrace(d, a)
  PROVE  TypeOK'
<1> DEFINE p       == PeriodKey(now - d, tz)
           applied == IF ReachesMin(p, a) THEN Apply(st, p) ELSE st
<1>1. st \in State /\ Cur \in Period /\ p \in Period
  BY CurType, CalendarAssumption DEF TypeOK, RecordGrace, Period
<1>2. applied \in State
  BY <1>1, ApplyType
<1>3. st' \in State
  BY <1>1, <1>2, SettleType DEF RecordGrace
<1>4. PICK evs \in SUBSET Event : PersistEvents(evs)
  <2>1. SettleEvents(applied, Cur) \subseteq Event /\ ApplyEvents(st, p) \subseteq Event
    BY <1>1, <1>2, SettleEventsType, ApplyEventsType
  <2> QED BY <2>1 DEF RecordGrace
<1>5. marks' \in [Period -> 0..MaxAmount]
  BY <1>1, EngineAssumption DEF RecordGrace, AddMark, TypeOK
<1> QED BY <1>3, <1>4, <1>5, PersistType DEF RecordGrace, TypeOK

\* The operations that rebuild the state from a ledger.
LEMMA TypeRebuild ==
  ASSUME TypeOK, NEW ledger \in [Period -> 0..MaxAmount], Rebuild(ledger)
  PROVE  /\ marks' \in [Period -> 0..MaxAmount] /\ st' \in State
         /\ out' \subseteq Event /\ charged' \subseteq Period /\ marker' \in Marker
<1>1. st' \in State
  BY CurType, ReplayType DEF Rebuild
<1>2. PersistEvents({})
  BY DEF Rebuild
<1> QED BY <1>1, <1>2, PersistType DEF Rebuild

\* Unrecord keeps the types.
LEMMA TypeUnrecord ==
  ASSUME TypeOK, Unrecord
  PROVE  TypeOK'
<1>1. [marks EXCEPT ![Cur] = 0] \in [Period -> 0..MaxAmount]
  <2>1. 0 \in 0..MaxAmount /\ marks \in [Period -> 0..MaxAmount]
    BY EngineAssumption DEF TypeOK
  <2> QED BY <2>1
<1> QED BY <1>1, TypeRebuild DEF Unrecord, TypeOK

\* Recount keeps the types.
LEMMA TypeRecount ==
  ASSUME TypeOK, Recount
  PROVE  TypeOK'
BY TypeRebuild DEF Recount, TypeOK

\* ReplaceHistory keeps the types.
LEMMA TypeReplaceHistory ==
  ASSUME TypeOK, NEW periods \in Histories, ReplaceHistory(periods)
  PROVE  TypeOK'
<1>1. [p \in Period |-> IF p \in periods THEN MinAmount ELSE 0]
        \in [Period -> 0..MaxAmount]
  BY EngineAssumption
<1> QED BY <1>1, TypeRebuild DEF ReplaceHistory, TypeOK

\* ShiftHistory keeps the types, its dates being inside the calendar.
LEMMA TypeShiftHistory ==
  ASSUME TypeOK, NEW n \in ShiftDays, ShiftHistory(n)
  PROVE  TypeOK'
<1> DEFINE earlier(date) == IF date = NoDate THEN NoDate ELSE date - n
<1>1. n \in Nat
  BY EngineAssumption
<1>2. ASSUME NEW date \in Date, date \notin 1..n PROVE earlier(date) \in Date
  BY <1>1, <1>2, CalendarAssumption DEF Date, Period, NoDate
<1>3. st' \in State
  <2>1. st \in State /\ st.lastEarned \in Date /\ st.settledThrough \in Date
    BY DEF TypeOK, State
  <2>2. earlier(st.lastEarned) \in Date /\ earlier(st.settledThrough) \in Date
    BY <1>2, <2>1 DEF ShiftHistory
  <2>3. st' = [st EXCEPT !.lastEarned = earlier(st.lastEarned),
                         !.settledThrough = earlier(st.settledThrough)]
    BY DEF ShiftHistory
  <2> HIDE DEF earlier
  <2> QED BY <2>1, <2>2, <2>3 DEF State
<1>4. marks' \in [Period -> 0..MaxAmount]
  BY EngineAssumption DEF ShiftHistory, TypeOK
<1>5. PersistEvents({})
  BY DEF ShiftHistory
<1> QED BY <1>3, <1>4, <1>5, PersistType DEF ShiftHistory, TypeOK

\* SetFreezes keeps the types, also above the cap.
LEMMA TypeSetFreezes ==
  ASSUME TypeOK, NEW n \in FreezeGrants, SetFreezes(n)
  PROVE  TypeOK'
<1>1. st' \in State
  BY EngineAssumption DEF SetFreezes, TypeOK, State
<1>2. PersistEvents({})
  BY DEF SetFreezes
<1> QED BY <1>1, <1>2, PersistType DEF SetFreezes, TypeOK

\* Pulling the settle pointer gives a state.
LEMMA ForgiveType ==
  ASSUME NEW s \in State, NEW cur \in Period
  PROVE  Forgive(s, cur) \in State
<1>1. Later(s.settledThrough, PrevPeriod(cur)) \in Date
  BY CalendarAssumption DEF Later, PrevPeriod, State, Date, Period, NoDate
<1> QED BY <1>1 DEF Forgive, State

\* SetTimezone, Rezone keeps the types.
LEMMA TypeSetTimezone ==
  ASSUME TypeOK, NEW z \in Zones, SetTimezone(z)
  PROVE  TypeOK'
<1>1. st \in State /\ Cur \in Period /\ PeriodKey(now, z) \in Period
  BY CurType, CalendarAssumption DEF TypeOK, Period
<1>2. st' \in State
  BY <1>1, SettleType, ForgiveType DEF SetTimezone, Rezone
<1>3. PICK evs \in SUBSET Event : PersistEvents(evs)
  BY <1>1, SettleEventsType DEF SetTimezone, Rezone
<1> QED BY <1>2, <1>3, PersistType DEF SetTimezone, Rezone, TypeOK

\* The count Repair adds is a natural number (admin.go:120-128).
LEMMA RepairCount ==
  ASSUME TypeOK
  PROVE  /\ LatestBreak(SettleEvents(st, Cur)).count \in Nat
         /\ Settle(st, Cur).currentCount + LatestBreak(SettleEvents(st, Cur)).count \in Nat
<1> DEFINE breaks == OfType(SettleEvents(st, Cur), {"broken"})
<1>1. st \in State /\ Cur \in Period
  BY CurType DEF TypeOK
<1>2. Settle(st, Cur).currentCount \in Nat
  BY <1>1, SettleType DEF State
<1>3. breaks \subseteq Event
  BY <1>1, SettleEventsType DEF OfType
<1>4. LatestBreak(SettleEvents(st, Cur)).count \in Nat
  <2>1. CASE breaks = {}
    BY <2>1 DEF LatestBreak, TypeOK, Marker
  <2>2. CASE breaks # {}
    <3> HIDE DEF breaks
    <3>1. (CHOOSE e \in breaks : TRUE).count \in Nat
      BY <1>3, <2>2 DEF Event
    <3> QED BY <3>1, <2>2 DEF LatestBreak, breaks
  <2> QED BY <2>1, <2>2
<1> QED BY <1>2, <1>4

\* Repair keeps the types.
LEMMA TypeRepair ==
  ASSUME TypeOK, Repair
  PROVE  TypeOK'
<1> DEFINE settled == Settle(st, Cur)
           n       == settled.currentCount + LatestBreak(SettleEvents(st, Cur)).count
<1>1. st \in State /\ Cur \in Period
  BY CurType DEF TypeOK
<1>2. settled \in State /\ SettleEvents(st, Cur) \subseteq Event
  BY <1>1, SettleType, SettleEventsType
<1>3. n \in Nat
  BY RepairCount
<1>4. [settled EXCEPT !.currentCount = n, !.longest = Later(settled.longest, n)] \in State
  <2> HIDE DEF n, settled
  <2> QED BY <1>2, <1>3 DEF State, Later
<1>5. st' \in State
  BY <1>1, <1>4, ForgiveType DEF Repair
<1>6. PICK evs \in SUBSET Event : PersistEvents(evs)
  <2>1. Ev("repaired", Cur, n) \in Event
    BY <1>1, <1>3 DEF Event, Ev, EventType
  <2> QED BY <1>2, <2>1 DEF Repair
<1> QED BY <1>5, <1>6, PersistType DEF Repair, TypeOK

\* SetReminder keeps the types.
LEMMA TypeSetReminder ==
  ASSUME TypeOK, NEW r \in Reminders \cup {NoReminder}, SetReminder(r)
  PROVE  TypeOK'
<1>1. PersistEvents({})
  BY DEF SetReminder
<1> QED BY <1>1, PersistType DEF SetReminder, TypeOK

\* A settlement by the scheduler keeps the types.
LEMMA TypeSettleDue ==
  ASSUME TypeOK, SettleDue
  PROVE  TypeOK'
<1>1. st \in State /\ Cur \in Period
  BY CurType DEF TypeOK
<1>2. st' \in State /\ SettleEvents(st, Cur) \subseteq Event
  BY <1>1, SettleType, SettleEventsType DEF SettleDue, SettleOne
<1>3. PersistEvents(SettleEvents(st, Cur))
  BY DEF SettleDue, SettleOne
<1> QED BY <1>2, <1>3, PersistType DEF SettleDue, SettleOne, TypeOK

\* A reminder by the scheduler keeps the types.
LEMMA TypeRemindDue ==
  ASSUME TypeOK, RemindDue
  PROVE  TypeOK'
<1>1. st \in State /\ Cur \in Period
  BY CurType DEF TypeOK
<1>2. Derive(st, Cur).count \in Nat
  <2>1. Derive(st, Cur).count \in {0, st.currentCount}
    BY DEF Derive
  <2> QED BY <1>1, <2>1 DEF State
<1>3. PICK evs \in SUBSET Event : PersistEvents(evs)
  <2>1. Ev("at_risk", Cur, Derive(st, Cur).count) \in Event
    BY <1>1, <1>2 DEF Event, Ev, EventType
  <2> QED BY <2>1 DEF RemindDue, RemindOne
<1>4. claims' \subseteq Period
  BY <1>1 DEF RemindDue, RemindOne, TypeOK
<1> QED BY <1>3, <1>4, PersistType DEF RemindDue, RemindOne, TypeOK

\* Every operation of the engine, whatever the calendar and the configuration
\* are, leaves the tables in the states the schema and the code expect.
THEOREM TypeCorrect == Spec => []TypeOK
<1>1. Init => TypeOK
  BY TypeInit
<1>2. TypeOK /\ [Next]_vars => TypeOK'
  <2> SUFFICES ASSUME TypeOK, [Next]_vars PROVE TypeOK'
    OBVIOUS
  <2>1. CASE Advance
    <3>1. now' \in Time
      BY <2>1, CalendarAssumption DEF Advance, TypeOK, Time
    <3> QED BY <2>1, <3>1 DEF Advance, TypeOK
  <2>2. ASSUME NEW a \in Amounts, RecordCurrent(a) PROVE TypeOK'
    BY <2>2, TypeRecordCurrent
  <2>3. ASSUME NEW d \in Delays, NEW a \in Amounts, RecordGrace(d, a) PROVE TypeOK'
    BY <2>3, TypeRecordGrace
  <2>4. CASE Unrecord
    BY <2>4, TypeUnrecord
  <2>5. CASE Recount
    BY <2>5, TypeRecount
  <2>6. ASSUME NEW periods \in Histories, ReplaceHistory(periods) PROVE TypeOK'
    BY <2>6, TypeReplaceHistory
  <2>7. ASSUME NEW n \in ShiftDays, ShiftHistory(n) PROVE TypeOK'
    BY <2>7, TypeShiftHistory
  <2>8. ASSUME NEW n \in FreezeGrants, SetFreezes(n) PROVE TypeOK'
    BY <2>8, TypeSetFreezes
  <2>9. ASSUME NEW z \in Zones, SetTimezone(z) PROVE TypeOK'
    BY <2>9, TypeSetTimezone
  <2>10. CASE Repair
    BY <2>10, TypeRepair
  <2>11. ASSUME NEW r \in Reminders \cup {NoReminder}, SetReminder(r) PROVE TypeOK'
    BY <2>11, TypeSetReminder
  <2>12. CASE SettleDue
    BY <2>12, TypeSettleDue
  <2>13. CASE RemindDue
    BY <2>13, TypeRemindDue
  <2>14. CASE UNCHANGED vars
    BY <2>14 DEF vars, TypeOK
  <2> QED BY <2>1, <2>2, <2>3, <2>4, <2>5, <2>6, <2>7, <2>8, <2>9, <2>10,
             <2>11, <2>12, <2>13, <2>14 DEF Next
<1> QED BY <1>1, <1>2, PTL DEF Spec

-----------------------------------------------------------------------------
(***************************************************************************)
(* Consistency of the row.                                                 *)
(***************************************************************************)

\* Settle keeps the counters of a state together.
LEMMA SettleConsistent ==
  ASSUME NEW s \in State, NEW cur \in Period, Consistent(s)
  PROVE  /\ Consistent(Settle(s, cur))
         /\ cur > 1 => Settle(s, cur).settledThrough # NoDate
<1>1. s.currentCount \in Nat /\ s.longest \in Nat /\ EarnEvery \in Nat
  BY ConfigAssumption DEF State
<1>2. Consistent(Settle(s, cur))
  BY <1>1 DEF Consistent, Settle, State
<1>3. ASSUME cur > 1 PROVE Settle(s, cur).settledThrough # NoDate
  BY <1>3, CalendarAssumption
     DEF Settle, State, Later, PrevPeriod, NoDate, Period, Date
<1> QED BY <1>2, <1>3

\* Apply keeps the counters of a state together; at the cap the progress is held.
LEMMA ApplyConsistent ==
  ASSUME NEW s \in State, NEW p \in Period, Consistent(s)
  PROVE  Consistent(Apply(s, p))
<1>1. /\ s.currentCount \in Nat /\ s.longest \in Nat /\ s.freezeProgress \in Nat
      /\ EarnEvery \in Nat
  BY ConfigAssumption DEF State
<1>2. CASE ~Earns(s, p)
  BY <1>2 DEF Apply
<1>3. CASE Earns(s, p)
  <2>1. Apply(s, p).currentCount <= Apply(s, p).longest
    BY <1>1, <1>3 DEF Apply, State, Later
  <2>2. Apply(s, p).freezeProgress =
          IF EarnEvery = 0 THEN s.freezeProgress
          ELSE IF FreezeGranted(s) THEN 0
          ELSE IF FreezeDue(s) THEN EarnEvery
          ELSE s.freezeProgress + 1
    BY <1>3, Zenon DEF Apply, State
  <2>3. Apply(s, p).freezeProgress <= EarnEvery
    BY <1>1, <2>2 DEF Consistent, FreezeDue
  <2> QED BY <2>1, <2>3 DEF Consistent
<1> QED BY <1>2, <1>3

\* Replay gives a state whose counters fit together.
LEMMA ReplayConsistent ==
  ASSUME NEW earned, NEW cur \in Period
  PROVE  /\ Consistent(Replay(earned, cur))
         /\ cur > 1 => Replay(earned, cur).settledThrough # NoDate
<1> DEFINE r == ReplayUpTo(earned)
           Bad == {i \in 0..LastPeriod : ~Consistent(r[i])}
<1>1. IsRun(r, earned, LastPeriod) /\ LastPeriod \in Nat
  BY ReplayRuns, CalendarAssumption
<1> HIDE DEF r
<1>2. Bad = {}
  <2> SUFFICES ASSUME Bad # {} PROVE FALSE
    OBVIOUS
  <2>1. PICK i \in Bad : \A j \in Bad : ~(j < i)
    <3>1. Bad \subseteq Nat
      BY <1>1
    <3> HIDE DEF Bad
    <3> QED BY <3>1, LeastNatural
  <2>2. i # 0
    BY <1>1, ConfigAssumption DEF IsRun, Consistent, NewState
  <2>3. i \in Period /\ i - 1 \in 0..LastPeriod /\ i - 1 < i
    BY <2>2, <1>1 DEF Period
  <2>4. r[i - 1] \in State /\ Consistent(r[i - 1])
    BY <2>1, <2>3, <1>1 DEF IsRun
  <2>5. r[i] = ReplayStep(r[i - 1], earned, i)
    BY <1>1, <2>3 DEF IsRun, Period
  <2>6. Consistent(r[i])
    BY <2>3, <2>4, <2>5, SettleConsistent, SettleType, ApplyConsistent DEF ReplayStep
  <2> QED BY <2>6
<1>3. r[LastPeriod] \in State /\ Consistent(r[LastPeriod])
  BY <1>1, <1>2 DEF IsRun
<1> QED BY <1>3, SettleConsistent DEF Replay, r

\* What a step has to establish about the row it leaves.
LEMMA SaneStep ==
  ASSUME TypeOK, Sane, [Next]_vars
  PROVE  Sane'
<1>1. st \in State /\ Consistent(st) /\ Cur \in Period /\ Cur > 1
  BY CurType DEF TypeOK, Sane
<1>2. NewState \in State /\ NewState.lastEarned = NoDate
  BY NewStateType DEF NewState
<1>3. CASE Advance \/ UNCHANGED vars \/ \E r \in Reminders \cup {NoReminder} : SetReminder(r)
  BY <1>3, <1>2 DEF Advance, vars, SetReminder, Sane
<1>4. ASSUME NEW a \in Amounts, RecordCurrent(a) PROVE Sane'
  <2> DEFINE settled == Settle(st, Cur)
  <2>1. settled \in State /\ Consistent(settled) /\ settled.settledThrough # NoDate
    BY <1>1, SettleType, SettleConsistent
  <2>2. Consistent(Apply(settled, Cur))
        /\ Apply(settled, Cur).settledThrough = settled.settledThrough
    BY <1>1, <2>1, ApplyConsistent, Zenon DEF Apply, State
  <2> QED BY <1>4, <2>1, <2>2 DEF RecordCurrent, Sane
<1>5. ASSUME NEW d \in Delays, NEW a \in Amounts, RecordGrace(d, a) PROVE Sane'
  <2> DEFINE p       == PeriodKey(now - d, tz)
             applied == IF ReachesMin(p, a) THEN Apply(st, p) ELSE st
  <2>1. p \in Period
    BY <1>5, CalendarAssumption DEF TypeOK, RecordGrace, Period
  <2>2. applied \in State /\ Consistent(applied)
    BY <1>1, <2>1, ApplyType, ApplyConsistent
  <2>3. Consistent(Settle(applied, Cur)) /\ Settle(applied, Cur).settledThrough # NoDate
    BY <1>1, <2>2, SettleConsistent
  <2> QED BY <1>5, <2>3 DEF RecordGrace, Sane
<1>6. ASSUME NEW ledger, Rebuild(ledger), exists' = TRUE PROVE Sane'
  BY <1>1, <1>6, ReplayConsistent DEF Rebuild, Sane
<1>7. CASE Unrecord \/ Recount \/ \E periods \in Histories : ReplaceHistory(periods)
  BY <1>6, <1>7 DEF Unrecord, Recount, ReplaceHistory
<1>8. ASSUME NEW n \in ShiftDays, ShiftHistory(n) PROVE Sane'
  <2> DEFINE earlier(date) == IF date = NoDate THEN NoDate ELSE date - n
  <2>1. st' = [st EXCEPT !.lastEarned = earlier(st.lastEarned),
                         !.settledThrough = earlier(st.settledThrough)]
        /\ st.settledThrough \notin 1..n /\ exists'
    BY <1>8 DEF ShiftHistory
  <2>2. n \in Nat
    BY EngineAssumption
  <2>3. st.settledThrough # NoDate => earlier(st.settledThrough) # NoDate
    BY <1>1, <2>1, <2>2, CalendarAssumption DEF State, Date, Period, NoDate
  <2>4. st.lastEarned = NoDate => earlier(st.lastEarned) = NoDate
    OBVIOUS
  <2> HIDE DEF earlier
  <2>5. st'.lastEarned = earlier(st.lastEarned)
        /\ st'.settledThrough = earlier(st.settledThrough)
        /\ st'.currentCount = st.currentCount /\ st'.longest = st.longest
        /\ st'.freezeProgress = st.freezeProgress
    BY <1>1, <2>1 DEF State
  <2> QED BY <2>1, <2>3, <2>4, <2>5 DEF Sane, Consistent
<1>9. ASSUME NEW n \in FreezeGrants, SetFreezes(n) PROVE Sane'
  BY <1>1, <1>9 DEF SetFreezes, Sane, Consistent, State
<1>10. ASSUME NEW s \in State, NEW cur \in Period, Consistent(s), s.settledThrough # NoDate
       PROVE  Consistent(Forgive(s, cur)) /\ Forgive(s, cur).settledThrough # NoDate
  BY <1>10, CalendarAssumption
     DEF Forgive, Consistent, State, Later, PrevPeriod, Date, Period, NoDate
<1>11. ASSUME NEW z \in Zones, SetTimezone(z) PROVE Sane'
  <2>1. Settle(st, Cur) \in State /\ Consistent(Settle(st, Cur))
        /\ Settle(st, Cur).settledThrough # NoDate
    BY <1>1, SettleType, SettleConsistent
  <2>2. PeriodKey(now, z) \in Period
    BY CalendarAssumption DEF TypeOK, Period
  <2> QED BY <1>10, <1>11, <2>1, <2>2 DEF SetTimezone, Rezone, Sane
<1>12. CASE Repair
  <2> DEFINE settled == Settle(st, Cur)
             n        == settled.currentCount + LatestBreak(SettleEvents(st, Cur)).count
             restored == [settled EXCEPT !.currentCount = n,
                                         !.longest = Later(settled.longest, n)]
  <2>1. settled \in State /\ Consistent(settled) /\ settled.settledThrough # NoDate
    BY <1>1, SettleType, SettleConsistent
  <2>2. n \in Nat
    BY <1>12, RepairCount
  <2>3. restored \in State /\ Consistent(restored) /\ restored.settledThrough # NoDate
    <3> DEFINE best == Later(settled.longest, n)
    <3>1. best \in Nat /\ n <= best
      BY <2>1, <2>2 DEF State, Later
    <3> HIDE DEF settled, n, best
    <3>2. restored = [settled EXCEPT !.currentCount = n, !.longest = best]
      BY DEF best
    <3>3. restored \in State /\ restored.currentCount = n /\ restored.longest = best
          /\ restored.freezeProgress = settled.freezeProgress
          /\ restored.settledThrough = settled.settledThrough
      BY <2>1, <2>2, <3>1, <3>2 DEF State
    <3> QED BY <2>1, <3>1, <3>3 DEF Consistent
  <2> HIDE DEF restored
  <2>4. st' = Forgive(restored, Cur) /\ exists'
    BY <1>12 DEF Repair, restored
  <2> QED BY <1>1, <1>10, <2>3, <2>4 DEF Sane
<1>13. CASE SettleDue
  BY <1>1, <1>13, SettleConsistent DEF SettleDue, SettleOne, Sane
<1>14. CASE RemindDue
  BY <1>14 DEF RemindDue, RemindOne, Sane
<1> QED BY <1>3, <1>4, <1>5, <1>7, <1>8, <1>9, <1>11, <1>12, <1>13, <1>14 DEF Next

\* The row of a streak stays consistent through every sequence of operations.
THEOREM SaneCorrect == Spec => []Sane
<1>1. Init => Sane
  <2>1. Consistent(NewState) /\ NewState.lastEarned = NoDate
    BY ConfigAssumption DEF Consistent, NewState
  <2> QED BY <2>1 DEF Init, Sane
<1>2. TypeOK /\ Sane /\ [Next]_vars => Sane'
  BY SaneStep
<1> QED BY <1>1, <1>2, TypeCorrect, PTL DEF Spec

-----------------------------------------------------------------------------
(***************************************************************************)
(* The generosity rule of SetTimezone, Rezone.                                     *)
(***************************************************************************)

\* Forgiving the shift leaves nothing to charge in the new zone.
LEMMA ForgivenNothingMissed ==
  ASSUME NEW s \in State, NEW cur \in Period
  PROVE  Missed(Forgive(s, cur), cur) = {} /\ Cardinality({}) = 0
<1>1. s.lastEarned \in Int /\ s.settledThrough \in Int /\ cur \in Int
  BY CalendarAssumption DEF State, Date, Period, NoDate
<1>2. Forgive(s, cur).settledThrough = Later(s.settledThrough, cur - 1)
      /\ Forgive(s, cur).lastEarned = s.lastEarned
  BY DEF Forgive, PrevPeriod, State
<1>3. Later(Forgive(s, cur).lastEarned, Forgive(s, cur).settledThrough) >= cur - 1
  BY <1>1, <1>2 DEF Later
<1>4. Later(Forgive(s, cur).lastEarned, Forgive(s, cur).settledThrough) \in Int
  BY <1>1, <1>2 DEF Later
<1> HIDE DEF Later
<1> QED BY <1>1, <1>3, <1>4, FS_EmptySet DEF Missed

\* Settle under the old zone, then forgive: a reader sees what was true before.
LEMMA GenerousChange ==
  ASSUME NEW s \in State, NEW cur \in Period, NEW to \in Period
  PROVE  LET before == Derive(s, cur)
             after  == Derive(Forgive(Settle(s, cur), to), to)
         IN  /\ after.count = before.count
             /\ after.longest = before.longest
             /\ after.freezesAfterSpend = before.freezesAfterSpend
             /\ after.freezeProgress = before.freezeProgress
             /\ before.liveness # "broken" => after.liveness = "alive"
<1> DEFINE t == Settle(s, cur)
           u == Forgive(t, to)
           n == Cardinality(Missed(s, cur))
           k == Cardinality(Missed(u, to))
<1>1. t \in State /\ u \in State
  BY SettleType, ForgiveType
<1>2. /\ u.currentCount = t.currentCount /\ u.longest = t.longest
      /\ u.lastEarned = t.lastEarned /\ u.freezes = t.freezes
      /\ u.freezeProgress = t.freezeProgress
  BY <1>1 DEF Forgive, State
<1>3. n \in Nat /\ s.freezes \in Nat /\ s.currentCount \in Nat
  BY ChargedFinite DEF State
<1>4. k = 0
  BY <1>1, ForgivenNothingMissed
<1>5. CASE s.lastEarned # NoDate
  <2>1. /\ t.currentCount = IF s.currentCount > 0 /\ n > (IF AutoConsume THEN s.freezes ELSE 0)
                            THEN 0 ELSE s.currentCount
        /\ t.freezeProgress = IF s.currentCount > 0 /\ n > (IF AutoConsume THEN s.freezes ELSE 0)
                              THEN 0 ELSE s.freezeProgress
        /\ t.freezes = IF s.currentCount = 0 \/ ~AutoConsume THEN s.freezes
                       ELSE IF n > s.freezes THEN 0 ELSE s.freezes - n
        /\ t.longest = s.longest /\ t.lastEarned = s.lastEarned
    BY <1>3, <1>5, SettleFields
  <2> HIDE DEF n, k, t, u
  <2> QED BY <1>1, <1>2, <1>3, <1>4, <1>5, <2>1, DeriveFields, ConfigAssumption DEF n, k, t, u
<1>6. CASE s.lastEarned = NoDate
  <2>1. /\ Charged(s, cur) = {} /\ Cardinality(Charged(s, cur)) = 0
    BY <1>6, FS_EmptySet DEF Charged
  <2>2. Spent(s, cur) = 0 /\ ~Breaks(s, cur)
    BY <1>3, <2>1 DEF Spent, Breaks
  <2>3. /\ t.currentCount = s.currentCount /\ t.longest = s.longest
        /\ t.lastEarned = NoDate /\ t.freezes = s.freezes
        /\ t.freezeProgress = s.freezeProgress
    BY <1>3, <1>6, <2>2 DEF Settle, State
  <2> HIDE DEF n, k, t, u
  <2> QED BY <1>1, <1>2, <1>6, <2>3, DeriveFields DEF n, k, t, u
<1> QED BY <1>5, <1>6

\* A zone change never breaks a streak, never spends a freeze and shows the
\* subject what was true before it (SetTimezone), for any two zones.
THEOREM GenerosityCorrect == Spec => Generosity
<1> DEFINE Step ==
      tz' # tz =>
       LET before == Derive(st, PeriodKey(now, tz))
           after  == Derive(st', PeriodKey(now, tz'))
       IN  /\ after.count = before.count
           /\ after.longest = before.longest
           /\ after.freezesAfterSpend = before.freezesAfterSpend
           /\ after.freezeProgress = before.freezeProgress
           /\ before.liveness # "broken" => after.liveness = "alive"
<1>1. TypeOK /\ Sane /\ [Next]_vars => [Step]_vars
  <2> SUFFICES ASSUME TypeOK, Sane, Next, tz' # tz PROVE Step
    OBVIOUS
  <2>1. PICK z \in Zones : SetTimezone(z)
    BY DEF Next, Advance, RecordCurrent, RecordGrace, Unrecord, Recount, ReplaceHistory,
           ShiftHistory, SetFreezes, Repair, SetReminder, SettleDue, SettleOne, RemindDue, RemindOne
  <2>2. st \in State /\ Cur \in Period /\ PeriodKey(now, z) \in Period /\ tz' = z
    BY <2>1, CurType, CalendarAssumption DEF TypeOK, Period, SetTimezone, Rezone
  <2>3. CASE exists
    <3>1. st' = Forgive(Settle(st, Cur), PeriodKey(now, z))
      BY <2>1, <2>3 DEF SetTimezone, Rezone
    <3> QED BY <2>2, <3>1, GenerousChange DEF Cur
  <2>4. CASE ~exists
    <3>1. st' = st /\ st.lastEarned = NoDate
      BY <2>1, <2>4 DEF SetTimezone, Rezone, Sane, NewState
    <3>2. PeriodKey(now, tz) \in Period /\ PeriodKey(now, tz') \in Period
      BY <2>2 DEF Cur
    <3> QED BY <2>2, <3>1, <3>2, DeriveFields
  <2> QED BY <2>3, <2>4
<1> QED BY <1>1, TypeCorrect, SaneCorrect, PTL DEF Spec, Generosity

-----------------------------------------------------------------------------
(***************************************************************************)
(* Settlement cannot be seen.                                              *)
(***************************************************************************)

\* A settled state reads, in any later period, as the state before the settlement.
LEMMA SettledReads ==
  ASSUME NEW s \in State, NEW cur \in Period, NEW c \in Period, cur <= c,
         s.lastEarned # NoDate
  PROVE  Reads(Settle(s, cur), c) = Reads(s, c)
<1> DEFINE t  == Settle(s, cur)
           n  == Cardinality(Missed(s, c))
           n1 == Cardinality(Missed(s, cur))
           n2 == Cardinality(Missed(t, c))
           ds == Derive(s, c)
           dt == Derive(t, c)
<1>1. t \in State
  BY SettleType
<1>2. n \in Nat /\ n1 \in Nat /\ n2 \in Nat /\ n = n1 + n2
  BY <1>1, ChargedFinite, MissedSplits
<1>3. s.freezes \in Nat /\ s.currentCount \in Nat /\ t.currentCount \in Nat /\ t.freezes \in Nat
  BY <1>1 DEF State
<1>4. /\ t.currentCount = IF s.currentCount > 0 /\ n1 > (IF AutoConsume THEN s.freezes ELSE 0)
                          THEN 0 ELSE s.currentCount
      /\ t.freezeProgress = IF s.currentCount > 0 /\ n1 > (IF AutoConsume THEN s.freezes ELSE 0)
                            THEN 0 ELSE s.freezeProgress
      /\ t.freezes = IF s.currentCount = 0 \/ ~AutoConsume THEN s.freezes
                     ELSE IF n1 > s.freezes THEN 0 ELSE s.freezes - n1
      /\ t.longest = s.longest /\ t.lastEarned = s.lastEarned
  <2> HIDE DEF t, n1
  <2> QED BY <1>3, SettleFields DEF t, n1
<1>5. /\ ds.count = IF s.currentCount > 0 /\ (n = 0 \/ (AutoConsume /\ n <= s.freezes))
                    THEN s.currentCount ELSE 0
      /\ ds.longest = s.longest
      /\ (ds.liveness = "broken") <=>
           ~(s.currentCount > 0 /\ (n = 0 \/ (AutoConsume /\ n <= s.freezes)))
      /\ ds.earnedThisPeriod = (s.lastEarned = c)
      /\ ds.freezesAfterSpend =
           IF s.currentCount = 0 \/ ~AutoConsume THEN s.freezes
           ELSE IF n = 0 \/ n <= s.freezes THEN s.freezes - n ELSE 0
      /\ ds.freezeProgress = IF s.currentCount > 0 /\ ~(n = 0 \/ (AutoConsume /\ n <= s.freezes))
                             THEN 0 ELSE s.freezeProgress
      /\ ds.lossPeriod =
           IF s.currentCount > 0 /\ (n = 0 \/ (AutoConsume /\ n <= s.freezes))
           THEN LossPeriod(s, c, IF AutoConsume THEN ds.freezesAfterSpend ELSE 0)
           ELSE NoDate
  <2> HIDE DEF n
  <2> QED BY <1>2, <1>3, DeriveFields DEF n
<1>6. /\ dt.count = IF t.currentCount > 0 /\ (n2 = 0 \/ (AutoConsume /\ n2 <= t.freezes))
                    THEN t.currentCount ELSE 0
      /\ dt.longest = t.longest
      /\ (dt.liveness = "broken") <=>
           ~(t.currentCount > 0 /\ (n2 = 0 \/ (AutoConsume /\ n2 <= t.freezes)))
      /\ dt.earnedThisPeriod = (t.lastEarned = c)
      /\ dt.freezesAfterSpend =
           IF t.currentCount = 0 \/ ~AutoConsume THEN t.freezes
           ELSE IF n2 = 0 \/ n2 <= t.freezes THEN t.freezes - n2 ELSE 0
      /\ dt.freezeProgress = IF t.currentCount > 0 /\ ~(n2 = 0 \/ (AutoConsume /\ n2 <= t.freezes))
                             THEN 0 ELSE t.freezeProgress
      /\ dt.lossPeriod =
           IF t.currentCount > 0 /\ (n2 = 0 \/ (AutoConsume /\ n2 <= t.freezes))
           THEN LossPeriod(t, c, IF AutoConsume THEN dt.freezesAfterSpend ELSE 0)
           ELSE NoDate
  <2>1. t.lastEarned # NoDate
    BY <1>4
  <2> HIDE DEF t, n2
  <2> QED BY <1>1, <1>2, <1>3, <2>1, DeriveFields DEF n2
<1>7. \A spare : LossPeriod(t, c, spare) = LossPeriod(s, c, spare)
  <2>1. t.lastEarned = s.lastEarned
    BY <1>4
  <2> HIDE DEF t
  <2> QED BY <2>1, Zenon DEF LossPeriod
<1> HIDE DEF t, n, n1, n2, ds, dt
<1>8. dt.freezesAfterSpend = ds.freezesAfterSpend
  BY <1>2, <1>3, <1>4, <1>5, <1>6
<1>9. /\ dt.count = ds.count /\ dt.longest = ds.longest
      /\ (dt.liveness = "broken") = (ds.liveness = "broken")
      /\ dt.earnedThisPeriod = ds.earnedThisPeriod
      /\ dt.freezeProgress = ds.freezeProgress
      /\ dt.lossPeriod = ds.lossPeriod
  BY <1>2, <1>3, <1>4, <1>5, <1>6, <1>7, <1>8
<1> QED BY <1>8, <1>9 DEF Reads, t, ds, dt

\* A tick's settlement changes nothing any reader can see, now or later
\* (scheduler.go:19-20), whatever else is used with it.
THEOREM SettlingInvisibleCorrect == Spec => SettlingInvisible
<1> DEFINE Step == SettleDue => \A cur \in Cur..LastPeriod : Reads(st', cur) = Reads(st, cur)
<1>1. TypeOK /\ [Next]_vars => [Step]_vars
  <2> SUFFICES ASSUME TypeOK, SettleDue, NEW cur \in Cur..LastPeriod
               PROVE  Reads(st', cur) = Reads(st, cur)
    OBVIOUS
  <2>1. st \in State /\ Cur \in Period /\ cur \in Period /\ Cur <= cur
    BY CurType, CalendarAssumption DEF TypeOK, Period
  <2>2. st' = Settle(st, Cur) /\ st.lastEarned # NoDate
    BY DEF SettleDue, SettleOne, SettleIsDue
  <2> QED BY <2>1, <2>2, SettledReads
<1> QED BY <1>1, TypeCorrect, PTL DEF Spec, SettlingInvisible

-----------------------------------------------------------------------------
(***************************************************************************)
(* No period is charged twice.                                             *)
(***************************************************************************)

\* The operations that rewrite or replay the ledger.
LedgerOps == {"unrecord", "recount", "replace", "shift"}

\* Whatever was charged lies at or before the settle pointer of a streak that
\* has earned: the strengthening of ChargedOnce that is inductive.
Behind(periods, s) ==
  \A q \in periods : s.lastEarned # NoDate /\ q <= s.settledThrough

Charges(evs) == PeriodsOf(OfType(evs, ChargeTypes))

\* The periods a settlement charges, by their events, are Charged periods.
LEMMA SettleCharges ==
  ASSUME NEW s \in State, NEW cur \in Period
  PROVE  \A q \in Charges(SettleEvents(s, cur)) :
           s.lastEarned # NoDate /\ q \in Period
           /\ s.settledThrough < q /\ s.lastEarned < q /\ q < cur
<1>1. ASSUME NEW q \in Charged(s, cur)
      PROVE  s.lastEarned # NoDate /\ q \in Period
             /\ s.settledThrough < q /\ s.lastEarned < q /\ q < cur
  <2>1. s.lastEarned # NoDate /\ q \in Missed(s, cur)
    BY <1>1 DEF Charged
  <2>2. q \in Period /\ q \in (Later(s.lastEarned, s.settledThrough) + 1)..(cur - 1)
    BY <2>1, ChargedFinite DEF Missed
  <2>3. s.lastEarned \in Int /\ s.settledThrough \in Int /\ cur \in Int
    BY CalendarAssumption DEF State, Date, Period, NoDate
  <2> QED BY <2>1, <2>2, <2>3 DEF Later
<1>2. \A e \in SettleEvents(s, cur) : e.period \in Charged(s, cur)
  <2>1. \A e \in SettleEvents(s, cur) :
          \E q \in Charged(s, cur) : \/ e = Ev("freeze_consumed", q, s.currentCount)
                                     \/ e = Ev("broken", q, s.currentCount)
    BY Zenon DEF SettleEvents
  <2> QED BY <2>1 DEF Ev
<1> QED BY <1>1, <1>2 DEF Charges, PeriodsOf, OfType

\* The events of an earn charge nothing.
LEMMA OtherCharges ==
  /\ \A s, p : Charges(ApplyEvents(s, p)) = {}
  /\ \A p, n : Charges({Ev("repaired", p, n)}) = {} /\ Charges({Ev("at_risk", p, n)}) = {}
  /\ Charges({}) = {}
  /\ \A A, B : Charges(A \cup B) = Charges(A) \cup Charges(B)
<1>1. \A s, p : \A e \in ApplyEvents(s, p) : e.type \notin ChargeTypes
  BY DEF ApplyEvents, Ev, ChargeTypes
<1> QED BY <1>1 DEF Charges, PeriodsOf, OfType, Ev, ChargeTypes

\* One settlement: nothing is charged again, and all of it ends up behind.
LEMMA SettleOnce ==
  ASSUME NEW s \in State, NEW cur \in Period, NEW before \in SUBSET Int, Behind(before, s)
  PROVE  LET new == Charges(SettleEvents(s, cur))
         IN  /\ new \cap before = {}
             /\ Behind(before \cup new, Settle(s, cur))
<1> DEFINE new == Charges(SettleEvents(s, cur))
<1>1. s.lastEarned \in Int /\ s.settledThrough \in Int /\ cur \in Int
  BY CalendarAssumption DEF State, Date, Period, NoDate
<1>2. \A q \in new : s.lastEarned # NoDate /\ q \in Int /\ s.settledThrough < q /\ q <= cur - 1
  BY <1>1, SettleCharges, CalendarAssumption DEF Period
<1> HIDE DEF new
<1>3. new \cap before = {}
  BY <1>1, <1>2 DEF Behind
<1>4. s.lastEarned # NoDate =>
        /\ Settle(s, cur).lastEarned = s.lastEarned
        /\ Settle(s, cur).settledThrough = Later(s.settledThrough, cur - 1)
  BY DEF Settle, State, PrevPeriod
<1>5. CASE before \cup new = {}
  BY <1>3, <1>5 DEF Behind, new
<1>6. CASE before \cup new # {}
  <2>1. s.lastEarned # NoDate
    BY <1>2, <1>6 DEF Behind
  <2>2. ASSUME NEW q \in before \cup new
        PROVE  q <= Settle(s, cur).settledThrough
    <3>1. CASE q \in new
      BY <1>1, <1>2, <1>4, <2>1, <3>1 DEF Later
    <3>2. CASE q \in before
      <4>1. q <= s.settledThrough
        BY <3>2 DEF Behind
      <4>2. s.settledThrough <= Later(s.settledThrough, cur - 1)
        BY <1>1 DEF Later
      <4> QED BY <1>1, <1>4, <2>1, <4>1, <4>2 DEF Later
    <3> QED BY <2>2, <3>1, <3>2
  <2> QED BY <1>3, <1>4, <2>1, <2>2 DEF Behind, new
<1> QED BY <1>5, <1>6

\* What the invariant says of the tables.
ChargedBehind == Behind(charged, st)

\* Apply moves the last earned period and leaves the settle pointer.
LEMMA ApplyBehind ==
  ASSUME NEW s \in State, NEW p \in Period, NEW before, Behind(before, s)
  PROVE  Behind(before, Apply(s, p))
<1>1. /\ Apply(s, p).settledThrough = s.settledThrough
      /\ Apply(s, p).lastEarned \in {s.lastEarned, p}
  <2>1. CASE Earns(s, p)
    BY <2>1, Zenon DEF Apply, State
  <2>2. CASE ~Earns(s, p)
    BY <2>2 DEF Apply
  <2> QED BY <2>1, <2>2
<1>2. p # NoDate
  BY CalendarAssumption DEF Period, NoDate
<1> QED BY <1>1, <1>2 DEF Behind

\* Forgiving keeps every charge behind the settle pointer.
LEMMA ForgiveBehind ==
  ASSUME NEW s \in State, NEW cur \in Period, NEW before \in SUBSET Int, Behind(before, s)
  PROVE  Behind(before, Forgive(s, cur))
<1>1. s.settledThrough \in Int /\ cur - 1 \in Int
  BY CalendarAssumption DEF State, Date, Period, NoDate
<1>2. /\ Forgive(s, cur).settledThrough = Later(s.settledThrough, cur - 1)
      /\ Forgive(s, cur).lastEarned = s.lastEarned
  BY DEF Forgive, State, PrevPeriod
<1>3. s.settledThrough <= Later(s.settledThrough, cur - 1)
      /\ Later(s.settledThrough, cur - 1) \in Int
  BY <1>1 DEF Later
<1> HIDE DEF Later
<1> QED BY <1>1, <1>2, <1>3 DEF Behind

\* The inductive step of ChargedOnce: a charge is new and Behind is kept.
LEMMA ChargedOnceStep ==
  ASSUME TypeOK, ChargedBehind, [Next]_vars, Ops \cap LedgerOps = {}
  PROVE  ChargedBehind' /\ (Charges(out') \cap charged = {} \/ UNCHANGED vars)
<1>1. st \in State /\ Cur \in Period /\ charged \in SUBSET Int /\ Behind(charged, st)
  BY CurType, CalendarAssumption DEF TypeOK, ChargedBehind, Period
<1> DEFINE Goal == ChargedBehind' /\ Charges(out') \cap charged = {}
           new == Charges(SettleEvents(st, Cur))
\* Every operation persists some events and leaves some row.
<1>2. ASSUME NEW evs, PersistEvents(evs), Charges(evs) \cap charged = {},
             Behind(charged \cup Charges(evs), st')
      PROVE  Goal
  BY <1>2 DEF PersistEvents, ChargedBehind, Charges
<1>3. new \cap charged = {} /\ Behind(charged \cup new, Settle(st, Cur))
      /\ Settle(st, Cur) \in State /\ charged \cup new \in SUBSET Int
  <2>1. new \cap charged = {} /\ Behind(charged \cup new, Settle(st, Cur))
    BY <1>1, SettleOnce
  <2>2. new \subseteq Int
    BY <1>1, SettleCharges, CalendarAssumption DEF Period
  <2> HIDE DEF new
  <2> QED BY <1>1, <2>1, <2>2, SettleType
<1>4. ASSUME PersistEvents({}), Behind(charged, st') PROVE Goal
  BY <1>2, <1>4, OtherCharges
<1>5. ASSUME Advance PROVE Goal
  BY <1>1, <1>5, OtherCharges DEF Advance, ChargedBehind
<1>6. ASSUME NEW a \in Amounts, RecordCurrent(a) PROVE Goal
  <2> DEFINE applied == IF ReachesMin(Cur, a) THEN ApplyEvents(Settle(st, Cur), Cur) ELSE {}
  <2>1. PersistEvents(SettleEvents(st, Cur) \cup applied)
    BY <1>6 DEF RecordCurrent
  <2>2. Charges(SettleEvents(st, Cur) \cup applied) = new
    BY OtherCharges
  <2>3. Behind(charged \cup new, st')
    BY <1>1, <1>3, <1>6, ApplyBehind DEF RecordCurrent
  <2> HIDE DEF applied, new, Goal
  <2> QED BY <1>2, <1>3, <2>1, <2>2, <2>3
<1>7. ASSUME NEW d \in Delays, NEW a \in Amounts, RecordGrace(d, a) PROVE Goal
  <2> DEFINE p == PeriodKey(now - d, tz)
             applied == IF ReachesMin(p, a) THEN Apply(st, p) ELSE st
             earns == IF ReachesMin(p, a) THEN ApplyEvents(st, p) ELSE {}
             late == SettleEvents(applied, Cur)
  <2>1. p \in Period
    BY <1>7, CalendarAssumption DEF TypeOK, RecordGrace, Period
  <2>2. applied \in State /\ Behind(charged, applied)
    BY <1>1, <2>1, ApplyType, ApplyBehind
  <2>3. PersistEvents(earns \cup late) /\ st' = Settle(applied, Cur)
    BY <1>7 DEF RecordGrace
  <2>4. Charges(earns \cup late) = Charges(late)
    <3>1. Charges(earns) = {}
      BY OtherCharges
    <3>2. Charges(earns \cup late) = Charges(earns) \cup Charges(late)
      BY OtherCharges
    <3> HIDE DEF earns, late
    <3> QED BY <3>1, <3>2
  <2>5. Charges(late) \cap charged = {} /\ Behind(charged \cup Charges(late), st')
    <3> HIDE DEF applied
    <3> QED BY <1>1, <2>2, <2>3, SettleOnce
  <2> HIDE DEF earns, late, Goal
  <2> QED BY <1>2, <2>3, <2>4, <2>5
<1>8. CASE Unrecord \/ Recount \/ (\E h \in Histories : ReplaceHistory(h))
           \/ \E n \in ShiftDays : ShiftHistory(n)
  BY <1>8 DEF Unrecord, Recount, ReplaceHistory, ShiftHistory, LedgerOps
<1>9. ASSUME NEW n \in FreezeGrants, SetFreezes(n) PROVE Goal
  <2>1. st'.lastEarned = st.lastEarned /\ st'.settledThrough = st.settledThrough
    BY <1>1, <1>9 DEF SetFreezes, State
  <2> QED BY <1>1, <1>4, <1>9, <2>1 DEF SetFreezes, Behind
<1>10. ASSUME NEW z \in Zones, SetTimezone(z) PROVE Goal
  <2>1. PeriodKey(now, z) \in Period
    BY CalendarAssumption DEF TypeOK, Period
  <2>2. CASE exists
    <3>1. PersistEvents(SettleEvents(st, Cur))
          /\ st' = Forgive(Settle(st, Cur), PeriodKey(now, z))
      BY <1>10, <2>2 DEF SetTimezone, Rezone
    <3>2. Behind(charged \cup new, st')
      BY <1>3, <2>1, <3>1, ForgiveBehind
    <3> HIDE DEF Goal
    <3> QED BY <1>2, <1>3, <3>1, <3>2
  <2>3. CASE ~exists
    BY <1>1, <1>4, <1>10, <2>3 DEF SetTimezone, Rezone
  <2> QED BY <2>2, <2>3
<1>11. ASSUME Repair PROVE Goal
  <2> DEFINE settled == Settle(st, Cur)
             n == settled.currentCount + LatestBreak(SettleEvents(st, Cur)).count
             restored == [settled EXCEPT !.currentCount = n,
                                         !.longest = Later(settled.longest, n)]
  <2>1. PersistEvents(SettleEvents(st, Cur) \cup {Ev("repaired", Cur, n)})
        /\ st' = Forgive(restored, Cur)
    BY <1>11 DEF Repair
  <2>2. restored \in State
    BY <1>3, RepairCount DEF State, Later
  <2>3. restored.lastEarned = settled.lastEarned
        /\ restored.settledThrough = settled.settledThrough
    BY <1>3 DEF State
  <2>4. Behind(charged \cup new, restored)
    BY <1>3, <2>3 DEF Behind
  <2>5. Behind(charged \cup new, st')
    <3> HIDE DEF restored, new
    <3> QED BY <1>1, <1>3, <2>1, <2>2, <2>4, ForgiveBehind
  <2>6. Charges(SettleEvents(st, Cur) \cup {Ev("repaired", Cur, n)}) = new
    <3> DEFINE told == {Ev("repaired", Cur, n)}
    <3>1. Charges(told) = {}
      <4> HIDE DEF n
      <4> QED BY OtherCharges
    <3>2. Charges(SettleEvents(st, Cur) \cup told) = new \cup Charges(told)
      <4> HIDE DEF told
      <4> QED BY OtherCharges
    <3> QED BY <3>1, <3>2
  <2> HIDE DEF n, new, Goal
  <2> QED BY <1>2, <1>3, <2>1, <2>5, <2>6
<1>12. ASSUME NEW r \in Reminders \cup {NoReminder}, SetReminder(r) PROVE Goal
  BY <1>1, <1>4, <1>12 DEF SetReminder
<1>13. ASSUME SettleDue PROVE Goal
  BY <1>2, <1>3, <1>13 DEF SettleDue, SettleOne
<1>14. ASSUME RemindDue PROVE Goal
  <2>1. PersistEvents({Ev("at_risk", Cur, Derive(st, Cur).count)}) /\ st' = st
    BY <1>14 DEF RemindDue, RemindOne
  <2> HIDE DEF Goal
  <2> QED BY <1>1, <1>2, <2>1, OtherCharges
<1>15. CASE UNCHANGED vars
  BY <1>15 DEF vars, ChargedBehind
<1> QED BY <1>5, <1>6, <1>7, <1>8, <1>9, <1>10, <1>11, <1>12, <1>13, <1>14, <1>15 DEF Next

\* As long as nothing rewrites the ledger, no interleaving of records, late
\* records, settlements, repairs and zone changes charges a period twice.
THEOREM ChargedOnceCorrect ==
  ASSUME Ops \cap LedgerOps = {}
  PROVE  Spec => ChargedOnce
<1> DEFINE Once == PeriodsOf(OfType(out', ChargeTypes)) \cap charged = {}
<1>1. Init => ChargedBehind
  BY DEF Init, ChargedBehind, Behind
<1>2. TypeOK /\ ChargedBehind /\ [Next]_vars => ChargedBehind' /\ [Once]_vars
  BY ChargedOnceStep DEF Charges
<1> QED BY <1>1, <1>2, TypeCorrect, PTL DEF Spec, ChargedOnce
-----------------------------------------------------------------------------
(***************************************************************************)
(* The chain: what may lengthen, shorten or restore it, and what a reader  *)
(* is shown of it.                                                         *)
(***************************************************************************)

\* The operations that replay the ledger into the row.
ReplayOps == {"unrecord", "recount", "replace"}

\* The types of event that a break and its repair leave in the outbox.
MarkerTypes == {"broken", "repaired"}

(***************************************************************************)
(* What persistEvents records of a settlement.                             *)
(***************************************************************************)

\* A break has something to charge, so it needs a chain that earned.
LEMMA BreaksNeedsChain ==
  ASSUME NEW s \in State, NEW cur \in Period, Breaks(s, cur)
  PROVE  s.lastEarned # NoDate /\ s.currentCount > 0
BY SettleIdle DEF State

\* Settle keeps the count, or breaks the chain.
LEMMA SettleCount ==
  ASSUME NEW s \in State, NEW cur \in Period
  PROVE  Settle(s, cur).currentCount = IF Breaks(s, cur) THEN 0 ELSE s.currentCount
BY DEF Settle, State

\* Events that are neither a break nor a repair leave the last marker.
LEMMA PersistOther ==
  ASSUME NEW evs, \A e \in evs : e.type \notin MarkerTypes, PersistEvents(evs)
  PROVE  marker' = marker /\ out' = evs
BY DEF PersistEvents, OfType, MarkerTypes

\* The events of an earn are neither a break nor a repair.
LEMMA EarnsOther ==
  ASSUME NEW s, NEW p
  PROVE  \A e \in ApplyEvents(s, p) : e.type \notin MarkerTypes
BY DEF ApplyEvents, Ev, MarkerTypes

\* The last marker after a settlement, and the break event that goes with it.
LEMMA PersistSettled ==
  ASSUME NEW s \in State, NEW cur \in Period,
         NEW others, \A e \in others : e.type \notin MarkerTypes,
         NEW evs, evs = SettleEvents(s, cur) \cup others, PersistEvents(evs)
  PROVE  /\ out' = evs
         /\ marker' = IF Breaks(s, cur)
                      THEN [kind |-> "broken", count |-> s.currentCount, at |-> now]
                      ELSE marker
         /\ Breaks(s, cur) => \E e \in out' : e.type = "broken" /\ e.count = s.currentCount
<1> DEFINE breaks == OfType(evs, {"broken"})
<1>1. /\ Breaks(s, cur) <=> \E e \in SettleEvents(s, cur) : e.type = "broken"
      /\ \A e \in SettleEvents(s, cur) : /\ e.type \in {"freeze_consumed", "broken"}
                                         /\ e.count = s.currentCount
  BY SettleTold
<1>2. OfType(evs, {"repaired"}) = {}
  BY <1>1 DEF OfType, MarkerTypes
<1>3. /\ Breaks(s, cur) <=> breaks # {}
      /\ \A e \in breaks : e \in evs /\ e.type = "broken" /\ e.count = s.currentCount
  BY <1>1 DEF OfType, MarkerTypes
<1> HIDE DEF breaks
<1>4. breaks # {} => (CHOOSE e \in breaks : TRUE).count = s.currentCount
  BY <1>3
<1>5. out' = evs
  BY DEF PersistEvents
<1>6. marker' = IF breaks # {}
                THEN [kind |-> "broken", count |-> (CHOOSE e \in breaks : TRUE).count,
                      at |-> now]
                ELSE marker
  BY <1>2, Zenon DEF PersistEvents, breaks
<1> QED BY <1>3, <1>4, <1>5, <1>6

\* The break Repair reads after its own settlement.
LEMMA LatestBreakIs ==
  ASSUME NEW s \in State, NEW cur \in Period
  PROVE  LatestBreak(SettleEvents(s, cur)) =
           IF Breaks(s, cur)
           THEN [kind |-> "broken", count |-> s.currentCount, at |-> now]
           ELSE marker
<1> DEFINE breaks == OfType(SettleEvents(s, cur), {"broken"})
<1>1. /\ Breaks(s, cur) <=> breaks # {}
      /\ \A e \in breaks : e.count = s.currentCount
  BY SettleTold DEF OfType
<1> HIDE DEF breaks
<1>2. breaks # {} => (CHOOSE e \in breaks : TRUE).count = s.currentCount
  BY <1>1
<1> QED BY <1>1, <1>2, Zenon DEF LatestBreak, breaks

\* What Repair restores, and what it tells.
LEMMA RepairIs ==
  ASSUME TypeOK, Repair
  PROVE  \E n \in Nat :
           LET settled == Settle(st, Cur)
               lost    == IF Breaks(st, Cur) THEN st.currentCount ELSE marker.count
           IN  /\ lost > 0 /\ n = settled.currentCount + lost
               /\ Breaks(st, Cur) \/ marker.kind = "broken"
               /\ st'.currentCount = n /\ st'.longest = Later(settled.longest, n)
               /\ st'.lastEarned = settled.lastEarned
               /\ st'.settledThrough = Later(settled.settledThrough, Cur - 1)
               /\ st'.freezes = settled.freezes
               /\ st'.freezeProgress = settled.freezeProgress
               /\ out' = SettleEvents(st, Cur) \cup {Ev("repaired", Cur, n)}
               /\ marker' = [kind |-> "repaired", count |-> n, at |-> now]
               /\ "repair" \in Ops /\ marks' = marks
<1> DEFINE settled == Settle(st, Cur)
           latest  == LatestBreak(SettleEvents(st, Cur))
           n       == settled.currentCount + latest.count
           restored == [settled EXCEPT !.currentCount = n,
                                       !.longest = Later(settled.longest, n)]
           told    == SettleEvents(st, Cur) \cup {Ev("repaired", Cur, n)}
           repairs == OfType(told, {"repaired"})
<1>1. st \in State /\ Cur \in Period /\ settled \in State /\ n \in Nat
  BY CurType, SettleType, RepairCount DEF TypeOK
<1>2. latest = IF Breaks(st, Cur)
               THEN [kind |-> "broken", count |-> st.currentCount, at |-> now]
               ELSE marker
  BY <1>1, LatestBreakIs
<1>3. /\ latest.kind = "broken" /\ latest.count > 0
      /\ st' = Forgive(restored, Cur)
      /\ PersistEvents(told) /\ "repair" \in Ops /\ marks' = marks
  BY DEF Repair, Repairable
<1>4. repairs = {Ev("repaired", Cur, n)}
  <2>1. \A e \in SettleEvents(st, Cur) : e.type \in {"freeze_consumed", "broken"}
    BY <1>1, SettleTold
  <2> HIDE DEF n
  <2> QED BY <2>1 DEF OfType, Ev
<1>5. \E e \in repairs : TRUE
  BY <1>4
<1>6. (CHOOSE e \in repairs : TRUE).count = n
  <2> HIDE DEF repairs, n
  <2>1. \A e \in repairs : e.count = n
    BY <1>4 DEF Ev
  <2> QED BY <1>5, <2>1
<1> HIDE DEF n, latest, settled
<1>7. /\ st'.currentCount = n /\ st'.longest = Later(settled.longest, n)
      /\ st'.lastEarned = settled.lastEarned
      /\ st'.settledThrough = Later(settled.settledThrough, Cur - 1)
      /\ st'.freezes = settled.freezes
      /\ st'.freezeProgress = settled.freezeProgress
  BY <1>1, <1>3 DEF Forgive, State, PrevPeriod
<1>8. out' = told /\ marker' = [kind |-> "repaired", count |-> n, at |-> now]
  <2> HIDE DEF told
  <2> QED BY <1>3, <1>5, <1>6 DEF PersistEvents, repairs
<1>9. /\ latest.count = IF Breaks(st, Cur) THEN st.currentCount ELSE marker.count
      /\ Breaks(st, Cur) \/ marker.kind = "broken"
  BY <1>2, <1>3
<1>10. n = settled.currentCount + (IF Breaks(st, Cur) THEN st.currentCount ELSE marker.count)
  BY <1>9 DEF n
<1> QED BY <1>1, <1>3, <1>7, <1>8, <1>9, <1>10 DEF settled

-----------------------------------------------------------------------------
(***************************************************************************)
(* Reads agree with settlements.                                           *)
(***************************************************************************)

\* A chain has an earned period, and so has a break that may still be repaired.
StartedAs(s, m) ==
  Rooted(s) /\ ("repair" \in Ops /\ m.kind = "broken" => s.lastEarned # NoDate)

Started == StartedAs(st, marker)

\* A settlement and an earn keep a started row started.
LEMMA StartedKept ==
  ASSUME NEW s \in State, NEW p \in Period, NEW m, StartedAs(s, m)
  PROVE  /\ StartedAs(Apply(s, p), m)
         /\ \A n : StartedAs(Settle(s, p), IF Breaks(s, p)
                              THEN [kind |-> "broken", count |-> n, at |-> now] ELSE m)
<1>1. p # NoDate
  BY CalendarAssumption DEF Period, NoDate
<1>2. StartedAs(Apply(s, p), m)
  BY <1>1, RootedKept, ApplyFields DEF StartedAs
<1> QED BY <1>2, RootedKept, SettlePointer, BreaksNeedsChain DEF StartedAs

\* The inductive step of Started.
LEMMA StartedStep ==
  ASSUME TypeOK, Sane, Started, [Next]_vars,
         "repair" \in Ops => Ops \cap ReplayOps = {}
  PROVE  Started'
<1>1. st \in State /\ Cur \in Period /\ Settle(st, Cur) \in State /\ StartedAs(st, marker)
  BY CurType, SettleType DEF TypeOK, Started
<1> DEFINE broken == [kind |-> "broken", count |-> st.currentCount, at |-> now]
<1>2. ASSUME st'.lastEarned = st.lastEarned, st'.currentCount = st.currentCount,
             marker' = marker
      PROVE  Started'
  BY <1>1, <1>2 DEF Started, StartedAs, Rooted
<1>3. ASSUME NEW cur \in Period,
             PersistEvents(SettleEvents(st, Cur)),
             st' = Settle(st, Cur) \/ st' = Forgive(Settle(st, Cur), cur)
      PROVE  Started'
  <2>1. marker' = IF Breaks(st, Cur) THEN broken ELSE marker
    <3>1. SettleEvents(st, Cur) = SettleEvents(st, Cur) \cup {}
          /\ \A e \in {} : e.type \notin MarkerTypes
      OBVIOUS
    <3> QED BY <1>1, <1>3, <3>1, PersistSettled
  <2>2. StartedAs(Settle(st, Cur), marker')
    BY <1>1, <2>1, StartedKept
  <2>3. /\ st'.lastEarned = Settle(st, Cur).lastEarned
        /\ st'.currentCount = Settle(st, Cur).currentCount
    BY <1>1, <1>3 DEF Forgive, State
  <2> QED BY <2>2, <2>3 DEF Started, StartedAs, Rooted
<1>4. CASE Advance \/ UNCHANGED vars \/ SettleDue \/ RemindDue
           \/ \E r \in Reminders \cup {NoReminder} : SetReminder(r)
  <2>1. CASE SettleDue
    BY <1>1, <1>3, <2>1 DEF SettleDue, SettleOne
  <2>2. CASE RemindDue
    <3>1. PersistEvents({Ev("at_risk", Cur, Derive(st, Cur).count)}) /\ st' = st
      BY <2>2 DEF RemindDue, RemindOne
    <3> QED BY <1>2, <3>1, PersistOther DEF Ev, MarkerTypes
  <2>3. CASE \E r \in Reminders \cup {NoReminder} : SetReminder(r)
    BY <1>2, <2>3, PersistOther DEF SetReminder
  <2>4. CASE Advance \/ UNCHANGED vars
    BY <1>2, <2>4 DEF Advance, vars
  <2> QED BY <1>4, <2>1, <2>2, <2>3, <2>4
<1>5. ASSUME NEW a \in Amounts, RecordCurrent(a) PROVE Started'
  <2> DEFINE earns == IF ReachesMin(Cur, a) THEN ApplyEvents(Settle(st, Cur), Cur) ELSE {}
  <2>1. PersistEvents(SettleEvents(st, Cur) \cup earns)
        /\ (st' = Settle(st, Cur) \/ st' = Apply(Settle(st, Cur), Cur))
    BY <1>5 DEF RecordCurrent
  <2>2. \A e \in earns : e.type \notin MarkerTypes
    BY EarnsOther
  <2> HIDE DEF earns
  <2>3. marker' = IF Breaks(st, Cur) THEN broken ELSE marker
    BY <1>1, <2>1, <2>2, PersistSettled
  <2>4. StartedAs(Settle(st, Cur), marker')
    BY <1>1, <2>3, StartedKept
  <2>5. StartedAs(Apply(Settle(st, Cur), Cur), marker')
    BY <1>1, <2>4, StartedKept
  <2> QED BY <2>1, <2>4, <2>5 DEF Started
<1>6. ASSUME NEW d \in Delays, NEW a \in Amounts, RecordGrace(d, a) PROVE Started'
  <2> DEFINE p       == PeriodKey(now - d, tz)
             applied == IF ReachesMin(p, a) THEN Apply(st, p) ELSE st
             earns   == IF ReachesMin(p, a) THEN ApplyEvents(st, p) ELSE {}
  <2>1. p \in Period
    BY <1>6, CalendarAssumption DEF TypeOK, RecordGrace, Period
  <2>2. applied \in State /\ StartedAs(applied, marker)
    BY <1>1, <2>1, ApplyType, StartedKept
  <2>3. PersistEvents(earns \cup SettleEvents(applied, Cur)) /\ st' = Settle(applied, Cur)
    BY <1>6 DEF RecordGrace
  <2>4. \A e \in earns : e.type \notin MarkerTypes
    BY EarnsOther
  <2>5. earns \cup SettleEvents(applied, Cur) = SettleEvents(applied, Cur) \cup earns
    OBVIOUS
  <2> HIDE DEF earns, applied
  <2>6. marker' = IF Breaks(applied, Cur)
                  THEN [kind |-> "broken", count |-> applied.currentCount, at |-> now]
                  ELSE marker
    BY <1>1, <2>2, <2>3, <2>4, <2>5, PersistSettled
  <2>7. StartedAs(Settle(applied, Cur), marker')
    BY <1>1, <2>2, <2>6, StartedKept
  <2> QED BY <2>3, <2>7 DEF Started
<1>7. ASSUME NEW ledger, Rebuild(ledger), Ops \cap ReplayOps # {} PROVE Started'
  BY <1>1, <1>7, ReplayRooted DEF Rebuild, Started, StartedAs
<1>8. CASE Unrecord \/ Recount \/ \E h \in Histories : ReplaceHistory(h)
  BY <1>7, <1>8 DEF Unrecord, Recount, ReplaceHistory, ReplayOps
<1>9. ASSUME NEW n \in ShiftDays, ShiftHistory(n) PROVE Started'
  <2> DEFINE earlier(date) == IF date = NoDate THEN NoDate ELSE date - n
  <2>1. st' = [st EXCEPT !.lastEarned = earlier(st.lastEarned),
                         !.settledThrough = earlier(st.settledThrough)]
        /\ st.lastEarned \notin 1..n /\ PersistEvents({})
    BY <1>9 DEF ShiftHistory
  <2>2. (earlier(st.lastEarned) = NoDate) = (st.lastEarned = NoDate)
    BY <1>1, <2>1, EngineAssumption, CalendarAssumption DEF State, Date, Period, NoDate
  <2> HIDE DEF earlier
  <2>3. /\ (st'.lastEarned = NoDate) = (st.lastEarned = NoDate)
        /\ st'.currentCount = st.currentCount
    BY <1>1, <2>1, <2>2 DEF State
  <2>4. marker' = marker
    BY <2>1, PersistOther
  <2> QED BY <1>1, <2>3, <2>4 DEF Started, StartedAs, Rooted
<1>10. ASSUME NEW n \in FreezeGrants, SetFreezes(n) PROVE Started'
  <2>1. st'.lastEarned = st.lastEarned /\ st'.currentCount = st.currentCount
    BY <1>1, <1>10 DEF SetFreezes, State
  <2> QED BY <1>2, <1>10, <2>1, PersistOther DEF SetFreezes
<1>11. ASSUME NEW z \in Zones, SetTimezone(z) PROVE Started'
  <2>1. PeriodKey(now, z) \in Period
    BY CalendarAssumption DEF TypeOK, Period
  <2>2. CASE exists
    BY <1>3, <1>11, <2>1, <2>2 DEF SetTimezone, Rezone
  <2>3. CASE ~exists
    BY <1>2, <1>11, <2>3, PersistOther DEF SetTimezone, Rezone
  <2> QED BY <2>2, <2>3
<1>12. CASE Repair
  <2>1. /\ Breaks(st, Cur) \/ marker.kind = "broken"
        /\ st'.lastEarned = Settle(st, Cur).lastEarned
        /\ marker'.kind = "repaired" /\ "repair" \in Ops
    BY <1>12, RepairIs
  <2>2. st'.lastEarned # NoDate
    BY <1>1, <2>1, SettlePointer, BreaksNeedsChain DEF StartedAs
  <2> QED BY <2>1, <2>2 DEF Started, StartedAs, Rooted
<1> QED BY <1>4, <1>5, <1>6, <1>8, <1>9, <1>10, <1>11, <1>12 DEF Next

\* A chain has an earned period through every sequence of operations, unless a
\* repair can find a break of a ledger that was replaced since.
LEMMA StartedCorrect ==
  ASSUME "repair" \in Ops => Ops \cap ReplayOps = {}
  PROVE  Spec => []Started
<1>1. Init => Started
  BY DEF Init, Started, StartedAs, Rooted, NewState, NoMarker
<1>2. TypeOK /\ Sane /\ Started /\ [Next]_vars => Started'
  BY StartedStep
<1> QED BY <1>1, <1>2, TypeCorrect, SaneCorrect, PTL DEF Spec

\* What a read shows, the freezes it announces included, is what a settlement
\* at that instant would persist (state.go:48-49), in every reachable state.
THEOREM DeriveAgreesCorrect ==
  ASSUME "repair" \in Ops => Ops \cap ReplayOps = {}
  PROVE  Spec => []DeriveAgrees
<1>1. TypeOK /\ Started => DeriveAgrees
  <2> SUFFICES ASSUME TypeOK, Started PROVE DeriveAgrees
    OBVIOUS
  <2> DEFINE n == Cardinality(Missed(st, Cur))
  <2>1. st \in State /\ Cur \in Period /\ Rooted(st) /\ n \in Nat
    BY CurType, ChargedFinite DEF TypeOK, Started, StartedAs
  <2>2. st.freezes \in Nat /\ st.currentCount \in Nat
    BY <2>1 DEF State
  <2>3. Derive(st, Cur).pendingSpend = Spent(st, Cur)
    <3>1. Derive(st, Cur).pendingSpend =
            IF ~(st.lastEarned # NoDate /\ st.currentCount > 0) \/ ~AutoConsume THEN 0
            ELSE IF n = 0 \/ (AutoConsume /\ n <= st.freezes) THEN n ELSE st.freezes
      BY Zenon DEF Derive
    <3>2. CASE st.lastEarned = NoDate \/ st.currentCount = 0
      BY <2>1, <2>2, <3>1, <3>2, SettleIdle
    <3>3. CASE st.lastEarned # NoDate /\ st.currentCount # 0
      <4>1. Spent(st, Cur) =
              IF ~AutoConsume THEN 0 ELSE IF n < st.freezes THEN n ELSE st.freezes
        BY <3>3 DEF Spent, Charged
      <4> HIDE DEF n
      <4> QED BY <2>1, <2>2, <3>1, <3>3, <4>1, ConfigAssumption
    <3> QED BY <3>2, <3>3
  <2>4. OfType(SettleEvents(st, Cur), {"freeze_consumed"}) =
          {e \in SettleEvents(st, Cur) : e.type = "freeze_consumed"}
    BY DEF OfType
  <2>5. Cardinality(OfType(SettleEvents(st, Cur), {"freeze_consumed"})) = Spent(st, Cur)
    BY <2>1, <2>4, SettleTold
  <2> QED BY <2>1, <2>3, <2>5, DeriveAgreesWithSettle DEF Rooted, DeriveAgrees, Live
<1> QED BY <1>1, StartedCorrect, TypeCorrect, PTL

-----------------------------------------------------------------------------
(***************************************************************************)
(* Losses and repairs.                                                     *)
(***************************************************************************)

\* A settled, rooted state is shown as it is.
LEMMA SettledView ==
  ASSUME NEW s \in State, NEW cur \in Period, Rooted(s),
         s.settledThrough >= cur - 1 \/ s.lastEarned >= cur - 1
  PROVE  LET d == Derive(s, cur)
         IN  /\ d.count = s.currentCount /\ d.longest = s.longest
             /\ d.freezesAfterSpend = s.freezes
             /\ d.liveness = IF s.currentCount > 0 THEN "alive" ELSE "broken"
<1>1. Cardinality(Missed(s, cur)) = 0 /\ s.freezes \in Nat /\ s.currentCount \in Nat
  BY NothingMissed DEF State
<1> QED BY <1>1, DeriveFields DEF Rooted

\* A settled state is settled.
LEMMA SettledThroughIs ==
  ASSUME NEW s \in State, NEW cur \in Period
  PROVE  Settle(s, cur).settledThrough >= cur - 1
<1>1. s.settledThrough \in Int /\ cur \in Int
  BY CalendarAssumption DEF State, Date, Period, NoDate
<1>2. Later(s.settledThrough, cur - 1) >= cur - 1
  BY <1>1 DEF Later
<1> QED BY <1>1, <1>2, SettlePointer

\* A step that lowers the persisted count commits a break that carries at
\* least what was lost: late, by whatever notices it, but never silently.
THEOREM NoSilentLossCorrect ==
  ASSUME Ops \cap ReplayOps = {}
  PROVE  Spec => NoSilentLoss
<1> DEFINE Step == st'.currentCount < st.currentCount =>
                     \E e \in out' : e.type = "broken" /\ e.count >= st.currentCount
<1>1. TypeOK /\ [Next]_vars => [Step]_vars
  <2> SUFFICES ASSUME TypeOK, Next, st'.currentCount < st.currentCount
               PROVE  \E e \in out' : e.type = "broken" /\ e.count >= st.currentCount
    BY DEF vars
  <2>1. st \in State /\ Cur \in Period /\ Settle(st, Cur) \in State
        /\ st.currentCount \in Nat
    BY CurType, SettleType DEF TypeOK, State
  <2>2. ASSUME st'.currentCount = st.currentCount PROVE FALSE
    BY <2>1, <2>2
  <2>3. ASSUME NEW s \in State, NEW others, NEW evs, s.currentCount >= st.currentCount,
               \A e \in others : e.type \notin MarkerTypes,
               evs = SettleEvents(s, Cur) \cup others, PersistEvents(evs), Breaks(s, Cur)
        PROVE  \E e \in out' : e.type = "broken" /\ e.count >= st.currentCount
    BY <2>1, <2>3, PersistSettled
  <2>4. SettleEvents(st, Cur) = SettleEvents(st, Cur) \cup {}
        /\ \A e \in {} : e.type \notin MarkerTypes
    OBVIOUS
  <2>5. ASSUME NEW a \in Amounts, RecordCurrent(a)
        PROVE  \E e \in out' : e.type = "broken" /\ e.count >= st.currentCount
    <3> DEFINE earns == IF ReachesMin(Cur, a) THEN ApplyEvents(Settle(st, Cur), Cur) ELSE {}
    <3>1. PersistEvents(SettleEvents(st, Cur) \cup earns)
          /\ (st' = Settle(st, Cur) \/ st' = Apply(Settle(st, Cur), Cur))
      BY <2>5 DEF RecordCurrent
    <3>2. \A e \in earns : e.type \notin MarkerTypes
      BY EarnsOther
    <3>3. st'.currentCount >= Settle(st, Cur).currentCount
      <4>1. Settle(st, Cur).currentCount \in Nat
        BY <2>1 DEF State
      <4> QED BY <2>1, <3>1, <4>1, ApplyFields
    <3>4. Breaks(st, Cur)
      <4>1. Settle(st, Cur).currentCount = IF Breaks(st, Cur) THEN 0 ELSE st.currentCount
        BY <2>1, SettleCount
      <4>2. st'.currentCount \in Nat
        BY <2>1, <3>1, ApplyType DEF State
      <4> QED BY <2>1, <3>3, <4>1, <4>2
    <3> HIDE DEF earns
    <3> QED BY <2>1, <2>3, <3>1, <3>2, <3>4
  <2>6. ASSUME NEW d \in Delays, NEW a \in Amounts, RecordGrace(d, a)
        PROVE  \E e \in out' : e.type = "broken" /\ e.count >= st.currentCount
    <3> DEFINE p       == PeriodKey(now - d, tz)
               applied == IF ReachesMin(p, a) THEN Apply(st, p) ELSE st
               earns   == IF ReachesMin(p, a) THEN ApplyEvents(st, p) ELSE {}
    <3>1. p \in Period
      BY <2>6, CalendarAssumption DEF TypeOK, RecordGrace, Period
    <3>2. PersistEvents(earns \cup SettleEvents(applied, Cur)) /\ st' = Settle(applied, Cur)
      BY <2>6 DEF RecordGrace
    <3>3. applied \in State /\ applied.currentCount >= st.currentCount
      BY <2>1, <3>1, ApplyType, ApplyFields
    <3>4. \A e \in earns : e.type \notin MarkerTypes
      BY EarnsOther
    <3>5. earns \cup SettleEvents(applied, Cur) = SettleEvents(applied, Cur) \cup earns
      OBVIOUS
    <3> HIDE DEF earns, applied
    <3>6. Breaks(applied, Cur)
      <4>1. st'.currentCount = IF Breaks(applied, Cur) THEN 0 ELSE applied.currentCount
        BY <2>1, <3>2, <3>3, SettleCount
      <4>2. applied.currentCount \in Nat
        BY <3>3 DEF State
      <4> QED BY <2>1, <3>3, <4>1, <4>2
    <3> QED BY <2>1, <2>3, <3>2, <3>3, <3>4, <3>5, <3>6
  <2>7. ASSUME NEW cur, PersistEvents(SettleEvents(st, Cur)),
               st' = Settle(st, Cur) \/ st' = Forgive(Settle(st, Cur), cur)
        PROVE  \E e \in out' : e.type = "broken" /\ e.count >= st.currentCount
    <3>1. st'.currentCount = Settle(st, Cur).currentCount
      BY <2>1, <2>7 DEF Forgive, State
    <3>2. Breaks(st, Cur)
      BY <2>1, <2>2, <3>1, SettleCount
    <3>3. \E e \in out' : e.type = "broken" /\ e.count = st.currentCount
      BY <2>1, <2>4, <2>7, <3>2, PersistSettled
    <3> QED BY <2>1, <3>3
  <2>8. CASE Advance \/ RemindDue \/ (\E r \in Reminders \cup {NoReminder} : SetReminder(r))
    BY <2>2, <2>8 DEF Advance, RemindDue, RemindOne, SetReminder
  <2>9. CASE Unrecord \/ Recount \/ \E h \in Histories : ReplaceHistory(h)
    BY <2>9 DEF Unrecord, Recount, ReplaceHistory, ReplayOps
  <2>10. CASE \E n \in ShiftDays : ShiftHistory(n)
    BY <2>1, <2>2, <2>10 DEF ShiftHistory, State
  <2>11. CASE \E n \in FreezeGrants : SetFreezes(n)
    BY <2>1, <2>2, <2>11 DEF SetFreezes, State
  <2>12. ASSUME NEW z \in Zones, SetTimezone(z)
        PROVE  \E e \in out' : e.type = "broken" /\ e.count >= st.currentCount
    <3>1. CASE exists
      <4>1. /\ PersistEvents(SettleEvents(st, Cur))
            /\ st' = Forgive(Settle(st, Cur), PeriodKey(now, z))
        BY <2>12, <3>1 DEF SetTimezone, Rezone
      <4> QED BY <2>7, <4>1
    <3>2. CASE ~exists
      BY <2>2, <2>12, <3>2 DEF SetTimezone, Rezone
    <3> QED BY <3>1, <3>2
  <2>13. CASE Repair
    <3>1. PICK n \in Nat : /\ n = Settle(st, Cur).currentCount
                                    + (IF Breaks(st, Cur) THEN st.currentCount ELSE marker.count)
                           /\ (IF Breaks(st, Cur) THEN st.currentCount ELSE marker.count) > 0
                           /\ st'.currentCount = n
      BY <2>13, RepairIs
    <3>2. Settle(st, Cur).currentCount = IF Breaks(st, Cur) THEN 0 ELSE st.currentCount
      BY <2>1, SettleCount
    <3>3. marker.count \in Nat
      BY DEF TypeOK, Marker
    <3> QED BY <2>1, <3>1, <3>2, <3>3
  <2>14. CASE SettleDue
    BY <2>7, <2>14 DEF SettleDue, SettleOne
  <2> QED BY <2>5, <2>6, <2>8, <2>9, <2>10, <2>11, <2>12, <2>13, <2>14 DEF Next
<1> QED BY <1>1, TypeCorrect, PTL DEF Spec, NoSilentLoss

\* A repair told is a chain alive at once, at the count the event reports
\* (admin.go:132), unless the ledger was replayed since the break.
THEOREM RepairedAliveCorrect ==
  ASSUME "repair" \in Ops => Ops \cap ReplayOps = {}
  PROVE  Spec => RepairedAlive
<1> DEFINE Alive(e) == LET view == Derive(st', PeriodKey(now', tz'))
                       IN  view.liveness = "alive" /\ view.count = e.count
           Step == \A e \in OfType(out', {"repaired"}) : Alive(e)
<1>1. TypeOK /\ Sane /\ Started /\ [Next]_vars => [Step]_vars
  <2> SUFFICES ASSUME TypeOK, Sane, Started, Next,
                      NEW e \in out', e.type = "repaired"
               PROVE  Alive(e)
    BY DEF OfType
  <2>1. st \in State /\ Cur \in Period
    BY CurType DEF TypeOK
  <2>2. CASE Repair
    <3>1. PICK n \in Nat :
             /\ (IF Breaks(st, Cur) THEN st.currentCount ELSE marker.count) > 0
             /\ n = Settle(st, Cur).currentCount
                      + (IF Breaks(st, Cur) THEN st.currentCount ELSE marker.count)
             /\ st'.currentCount = n
             /\ st'.settledThrough = Later(Settle(st, Cur).settledThrough, Cur - 1)
             /\ out' = SettleEvents(st, Cur) \cup {Ev("repaired", Cur, n)}
      BY <2>2, RepairIs
    <3>2. /\ \A x \in SettleEvents(st, Cur) : x.type \in {"freeze_consumed", "broken"}
          /\ Settle(st, Cur) \in State
      BY <2>1, SettleTold, SettleType
    <3>3. e.count = n
      BY <3>1, <3>2 DEF Ev
    <3>4. n > 0
      <4>1. st.currentCount \in Nat /\ Settle(st, Cur).currentCount \in Nat /\ marker.count \in Nat
        BY <2>1, <3>2 DEF State, TypeOK, Marker
      <4> QED BY <3>1, <4>1
    <3>5. st' \in State /\ Rooted(st')
      <4>1. TypeOK' /\ Started'
        BY <2>2, TypeRepair, StartedStep DEF Next
      <4> QED BY <4>1 DEF TypeOK, Started, StartedAs
    <3>6. PeriodKey(now', tz') = Cur
      BY <2>2 DEF Repair, Cur
    <3>7. st'.settledThrough >= Cur - 1
      <4>1. Settle(st, Cur).settledThrough \in Int /\ Cur \in Int
        BY <2>1, <3>2, CalendarAssumption DEF State, Date, Period, NoDate
      <4> QED BY <3>1, <4>1 DEF Later
    <3>8. Derive(st', Cur).count = n /\ Derive(st', Cur).liveness = "alive"
      BY <2>1, <3>1, <3>4, <3>5, <3>7, SettledView
    <3> QED BY <3>3, <3>6, <3>8
  <2>3. ASSUME ~Repair PROVE FALSE
    <3>1. \A s \in State, p \in Period : \A x \in SettleEvents(s, p) : x.type # "repaired"
      BY SettleTold
    <3>2. \A s, p : \A x \in ApplyEvents(s, p) : x.type # "repaired"
      BY DEF ApplyEvents, Ev
    <3>3. \A n : Ev("at_risk", Cur, n).type # "repaired"
      BY DEF Ev
    <3>4. ASSUME NEW a \in Amounts, RecordCurrent(a) PROVE FALSE
      <4>1. out' = SettleEvents(st, Cur) \cup
                     (IF ReachesMin(Cur, a) THEN ApplyEvents(Settle(st, Cur), Cur) ELSE {})
        BY <3>4 DEF RecordCurrent, PersistEvents
      <4> QED BY <2>1, <3>1, <3>2, <4>1
    <3>5. ASSUME NEW d \in Delays, NEW a \in Amounts, RecordGrace(d, a) PROVE FALSE
      <4> DEFINE p       == PeriodKey(now - d, tz)
                 applied == IF ReachesMin(p, a) THEN Apply(st, p) ELSE st
      <4>1. p \in Period
        BY <3>5, CalendarAssumption DEF TypeOK, RecordGrace, Period
      <4>2. applied \in State
        BY <2>1, <4>1, ApplyType
      <4>3. out' = (IF ReachesMin(p, a) THEN ApplyEvents(st, p) ELSE {})
                     \cup SettleEvents(applied, Cur)
        BY <3>5 DEF RecordGrace, PersistEvents
      <4> HIDE DEF applied
      <4> QED BY <2>1, <3>1, <3>2, <4>2, <4>3
    <3>6. CASE out' = {} \/ out' = SettleEvents(st, Cur)
               \/ out' = {Ev("at_risk", Cur, Derive(st, Cur).count)}
      BY <2>1, <3>1, <3>3, <3>6
    <3>7. CASE \/ Advance \/ Unrecord \/ Recount \/ SettleDue \/ RemindDue
               \/ (\E h \in Histories : ReplaceHistory(h))
               \/ (\E n \in ShiftDays : ShiftHistory(n))
               \/ (\E n \in FreezeGrants : SetFreezes(n))
               \/ (\E z \in Zones : SetTimezone(z))
               \/ \E r \in Reminders \cup {NoReminder} : SetReminder(r)
      BY <3>6, <3>7, Zenon
         DEF Advance, Unrecord, Recount, ReplaceHistory, Rebuild, ShiftHistory, SetFreezes,
             SetTimezone, Rezone, SetReminder, SettleDue, SettleOne, RemindDue, RemindOne,
             PersistEvents
    <3> QED BY <2>3, <3>4, <3>5, <3>7 DEF Next
  <2> QED BY <2>2, <2>3
<1> QED BY <1>1, TypeCorrect, SaneCorrect, StartedCorrect, PTL DEF Spec, RepairedAlive

-----------------------------------------------------------------------------
(***************************************************************************)
(* No chain is longer than what was earned.                                *)
(***************************************************************************)

\* The active periods a ledger has earned, and those of them up to a date.
ActiveEarned(ledger) == {p \in Earned(ledger) : ScheduledOn(p)}
EarnedUpTo(ledger, date) == {p \in ActiveEarned(ledger) : p <= date}

\* What a repair could still bring back.
Owed(m) == IF m.kind = "broken" THEN m.count ELSE 0

\* The chain, with what a repair would add to it, is covered by the periods
\* earned up to its last one: the strengthening of NoInflation that is inductive.
CoveredAs(s, m, ledger) ==
  /\ s.currentCount + Owed(m) <= Cardinality(EarnedUpTo(ledger, s.lastEarned))
  /\ s.longest <= Cardinality(ActiveEarned(ledger))

Covered == CoveredAs(st, marker, marks)

\* The sets that are counted are finite.
LEMMA EarnedFinite ==
  ASSUME NEW ledger
  PROVE  /\ IsFiniteSet(ActiveEarned(ledger)) /\ Cardinality(ActiveEarned(ledger)) \in Nat
         /\ \A date : /\ IsFiniteSet(EarnedUpTo(ledger, date))
                      /\ Cardinality(EarnedUpTo(ledger, date)) \in Nat
                      /\ Cardinality(EarnedUpTo(ledger, date)) <= Cardinality(ActiveEarned(ledger))
<1>1. IsFiniteSet(Period)
  BY FS_Interval, CalendarAssumption DEF Period
<1>2. ActiveEarned(ledger) \subseteq Period
  BY DEF ActiveEarned, Earned
<1>3. \A date : EarnedUpTo(ledger, date) \subseteq ActiveEarned(ledger)
  BY DEF EarnedUpTo
<1> QED BY <1>1, <1>2, <1>3, FS_Subset, FS_CardinalityType

\* Ledger rows only grow.
Grows(ledger, later) == \A p \in Period : ledger[p] <= later[p]

\* What is covered stays covered when the ledger grows.
LEMMA CoveredGrows ==
  ASSUME NEW s \in State, NEW m \in Marker,
         NEW ledger \in [Period -> 0..MaxAmount], NEW later \in [Period -> 0..MaxAmount],
         Grows(ledger, later), CoveredAs(s, m, ledger)
  PROVE  /\ CoveredAs(s, m, later)
         /\ \A date : EarnedUpTo(ledger, date) \subseteq EarnedUpTo(later, date)
<1>1. ActiveEarned(ledger) \subseteq ActiveEarned(later)
  BY EngineAssumption DEF ActiveEarned, Earned, Grows
<1>2. \A date : EarnedUpTo(ledger, date) \subseteq EarnedUpTo(later, date)
  BY <1>1 DEF EarnedUpTo
<1>3. /\ Cardinality(ActiveEarned(ledger)) <= Cardinality(ActiveEarned(later))
      /\ Cardinality(EarnedUpTo(ledger, s.lastEarned))
           <= Cardinality(EarnedUpTo(later, s.lastEarned))
  BY <1>1, <1>2, EarnedFinite, FS_Subset
<1>4. s.currentCount + Owed(m) \in Nat /\ s.longest \in Nat
  BY DEF State, Marker, Owed
<1>5. /\ Cardinality(ActiveEarned(ledger)) \in Nat /\ Cardinality(ActiveEarned(later)) \in Nat
      /\ Cardinality(EarnedUpTo(ledger, s.lastEarned)) \in Nat
      /\ Cardinality(EarnedUpTo(later, s.lastEarned)) \in Nat
  BY EarnedFinite
<1> QED BY <1>2, <1>3, <1>4, <1>5 DEF CoveredAs

\* A settlement moves the count it breaks to the marker.
LEMMA CoveredSettle ==
  ASSUME NEW s \in State, NEW m \in Marker, NEW ledger, NEW cur \in Period,
         CoveredAs(s, m, ledger), NEW at \in Time
  PROVE  CoveredAs(Settle(s, cur),
                   IF Breaks(s, cur)
                   THEN [kind |-> "broken", count |-> s.currentCount, at |-> at]
                   ELSE m,
                   ledger)
<1>1. /\ s.currentCount \in Nat /\ Owed(m) \in Nat
      /\ Cardinality(EarnedUpTo(ledger, s.lastEarned)) \in Nat
  BY EarnedFinite DEF State, Marker, Owed
<1>2. /\ Settle(s, cur).currentCount = IF Breaks(s, cur) THEN 0 ELSE s.currentCount
      /\ Settle(s, cur).lastEarned = s.lastEarned /\ Settle(s, cur).longest = s.longest
  BY SettleCount, SettlePointer
<1> QED BY <1>1, <1>2 DEF CoveredAs, Owed

\* An earn adds one to the chain, and its own period to what covers it.
LEMMA CoveredApply ==
  ASSUME NEW s \in State, NEW m \in Marker, NEW p \in Period,
         NEW ledger \in [Period -> 0..MaxAmount], NEW later \in [Period -> 0..MaxAmount],
         Grows(ledger, later), CoveredAs(s, m, ledger), p \in Earned(later)
  PROVE  CoveredAs(Apply(s, p), m, later)
<1>1. CASE ~Earns(s, p)
  BY <1>1, CoveredGrows, ApplyFields
<1>2. CASE Earns(s, p)
  <2> DEFINE old == EarnedUpTo(ledger, s.lastEarned)
             new == EarnedUpTo(later, p)
  <2>1. /\ s.lastEarned \in Int /\ p \in Int /\ s.lastEarned < p /\ ScheduledOn(p)
        /\ \A q \in Period : q <= s.lastEarned => q <= p
    BY <1>2, CalendarAssumption DEF Earns, State, Date, Period, NoDate
  <2>2. old \subseteq new /\ p \in new /\ p \notin old
    <3>1. old \subseteq EarnedUpTo(later, s.lastEarned)
      BY CoveredGrows
    <3>2. EarnedUpTo(later, s.lastEarned) \subseteq new
      BY <2>1 DEF EarnedUpTo, ActiveEarned, Earned
    <3>3. p \in new /\ p \notin old
      BY <2>1 DEF EarnedUpTo, ActiveEarned
    <3> QED BY <3>1, <3>2, <3>3
  <2>3. /\ IsFiniteSet(old) /\ IsFiniteSet(new)
        /\ Cardinality(old) \in Nat /\ Cardinality(new) \in Nat
        /\ Cardinality(new) <= Cardinality(ActiveEarned(later))
        /\ Cardinality(ActiveEarned(later)) \in Nat
    BY EarnedFinite
  <2> HIDE DEF old, new
  <2>4. Cardinality(old) + 1 <= Cardinality(new)
    <3>1. old \cup {p} \in SUBSET new
      BY <2>2
    <3>2. Cardinality(old \cup {p}) = Cardinality(old) + 1
      BY <2>2, <2>3, FS_AddElement
    <3> QED BY <2>3, <3>1, <3>2, FS_Subset
  <2>5. /\ Apply(s, p).currentCount = s.currentCount + 1
        /\ Apply(s, p).longest = Later(s.longest, s.currentCount + 1)
        /\ Apply(s, p).lastEarned = p
    BY <1>2, ApplyFields
  <2>6. /\ s.currentCount + Owed(m) <= Cardinality(old)
        /\ s.longest <= Cardinality(ActiveEarned(later))
    BY CoveredGrows DEF CoveredAs, old
  <2>7. s.currentCount \in Nat /\ s.longest \in Nat /\ Owed(m) \in Nat
    BY DEF State, Marker, Owed
  <2>8. (s.currentCount + 1) + Owed(m) <= Cardinality(new)
    BY <2>3, <2>4, <2>6, <2>7
  <2>9. Later(s.longest, s.currentCount + 1) <= Cardinality(ActiveEarned(later))
    BY <2>3, <2>6, <2>7, <2>8 DEF Later
  <2> QED BY <2>5, <2>8, <2>9 DEF CoveredAs, new
<1> QED BY <1>1, <1>2

\* A row of the ledger grows by what is reported.
LEMMA MarkGrows ==
  ASSUME TypeOK, NEW p \in Period, NEW a \in Amounts, AddMark(p, a)
  PROVE  /\ Grows(marks, marks') /\ marks' \in [Period -> 0..MaxAmount]
         /\ ReachesMin(p, a) <=> p \in Earned(marks')
<1>1. a \in Nat /\ MaxAmount \in Nat /\ marks \in [Period -> 0..MaxAmount]
  BY EngineAssumption DEF TypeOK
<1>2. \A q \in Period : marks[q] \in Nat /\ marks[q] <= MaxAmount
  BY <1>1
<1>3. /\ marks' = [marks EXCEPT ![p] = marks[p] + a]
      /\ marks[p] + a <= MaxAmount
  BY DEF AddMark
<1>4. \A q \in Period : marks'[q] = IF q = p THEN marks[p] + a ELSE marks[q]
  BY <1>1, <1>3
<1>5. marks[p] + a \in 0..MaxAmount
  BY <1>1, <1>2, <1>3
<1> QED BY <1>1, <1>2, <1>3, <1>4, <1>5 DEF Grows, ReachesMin, Earned

\* The inductive step of NoInflation.
LEMMA CoveredStep ==
  ASSUME TypeOK, Covered, [Next]_vars, Ops \cap LedgerOps = {}
  PROVE  Covered'
<1>1. /\ st \in State /\ Cur \in Period /\ Settle(st, Cur) \in State /\ marker \in Marker
      /\ now \in Time /\ marks \in [Period -> 0..MaxAmount] /\ CoveredAs(st, marker, marks)
  BY CurType, SettleType DEF TypeOK, Covered
<1> DEFINE Left(s) == IF Breaks(s, Cur)
                      THEN [kind |-> "broken", count |-> s.currentCount, at |-> now]
                      ELSE marker
<1>2. \A s \in State : Left(s) \in Marker
  BY <1>1 DEF Marker, State
<1>3. ASSUME marks' = marks, marker' = marker, st'.currentCount = st.currentCount,
             st'.lastEarned = st.lastEarned, st'.longest = st.longest
      PROVE  Covered'
  BY <1>1, <1>3 DEF Covered, CoveredAs
<1>4. ASSUME NEW cur, PersistEvents(SettleEvents(st, Cur)), marks' = marks,
             st' = Settle(st, Cur) \/ st' = Forgive(Settle(st, Cur), cur)
      PROVE  Covered'
  <2>1. marker' = Left(st)
    <3>1. SettleEvents(st, Cur) = SettleEvents(st, Cur) \cup {}
          /\ \A e \in {} : e.type \notin MarkerTypes
      OBVIOUS
    <3> QED BY <1>1, <1>4, <3>1, PersistSettled
  <2>2. CoveredAs(Settle(st, Cur), marker', marks)
    BY <1>1, <2>1, CoveredSettle
  <2>3. /\ st'.currentCount = Settle(st, Cur).currentCount
        /\ st'.lastEarned = Settle(st, Cur).lastEarned
        /\ st'.longest = Settle(st, Cur).longest
    BY <1>1, <1>4 DEF Forgive, State
  <2> QED BY <1>4, <2>2, <2>3 DEF Covered, CoveredAs
<1>5. CASE Advance \/ UNCHANGED vars
  BY <1>3, <1>5 DEF Advance, vars
<1>6. ASSUME NEW a \in Amounts, RecordCurrent(a) PROVE Covered'
  <2> DEFINE earns == IF ReachesMin(Cur, a) THEN ApplyEvents(Settle(st, Cur), Cur) ELSE {}
  <2>1. /\ PersistEvents(SettleEvents(st, Cur) \cup earns) /\ AddMark(Cur, a)
        /\ st' = IF ReachesMin(Cur, a) THEN Apply(Settle(st, Cur), Cur) ELSE Settle(st, Cur)
    BY <1>6 DEF RecordCurrent
  <2>2. \A e \in earns : e.type \notin MarkerTypes
    BY EarnsOther
  <2> HIDE DEF earns
  <2>3. marker' = Left(st)
    BY <1>1, <2>1, <2>2, PersistSettled
  <2>4. CoveredAs(Settle(st, Cur), marker', marks) /\ marker' \in Marker
    BY <1>1, <1>2, <2>3, CoveredSettle
  <2>5. /\ Grows(marks, marks') /\ marks' \in [Period -> 0..MaxAmount]
        /\ ReachesMin(Cur, a) => Cur \in Earned(marks')
    BY <1>1, <2>1, MarkGrows
  <2>6. CASE ReachesMin(Cur, a)
    BY <1>1, <2>1, <2>4, <2>5, <2>6, CoveredApply DEF Covered
  <2>7. CASE ~ReachesMin(Cur, a)
    BY <1>1, <2>1, <2>4, <2>5, <2>7, CoveredGrows DEF Covered
  <2> QED BY <2>6, <2>7
<1>7. ASSUME NEW d \in Delays, NEW a \in Amounts, RecordGrace(d, a) PROVE Covered'
  <2> DEFINE p       == PeriodKey(now - d, tz)
             applied == IF ReachesMin(p, a) THEN Apply(st, p) ELSE st
             earns   == IF ReachesMin(p, a) THEN ApplyEvents(st, p) ELSE {}
  <2>1. p \in Period
    BY <1>7, CalendarAssumption DEF TypeOK, RecordGrace, Period
  <2>2. /\ PersistEvents(earns \cup SettleEvents(applied, Cur)) /\ AddMark(p, a)
        /\ st' = Settle(applied, Cur)
    BY <1>7 DEF RecordGrace
  <2>3. /\ Grows(marks, marks') /\ marks' \in [Period -> 0..MaxAmount]
        /\ ReachesMin(p, a) => p \in Earned(marks')
    BY <2>1, <2>2, MarkGrows
  <2>4. applied \in State /\ CoveredAs(applied, marker, marks')
    BY <1>1, <2>1, <2>3, ApplyType, CoveredApply, CoveredGrows
  <2>5. \A e \in earns : e.type \notin MarkerTypes
    BY EarnsOther
  <2>6. earns \cup SettleEvents(applied, Cur) = SettleEvents(applied, Cur) \cup earns
    OBVIOUS
  <2> HIDE DEF earns, applied
  <2>7. marker' = Left(applied)
    BY <1>1, <2>2, <2>4, <2>5, <2>6, PersistSettled
  <2> QED BY <1>1, <2>2, <2>4, <2>7, CoveredSettle DEF Covered
<1>8. CASE Unrecord \/ Recount \/ (\E h \in Histories : ReplaceHistory(h))
           \/ \E n \in ShiftDays : ShiftHistory(n)
  BY <1>8 DEF Unrecord, Recount, ReplaceHistory, ShiftHistory, LedgerOps
<1>9. ASSUME NEW n \in FreezeGrants, SetFreezes(n) PROVE Covered'
  <2>1. st'.lastEarned = st.lastEarned /\ st'.currentCount = st.currentCount
        /\ st'.longest = st.longest
    BY <1>1, <1>9 DEF SetFreezes, State
  <2> QED BY <1>3, <1>9, <2>1, PersistOther DEF SetFreezes
<1>10. ASSUME NEW z \in Zones, SetTimezone(z) PROVE Covered'
  <2>1. CASE exists
    <3>1. /\ PersistEvents(SettleEvents(st, Cur)) /\ marks' = marks
          /\ st' = Forgive(Settle(st, Cur), PeriodKey(now, z))
      BY <1>10, <2>1 DEF SetTimezone, Rezone
    <3> QED BY <1>4, <3>1
  <2>2. CASE ~exists
    BY <1>3, <1>10, <2>2, PersistOther DEF SetTimezone, Rezone
  <2> QED BY <2>1, <2>2
<1>11. CASE Repair
  <2> DEFINE lost == IF Breaks(st, Cur) THEN st.currentCount ELSE marker.count
  <2>1. PICK n \in Nat :
          /\ n = Settle(st, Cur).currentCount + lost
          /\ Breaks(st, Cur) \/ marker.kind = "broken"
          /\ st'.currentCount = n /\ st'.longest = Later(Settle(st, Cur).longest, n)
          /\ st'.lastEarned = Settle(st, Cur).lastEarned
          /\ marker' = [kind |-> "repaired", count |-> n, at |-> now]
          /\ marks' = marks
    BY <1>11, RepairIs
  <2>2. CoveredAs(Settle(st, Cur), Left(st), marks)
    BY <1>1, CoveredSettle
  <2>3. Owed(Left(st)) = lost /\ Owed(marker') = 0
    BY <2>1 DEF Owed
  <2>4. /\ Cardinality(EarnedUpTo(marks, Settle(st, Cur).lastEarned)) \in Nat
        /\ Cardinality(ActiveEarned(marks)) \in Nat
        /\ Cardinality(EarnedUpTo(marks, Settle(st, Cur).lastEarned))
             <= Cardinality(ActiveEarned(marks))
    BY EarnedFinite
  <2>5. Settle(st, Cur).longest \in Nat
    BY <1>1 DEF State
  <2>6. /\ n <= Cardinality(EarnedUpTo(marks, Settle(st, Cur).lastEarned))
        /\ Settle(st, Cur).longest <= Cardinality(ActiveEarned(marks))
    BY <2>1, <2>2, <2>3 DEF CoveredAs
  <2> HIDE DEF lost, Left
  <2>7. n + 0 = n /\ Later(Settle(st, Cur).longest, n) <= Cardinality(ActiveEarned(marks))
    BY <2>4, <2>5, <2>6 DEF Later
  <2> QED BY <2>1, <2>3, <2>6, <2>7 DEF Covered, CoveredAs
<1>12. ASSUME NEW r \in Reminders \cup {NoReminder}, SetReminder(r) PROVE Covered'
  BY <1>3, <1>12, PersistOther DEF SetReminder
<1>13. CASE SettleDue
  BY <1>4, <1>13 DEF SettleDue, SettleOne
<1>14. CASE RemindDue
  <2>1. PersistEvents({Ev("at_risk", Cur, Derive(st, Cur).count)}) /\ st' = st /\ marks' = marks
    BY <1>14 DEF RemindDue, RemindOne
  <2>2. marker' = marker
    BY <2>1, PersistOther DEF Ev, MarkerTypes
  <2> QED BY <1>3, <2>1, <2>2
<1> QED BY <1>5, <1>6, <1>7, <1>8, <1>9, <1>10, <1>11, <1>12, <1>13, <1>14 DEF Next

\* Nobody has, or ever had, a longer chain than the active periods they earned:
\* with travel, grace, freezes and repairs, as long as the ledger is not rewritten.
THEOREM NoInflationCorrect ==
  ASSUME Ops \cap LedgerOps = {}
  PROVE  Spec => []NoInflation
<1>1. Init => Covered
  <2> SUFFICES ASSUME Init PROVE Covered
    OBVIOUS
  <2>1. st.currentCount = 0 /\ st.longest = 0 /\ Owed(marker) = 0
    BY DEF Init, NewState, NoMarker, Owed
  <2> QED BY <2>1, EarnedFinite DEF Covered, CoveredAs
<1>2. TypeOK /\ Covered /\ [Next]_vars => Covered'
  BY CoveredStep
<1>3. Covered => NoInflation
  BY DEF Covered, CoveredAs, NoInflation, ActiveEarned
<1> QED BY <1>1, <1>2, <1>3, TypeCorrect, PTL DEF Spec

-----------------------------------------------------------------------------
(***************************************************************************)
(* Reporting costs nothing.                                                *)
(***************************************************************************)

\* boundaryGrace is shorter than a period: what is reported within it belongs
\* to the current period or to the one before.
GraceIsShort ==
  \A t \in Time, d \in Delays, z \in Zones :
    d <= Grace /\ t - d \in Time => PeriodKey(t, z) <= PeriodKey(t - d, z) + 1

\* Settling gives and takes nothing but what is shown already.
LEMMA SettleCosts ==
  ASSUME NEW s \in State, NEW cur \in Period, Rooted(s)
  PROVE  LET before == Derive(s, cur)
         IN  /\ before.count = Settle(s, cur).currentCount
             /\ before.longest = s.longest
             /\ before.freezesAfterSpend = Settle(s, cur).freezes
             /\ before.count <= s.currentCount
             /\ before.freezesAfterSpend <= s.freezes
<1>1. /\ Derive(s, cur).count = Settle(s, cur).currentCount
      /\ Derive(s, cur).longest = Settle(s, cur).longest
      /\ Derive(s, cur).freezesAfterSpend = Settle(s, cur).freezes
  BY DeriveAgreesWithSettle DEF Rooted
<1>2. /\ Settle(s, cur).longest = s.longest
      /\ Settle(s, cur).currentCount = IF Breaks(s, cur) THEN 0 ELSE s.currentCount
      /\ Settle(s, cur).freezes = s.freezes - Spent(s, cur)
  BY SettleCount, SettlePointer DEF Settle, State
<1>3. s.currentCount \in Nat /\ s.freezes \in Nat /\ Spent(s, cur) \in Nat
  BY SpentType DEF State
<1> QED BY <1>1, <1>2, <1>3

\* Reporting activity never costs anything: not the chain, not a freeze, not
\* even when it arrives after the boundary.
THEOREM RecordNeverCostsCorrect ==
  ASSUME GraceIsShort, "repair" \in Ops => Ops \cap ReplayOps = {}
  PROVE  Spec => RecordNeverCosts
<1> DEFINE Better(before, after) ==
             /\ after.count >= before.count
             /\ after.longest >= before.longest
             /\ after.freezesAfterSpend >= before.freezesAfterSpend
           Step ==
             (\E a \in Amounts : RecordCurrent(a) \/ \E d \in Delays : RecordGrace(d, a)) =>
               LET before == Derive(st, Cur)
                   after  == Derive(st', Cur)
               IN  /\ after.count >= before.count
                   /\ after.longest >= before.longest
                   /\ after.freezesAfterSpend >= before.freezesAfterSpend
<1>1. TypeOK /\ Started /\ [Next]_vars => [Step]_vars
  <2> SUFFICES ASSUME TypeOK, Started, NEW a \in Amounts,
                      RecordCurrent(a) \/ \E d \in Delays : RecordGrace(d, a)
               PROVE  Better(Derive(st, Cur), Derive(st', Cur))
    OBVIOUS
  <2> DEFINE b == Derive(st, Cur)
  <2>1. st \in State /\ Cur \in Period /\ Rooted(st)
    BY CurType DEF TypeOK, Started, StartedAs
  <2>2. /\ b.count = Settle(st, Cur).currentCount /\ b.longest = st.longest
        /\ b.freezesAfterSpend = Settle(st, Cur).freezes
        /\ b.count <= st.currentCount /\ b.freezesAfterSpend <= st.freezes
    BY <2>1, SettleCosts
  <2>3. /\ st.currentCount \in Nat /\ st.longest \in Nat /\ st.freezes \in Nat
        /\ Settle(st, Cur) \in State /\ Rooted(Settle(st, Cur))
        /\ b.count \in Nat /\ b.freezesAfterSpend \in Nat
    BY <2>1, <2>2, SettleType, RootedKept DEF State
  <2> HIDE DEF b
  <2>4. ASSUME NEW t \in State, Rooted(t), t.settledThrough >= Cur - 1 \/ t.lastEarned >= Cur - 1,
               t.currentCount >= b.count, t.longest >= b.longest,
               t.freezes >= b.freezesAfterSpend
        PROVE  Better(b, Derive(t, Cur))
    BY <2>1, <2>4, SettledView
  <2>5. Better(b, Derive(Settle(st, Cur), Cur))
    BY <2>1, <2>2, <2>3, <2>4, SettledThroughIs, SettlePointer DEF State
  <2>6. CASE RecordCurrent(a)
    <3> DEFINE settled == Settle(st, Cur)
               t       == Apply(settled, Cur)
    <3>1. st' = settled \/ st' = t
      BY <2>6 DEF RecordCurrent
    <3>2. t \in State /\ Rooted(t)
      BY <2>1, <2>3, ApplyType, RootedKept
    <3>3. /\ t.currentCount >= b.count /\ t.longest >= b.longest
          /\ t.freezes >= b.freezesAfterSpend
          /\ t.settledThrough >= Cur - 1
      <4>1. /\ settled.currentCount = b.count /\ settled.longest = b.longest
            /\ settled.freezes = b.freezesAfterSpend /\ settled.settledThrough >= Cur - 1
            /\ settled.longest \in Nat
        BY <2>1, <2>2, <2>3, SettledThroughIs, SettlePointer DEF State
      <4>2. /\ t.currentCount \in {settled.currentCount, settled.currentCount + 1}
            /\ t.longest \in {settled.longest, Later(settled.longest, settled.currentCount + 1)}
            /\ t.freezes \in {settled.freezes, settled.freezes + 1}
            /\ t.settledThrough = settled.settledThrough
        BY <2>1, <2>3, ApplyFields
      <4> HIDE DEF settled, t
      <4> QED BY <2>3, <4>1, <4>2 DEF Later
    <3> HIDE DEF t
    <3>4. Better(b, Derive(t, Cur))
      BY <2>4, <3>2, <3>3
    <3> QED BY <2>5, <3>1, <3>4 DEF b
  <2>7. ASSUME NEW d \in Delays, RecordGrace(d, a)
        PROVE  Better(b, Derive(st', Cur))
    <3> DEFINE p == PeriodKey(now - d, tz)
               t == Apply(st, p)
    <3>1. /\ now - d \in Time /\ p < Cur /\ d <= Grace
          /\ st' = Settle(IF ReachesMin(p, a) THEN t ELSE st, Cur)
      BY <2>7 DEF RecordGrace
    <3>2. /\ p \in Period /\ p \in Int /\ Cur \in Int /\ Cur <= p + 1
      BY <2>1, <3>1, GraceIsShort, CalendarAssumption DEF TypeOK, Period, GraceIsShort, Cur
    <3>3. CASE ~ReachesMin(p, a) \/ ~Earns(st, p)
      <4>1. st' = Settle(st, Cur)
        BY <2>1, <3>1, <3>2, <3>3, ApplyFields
      <4> QED BY <2>5, <4>1
    <3>4. CASE ReachesMin(p, a) /\ Earns(st, p)
      <4>1. t \in State /\ Rooted(t)
        BY <2>1, <3>2, ApplyType, RootedKept
      <4>2. /\ t.currentCount = st.currentCount + 1 /\ t.lastEarned = p
            /\ t.longest = Later(st.longest, st.currentCount + 1)
            /\ t.freezes \in {st.freezes, st.freezes + 1}
        BY <2>1, <3>2, <3>4, ApplyFields
      <4> HIDE DEF t
      <4>3. Cardinality(Missed(t, Cur)) = 0
        BY <2>1, <3>2, <4>1, <4>2, NothingMissed
      <4>4. /\ t.lastEarned # NoDate
            /\ Settle(t, Cur).currentCount = t.currentCount
            /\ Settle(t, Cur).freezes = t.freezes
            /\ Settle(t, Cur).longest = t.longest
            /\ Settle(t, Cur).lastEarned = t.lastEarned
        <5>1. t.lastEarned # NoDate
          BY <3>2, <4>2, CalendarAssumption DEF Period, NoDate
        <5>2. t.freezes \in Nat /\ t.currentCount \in Nat
          BY <4>1 DEF State
        <5> QED BY <2>1, <4>1, <4>3, <5>1, <5>2, SettleFields
      <4>5. Settle(t, Cur) \in State /\ Rooted(Settle(t, Cur))
        BY <2>1, <4>1, SettleType, RootedKept
      <4>6. /\ t.currentCount >= b.count /\ t.longest >= b.longest
            /\ t.freezes >= b.freezesAfterSpend /\ t.lastEarned >= Cur - 1
        BY <2>2, <2>3, <3>2, <4>2 DEF Later
      <4>7. Better(b, Derive(Settle(t, Cur), Cur))
        BY <2>4, <4>4, <4>5, <4>6
      <4> QED BY <3>1, <3>4, <4>7
    <3> QED BY <3>3, <3>4
  <2> QED BY <2>6, <2>7 DEF b
<1> QED BY <1>1, TypeCorrect, StartedCorrect, PTL DEF Spec, RecordNeverCosts

-----------------------------------------------------------------------------
(***************************************************************************)
(* What is resolved already.                                               *)
(***************************************************************************)

\* No clock is turned back across a boundary: an instant never belongs to an
\* earlier period than one before it.
NeverBack ==
  \A z \in Zones, t \in Time, u \in Time : t <= u => PeriodKey(t, z) <= PeriodKey(u, z)

\* Everything before the period cur is resolved in the row s.
ResolvedUpTo(s, cur) == Later(s.lastEarned, s.settledThrough) >= cur - 1

\* Settling what is resolved already changes nothing a reader can see, ever.
LEMMA ResolvedReads ==
  ASSUME NEW s \in State, NEW cur \in Period, NEW c \in Period,
         s.lastEarned # NoDate, ResolvedUpTo(s, cur)
  PROVE  Reads(Settle(s, cur), c) = Reads(s, c)
<1> DEFINE t == Settle(s, cur)
           n == Cardinality(Missed(s, c))
           m == Cardinality(Missed(s, cur))
<1>1. /\ s.lastEarned \in Int /\ s.settledThrough \in Int /\ cur \in Int
      /\ s.freezes \in Nat /\ s.currentCount \in Nat /\ t \in State
  BY SettleType, CalendarAssumption DEF State, Date, Period, NoDate
<1>2. m = 0
  <2>1. Later(s.lastEarned, s.settledThrough) \in Int
    BY <1>1 DEF Later
  <2>2. Missed(s, cur) = {}
    BY <1>1, <2>1 DEF Missed, ResolvedUpTo
  <2> QED BY <2>2, FS_EmptySet
<1>3. /\ t.currentCount = s.currentCount /\ t.longest = s.longest
      /\ t.lastEarned = s.lastEarned /\ t.freezes = s.freezes
      /\ t.freezeProgress = s.freezeProgress
  <2> HIDE DEF m, t
  <2> QED BY <1>1, <1>2, SettleFields DEF m, t
<1>4. Later(t.lastEarned, t.settledThrough) = Later(s.lastEarned, s.settledThrough)
  <2>1. t.settledThrough = Later(s.settledThrough, cur - 1)
    BY SettlePointer
  <2> HIDE DEF t
  <2> QED BY <1>1, <1>3, <2>1 DEF Later, ResolvedUpTo
<1>5. Missed(t, c) = Missed(s, c)
  BY <1>4 DEF Missed
<1>6. \A spare : LossPeriod(t, c, spare) = LossPeriod(s, c, spare)
  <2> HIDE DEF t
  <2> QED BY <1>3, Zenon DEF LossPeriod
<1> HIDE DEF t
<1>7. n = Cardinality(Missed(t, c))
  BY <1>5
<1> HIDE DEF n
<1> DEFINE ds == Derive(s, c)
           dt == Derive(t, c)
<1>8. n = Cardinality(Missed(s, c))
  BY DEF n
<1> DEFINE covered == n = 0 \/ (AutoConsume /\ n <= s.freezes)
           alive   == s.currentCount > 0 /\ covered
           after   == IF s.currentCount = 0 \/ ~AutoConsume THEN s.freezes
                      ELSE IF covered THEN s.freezes - n ELSE 0
           Shown(d, x) ==
             /\ d.count = IF alive THEN s.currentCount ELSE 0
             /\ d.longest = s.longest
             /\ d.liveness = IF ~alive THEN "broken" ELSE IF n = 0 THEN "alive" ELSE "frozen"
             /\ d.earnedThisPeriod = (s.lastEarned = c)
             /\ d.freezesAfterSpend = after
             /\ d.freezeProgress = IF s.currentCount > 0 /\ ~covered THEN 0 ELSE s.freezeProgress
             /\ d.lossPeriod = IF alive THEN LossPeriod(x, c, IF AutoConsume THEN after ELSE 0)
                               ELSE NoDate
<1>9. Shown(ds, s)
  BY <1>1, <1>8, DeriveFields
<1>10. Shown(dt, t)
  BY <1>1, <1>3, <1>7, DeriveFields
<1>11. ds.lossPeriod = dt.lossPeriod
  <2> HIDE DEF ds, dt, after, alive
  <2> QED BY <1>6, <1>9, <1>10
<1> HIDE DEF ds, dt
<1>12. Reads(t, c) = Reads(s, c)
  BY <1>9, <1>10, <1>11 DEF Reads, ds, dt
<1> QED BY <1>12 DEF t

\* What is resolved stays resolved, and settling or forgiving resolves.
LEMMA StaysResolved ==
  ASSUME NEW s \in State, NEW p \in Period
  PROVE  /\ ResolvedUpTo(Settle(s, p), p) /\ ResolvedUpTo(Forgive(s, p), p)
         /\ \A c \in Int : ResolvedUpTo(s, c) =>
              /\ s.lastEarned # NoDate => ResolvedUpTo(Settle(s, p), c)
              /\ ResolvedUpTo(Apply(s, p), c)
              /\ ResolvedUpTo(Forgive(s, p), c)
<1>1. /\ s.lastEarned \in Int /\ s.settledThrough \in Int /\ p \in Int
      /\ p - 1 \in Int
  BY CalendarAssumption DEF State, Date, Period, NoDate
<1>2. /\ Settle(s, p).lastEarned = s.lastEarned
      /\ s.lastEarned # NoDate => Settle(s, p).settledThrough = Later(s.settledThrough, p - 1)
      /\ s.lastEarned = NoDate => Settle(s, p).settledThrough = p - 1
  BY SettlePointer
<1>3. /\ Forgive(s, p).lastEarned = s.lastEarned
      /\ Forgive(s, p).settledThrough = Later(s.settledThrough, p - 1)
  BY DEF Forgive, State, PrevPeriod
<1>4. /\ Apply(s, p).settledThrough = s.settledThrough
      /\ Apply(s, p).lastEarned \in Int /\ Apply(s, p).lastEarned >= s.lastEarned
  <2>1. CASE ~Earns(s, p)
    BY <1>1, <2>1, ApplyFields
  <2>2. CASE Earns(s, p)
    <3>1. Apply(s, p).lastEarned = p /\ Apply(s, p).settledThrough = s.settledThrough
      BY <2>2, ApplyFields
    <3>2. s.lastEarned <= p
      BY <1>1, <2>2, CalendarAssumption DEF Earns, NoDate, Period
    <3> QED BY <1>1, <3>1, <3>2
  <2> QED BY <2>1, <2>2
<1>5. \A c \in Int : ResolvedUpTo(s, c) =>
        /\ s.lastEarned # NoDate => ResolvedUpTo(Settle(s, p), c)
        /\ ResolvedUpTo(Forgive(s, p), c)
  BY <1>1, <1>2, <1>3 DEF ResolvedUpTo, Later
<1>6. \A c \in Int : ResolvedUpTo(s, c) => ResolvedUpTo(Apply(s, p), c)
  BY <1>1, <1>4 DEF ResolvedUpTo, Later
<1>7. ResolvedUpTo(Settle(s, p), p) /\ ResolvedUpTo(Forgive(s, p), p)
  BY <1>1, <1>2, <1>3 DEF ResolvedUpTo, Later
<1> QED BY <1>5, <1>6, <1>7
=============================================================================
