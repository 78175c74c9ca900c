------------------------- MODULE StreakReadsProofs --------------------------
(***************************************************************************)
(* Theorems about a read beside the operations of StreakEngine.            *)
(***************************************************************************)
EXTENDS StreakReads, StreakEngineProofs

(***************************************************************************)
(* The engine while a read is under way is the engine.                     *)
(***************************************************************************)

\* The core does not know which operations may commit.
LEMMA CoreDuring ==
  /\ During!NoDate = NoDate /\ During!Time = Time /\ During!Period = Period
  /\ During!NoReminder = NoReminder /\ During!ChargeTypes = ChargeTypes
  /\ \A S : During!Cardinality(S) = Cardinality(S)
  /\ \A p : During!ScheduledOn(p) = ScheduledOn(p)
  /\ \A p : During!NextScheduled(p) = NextScheduled(p)
  /\ \A p : During!PrevPeriod(p) = PrevPeriod(p)
  /\ \A a, b : During!Later(a, b) = Later(a, b)
  /\ \A t, z : During!PeriodKey(t, z) = PeriodKey(t, z)
  /\ \A w, z : During!InstantsOf(w, z) = InstantsOf(w, z)
  /\ \A k, p, n : During!Ev(k, p, n) = Ev(k, p, n)
  /\ During!Cur = Cur
<1>1. /\ During!NoDate = NoDate /\ During!Time = Time /\ During!Period = Period
      /\ During!NoReminder = NoReminder /\ During!ChargeTypes = ChargeTypes
  BY Zenon DEF NoDate, During!NoDate, Time, During!Time, Period, During!Period,
     NoReminder, During!NoReminder, ChargeTypes, During!ChargeTypes
<1>2. \A S : During!Cardinality(S) = Cardinality(S)
  BY Zenon DEF Cardinality, During!Cardinality
<1>3. /\ \A p : During!ScheduledOn(p) = ScheduledOn(p)
      /\ \A p : During!NextScheduled(p) = NextScheduled(p)
      /\ \A p : During!PrevPeriod(p) = PrevPeriod(p)
      /\ \A a, b : During!Later(a, b) = Later(a, b)
  BY Zenon DEF ScheduledOn, During!ScheduledOn, NextScheduled, During!NextScheduled,
     PrevPeriod, During!PrevPeriod, Later, During!Later
<1>4. \A t, z : During!PeriodKey(t, z) = PeriodKey(t, z)
  BY Zenon DEF PeriodKey, During!PeriodKey, Wall, During!Wall, OffsetAt, During!OffsetAt
<1>5. \A w, z : During!InstantsOf(w, z) = InstantsOf(w, z)
  BY Zenon DEF InstantsOf, During!InstantsOf, Wall, During!Wall, OffsetAt, During!OffsetAt,
     Time, During!Time
<1>6. \A k, p, n : During!Ev(k, p, n) = Ev(k, p, n)
  BY Zenon DEF Ev, During!Ev
<1>7. During!Cur = Cur
  BY <1>4, Zenon DEF Cur, During!Cur
<1> QED BY <1>1, <1>2, <1>3, <1>4, <1>5, <1>6, <1>7

\* The replay of a ledger is a recursive function: two that satisfy its equation
\* are the same.
LEMMA ReplayUnique ==
  ASSUME NEW earned, NEW f,
         f = [i \in 0..LastPeriod |->
                IF i = 0 THEN NewState ELSE ReplayStep(f[i - 1], earned, i)]
  PROVE  f = ReplayUpTo(earned)
<1> DEFINE R   == ReplayUpTo(earned)
           Bad == {i \in 0..LastPeriod : f[i] # R[i]}
<1>1. LastPeriod \in Nat /\ R \in [0..LastPeriod -> State]
      /\ R[0] = NewState
      /\ \A i \in 1..LastPeriod : R[i] = ReplayStep(R[i - 1], earned, i)
  BY ReplayRuns, CalendarAssumption DEF IsRun
<1>2. /\ f = [i \in 0..LastPeriod |-> f[i]] /\ f[0] = NewState
      /\ \A i \in 1..LastPeriod : f[i] = ReplayStep(f[i - 1], earned, i)
  BY <1>1
<1> HIDE DEF R
<1>3. ASSUME Bad # {} PROVE FALSE
  <2>1. PICK i \in Bad : \A j \in Bad : ~(j < i)
    <3>1. Bad \subseteq Nat
      BY <1>1
    <3> HIDE DEF Bad
    <3> QED BY <1>3, <3>1, LeastNatural
  <2>2. i \in 1..LastPeriod /\ i - 1 \in 0..LastPeriod /\ i - 1 < i
    BY <1>1, <1>2
  <2>3. f[i - 1] = R[i - 1]
    BY <2>1, <2>2
  <2> QED BY <1>1, <1>2, <2>1, <2>2, <2>3
<1>4. f = R
  BY <1>1, <1>2, <1>3
<1> QED BY <1>4 DEF R

\* A replay while a read is under way is a replay.
LEMMA ReplayDuring ==
  ASSUME \A s, c : /\ During!Settle(s, c) = Settle(s, c) /\ During!Apply(s, c) = Apply(s, c)
  PROVE  \A earned : During!ReplayUpTo(earned) = ReplayUpTo(earned)
<1> SUFFICES ASSUME NEW earned PROVE During!ReplayUpTo(earned) = ReplayUpTo(earned)
  OBVIOUS
<1> DEFINE body(r)   == [i \in 0..LastPeriod |->
                           IF i = 0 THEN NewState ELSE ReplayStep(r[i - 1], earned, i)]
           during(r) == [i \in 0..LastPeriod |->
                           IF i = 0 THEN During!NewState
                           ELSE During!ReplayStep(r[i - 1], earned, i)]
<1>1. \A s, p : During!ReplayStep(s, earned, p) = ReplayStep(s, earned, p)
  BY DEF ReplayStep, During!ReplayStep
<1>2. During!NewState = NewState
  BY Zenon DEF NewState, During!NewState, NoDate, During!NoDate
<1>3. \A r : during(r) = body(r)
  BY <1>1, <1>2
<1>4. PICK r : r = body(r)
  <2>1. PICK r : IsRun(r, earned, LastPeriod)
    BY RunExists
  <2>2. r = body(r)
    BY <2>1, CalendarAssumption DEF IsRun
  <2> QED BY <2>2
<1> DEFINE D == During!ReplayUpTo(earned)
<1>5. D = CHOOSE f : f = during(f)
  BY DEF During!ReplayUpTo
<1>6. D = body(D)
  <2>1. r = during(r)
    BY <1>3, <1>4
  <2>2. D = during(D)
    <3> HIDE DEF during, body, D
    <3> QED BY <1>5, <2>1
  <2> HIDE DEF during, body, D
  <2> QED BY <1>3, <2>2
<1> HIDE DEF D
<1>7. D = ReplayUpTo(earned)
  BY <1>6, ReplayUnique
<1> QED BY <1>7 DEF D

\* A settlement, an earn, the forgiveness of a shift and a replay, what a reader is
\* shown, and the events.
LEMMA StepsDuring ==
  /\ \A s, c : /\ During!Breaks(s, c) = Breaks(s, c) /\ During!Settle(s, c) = Settle(s, c)
               /\ During!SettleEvents(s, c) = SettleEvents(s, c)
               /\ During!Apply(s, c) = Apply(s, c) /\ During!ApplyEvents(s, c) = ApplyEvents(s, c)
               /\ During!Forgive(s, c) = Forgive(s, c) /\ During!Derive(s, c) = Derive(s, c)
               /\ During!SettleIsDue(s, c) = SettleIsDue(s, c)
               /\ During!Replay(s, c) = Replay(s, c)
  /\ \A v : During!AtRisk(v) = AtRisk(v)
  /\ \A p, a : During!ReachesMin(p, a) = ReachesMin(p, a)
<1>1. \A s, c : /\ During!Missed(s, c) = Missed(s, c) /\ During!Charged(s, c) = Charged(s, c)
                /\ During!Spent(s, c) = Spent(s, c) /\ During!Breaks(s, c) = Breaks(s, c)
  BY CoreDuring, Zenon DEF Missed, During!Missed, Charged, During!Charged, Spent, During!Spent,
     Breaks, During!Breaks, Later, During!Later, ScheduledOn, During!ScheduledOn,
     Cardinality, During!Cardinality, NoDate, During!NoDate
<1>2. \A s, c : During!Settle(s, c) = Settle(s, c)
  BY <1>1, CoreDuring, Zenon DEF Settle, During!Settle
<1>3. \A s, c : During!SettleEvents(s, c) = SettleEvents(s, c)
  BY Zenon DEF SettleEvents, During!SettleEvents, Ev, During!Ev, Charged, During!Charged,
     Spent, During!Spent, Missed, During!Missed, Later, During!Later, ScheduledOn, During!ScheduledOn,
     Cardinality, During!Cardinality, NoDate, During!NoDate
<1>4. \A s, c : /\ During!Earns(s, c) = Earns(s, c) /\ During!FreezeDue(s) = FreezeDue(s)
                /\ During!FreezeGranted(s) = FreezeGranted(s)
  BY CoreDuring, Zenon DEF Earns, During!Earns, FreezeDue, During!FreezeDue,
     FreezeGranted, During!FreezeGranted
<1>5. \A s, c : /\ During!Apply(s, c) = Apply(s, c) /\ During!ApplyEvents(s, c) = ApplyEvents(s, c)
  BY <1>4, CoreDuring, Zenon DEF Apply, During!Apply, ApplyEvents, During!ApplyEvents
<1>6. \A s, c : During!Forgive(s, c) = Forgive(s, c)
  BY CoreDuring, Zenon DEF Forgive, During!Forgive
<1>7. \A s, c, n : During!LossPeriod(s, c, n) = LossPeriod(s, c, n)
  BY Zenon DEF LossPeriod, During!LossPeriod, NextScheduled, During!NextScheduled,
     ScheduledOn, During!ScheduledOn
<1>8. ASSUME NEW s, NEW c PROVE During!Derive(s, c) = Derive(s, c)
  <2>1. During!Missed(s, c) = Missed(s, c) /\ During!NoDate = NoDate
    BY <1>1, CoreDuring
  <2>2. During!Cardinality(Missed(s, c)) = Cardinality(Missed(s, c))
    BY CoreDuring
  <2> QED BY <2>1, <2>2, <1>7, Zenon DEF Derive, During!Derive
<1>9. \A s, c : During!SettleIsDue(s, c) = SettleIsDue(s, c)
  BY <1>1, CoreDuring, Zenon DEF SettleIsDue, During!SettleIsDue
<1>10. ASSUME NEW s, NEW c PROVE During!Replay(s, c) = Replay(s, c)
  BY <1>2, ReplayDuring, <1>5 DEF Replay, During!Replay
<1>11. \A v : During!AtRisk(v) = AtRisk(v)
  BY CoreDuring, Zenon DEF AtRisk, During!AtRisk
<1>12. \A p, a : During!ReachesMin(p, a) = ReachesMin(p, a)
  BY Zenon DEF ReachesMin, During!ReachesMin
<1> QED
  BY <1>1, <1>2, <1>3, <1>5, <1>6, <1>8, <1>9, <1>10, <1>11, <1>12, Zenon

\* What commits while a read is under way is one of the operations that may.
LEMMA DuringIs ==
  ASSUME During!Next
  PROVE  \/ Advance
         \/ "record" \in OpsDuring /\ \E a \in Amounts : RecordCurrent(a)
         \/ "unrecord" \in OpsDuring /\ Unrecord
         \/ "recount" \in OpsDuring /\ Recount
         \/ "replace" \in OpsDuring /\ \E periods \in Histories : ReplaceHistory(periods)
         \/ "shift" \in OpsDuring /\ \E n \in ShiftDays : ShiftHistory(n)
         \/ "setfreezes" \in OpsDuring /\ \E n \in FreezeGrants : SetFreezes(n)
         \/ "settimezone" \in OpsDuring /\ \E z \in Zones : SetTimezone(z)
         \/ "repair" \in OpsDuring /\ Repair
         \/ "setreminder" \in OpsDuring /\ \E r \in Reminders \cup {NoReminder} : SetReminder(r)
         \/ "settle" \in OpsDuring /\ SettleDue
         \/ "remind" \in OpsDuring /\ RemindDue
<1>1. \A evs, types : During!OfType(evs, types) = OfType(evs, types)
  BY Zenon DEF OfType, During!OfType
<1>2. \A evs : During!PersistEvents(evs) = PersistEvents(evs)
  BY CoreDuring, Zenon DEF PersistEvents, During!PersistEvents, OfType, During!OfType,
     PeriodsOf, During!PeriodsOf, ChargeTypes, During!ChargeTypes
<1>3. \A p, a : During!AddMark(p, a) = AddMark(p, a)
  BY Zenon DEF AddMark, During!AddMark
<1>4. \A ledger : During!Earned(ledger) = Earned(ledger)
  BY Zenon DEF Earned, During!Earned, Period, During!Period
<1>5. \A ledger : During!Rebuild(ledger) = Rebuild(ledger)
  BY <1>2, <1>4, CoreDuring, StepsDuring, Zenon DEF Rebuild, During!Rebuild
<1>6. \A evs : During!LatestBreak(evs) = LatestBreak(evs)
  BY <1>1, Zenon DEF LatestBreak, During!LatestBreak
<1>7. \A m : During!Repairable(m) = Repairable(m)
  BY Zenon DEF Repairable, During!Repairable
<1>8. OpsDuring \subseteq Ops
  BY ReadsAssumption
<1>9. During!Advance => Advance
  BY Zenon DEF Advance, During!Advance
<1>10. ASSUME NEW a, During!RecordCurrent(a) PROVE "record" \in OpsDuring /\ RecordCurrent(a)
  BY <1>2, <1>3, <1>8, <1>10, CoreDuring, StepsDuring, Zenon DEF RecordCurrent, During!RecordCurrent
<1>11. During!Unrecord => "unrecord" \in OpsDuring /\ Unrecord
  BY <1>5, <1>8, CoreDuring, Zenon DEF Unrecord, During!Unrecord
<1>12. During!Recount => "recount" \in OpsDuring /\ Recount
  BY <1>5, <1>8, Zenon DEF Recount, During!Recount
<1>13. ASSUME NEW periods, During!ReplaceHistory(periods)
       PROVE  "replace" \in OpsDuring /\ ReplaceHistory(periods)
  BY <1>5, <1>8, <1>13, CoreDuring, Zenon DEF ReplaceHistory, During!ReplaceHistory
<1>14. ASSUME NEW n, During!ShiftHistory(n) PROVE "shift" \in OpsDuring /\ ShiftHistory(n)
  BY <1>2, <1>8, <1>14, CoreDuring, Zenon DEF ShiftHistory, During!ShiftHistory,
     Period, During!Period, NoDate, During!NoDate
<1>15. ASSUME NEW n, During!SetFreezes(n) PROVE "setfreezes" \in OpsDuring /\ SetFreezes(n)
  BY <1>2, <1>8, <1>15, Zenon DEF SetFreezes, During!SetFreezes
<1>16. ASSUME NEW z, During!SetTimezone(z) PROVE "settimezone" \in OpsDuring /\ SetTimezone(z)
  <2>1. During!Rezone(z) = Rezone(z)
    BY <1>2, CoreDuring, StepsDuring, Zenon DEF Rezone, During!Rezone
  <2> QED BY <1>8, <1>16, <2>1, Zenon DEF SetTimezone, During!SetTimezone
<1>17. During!Repair => "repair" \in OpsDuring /\ Repair
  BY <1>2, <1>6, <1>7, <1>8, CoreDuring, StepsDuring, Zenon DEF Repair, During!Repair
<1>18. ASSUME NEW r, During!SetReminder(r) PROVE "setreminder" \in OpsDuring /\ SetReminder(r)
  BY <1>2, <1>8, <1>18, Zenon DEF SetReminder, During!SetReminder
<1>19. During!SettleDue => "settle" \in OpsDuring /\ SettleDue
  <2>1. During!SettleOne = SettleOne
    BY <1>2, CoreDuring, StepsDuring, Zenon DEF SettleOne, During!SettleOne
  <2> QED BY <1>8, <2>1, CoreDuring, StepsDuring, Zenon DEF SettleDue, During!SettleDue
<1>20. During!RemindDue => "remind" \in OpsDuring /\ RemindDue
  <2>1. During!RemindOne = RemindOne
    BY <1>2, CoreDuring, StepsDuring, Zenon DEF RemindOne, During!RemindOne
  <2>2. During!ReminderIsDue = ReminderIsDue
    BY CoreDuring, Zenon DEF ReminderIsDue, During!ReminderIsDue,
       ReminderInstants, During!ReminderInstants
  <2> QED BY <1>8, <2>1, <2>2, Zenon DEF RemindDue, During!RemindDue
<1> QED
  BY <1>9, <1>10, <1>11, <1>12, <1>13, <1>14, <1>15, <1>16, <1>17, <1>18, <1>19, <1>20,
     CoreDuring, Zenon DEF During!Next

\* A read changes nothing: what is true of the engine is true beside a read.
THEOREM ReadsAreSteps == ReadsSpec => Spec
<1>1. ReadsNext => [Next]_vars
  <2>1. Get => UNCHANGED vars
    BY DEF Get
  <2>2. During!Next => Next
    BY DuringIs, Zenon DEF Next
  <2> QED BY <2>1, <2>2 DEF ReadsNext
<1>2. UNCHANGED <<vars, readVars>> => UNCHANGED vars
  OBVIOUS
<1> QED BY <1>1, <1>2, PTL DEF ReadsSpec, ReadsInit, Spec

-----------------------------------------------------------------------------
(***************************************************************************)
(* A read is honest.                                                       *)
(***************************************************************************)

\* The operations that leave a row resolved up to the present, or leave it alone.
ResolvingOps == {"record", "settimezone", "repair", "setreminder", "settle", "remind"}

\* The period a read is going to use, as far as is known.
ReadPeriod == PeriodKey(call.at, IF call.stage = "subject" THEN call.zone ELSE tz)

\* What the read has is good for something: its period has come for the subject, or
\* is resolved anyway, and the row, as it is, would be shown as it was at some
\* moment of the read.
Honest ==
  /\ call \in [stage : {"none", "clock", "subject"}, at : Time, zone : Zones]
  /\ call.stage # "none" =>
       /\ call.at <= now
       /\ ViewCount(st, Cur) \in seen /\ ViewCount(st, ReadPeriod) \in seen
       /\ ReadPeriod <= Cur \/ ResolvedUpTo(st, ReadPeriod) \/ 0 \in seen

\* The count of a row that nothing is pending for.
Known(s) == IF s.lastEarned = NoDate THEN 0 ELSE s.currentCount

\* A row is shown with its count, or as broken; and not as broken when it is
\* resolved, whatever the period it is read for.
LEMMA KnownCount ==
  ASSUME NEW s \in State, NEW c \in Period
  PROVE  /\ ViewCount(s, c) \in {0, Known(s)}
         /\ ResolvedUpTo(s, c) => ViewCount(s, c) = Known(s)
         /\ s.lastEarned = NoDate => ViewCount(s, c) = 0
<1> DEFINE n == Cardinality(Missed(s, c))
<1>1. s.currentCount \in Nat /\ n \in Nat
  BY ChargedFinite DEF State
<1>2. ResolvedUpTo(s, c) => n = 0
  <2>1. s.lastEarned \in Int /\ s.settledThrough \in Int /\ c \in Int
    BY CalendarAssumption DEF State, Date, Period, NoDate
  <2>2. ResolvedUpTo(s, c) => Missed(s, c) = {}
    BY <2>1 DEF Missed, ResolvedUpTo, Later
  <2> QED BY <2>2, FS_EmptySet
<1>3. ViewCount(s, c) = IF (s.lastEarned # NoDate /\ s.currentCount > 0)
                           /\ (n = 0 \/ (AutoConsume /\ n <= s.freezes))
                        THEN s.currentCount ELSE 0
  <2> HIDE DEF n
  <2>1. n = Cardinality(Missed(s, c))
    BY DEF n
  <2> QED BY <2>1, DeriveFields DEF ViewCount
<1> HIDE DEF n
<1> QED BY <1>1, <1>2, <1>3 DEF Known

\* What an operation does to the row beside a read: it leaves row and zone alone,
\* or there is no chain in it, or everything up to the present, in the old zone
\* and the new, is resolved, and what was resolved stays so.
LEMMA ResolvingStep ==
  ASSUME TypeOK, Sane, During!Next, OpsDuring \subseteq ResolvingOps
  PROVE  \/ st' = st /\ tz' = tz
         \/ now' = now /\ st' = st /\ st.lastEarned = NoDate
         \/ /\ now' = now
            /\ ResolvedUpTo(st', Cur) /\ ResolvedUpTo(st', Cur')
            /\ \A c \in Int : ResolvedUpTo(st, c) /\ st.lastEarned # NoDate =>
                              ResolvedUpTo(st', c)
<1> DEFINE Kept(s)     == \A c \in Int : ResolvedUpTo(st, c) /\ st.lastEarned # NoDate =>
                                        ResolvedUpTo(s, c)
           Resolved(s) == ResolvedUpTo(s, Cur) /\ Kept(s)
           settled     == Settle(st, Cur)
<1>1. st \in State /\ Cur \in Period /\ Cur \in Int /\ tz \in Zones
  BY CurType, CalendarAssumption DEF TypeOK, Period
<1>2. settled \in State /\ Resolved(settled)
  BY <1>1, SettleType, StaysResolved
\* More of the same on top keeps what is resolved.
<1>3. ASSUME NEW s \in State, Resolved(s), NEW p \in Period
      PROVE  /\ Apply(s, p) \in State /\ Resolved(Apply(s, p))
             /\ Forgive(s, p) \in State /\ Resolved(Forgive(s, p)) /\ ResolvedUpTo(Forgive(s, p), p)
  BY <1>1, <1>3, ApplyType, ForgiveType, StaysResolved
<1>4. ASSUME now' = now, tz' = tz, Resolved(st')
      PROVE  now' = now /\ ResolvedUpTo(st', Cur) /\ ResolvedUpTo(st', Cur') /\ Kept(st')
  BY <1>4 DEF Cur
<1>5. CASE Advance
  BY <1>5 DEF Advance
<1>6. ASSUME NEW a \in Amounts, RecordCurrent(a)
      PROVE  now' = now /\ tz' = tz /\ Resolved(st')
  BY <1>1, <1>2, <1>3, <1>6 DEF RecordCurrent
<1>7. ASSUME NEW z \in Zones, SetTimezone(z)
      PROVE  \/ now' = now /\ st' = st /\ st.lastEarned = NoDate
             \/ now' = now /\ Resolved(st') /\ ResolvedUpTo(st', Cur')
  <2>1. now' = now /\ tz' = z
    BY <1>7 DEF SetTimezone, Rezone
  <2>2. Cur' = PeriodKey(now, z) /\ PeriodKey(now, z) \in Period
    BY <2>1, CalendarAssumption DEF Cur, TypeOK, Period
  <2>3. CASE exists
    <3>1. st' = Forgive(settled, PeriodKey(now, z))
      BY <1>7, <2>3 DEF SetTimezone, Rezone
    <3> QED BY <1>2, <1>3, <2>1, <2>2, <3>1
  <2>4. CASE ~exists
    BY <1>7, <2>1, <2>4 DEF SetTimezone, Rezone, Sane, NewState
  <2> QED BY <2>3, <2>4
<1>8. ASSUME Repair
      PROVE  now' = now /\ tz' = tz /\ Resolved(st')
  <2> DEFINE n        == settled.currentCount + LatestBreak(SettleEvents(st, Cur)).count
             restored == [settled EXCEPT !.currentCount = n, !.longest = Later(@, n)]
  <2>1. st' = Forgive(restored, Cur) /\ now' = now /\ tz' = tz
    BY <1>8 DEF Repair
  <2>2. /\ restored.lastEarned = settled.lastEarned
        /\ restored.settledThrough = settled.settledThrough
    BY <1>2 DEF State
  <2>3. restored \in State
    <3>1. n \in Nat /\ Later(settled.longest, n) \in Nat
      BY <1>2, RepairCount DEF Later, State
    <3> QED BY <1>2, <3>1 DEF State
  <2>4. Resolved(restored)
    <3> HIDE DEF restored, settled
    <3> QED BY <1>2, <2>2 DEF ResolvedUpTo
  <2> HIDE DEF restored, settled
  <2> QED BY <1>1, <1>3, <2>1, <2>3, <2>4
<1>9. ASSUME NEW r, SetReminder(r) PROVE st' = st /\ tz' = tz
  BY <1>9 DEF SetReminder
<1>10. ASSUME SettleDue
       PROVE  now' = now /\ tz' = tz /\ Resolved(st')
  BY <1>2, <1>10 DEF SettleDue, SettleOne
<1>11. ASSUME RemindDue PROVE st' = st /\ tz' = tz
  BY <1>11 DEF RemindDue, RemindOne
<1>12. OpsDuring \cap {"unrecord", "recount", "replace", "shift", "setfreezes"} = {}
  BY DEF ResolvingOps
<1> QED
  BY <1>4, <1>5, <1>6, <1>7, <1>8, <1>9, <1>10, <1>11, <1>12, DuringIs

\* A row that is resolved up to two periods is shown alike for both.
LEMMA ResolvedAlike ==
  ASSUME NEW s \in State, NEW c \in Period, NEW d \in Period,
         ResolvedUpTo(s, c), ResolvedUpTo(s, d)
  PROVE  ViewCount(s, c) = ViewCount(s, d)
BY KnownCount

\* What commits during a read, and the passing of time, leave it honest.
LEMMA HonestDuring ==
  ASSUME TypeOK, TypeOK', Sane, Honest, OpsDuring \subseteq ResolvingOps, NeverBack,
         During!Next, UNCHANGED call, call.stage # "none",
         seen' = seen \cup {ViewCount(st, Cur)'}
  PROVE  Honest'
<1> DEFINE k == ReadPeriod
           s == st'
<1>1. /\ call.at \in Time /\ call.zone \in Zones /\ call.at <= now
      /\ ViewCount(st, Cur) \in seen /\ ViewCount(st, k) \in seen
      /\ k <= Cur \/ ResolvedUpTo(st, k) \/ 0 \in seen
  BY DEF Honest
<1>2. /\ st \in State /\ s \in State /\ Cur \in Period /\ Cur' \in Period
      /\ tz \in Zones /\ tz' \in Zones /\ now \in Time /\ now' \in Time
      /\ k \in Period /\ k' \in Period /\ Period \subseteq Int
  <2>1. /\ st \in State /\ s \in State /\ tz \in Zones /\ tz' \in Zones
        /\ now \in Time /\ now' \in Time
    BY DEF TypeOK
  <2>2. \A t \in Time, z \in Zones : PeriodKey(t, z) \in Period
    BY CalendarAssumption DEF Period
  <2>3. k' = PeriodKey(call.at, IF call.stage = "subject" THEN call.zone ELSE tz')
    BY Zenon DEF ReadPeriod, PeriodKey, Wall
  <2>4. k \in Period /\ k' \in Period
    BY <1>1, <2>1, <2>2, <2>3 DEF ReadPeriod
  <2>5. Cur' = PeriodKey(now', tz') /\ Period \subseteq Int
    BY CalendarAssumption DEF Cur, Period
  <2> QED BY <2>1, <2>2, <2>4, <2>5 DEF Cur
<1>3. ViewCount(st, Cur)' = ViewCount(s, Cur') /\ ViewCount(st, ReadPeriod)' = ViewCount(s, k')
      /\ ResolvedUpTo(st, ReadPeriod)' = ResolvedUpTo(s, k')
  OBVIOUS
<1>4. seen \subseteq seen' /\ ViewCount(s, Cur') \in seen'
  BY <1>3
<1>5. now <= now' /\ call.at <= now'
  <2>1. now' = now \/ now' = now + 1
    BY DuringIs DEF Advance, RecordCurrent, SetTimezone, Rezone, Repair, SetReminder, SettleDue,
       SettleOne, RemindDue, RemindOne, Unrecord, Recount, ReplaceHistory, ShiftHistory, SetFreezes
  <2> QED BY <1>1, <1>2, <2>1, CalendarAssumption DEF Time
<1>6. k' = k \/ k' <= Cur'
  BY <1>1, <1>2, <1>5 DEF ReadPeriod, NeverBack, Cur
<1>7. SUFFICES /\ ViewCount(s, k') \in seen'
               /\ k' <= Cur' \/ ResolvedUpTo(s, k') \/ 0 \in seen'
  BY <1>1, <1>3, <1>4, <1>5 DEF Honest
<1> HIDE DEF k, s
<1>8. CASE st.lastEarned = NoDate /\ s = st
  <2>1. ViewCount(s, k') = 0 /\ ViewCount(st, Cur) = 0
    BY <1>2, <1>8, KnownCount
  <2> QED BY <1>1, <1>4, <2>1
<1>9. CASE s = st /\ tz' = tz
  <2>1. k' = k
    BY <1>9 DEF k, ReadPeriod
  <2>2. Cur <= Cur'
    BY <1>2, <1>5, <1>9 DEF Cur, NeverBack
  <2> QED BY <1>1, <1>2, <1>4, <1>9, <2>1, <2>2
<1>10. CASE /\ ResolvedUpTo(s, Cur) /\ ResolvedUpTo(s, Cur')
            /\ \A c \in Int : ResolvedUpTo(st, c) /\ st.lastEarned # NoDate => ResolvedUpTo(s, c)
  <2>1. /\ s.lastEarned \in Int /\ s.settledThrough \in Int
    BY <1>2, CalendarAssumption DEF State, Date, Period, NoDate
  <2>2. ResolvedUpTo(s, k') \/ 0 \in seen'
    <3>1. CASE k' <= Cur'
      BY <1>2, <1>10, <2>1, <3>1 DEF ResolvedUpTo, Later
    <3>2. CASE k' = k /\ k <= Cur
      BY <1>2, <1>10, <2>1, <3>2 DEF ResolvedUpTo, Later
    <3>3. CASE k' = k /\ ResolvedUpTo(st, k) /\ st.lastEarned # NoDate
      BY <1>2, <1>10, <3>3
    <3>4. CASE st.lastEarned = NoDate
      <4>1. ViewCount(st, Cur) = 0
        BY <1>2, <3>4, KnownCount
      <4> QED BY <1>1, <1>4, <4>1
    <3> QED BY <1>1, <1>4, <1>6, <3>1, <3>2, <3>3, <3>4
  <2>3. ResolvedUpTo(s, k') => ViewCount(s, k') \in seen'
    BY <1>2, <1>4, <1>10, ResolvedAlike
  <2>4. 0 \in seen' => ViewCount(s, k') \in seen'
    BY <1>2, <1>4, <1>10, KnownCount
  <2> QED BY <2>2, <2>3, <2>4
<1> QED BY <1>8, <1>9, <1>10, ResolvingStep DEF s

\* What the read itself does leaves it honest.
LEMMA HonestGet ==
  ASSUME TypeOK, Honest, Get,
         seen' = IF call'.stage = "none" THEN {} ELSE seen \cup {ViewCount(st, Cur)'}
  PROVE  Honest'
<1>1. UNCHANGED vars /\ ReadPeriod' = PeriodKey(call.at, IF call.stage = "subject" THEN call.zone ELSE tz)'
  BY DEF Get, ReadPeriod
<1>2. st' = st /\ now' = now /\ tz' = tz /\ Cur' = Cur /\ now \in Time /\ tz \in Zones
      /\ Cur \in Int
  BY <1>1, CurType, CalendarAssumption DEF vars, Cur, TypeOK, Period, Time
<1>3. DefaultTZ \in Zones /\ 0 \in Time
  BY EngineAssumption, CalendarAssumption DEF Time
<1>4. CASE BeginGet
  <2>1. call' = [stage |-> "clock", at |-> now, zone |-> DefaultTZ]
    BY <1>4 DEF BeginGet, NoCall
  <2>2. ReadPeriod' = Cur
    BY <1>2, <2>1 DEF ReadPeriod, Cur
  <2>3. now <= now /\ ViewCount(st, Cur)' = ViewCount(st, Cur) /\ ViewCount(st, ReadPeriod)' = ViewCount(st, Cur)
        /\ Cur <= Cur
    BY <1>2, <2>2, CalendarAssumption DEF Time
  <2> QED BY <1>2, <1>3, <2>1, <2>2, <2>3 DEF Honest
<1>5. CASE GetSubject
  <2>1. call' = [call EXCEPT !.stage = "subject", !.zone = tz] /\ call.stage = "clock"
    BY <1>5 DEF GetSubject
  <2>2. /\ call' \in [stage : {"none", "clock", "subject"}, at : Time, zone : Zones]
        /\ call'.stage = "subject" /\ call'.at = call.at /\ call'.zone = tz
    BY <1>2, <2>1 DEF Honest
  <2>3. ReadPeriod' = ReadPeriod
    BY <1>1, <1>2, <2>1, <2>2 DEF ReadPeriod
  <2>4. /\ ViewCount(st, Cur)' = ViewCount(st, Cur)
        /\ ViewCount(st, ReadPeriod)' = ViewCount(st, ReadPeriod)
        /\ ResolvedUpTo(st, ReadPeriod)' = ResolvedUpTo(st, ReadPeriod)
    BY <1>2, <2>3
  <2> QED BY <1>2, <2>1, <2>2, <2>3, <2>4 DEF Honest
<1>6. CASE GetStreak \/ AbandonGet
  BY <1>3, <1>6 DEF GetStreak, AbandonGet, NoCall, Honest
<1> QED BY <1>4, <1>5, <1>6 DEF Get

\* A read is honest (read.go:10-11): though its clock, its zone and its row are of
\* three different moments, the count it shows is one the subject had at some moment
\* of the read, whatever resolving operations commit beside it.
THEOREM ReadHonestCorrect ==
  ASSUME OpsDuring \subseteq ResolvingOps, NeverBack
  PROVE  ReadsSpec => ReadHonest
<1> DEFINE Shown == call.stage = "subject" /\ GetStreak /\ UNCHANGED vars =>
                      ViewCount(st, PeriodKey(call.at, call.zone)) \in seen
<1>1. ReadsInit => Honest
  <2>1. DefaultTZ \in Zones /\ 0 \in Time
    BY EngineAssumption, CalendarAssumption DEF Time
  <2> QED BY <2>1 DEF ReadsInit, NoCall, Honest
<1>2. TypeOK /\ TypeOK' /\ Sane /\ Honest /\ [ReadsNext]_<<vars, readVars>> => Honest'
  <2> SUFFICES ASSUME TypeOK, TypeOK', Sane, Honest, [ReadsNext]_<<vars, readVars>>
               PROVE  Honest'
    OBVIOUS
  <2>1. CASE UNCHANGED <<vars, readVars>>
    BY <2>1 DEF vars, readVars, Honest, ReadPeriod, Cur
  <2>2. CASE Get /\ seen' = IF call'.stage = "none" THEN {} ELSE seen \cup {ViewCount(st, Cur)'}
    BY <2>2, HonestGet
  <2>3. CASE call.stage = "none" /\ UNCHANGED call
    BY <2>3 DEF Honest
  <2>4. CASE /\ call.stage # "none" /\ During!Next /\ UNCHANGED call
             /\ seen' = IF call'.stage = "none" THEN {} ELSE seen \cup {ViewCount(st, Cur)'}
    BY <2>4, HonestDuring
  <2> QED BY <2>1, <2>2, <2>3, <2>4 DEF ReadsNext
<1>3. Honest => Shown
  BY DEF Honest, ReadPeriod
<1>4. ReadsSpec => []TypeOK /\ []Sane
  BY ReadsAreSteps, TypeCorrect, SaneCorrect, PTL
<1>5. ReadsSpec => []Honest
  BY <1>1, <1>2, <1>4, PTL DEF ReadsSpec
<1>6. Honest => [Shown]_<<vars, readVars>>
  BY <1>3
<1> QED BY <1>5, <1>6, PTL DEF ReadHonest
=============================================================================
