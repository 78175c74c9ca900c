------------------------- MODULE StreakLedgerProofs -------------------------
(***************************************************************************)
(* Theorems about StreakEngine and the replay of its ledger: the row kept  *)
(* incrementally is the row a replay would give.                           *)
(***************************************************************************)
EXTENDS StreakEngineProofs

(***************************************************************************)
(* The replay, period by period.                                           *)
(***************************************************************************)

\* Induction from a to b over a set of naturals.
LEMMA UpwardInduction ==
  ASSUME NEW a \in Nat, NEW b \in Nat, NEW Good, a \in Good,
         \A i \in a..b : i < b /\ i \in Good => i + 1 \in Good
  PROVE  \A i \in a..b : i \in Good
<1> DEFINE Bad == {i \in a..b : i \notin Good}
<1> SUFFICES ASSUME Bad # {} PROVE FALSE
  OBVIOUS
<1>1. PICK i \in Bad : \A j \in Bad : ~(j < i)
  <2>1. Bad \subseteq Nat
    OBVIOUS
  <2> HIDE DEF Bad
  <2> QED BY <2>1, LeastNatural
<1>2. i # a /\ i - 1 \in a..b /\ i - 1 < i /\ i - 1 < b /\ (i - 1) + 1 = i
  BY <1>1
<1>3. i - 1 \in Good
  BY <1>1, <1>2
<1>4. (i - 1) + 1 \in Good
  BY <1>2, <1>3
<1> QED BY <1>1, <1>2, <1>4

\* One step of the replay of a ledger.
LEMMA ReplayAt ==
  ASSUME NEW earned, NEW p \in Period
  PROVE  /\ p - 1 \in 0..LastPeriod /\ p \in 0..LastPeriod
         /\ ReplayUpTo(earned)[p] = ReplayStep(ReplayUpTo(earned)[p - 1], earned, p)
         /\ ReplayUpTo(earned)[p - 1] \in State /\ ReplayUpTo(earned)[p] \in State
<1>1. p - 1 \in 0..LastPeriod /\ p \in 0..LastPeriod /\ p \in 1..LastPeriod
  BY CalendarAssumption DEF Period
<1> QED BY <1>1, ReplayRuns DEF IsRun

\* Periods without an earn leave the replay where it was.
LEMMA ReplayQuiet ==
  ASSUME NEW earned, NEW a \in 0..LastPeriod,
         \A p \in Period : p > a => p \notin earned
  PROVE  ReplayUpTo(earned)[LastPeriod] = ReplayUpTo(earned)[a]
<1> DEFINE R == ReplayUpTo(earned)
           Good == {i \in a..LastPeriod : R[i] = R[a]}
<1>1. a \in Nat /\ LastPeriod \in Nat /\ a <= LastPeriod
  BY CalendarAssumption
<1>2. a \in Good
  BY <1>1
<1>3. ASSUME NEW i \in a..LastPeriod, i < LastPeriod, i \in Good PROVE i + 1 \in Good
  <2>1. i + 1 \in Period /\ i + 1 > a /\ i + 1 \in a..LastPeriod /\ (i + 1) - 1 = i
    BY <1>1, <1>3 DEF Period
  <2>2. R[i + 1] = ReplayStep(R[i], earned, i + 1)
    BY <2>1, ReplayAt
  <2>3. R[i + 1] = R[i]
    BY <2>1, <2>2 DEF ReplayStep
  <2> QED BY <1>3, <2>1, <2>3
<1> HIDE DEF Good
<1>4. LastPeriod \in Good
  BY <1>1, <1>2, <1>3, UpwardInduction
<1> QED BY <1>4 DEF Good

\* Ledgers that agree up to a period replay alike up to it.
LEMMA ReplayPrefix ==
  ASSUME NEW earned, NEW other, NEW b \in 0..LastPeriod,
         \A p \in Period : p <= b => (p \in earned <=> p \in other)
  PROVE  ReplayUpTo(earned)[b] = ReplayUpTo(other)[b]
<1> DEFINE R == ReplayUpTo(earned)
           Q == ReplayUpTo(other)
           Good == {i \in 0..b : R[i] = Q[i]}
<1>1. 0 \in Nat /\ b \in Nat /\ LastPeriod \in Nat /\ b <= LastPeriod
  BY CalendarAssumption
<1>2. 0 \in Good
  BY <1>1, ReplayRuns DEF IsRun
<1>3. ASSUME NEW i \in 0..b, i < b, i \in Good PROVE i + 1 \in Good
  <2>1. i + 1 \in Period /\ i + 1 <= b /\ i + 1 \in 0..b /\ (i + 1) - 1 = i
    BY <1>1, <1>3 DEF Period
  <2>2. /\ R[i + 1] = ReplayStep(R[i], earned, i + 1)
        /\ Q[i + 1] = ReplayStep(Q[i], other, i + 1)
    BY <2>1, ReplayAt
  <2>3. R[i + 1] = Q[i + 1]
    BY <1>3, <2>1, <2>2 DEF ReplayStep
  <2> QED BY <2>1, <2>3
<1> HIDE DEF Good
<1>4. b \in Good
  BY <1>1, <1>2, <1>3, UpwardInduction
<1> QED BY <1>4 DEF Good

\* The replay up to a period has earned nothing after it.
LEMMA ReplayLastEarned ==
  ASSUME NEW earned, NEW b \in 0..LastPeriod
  PROVE  ReplayUpTo(earned)[b].lastEarned <= b
<1> DEFINE R == ReplayUpTo(earned)
           Good == {i \in 0..b : R[i].lastEarned <= i}
<1>1. 0 \in Nat /\ b \in Nat /\ LastPeriod \in Nat /\ b <= LastPeriod
  BY CalendarAssumption
<1>2. 0 \in Good
  BY <1>1, ReplayRuns DEF IsRun, NewState, NoDate
<1>3. ASSUME NEW i \in 0..b, i < b, i \in Good PROVE i + 1 \in Good
  <2>1. i + 1 \in Period /\ i + 1 \in 0..b /\ (i + 1) - 1 = i
    BY <1>1, <1>3 DEF Period
  <2>2. R[i + 1] = ReplayStep(R[i], earned, i + 1) /\ R[i] \in State
    BY <2>1, ReplayAt
  <2>3. R[i + 1].lastEarned \in {R[i].lastEarned, i + 1}
    <3>1. CASE i + 1 \in earned
      <4>1. Settle(R[i], i + 1) \in State /\ Settle(R[i], i + 1).lastEarned = R[i].lastEarned
        BY <2>1, <2>2, SettleType, SettlePointer
      <4> QED BY <2>1, <2>2, <3>1, <4>1, ApplyFields DEF ReplayStep
    <3>2. CASE i + 1 \notin earned
      BY <2>2, <3>2 DEF ReplayStep
    <3> QED BY <3>1, <3>2
  <2>4. R[i].lastEarned \in Int
    BY <2>2, CalendarAssumption DEF State, Date, Period, NoDate
  <2>5. R[i + 1].lastEarned <= i + 1
    BY <1>3, <2>3, <2>4
  <2> QED BY <2>1, <2>5
<1> HIDE DEF Good
<1>4. b \in Good
  BY <1>1, <1>2, <1>3, UpwardInduction
<1> QED BY <1>4 DEF Good

\* A ledger without future periods that has earned today replays as yesterday's
\* ledger does, and then earns today.
LEMMA ReplayToday ==
  ASSUME NEW earned, NEW cur \in Period, cur \in earned,
         \A p \in Period : p > cur => p \notin earned
  PROVE  LET before == Replay(earned \ {cur}, cur)
         IN  /\ Replay(earned, cur) = Settle(Apply(before, cur), cur)
             /\ before \in State
             /\ before.lastEarned < cur
<1> DEFINE y == cur - 1
           s == ReplayUpTo(earned)[y]
<1>1. /\ cur \in Nat /\ cur \in 0..LastPeriod /\ y \in 0..LastPeriod /\ y < cur
      /\ s \in State
  BY ReplayAt, CalendarAssumption DEF Period
<1>2. ReplayUpTo(earned)[LastPeriod] = ReplayUpTo(earned)[cur]
  BY <1>1, ReplayQuiet
<1>3. ReplayUpTo(earned)[cur] = Apply(Settle(s, cur), cur)
  BY ReplayAt DEF ReplayStep
<1>4. ReplayUpTo(earned \ {cur})[LastPeriod] = ReplayUpTo(earned \ {cur})[y]
  <2>1. \A p \in Period : p > y => p \notin earned \ {cur}
    BY <1>1 DEF Period
  <2> QED BY <1>1, <2>1, ReplayQuiet
<1>5. ReplayUpTo(earned \ {cur})[y] = s
  <2>1. \A p \in Period : p <= y => (p \in earned \ {cur} <=> p \in earned)
    BY <1>1 DEF Period
  <2> QED BY <1>1, <2>1, ReplayPrefix
<1>6. Replay(earned \ {cur}, cur) = Settle(s, cur)
  BY <1>4, <1>5 DEF Replay
<1>7. s.lastEarned < cur
  <2>1. s.lastEarned <= y /\ s.lastEarned \in Int
    BY <1>1, ReplayLastEarned, CalendarAssumption DEF State, Date, Period, NoDate
  <2> QED BY <1>1, <2>1
<1>8. Settle(s, cur) \in State /\ Settle(s, cur).lastEarned = s.lastEarned
  BY <1>1, SettleType, SettlePointer
<1> QED BY <1>2, <1>3, <1>6, <1>7, <1>8 DEF Replay

\* What was earned today is the last thing earned.
LEMMA ReplayEarnedToday ==
  ASSUME NEW earned, NEW cur \in Period, cur \in earned,
         \A p \in Period : p > cur => p \notin earned
  PROVE  LET before == Replay(earned \ {cur}, cur)
             after  == Replay(earned, cur)
         IN  /\ ScheduledOn(cur) =>
                  /\ after.lastEarned = cur
                  /\ after.currentCount = before.currentCount + 1
             /\ ~ScheduledOn(cur) => after = before
<1> DEFINE b == Replay(earned \ {cur}, cur)
           t == Apply(b, cur)
<1>1. /\ Replay(earned, cur) = Settle(t, cur) /\ b \in State /\ b.lastEarned < cur
  BY ReplayToday
<1>2. t \in State
  BY <1>1, ApplyType
<1>3. CASE ScheduledOn(cur)
  <2>1. t.currentCount = b.currentCount + 1 /\ t.lastEarned = cur
    BY <1>1, <1>3, ApplyFields DEF Earns
  <2>2. cur \in Int /\ cur # NoDate
    BY CalendarAssumption DEF Period, NoDate
  <2> HIDE DEF t
  <2>3. Cardinality(Missed(t, cur)) = 0
    BY <1>2, <2>1, <2>2, NothingMissed
  <2>4. t.freezes \in Nat
    BY <1>2 DEF State
  <2>5. Settle(t, cur).currentCount = t.currentCount /\ Settle(t, cur).lastEarned = cur
    BY <1>2, <2>1, <2>2, <2>3, <2>4, SettleFields
  <2> QED BY <1>1, <1>3, <2>1, <2>5
<1>4. CASE ~ScheduledOn(cur)
  <2>1. t = b
    BY <1>1, <1>4, ApplyFields DEF Earns
  <2>2. Settle(b, cur) = b
    <3>1. ReplayUpTo(earned \ {cur})[LastPeriod] \in State
      BY ReplayRuns, CalendarAssumption DEF IsRun
    <3>2. cur <= cur
      BY CalendarAssumption DEF Period
    <3> QED BY <3>1, <3>2, SettleComposes DEF Replay
  <2> QED BY <1>1, <1>4, <2>1, <2>2
<1> QED BY <1>3, <1>4

\* A replay is settled, and settling it later is replaying it later.
LEMMA ReplayLater ==
  ASSUME NEW earned, NEW cur \in Period, NEW c \in Period, cur <= c
  PROVE  Settle(Replay(earned, cur), c) = Replay(earned, c)
<1>1. ReplayUpTo(earned)[LastPeriod] \in State
  BY ReplayRuns, CalendarAssumption DEF IsRun
<1> QED BY <1>1, SettleComposes DEF Replay

-----------------------------------------------------------------------------
(***************************************************************************)
(* The row and its ledger.                                                 *)
(***************************************************************************)

\* The subject stays in one zone, whose clock never shows an earlier period than
\* before, and the histories that are imported are over when the clock starts.
AtHome ==
  /\ "settimezone" \notin Ops
  /\ \A t \in Time : t < Horizon => PeriodKey(t, DefaultTZ) <= PeriodKey(t + 1, DefaultTZ)
  /\ \A h \in Histories : \A p \in h : p <= PeriodKey(0, DefaultTZ)

\* The operations that say more than the ledger does: a replay cannot know of a
\* repair or of a freeze that was given.
UntoldOps == {"repair", "setfreezes"}

\* No shift makes a rest day of an active one: every day is active, or days are
\* shifted by whole weeks.
ShiftsKeepWeekdays == ActiveDays = 0..6 \/ \A n \in ShiftDays : n % 7 = 0

\* The subject stays at home, reports in time, and all is told in the ledger.
HomeLedger ==
  /\ AtHome /\ Ops \cap UntoldOps = {} /\ Delays = {}
  /\ "shift" \in Ops => ShiftsKeepWeekdays

\* The row, settled, is the replay of the ledger, which has no period to come.
LedgerInv ==
  /\ tz = DefaultTZ
  /\ Live = Replay(Earned(marks), Cur)
  /\ \A p \in Earned(marks) : p <= Cur
  /\ PeriodKey(0, DefaultTZ) <= Cur

\* The inductive step where the clock and the ledger stay and the row is settled
\* or stays.
LEMMA LedgerKept ==
  ASSUME TypeOK, LedgerInv, now' = now, tz' = tz, marks' = marks,
         st' \in {st, Settle(st, Cur)}
  PROVE  LedgerInv'
<1>1. st \in State /\ Cur \in Period /\ Cur' = Cur /\ Cur <= Cur
  BY CurType, CalendarAssumption DEF TypeOK, Cur, Period
<1>2. Live' = Live
  BY <1>1, SettleComposes DEF Live
<1>3. Earned(marks)' = Earned(marks)
  OBVIOUS
<1> QED BY <1>1, <1>2, <1>3 DEF LedgerInv

\* The inductive step of an operation that replays a ledger of past periods.
LEMMA LedgerRebuilt ==
  ASSUME TypeOK, LedgerInv, NEW ledger, Rebuild(ledger), now' = now, tz' = tz,
         \A p \in Earned(ledger) : p <= Cur
  PROVE  LedgerInv'
<1>1. Cur \in Period /\ Cur' = Cur /\ Cur <= Cur
  BY CurType, CalendarAssumption DEF TypeOK, Cur, Period
<1>2. Live' = Replay(Earned(ledger), Cur)
  BY <1>1, ReplayLater DEF Rebuild, Live
<1>3. Earned(marks)' = Earned(ledger)
  BY DEF Rebuild
<1> QED BY <1>1, <1>2, <1>3 DEF LedgerInv

\* A mark of today that reaches the threshold is earned, once.
LEMMA RecordReplays ==
  ASSUME TypeOK, LedgerInv, NEW a \in Amounts, RecordCurrent(a)
  PROVE  LedgerInv'
<1> DEFINE E == Earned(marks)
           settled == Settle(st, Cur)
<1>1. /\ st \in State /\ Cur \in Period /\ Cur' = Cur /\ Cur <= Cur
      /\ marks \in [Period -> 0..MaxAmount] /\ settled \in State /\ a \in Nat
      /\ settled = Replay(E, Cur)
  BY CurType, SettleType, CalendarAssumption, EngineAssumption
     DEF TypeOK, Cur, Period, RecordCurrent, LedgerInv, Live
<1>2. /\ marks' = [marks EXCEPT ![Cur] = @ + a]
      /\ tz' = tz /\ now' = now
      /\ st' = IF marks[Cur] + a >= MinAmount THEN Apply(settled, Cur) ELSE settled
  BY DEF RecordCurrent, AddMark, ReachesMin
<1>3. Earned(marks)' = IF marks[Cur] + a >= MinAmount THEN E \cup {Cur} ELSE E
  <2>1. MinAmount \in Nat /\ marks[Cur] \in Nat
    BY <1>1, EngineAssumption
  <2>2. /\ marks'[Cur] = marks[Cur] + a
        /\ \A p \in Period : p # Cur => marks'[p] = marks[p]
    BY <1>1, <1>2
  <2>3. Cur \in E => marks[Cur] + a >= MinAmount
    BY <1>1, <2>1 DEF Earned
  <2>4. \A p \in Period : p \in Earned(marks)' <=>
           p \in (IF marks[Cur] + a >= MinAmount THEN E \cup {Cur} ELSE E)
    <3>1. Earned(marks)' = {p \in Period : marks'[p] >= MinAmount}
      BY DEF Earned
    <3> HIDE <1>2
    <3> QED BY <2>2, <2>3, <3>1 DEF Earned
  <2> QED BY <1>1, <2>4 DEF Earned
<1>4. \A p \in Earned(marks)' : p <= Cur
  BY <1>1, <1>3 DEF LedgerInv
<1>5. Live' = Replay(Earned(marks)', Cur)
  <2>1. Live' = Settle(st', Cur)
    BY <1>1 DEF Live
  <2>2. CASE ~(marks[Cur] + a >= MinAmount)
    BY <1>1, <1>2, <1>3, <2>1, <2>2, SettleComposes
  <2>3. CASE marks[Cur] + a >= MinAmount /\ Cur \notin E
    <3> DEFINE F == Earned(marks)'
    <3>1. F \ {Cur} = E /\ Cur \in F
      BY <1>3, <2>3
    <3>2. \A p \in Period : p > Cur => p \notin F
      BY <1>1, <1>4 DEF Period
    <3> HIDE DEF F
    <3>3. Replay(F, Cur) = Settle(Apply(Replay(E, Cur), Cur), Cur)
      BY <1>1, <3>1, <3>2, ReplayToday
    <3> QED BY <1>1, <1>2, <2>1, <2>3, <3>3 DEF F
  <2>4. CASE marks[Cur] + a >= MinAmount /\ Cur \in E
    <3>1. Earned(marks)' = E
      BY <1>3, <2>4
    <3>2. ~Earns(settled, Cur)
      <4>1. \A p \in Period : p > Cur => p \notin E
        BY <1>1 DEF LedgerInv, Period
      <4>2. ScheduledOn(Cur) => settled.lastEarned = Cur
        BY <1>1, <2>4, <4>1, ReplayEarnedToday
      <4> QED BY <1>1, <4>2 DEF Earns, Period
    <3>3. st' = settled
      BY <1>1, <1>2, <2>4, <3>2, ApplyFields
    <3> QED BY <1>1, <2>1, <3>1, <3>3, SettleComposes
  <2> QED BY <2>2, <2>3, <2>4
<1> QED BY <1>1, <1>2, <1>4, <1>5 DEF LedgerInv

-----------------------------------------------------------------------------
(***************************************************************************)
(* A shifted ledger.                                                       *)
(***************************************************************************)

\* A date, and a row, n days earlier.
Earlier(date, n) == IF date = NoDate THEN NoDate ELSE date - n

Shifted(s, n) == [s EXCEPT !.lastEarned = Earlier(@, n), !.settledThrough = Earlier(@, n)]

\* No date of the row falls out of the calendar when it is shifted.
Movable(s, n) ==
  /\ s.lastEarned = NoDate \/ s.lastEarned > n
  /\ s.settledThrough = NoDate \/ s.settledThrough >= n

\* Two rows with the same counters.
SameCounters(s, t) ==
  /\ s.currentCount = t.currentCount /\ s.longest = t.longest
  /\ s.freezes = t.freezes /\ s.freezeProgress = t.freezeProgress

LEMMA ShiftedType ==
  ASSUME NEW s \in State, NEW n \in Nat \ {0}, Movable(s, n)
  PROVE  /\ Shifted(s, n) \in State
         /\ Shifted(s, n).lastEarned = Earlier(s.lastEarned, n)
         /\ Shifted(s, n).settledThrough = Earlier(s.settledThrough, n)
         /\ SameCounters(Shifted(s, n), s)
<1>1. Earlier(s.lastEarned, n) \in Date /\ Earlier(s.settledThrough, n) \in Date
  BY CalendarAssumption DEF Earlier, Movable, State, Date, Period, NoDate
<1> QED BY <1>1 DEF Shifted, State, SameCounters

\* A shift of whole weeks keeps the weekdays.
LEMMA ShiftedDay ==
  ASSUME ShiftsKeepWeekdays, NEW n \in ShiftDays, NEW p \in Int
  PROVE  ScheduledOn(p + n) = ScheduledOn(p)
<1>1. n \in Nat
  BY EngineAssumption
<1>2. p % 7 \in 0..6 /\ (p + n) % 7 \in 0..6
  BY <1>1
<1>3. n % 7 = 0 => (p + n) % 7 = p % 7
  BY <1>1
<1> QED BY <1>2, <1>3 DEF ShiftsKeepWeekdays, ScheduledOn

\* As many periods were missed, n days earlier.
LEMMA ShiftedMissed ==
  ASSUME ShiftsKeepWeekdays, NEW n \in ShiftDays, NEW s \in State, Movable(s, n),
         NEW p \in Period, p + n \in Period, s.lastEarned # NoDate
  PROVE  Cardinality(Missed(Shifted(s, n), p)) = Cardinality(Missed(s, p + n))
<1> DEFINE S == Missed(s, p + n)
           T == Missed(Shifted(s, n), p)
           f == [q \in S |-> q - n]
           from == Later(s.lastEarned, s.settledThrough)
<1>1. /\ n \in Nat \ {0} /\ p \in Int /\ from \in Int
      /\ s.lastEarned \in Int /\ s.settledThrough \in Int
  BY EngineAssumption, CalendarAssumption DEF State, Date, Period, NoDate, Later
<1>2. Later(Shifted(s, n).lastEarned, Shifted(s, n).settledThrough) = from - n
  BY <1>1, ShiftedType DEF Earlier, Movable, Later, NoDate
<1>3. \A q \in Int : q \in T <=> from - n < q /\ q < p /\ ScheduledOn(q)
  BY <1>1, <1>2 DEF Missed
<1>4. \A q \in Int : q \in S <=> from < q /\ q < p + n /\ ScheduledOn(q)
  BY <1>1 DEF Missed
<1>5. S \subseteq Int /\ T \subseteq Int
  BY <1>1, <1>2 DEF Missed
<1> HIDE DEF S, T, from
<1>6. \A q \in S : q - n \in T
  <2> SUFFICES ASSUME NEW q \in S PROVE q - n \in T
    OBVIOUS
  <2>1. q - n \in Int /\ q \in Int /\ (q - n) + n = q
    BY <1>1, <1>5
  <2>2. ScheduledOn(q - n) = ScheduledOn(q)
    BY <2>1, ShiftedDay
  <2> QED BY <1>1, <1>3, <1>4, <2>1, <2>2
<1>7. \A r \in T : r + n \in S
  <2> SUFFICES ASSUME NEW r \in T PROVE r + n \in S
    OBVIOUS
  <2>1. r + n \in Int /\ r \in Int /\ ScheduledOn(r + n) = ScheduledOn(r)
    BY <1>1, <1>5, ShiftedDay
  <2> QED BY <1>1, <1>3, <1>4, <2>1
<1>8. f \in Bijection(S, T)
  <2>1. f \in [S -> T] /\ \A a, b \in S : f[a] = f[b] => a = b
    BY <1>1, <1>5, <1>6
  <2>2. \A r \in T : \E q \in S : f[q] = r
    <3> SUFFICES ASSUME NEW r \in T PROVE f[r + n] = r /\ r + n \in S
      BY <1>7
    <3> QED BY <1>1, <1>5, <1>7
  <2> HIDE DEF f
  <2> QED BY <2>1, <2>2 DEF Bijection, Injection, Surjection, IsInjective
<1>9. IsFiniteSet(S)
  BY ChargedFinite DEF S
<1> HIDE DEF f
<1>10. Cardinality(T) = Cardinality(S)
  BY <1>8, <1>9, FS_Bijection DEF ExistsBijection
<1> QED BY <1>10 DEF S, T

\* Settling a shifted row is shifting the settled one.
LEMMA ShiftedSettle ==
  ASSUME ShiftsKeepWeekdays, NEW n \in ShiftDays, NEW s \in State, Movable(s, n),
         NEW p \in Period, p + n \in Period
  PROVE  /\ Settle(Shifted(s, n), p) = Shifted(Settle(s, p + n), n)
         /\ Movable(Settle(s, p + n), n)
<1> DEFINE t == Settle(s, p + n)
           u == Settle(Shifted(s, n), p)
<1>1. /\ n \in Nat \ {0} /\ p \in Int /\ p >= 1 /\ t \in State
      /\ Shifted(s, n) \in State /\ u \in State
      /\ s.lastEarned \in Nat /\ s.settledThrough \in Nat
  BY EngineAssumption, CalendarAssumption, ShiftedType, SettleType
     DEF State, Date, Period, NoDate
<1>2. /\ t.lastEarned = s.lastEarned
      /\ t.settledThrough = IF s.lastEarned = NoDate THEN p + n - 1
                            ELSE Later(s.settledThrough, p + n - 1)
      /\ u.lastEarned = Earlier(s.lastEarned, n)
      /\ u.settledThrough = IF s.lastEarned = NoDate THEN p - 1
                            ELSE Later(Earlier(s.settledThrough, n), p - 1)
  BY <1>1, ShiftedType, SettlePointer DEF Earlier, Movable, NoDate
<1>3. Movable(t, n)
  BY <1>1, <1>2 DEF Movable, Later, NoDate
<1>4. Earlier(t.settledThrough, n) = u.settledThrough
  BY <1>1, <1>2 DEF Earlier, Movable, Later, NoDate
<1>5. SameCounters(u, t)
  <2>1. CASE s.lastEarned = NoDate
    <3>1. Shifted(s, n).lastEarned = NoDate
      BY <1>1, <2>1, ShiftedType DEF Earlier
    <3>2. SameCounters(u, Shifted(s, n))
      BY <1>1, <3>1, SettleIdle DEF SameCounters
    <3>3. SameCounters(t, s)
      BY <2>1, SettleIdle DEF SameCounters
    <3>4. SameCounters(Shifted(s, n), s)
      BY <1>1, ShiftedType
    <3> HIDE DEF t, u
    <3> QED BY <3>2, <3>3, <3>4 DEF SameCounters
  <2>2. CASE s.lastEarned # NoDate
    <3> DEFINE k == Cardinality(Missed(s, p + n))
    <3>1. k = Cardinality(Missed(Shifted(s, n), p)) /\ Shifted(s, n).lastEarned # NoDate
      BY <1>1, <2>2, ShiftedMissed, ShiftedType DEF Earlier, Movable, NoDate
    <3>2. k = Cardinality(Missed(s, p + n))
      OBVIOUS
    <3> HIDE DEF k
    <3>3. SameCounters(Shifted(s, n), s)
      BY <1>1, ShiftedType
    <3> DEFINE breaks == s.currentCount > 0 /\ k > (IF AutoConsume THEN s.freezes ELSE 0)
               count  == IF breaks THEN 0 ELSE s.currentCount
               prog   == IF breaks THEN 0 ELSE s.freezeProgress
               stock  == IF s.currentCount = 0 \/ ~AutoConsume THEN s.freezes
                         ELSE IF breaks THEN 0 ELSE s.freezes - k
    <3>4. /\ t.currentCount = count /\ t.freezeProgress = prog /\ t.freezes = stock
          /\ t.longest = s.longest
      BY <2>2, <3>2, SettleFields
    <3>5. /\ u.currentCount = count /\ u.freezeProgress = prog /\ u.freezes = stock
          /\ u.longest = s.longest
      <4> DEFINE x == Shifted(s, n)
      <4>1. x \in State /\ k = Cardinality(Missed(x, p)) /\ x.lastEarned # NoDate
            /\ SameCounters(x, s) /\ u = Settle(x, p)
        BY <1>1, <3>1, <3>3
      <4> HIDE DEF x, u
      <4> QED BY <4>1, SettleFields DEF SameCounters
    <3> HIDE DEF t, u, count, prog, stock
    <3> QED BY <3>4, <3>5 DEF SameCounters
  <2> QED BY <2>1, <2>2
<1>6. Shifted(t, n) \in State
      /\ Shifted(t, n).lastEarned = u.lastEarned /\ Shifted(t, n).settledThrough = u.settledThrough
      /\ SameCounters(Shifted(t, n), u)
  BY <1>1, <1>2, <1>3, <1>4, <1>5, ShiftedType DEF SameCounters
<1> HIDE DEF t, u
<1>7. u = Shifted(t, n)
  BY <1>1, <1>6 DEF State, SameCounters
<1> QED BY <1>3, <1>7 DEF t, u

\* So is earning in it.
LEMMA ShiftedApply ==
  ASSUME ShiftsKeepWeekdays, NEW n \in ShiftDays, NEW s \in State, Movable(s, n),
         NEW p \in Period, p + n \in Period
  PROVE  /\ Apply(Shifted(s, n), p) = Shifted(Apply(s, p + n), n)
         /\ Movable(Apply(s, p + n), n)
<1> DEFINE t == Shifted(s, n)
<1>1. /\ n \in Nat \ {0} /\ p \in Int /\ p >= 1 /\ t \in State
      /\ s.lastEarned \in Nat /\ s.settledThrough \in Nat
      /\ t.lastEarned = Earlier(s.lastEarned, n)
      /\ t.settledThrough = Earlier(s.settledThrough, n) /\ SameCounters(t, s)
  BY EngineAssumption, CalendarAssumption, ShiftedType DEF State, Date, Period, NoDate
<1>2. Earns(t, p) <=> Earns(s, p + n)
  <2>1. ScheduledOn(p + n) = ScheduledOn(p)
    BY <1>1, ShiftedDay
  <2>2. t.lastEarned < p <=> s.lastEarned < p + n
    BY <1>1 DEF Earlier, NoDate
  <2> QED BY <2>1, <2>2 DEF Earns
<1>3. Apply(s, p + n) \in State /\ Apply(t, p) \in State
  BY <1>1, ApplyType
<1>4. /\ Apply(s, p + n).lastEarned = IF Earns(s, p + n) THEN p + n ELSE s.lastEarned
      /\ Apply(s, p + n).settledThrough = s.settledThrough
      /\ Apply(t, p).lastEarned = IF Earns(s, p + n) THEN p ELSE t.lastEarned
      /\ Apply(t, p).settledThrough = t.settledThrough
  BY <1>1, <1>2, ApplyFields
<1>5. SameCounters(Apply(t, p), Apply(s, p + n))
  <2>1. FreezeDue(t) = FreezeDue(s) /\ FreezeGranted(t) = FreezeGranted(s)
    BY <1>1 DEF FreezeDue, FreezeGranted, SameCounters
  <2> HIDE DEF t
  <2> QED BY <1>1, <1>2, <2>1 DEF Apply, SameCounters, State
<1>6. Movable(Apply(s, p + n), n)
  BY <1>1, <1>4 DEF Movable
<1> DEFINE v == Shifted(Apply(s, p + n), n)
           w == Apply(t, p)
<1>7. /\ v \in State /\ w \in State /\ SameCounters(v, w)
      /\ v.lastEarned = w.lastEarned /\ v.settledThrough = w.settledThrough
  <2>1. /\ v \in State /\ SameCounters(v, Apply(s, p + n))
        /\ v.lastEarned = Earlier(Apply(s, p + n).lastEarned, n)
        /\ v.settledThrough = Earlier(Apply(s, p + n).settledThrough, n)
    BY <1>1, <1>3, <1>6, ShiftedType
  <2>2. v.lastEarned = w.lastEarned /\ v.settledThrough = w.settledThrough
    BY <1>1, <1>4, <2>1 DEF Earlier, NoDate
  <2> HIDE DEF v, w
  <2> QED BY <1>3, <1>5, <2>1, <2>2 DEF SameCounters, w
<1> HIDE DEF v, w
<1>8. w = v
  BY <1>7 DEF State, SameCounters
<1> QED BY <1>6, <1>8 DEF v, w

\* A shifted ledger replays to the shifted row.
LEMMA ShiftedReplay ==
  ASSUME ShiftsKeepWeekdays, NEW n \in ShiftDays, n <= LastPeriod, NEW earned, NEW moved,
         \A p \in Period : p <= n => p \notin earned,
         \A p \in Period : p \in moved <=> p + n \in Period /\ p + n \in earned
  PROVE  /\ Movable(ReplayUpTo(earned)[LastPeriod], n)
         /\ ReplayUpTo(moved)[LastPeriod] = Shifted(ReplayUpTo(earned)[LastPeriod], n)
<1> DEFINE R == ReplayUpTo(earned)
           Q == ReplayUpTo(moved)
           m == LastPeriod - n
           Good == {i \in 0..m : Movable(R[i + n], n) /\ Q[i] = Shifted(R[i + n], n)}
<1>1. /\ n \in Nat \ {0} /\ LastPeriod \in Nat /\ m \in Nat /\ 0 \in Nat
      /\ m + n = LastPeriod /\ m \in 0..LastPeriod /\ 0 <= m
  BY EngineAssumption, CalendarAssumption
<1>2. 0 \in Good
  <2>1. R[n] = NewState /\ Q[0] = NewState
    <3>1. /\ \A p \in Period : p <= n => (p \in earned <=> p \in {})
          /\ \A p \in Period : p > 0 => p \notin {}
          /\ n \in 0..LastPeriod /\ 0 \in 0..LastPeriod
      BY <1>1
    <3>2. R[n] = ReplayUpTo({})[n]
      BY <3>1, ReplayPrefix
    <3>3. ReplayUpTo({})[LastPeriod] = ReplayUpTo({})[n]
      BY <3>1, ReplayQuiet
    <3>4. ReplayUpTo({})[LastPeriod] = ReplayUpTo({})[0]
      BY <3>1, ReplayQuiet
    <3> QED BY <3>2, <3>3, <3>4, ReplayRuns DEF IsRun
  <2>2. Movable(NewState, n) /\ Shifted(NewState, n) = NewState
    BY DEF Movable, Shifted, Earlier, NewState
  <2> HIDE DEF R, Q
  <2> QED BY <1>1, <2>1, <2>2
<1>3. ASSUME NEW i \in 0..m, i < m, i \in Good PROVE i + 1 \in Good
  <2> DEFINE p == i + 1
             s == R[i + n]
  <2>1. /\ p \in Period /\ p + n \in Period /\ p \in 0..m
        /\ p - 1 = i /\ (p + n) - 1 = i + n
    BY <1>1, <1>3 DEF Period
  <2>2. /\ s \in State /\ R[p + n] = ReplayStep(s, earned, p + n)
        /\ Q[p] = ReplayStep(Q[i], moved, p)
    BY <2>1, ReplayAt
  <2>3. Movable(s, n) /\ Q[i] = Shifted(s, n)
    BY <1>3
  <2> HIDE DEF R, Q, s
  <2>4. CASE p + n \in earned
    <3> DEFINE t == Settle(s, p + n)
    <3>1. t \in State /\ Movable(t, n) /\ Settle(Shifted(s, n), p) = Shifted(t, n)
      BY <2>1, <2>2, <2>3, SettleType, ShiftedSettle
    <3>2. Q[p] = Apply(Shifted(t, n), p) /\ R[p + n] = Apply(t, p + n)
      BY <2>1, <2>2, <2>3, <2>4, <3>1 DEF ReplayStep
    <3> HIDE DEF t
    <3>3. Movable(R[p + n], n) /\ Q[p] = Shifted(R[p + n], n)
      BY <2>1, <3>1, <3>2, ShiftedApply
    <3> QED BY <2>1, <3>3
  <2>5. CASE p + n \notin earned
    <3>1. Q[p] = Shifted(s, n) /\ R[p + n] = s
      BY <2>1, <2>2, <2>3, <2>5 DEF ReplayStep
    <3> QED BY <2>1, <2>3, <3>1
  <2> QED BY <2>4, <2>5
<1> HIDE DEF Good
<1>4. m \in Good
  BY <1>1, <1>2, <1>3, UpwardInduction
<1>5. Q[LastPeriod] = Q[m]
  <2>1. \A p \in Period : p > m => p \notin moved
    BY <1>1 DEF Period
  <2> QED BY <1>1, <2>1, ReplayQuiet
<1> QED BY <1>1, <1>4, <1>5 DEF Good

\* Rows without an earn that settle alike do so when their pointers move.
LEMMA IdleAlike ==
  ASSUME NEW cur \in Period, NEW s \in State, NEW t \in State, NEW x \in State, NEW y \in State,
         s.lastEarned = NoDate, t.lastEarned = NoDate, x.lastEarned = NoDate,
         y.lastEarned = NoDate, Settle(s, cur) = Settle(t, cur),
         SameCounters(x, s), SameCounters(y, t)
  PROVE  Settle(x, cur) = Settle(y, cur)
<1>1. \A r \in {s, t, x, y} :
        /\ Settle(r, cur) \in State /\ SameCounters(Settle(r, cur), r)
        /\ Settle(r, cur).lastEarned = NoDate /\ Settle(r, cur).settledThrough = cur - 1
  BY SettleType, SettleIdle, SettlePointer DEF SameCounters
<1>2. SameCounters(Settle(x, cur), Settle(y, cur))
  BY <1>1 DEF SameCounters
<1>3. /\ Settle(x, cur) \in State /\ Settle(y, cur) \in State
      /\ Settle(x, cur).lastEarned = Settle(y, cur).lastEarned
      /\ Settle(x, cur).settledThrough = Settle(y, cur).settledThrough
  BY <1>1
<1> QED BY <1>2, <1>3 DEF State, SameCounters

\* ShiftHistory moves the row along with its ledger.
LEMMA ShiftReplays ==
  ASSUME TypeOK, LedgerInv, ShiftsKeepWeekdays, NEW n \in ShiftDays, ShiftHistory(n)
  PROVE  LedgerInv'
<1> DEFINE E == Earned(marks)
           F == Earned(marks)'
           r == ReplayUpTo(E)[LastPeriod]
           q == ReplayUpTo(F)[LastPeriod]
<1>1. /\ st \in State /\ Cur \in Period /\ marks \in [Period -> 0..MaxAmount]
      /\ n \in Nat \ {0} /\ MinAmount \in Nat \ {0} /\ LastPeriod \in Nat
      /\ Period = 1..LastPeriod
  BY CurType, EngineAssumption, CalendarAssumption DEF TypeOK, Period
<1>2. /\ \A p \in Period : p <= n => marks[p] = 0
      /\ marks' = [p \in Period |-> IF p + n \in Period THEN marks[p + n] ELSE 0]
      /\ now' = now /\ tz' = tz
  BY DEF ShiftHistory
<1>3. st' = Shifted(st, n) /\ Movable(st, n)
  <2>1. st.lastEarned \notin 1..n /\ st.settledThrough \notin 1..n
        /\ st.lastEarned \in Nat /\ st.settledThrough \in Nat
    BY <1>1, CalendarAssumption DEF ShiftHistory, State, Date, Period, NoDate
  <2>2. st' = Shifted(st, n)
    BY DEF ShiftHistory, Shifted, Earlier
  <2> QED BY <1>1, <2>1, <2>2 DEF Movable, NoDate
<1>4. /\ \A p \in Period : p <= n => p \notin E
      /\ \A p \in Period : p \in F <=> p + n \in Period /\ p + n \in E
      /\ F \subseteq Period /\ E \subseteq Period
  <2>1. F = {p \in Period : marks'[p] >= MinAmount} /\ E = {p \in Period : marks[p] >= MinAmount}
    BY DEF Earned
  <2>2. \A p \in Period : marks'[p] = IF p + n \in Period THEN marks[p + n] ELSE 0
    BY <1>2
  <2>3. \A p \in Period : marks[p] \in Nat
    BY <1>1, EngineAssumption
  <2> HIDE DEF E, F
  <2> QED BY <1>1, <1>2, <2>1, <2>2, <2>3
<1>5. Cur' = Cur
  BY <1>2 DEF Cur
<1>6. \A p \in F : p <= Cur
  <2>1. \A p \in E : p <= Cur
    BY DEF LedgerInv
  <2> HIDE DEF E, F
  <2> QED BY <1>1, <1>4, <2>1
<1>7. /\ Settle(st, Cur) = Settle(r, Cur) /\ r \in State /\ q \in State
      /\ r.lastEarned = st.lastEarned
  <2>1. r \in State /\ q \in State
    BY <1>1, ReplayRuns DEF IsRun
  <2>2. Settle(st, Cur) = Settle(r, Cur)
    BY DEF LedgerInv, Live, Replay
  <2> HIDE DEF r, q
  <2> QED BY <1>1, <2>1, <2>2, SettlePointer
<1>8. st.lastEarned <= Cur
  <2>1. \A p \in Period : p > Cur => p \notin E
    BY <1>1, <1>4 DEF LedgerInv
  <2>2. Cur \in 0..LastPeriod
    BY <1>1
  <2>3. r = ReplayUpTo(E)[Cur]
    BY <2>1, <2>2, ReplayQuiet
  <2> QED BY <1>7, <2>2, <2>3, ReplayLastEarned
<1> HIDE DEF E, F, r, q
<1>9. Settle(Shifted(st, n), Cur) = Settle(q, Cur)
  <2>1. CASE n <= LastPeriod
    <3>1. Movable(r, n) /\ q = Shifted(r, n)
      BY <1>4, <2>1, ShiftedReplay DEF q, r
    <3>2. CASE st.lastEarned = NoDate
      <4>1. /\ Shifted(st, n) \in State /\ Shifted(st, n).lastEarned = NoDate
            /\ q.lastEarned = NoDate
            /\ SameCounters(Shifted(st, n), st) /\ SameCounters(q, r)
        BY <1>1, <1>3, <1>7, <3>1, <3>2, ShiftedType DEF Earlier
      <4> QED BY <1>1, <1>7, <3>2, <4>1, IdleAlike
    <3>3. CASE st.lastEarned # NoDate
      <4> DEFINE c == Cur - n
      <4>1. c \in Period /\ c + n = Cur /\ c <= Cur
        BY <1>1, <1>3, <1>7, <1>8, <3>3, CalendarAssumption DEF Movable, State, Date, Period, NoDate
      <4>2. Shifted(st, n) \in State
        BY <1>1, <1>3, ShiftedType
      <4> HIDE DEF c
      <4>3. Settle(Shifted(st, n), c) = Settle(q, c)
        <5>1. /\ Settle(Shifted(st, n), c) = Shifted(Settle(st, c + n), n)
              /\ Settle(q, c) = Shifted(Settle(r, c + n), n)
          BY <1>1, <1>3, <1>7, <3>1, <4>1, ShiftedSettle
        <5> QED BY <1>7, <4>1, <5>1
      <4>4. /\ Settle(Settle(Shifted(st, n), c), Cur) = Settle(Shifted(st, n), Cur)
            /\ Settle(Settle(q, c), Cur) = Settle(q, Cur)
        BY <1>1, <1>7, <4>1, <4>2, SettleComposes
      <4> QED BY <4>3, <4>4
    <3> QED BY <3>2, <3>3
  <2>2. CASE n > LastPeriod
    <3>1. E = {} /\ F = {}
      BY <1>1, <1>4, <2>2
    <3>2. r = q
      BY <3>1 DEF q, r
    <3>3. st.lastEarned = NoDate
      BY <1>1, <1>3, <2>2, CalendarAssumption DEF Movable, State, Date, Period, NoDate
    <3>4. /\ Shifted(st, n) \in State /\ Shifted(st, n).lastEarned = NoDate
          /\ SameCounters(Shifted(st, n), st)
      BY <1>1, <1>3, <3>3, ShiftedType DEF Earlier
    <3> QED BY <1>1, <1>7, <3>2, <3>3, <3>4, IdleAlike DEF SameCounters
  <2> QED BY <1>1, <2>1, <2>2
<1>10. Live' = Replay(F, Cur)
  BY <1>3, <1>5, <1>9 DEF Live, Replay, q
<1> QED BY <1>2, <1>5, <1>6, <1>10 DEF LedgerInv, F

-----------------------------------------------------------------------------
\* The inductive step of LedgerInv.
LEMMA LedgerStep ==
  ASSUME HomeLedger, TypeOK, LedgerInv, [Next]_vars
  PROVE  LedgerInv'
<1>1. /\ st \in State /\ Cur \in Period /\ marks \in [Period -> 0..MaxAmount]
      /\ now \in Time
  BY CurType DEF TypeOK
<1>2. CASE Advance
  <2>1. /\ now' = now + 1 /\ now' \in Time /\ tz' = tz /\ st' = st /\ marks' = marks
    BY <1>1, <1>2, CalendarAssumption DEF Advance, Time
  <2>2. Cur' = PeriodKey(now', DefaultTZ) /\ Cur' \in Period /\ Cur <= Cur'
    <3>1. DefaultTZ \in Zones /\ Cur = PeriodKey(now, DefaultTZ) /\ now < Horizon
      BY <1>2, EngineAssumption DEF Cur, LedgerInv, Advance
    <3> QED BY <1>1, <2>1, <3>1, CalendarAssumption DEF HomeLedger, AtHome, LedgerInv, Cur, Period
  <2>3. Live' = Replay(Earned(marks), Cur')
    <3>1. Live' = Settle(Settle(st, Cur), Cur')
      BY <1>1, <2>1, <2>2, SettleComposes DEF Live
    <3> QED BY <1>1, <2>2, <3>1, ReplayLater DEF LedgerInv, Live
  <2>4. Earned(marks)' = Earned(marks)
    BY <2>1
  <2>5. PeriodKey(0, DefaultTZ) \in Period
    BY CalendarAssumption, EngineAssumption DEF Time, Period
  <2>6. \A p \in Earned(marks) : p \in Int
    BY DEF Earned, Period
  <2> QED BY <1>1, <2>1, <2>2, <2>3, <2>4, <2>5, <2>6 DEF LedgerInv, Period
<1>3. CASE \/ UNCHANGED vars \/ SettleDue \/ RemindDue
           \/ \E r \in Reminders \cup {NoReminder} : SetReminder(r)
  <2>1. now' = now /\ tz' = tz /\ marks' = marks /\ st' \in {st, Settle(st, Cur)}
    BY <1>3 DEF vars, SettleDue, SettleOne, RemindDue, RemindOne, SetReminder
  <2> QED BY <2>1, LedgerKept
<1>4. ASSUME NEW a \in Amounts, RecordCurrent(a) PROVE LedgerInv'
  BY <1>4, RecordReplays
<1>5. CASE Unrecord
  <2> DEFINE ledger == [marks EXCEPT ![Cur] = 0]
  <2>1. Earned(ledger) \subseteq Earned(marks)
    <3>1. \A p \in Period : ledger[p] = IF p = Cur THEN 0 ELSE marks[p]
      BY <1>1
    <3> HIDE DEF ledger
    <3> QED BY <3>1, EngineAssumption DEF Earned
  <2>2. Rebuild(ledger) /\ now' = now /\ tz' = tz
    BY <1>5 DEF Unrecord
  <2> HIDE DEF ledger
  <2> QED BY <2>1, <2>2, LedgerRebuilt DEF LedgerInv
<1>6. CASE Recount
  BY <1>6, LedgerRebuilt DEF Recount, LedgerInv
<1>7. ASSUME NEW h \in Histories, ReplaceHistory(h) PROVE LedgerInv'
  <2> DEFINE ledger == [p \in Period |-> IF p \in h THEN MinAmount ELSE 0]
  <2>1. Earned(ledger) \subseteq h
    BY EngineAssumption DEF Earned
  <2>2. Rebuild(ledger) /\ now' = now /\ tz' = tz
    BY <1>7 DEF ReplaceHistory
  <2>3. \A p \in Earned(ledger) : p <= Cur
    <3>1. PeriodKey(0, DefaultTZ) \in Period /\ \A p \in Earned(ledger) : p \in Period
      BY CalendarAssumption, EngineAssumption DEF Time, Period, Earned
    <3>2. PeriodKey(0, DefaultTZ) <= Cur /\ \A p \in Earned(ledger) : p <= PeriodKey(0, DefaultTZ)
      BY <2>1 DEF LedgerInv, HomeLedger, AtHome
    <3> HIDE DEF ledger
    <3> QED BY <1>1, <3>1, <3>2 DEF Period
  <2> HIDE DEF ledger
  <2> QED BY <2>2, <2>3, LedgerRebuilt
<1>8. ASSUME NEW n \in ShiftDays, ShiftHistory(n) PROVE LedgerInv'
  <2>1. ShiftsKeepWeekdays
    BY <1>8 DEF HomeLedger, ShiftHistory
  <2> QED BY <1>8, <2>1, ShiftReplays
<1>9. /\ \A d \in Delays, a \in Amounts : ~RecordGrace(d, a)
      /\ \A n \in FreezeGrants : ~SetFreezes(n)
      /\ \A z \in Zones : ~SetTimezone(z)
      /\ ~Repair
  BY DEF HomeLedger, AtHome, UntoldOps, SetFreezes, SetTimezone, Repair
<1> QED BY <1>2, <1>3, <1>4, <1>5, <1>6, <1>7, <1>8, <1>9 DEF Next

\* At the start nothing is earned.
LEMMA LedgerInit ==
  ASSUME Init, HomeLedger
  PROVE  LedgerInv
<1>1. Earned(marks) = {}
  BY EngineAssumption DEF Init, Earned
<1>2. PeriodKey(0, DefaultTZ) \in Period /\ Cur = PeriodKey(0, DefaultTZ) /\ 0 \in 0..LastPeriod
  BY CalendarAssumption, EngineAssumption DEF Init, Cur, Time, Period
<1>3. ReplayUpTo({})[LastPeriod] = NewState
  <2>1. ReplayUpTo({})[0] = NewState
    BY ReplayRuns DEF IsRun
  <2> QED BY <1>2, <2>1, ReplayQuiet
<1>4. Live = Replay({}, Cur)
  BY <1>3 DEF Init, Live, Replay
<1>5. tz = DefaultTZ /\ PeriodKey(0, DefaultTZ) <= Cur
  BY <1>2 DEF Init, Period
<1> QED BY <1>1, <1>4, <1>5 DEF LedgerInv

LEMMA LedgerCorrect ==
  ASSUME HomeLedger
  PROVE  Spec => []LedgerInv
<1>1. Init => LedgerInv
  BY LedgerInit
<1>2. TypeOK /\ LedgerInv /\ [Next]_vars => LedgerInv'
  BY LedgerStep
<1> QED BY <1>1, <1>2, TypeCorrect, PTL DEF Spec

\* Replay's promise (replay.go:5-8), for a subject that stays in one zone and
\* reports in time: however records, undos, imports, recounts, ticks and missed
\* ticks are interleaved, the row is what the ledger replays to.
THEOREM OracleCorrect ==
  ASSUME HomeLedger
  PROVE  Spec => []Oracle
<1>1. LedgerInv => Oracle
  BY DEF LedgerInv, Oracle
<1> QED BY <1>1, LedgerCorrect, PTL

\* Unrecord reverses one mark (DESIGN.md:303-304): the chain is at most one
\* shorter, and no shorter at all when today had not been earned.
THEOREM UnrecordReversesOneCorrect ==
  ASSUME HomeLedger
  PROVE  Spec => UnrecordReversesOne
<1> DEFINE Reverses ==
      Unrecord =>
        LET reached == Cur \in Earned(marks) /\ ScheduledOn(Cur)
        IN  /\ st'.currentCount <= Live.currentCount
            /\ st'.currentCount >= Live.currentCount - (IF reached THEN 1 ELSE 0)
<1>1. TypeOK /\ LedgerInv /\ [Next]_vars => [Reverses]_vars
  <2> SUFFICES ASSUME TypeOK, LedgerInv, Unrecord PROVE Reverses
    OBVIOUS
  <2> DEFINE E == Earned(marks)
             after == Replay(E \ {Cur}, Cur)
  <2>1. /\ Cur \in Period /\ marks \in [Period -> 0..MaxAmount]
        /\ after \in State /\ Live = Replay(E, Cur) /\ Replay(E, Cur) \in State
    BY CurType, ReplayType DEF TypeOK, LedgerInv
  <2>2. st' = after
    <3> DEFINE ledger == [marks EXCEPT ![Cur] = 0]
    <3>1. \A p \in Period : ledger[p] = IF p = Cur THEN 0 ELSE marks[p]
      BY <2>1
    <3>2. st' = Replay(Earned(ledger), Cur)
      BY DEF Unrecord, Rebuild
    <3> HIDE DEF ledger
    <3>3. \A p \in Period : p \in Earned(ledger) <=> p \in E /\ p # Cur
      BY <3>1, EngineAssumption DEF Earned
    <3>4. Earned(ledger) = E \ {Cur}
      BY <3>3 DEF Earned
    <3> QED BY <3>2, <3>4
  <2>3. \A p \in Period : p > Cur => p \notin E
    BY <2>1 DEF LedgerInv, Period
  <2>4. Live.currentCount =
          after.currentCount + (IF Cur \in E /\ ScheduledOn(Cur) THEN 1 ELSE 0)
    <3>1. CASE Cur \in E
      BY <2>1, <2>3, <3>1, ReplayEarnedToday DEF State
    <3>2. CASE Cur \notin E
      <4>1. E \ {Cur} = E
        BY <3>2
      <4> QED BY <2>1, <3>2, <4>1 DEF State
    <3> QED BY <3>1, <3>2
  <2>5. after.currentCount \in Nat
    BY <2>1 DEF State
  <2> HIDE DEF after
  <2> QED BY <2>2, <2>4, <2>5
<1> QED BY <1>1, TypeCorrect, LedgerCorrect, PTL DEF Spec, UnrecordReversesOne

\* The events that are not reminders.
LEMMA OnlyReminders ==
  ASSUME TypeOK, Next, Cur \in Period,
         NEW e, e \in out', e.type = "at_risk"
  PROVE  RemindDue
<1>1. \A p, n : /\ Ev("freeze_consumed", p, n).type # "at_risk"
                /\ Ev("broken", p, n).type # "at_risk"
  BY DEF Ev
<1>2. ASSUME NEW s, NEW p, NEW x \in SettleEvents(s, p) PROVE x.type # "at_risk"
  <2>1. \E q \in Charged(s, p) : \/ x = Ev("freeze_consumed", q, s.currentCount)
                                 \/ x = Ev("broken", q, s.currentCount)
    BY SettleEventsAre
  <2> QED BY <1>1, <2>1
<1>3. ASSUME NEW s, NEW p, NEW x \in ApplyEvents(s, p) PROVE x.type # "at_risk"
  BY DEF ApplyEvents, Ev
<1>4. ~Advance
  BY DEF Advance
<1>5. \A a \in Amounts : ~RecordCurrent(a)
  BY <1>2, <1>3, Zenon DEF RecordCurrent, PersistEvents
<1>6. \A d \in Delays, a \in Amounts : ~RecordGrace(d, a)
  BY <1>2, <1>3, Zenon DEF RecordGrace, PersistEvents
<1>7. ~Unrecord /\ ~Recount /\ \A h \in Histories : ~ReplaceHistory(h)
  BY DEF Unrecord, Recount, ReplaceHistory, Rebuild, PersistEvents
<1>8. /\ \A n \in ShiftDays : ~ShiftHistory(n)
      /\ \A n \in FreezeGrants : ~SetFreezes(n)
      /\ \A r \in Reminders \cup {NoReminder} : ~SetReminder(r)
  BY DEF ShiftHistory, SetFreezes, SetReminder, PersistEvents
<1>9. \A z \in Zones : ~SetTimezone(z)
  BY <1>2, Zenon DEF SetTimezone, Rezone, PersistEvents
<1>10. ~Repair
  <2>1. \A p, n : Ev("repaired", p, n).type # "at_risk"
    BY DEF Ev
  <2>2. ASSUME Repair PROVE FALSE
    <3>1. \E n : out' = SettleEvents(st, Cur) \cup {Ev("repaired", Cur, n)}
      BY <2>2, Zenon DEF Repair, PersistEvents
    <3> QED BY <1>2, <2>1, <3>1
  <2> QED BY <2>2
<1>11. ~SettleDue
  BY <1>2 DEF SettleDue, SettleOne, PersistEvents
<1> QED BY <1>4, <1>5, <1>6, <1>7, <1>8, <1>9, <1>10, <1>11 DEF Next

\* An at_risk event is true when it is sent (scheduler.go:207-208): by the
\* ledger, today is active and unearned and the chain it counts is alive.
THEOREM AtRiskHonestCorrect ==
  ASSUME HomeLedger
  PROVE  Spec => AtRiskHonest
<1> DEFINE Honest ==
      \A e \in OfType(out', {"at_risk"}) :
        /\ e.period = Cur /\ ScheduledOn(e.period)
        /\ e.period \notin Earned(marks)
        /\ e.count > 0 /\ e.count = Replay(Earned(marks), Cur).currentCount
<1>1. TypeOK /\ Started /\ LedgerInv /\ [Next]_vars => [Honest]_vars
  <2> SUFFICES ASSUME TypeOK, Started, LedgerInv, Next,
                      NEW e, e \in out', e.type = "at_risk"
               PROVE  /\ e.period = Cur /\ ScheduledOn(e.period)
                      /\ e.period \notin Earned(marks)
                      /\ e.count > 0 /\ e.count = Replay(Earned(marks), Cur).currentCount
    BY DEF OfType
  <2> DEFINE E == Earned(marks)
             d == Derive(st, Cur)
  <2>1. /\ st \in State /\ Cur \in Period /\ Rooted(st)
        /\ Live = Replay(E, Cur) /\ Live.lastEarned = st.lastEarned
    BY CurType, SettlePointer DEF TypeOK, Started, StartedAs, LedgerInv, Live
  <2>2. RemindOne
    BY <2>1, OnlyReminders DEF RemindDue
  <2>3. e.period = Cur /\ e.count = d.count
    BY <2>2 DEF RemindOne, PersistEvents, Ev
  <2>4. ScheduledOn(Cur) /\ st.lastEarned # Cur /\ d.liveness # "broken"
    BY <2>2 DEF RemindOne, AtRisk, Derive
  <2>5. d.count = Live.currentCount
    BY <2>1, DeriveAgreesWithSettle DEF Rooted, Live
  <2>6. d.count > 0
    <3>1. \A n : n = Cardinality(Missed(st, Cur)) =>
            LET covered == n = 0 \/ (AutoConsume /\ n <= st.freezes)
                alive   == (st.lastEarned # NoDate /\ st.currentCount > 0) /\ covered
            IN  /\ d.count = IF alive THEN st.currentCount ELSE 0
                /\ d.liveness = IF ~alive THEN "broken"
                                ELSE IF n = 0 THEN "alive" ELSE "frozen"
      BY <2>1, DeriveFields
    <3> HIDE DEF d
    <3> QED BY <2>1, <2>4, <3>1 DEF State
  <2>7. Cur \notin E
    <3>1. \A p \in Period : p > Cur => p \notin E
      BY <2>1 DEF LedgerInv, Period
    <3>2. Cur \in E => Live.lastEarned = Cur
      BY <2>1, <2>4, <3>1, ReplayEarnedToday
    <3> QED BY <2>1, <2>4, <3>2
  <2> HIDE DEF d
  <2> QED BY <2>1, <2>3, <2>4, <2>5, <2>6, <2>7
<1>2. "repair" \in Ops => Ops \cap ReplayOps = {}
  BY DEF HomeLedger, UntoldOps
<1> QED BY <1>1, <1>2, TypeCorrect, StartedCorrect, LedgerCorrect, PTL
        DEF Spec, AtRiskHonest

-----------------------------------------------------------------------------
(***************************************************************************)
(* When a chain is lost.                                                   *)
(***************************************************************************)

\* The active periods from a up to, and without, c.
Active(a, c) == {q \in a..(c - 1) : ScheduledOn(q)}

LEMMA ActiveFinite ==
  ASSUME NEW a \in Nat, NEW c \in Nat
  PROVE  IsFiniteSet(Active(a, c)) /\ Cardinality(Active(a, c)) \in Nat
<1>1. IsFiniteSet(a..(c - 1))
  <2>1. a \in Int /\ c - 1 \in Int
    OBVIOUS
  <2> QED BY <2>1, FS_Interval
<1>2. Active(a, c) \subseteq a..(c - 1)
  BY DEF Active
<1> QED BY <1>1, <1>2, FS_Subset, FS_CardinalityType

\* A walk over n active periods, from the first one that is not before a.
IsWalk(w, first, n) ==
  /\ w \in [0..n -> Nat] /\ w[0] = first
  /\ \A i \in 1..n : w[i] = NextScheduled(w[i - 1])

\* The walk exists.
LEMMA WalkExists ==
  ASSUME NEW first \in Nat, NEW spare \in Nat
  PROVE  \E w : IsWalk(w, first, spare)
<1> DEFINE Walks == {n \in Nat : \E w : IsWalk(w, first, n)}
<1>1. 0 \in Walks
  <2> DEFINE w == [i \in 0..0 |-> first]
  <2>1. IsWalk(w, first, 0)
    BY DEF IsWalk
  <2> QED BY <2>1
<1>2. ASSUME NEW n \in 0..spare, n < spare, n \in Walks PROVE n + 1 \in Walks
  <2>1. PICK q : IsWalk(q, first, n)
    BY <1>2
  <2> DEFINE last == NextScheduled(q[n])
             w == [i \in 0..(n + 1) |-> IF i = n + 1 THEN last ELSE q[i]]
  <2>2. last \in Nat
    <3>1. q[n] \in Nat
      BY <1>2, <2>1 DEF IsWalk
    <3>2. last \in (q[n] + 1)..(q[n] + 7)
      BY <3>1, NextScheduledIs
    <3> QED BY <3>1, <3>2
  <2>3. w \in [0..(n + 1) -> Nat] /\ w[0] = first
    <3> HIDE DEF last
    <3> QED BY <1>2, <2>1, <2>2 DEF IsWalk
  <2>4. ASSUME NEW i \in 1..(n + 1) PROVE w[i] = NextScheduled(w[i - 1])
    <3>1. w[i - 1] = q[i - 1] /\ i - 1 \in 0..n
      BY <1>2
    <3>2. CASE i = n + 1
      BY <1>2, <3>1, <3>2
    <3>3. CASE i # n + 1
      <4>1. i \in 1..n /\ w[i] = q[i]
        BY <1>2, <3>3
      <4> QED BY <2>1, <3>1, <4>1 DEF IsWalk
    <3> QED BY <3>2, <3>3
  <2>5. IsWalk(w, first, n + 1)
    BY <2>3, <2>4 DEF IsWalk
  <2> QED BY <1>2, <2>5
<1> HIDE DEF Walks
<1>3. spare \in Walks
  BY <1>1, <1>2, UpwardInduction
<1> QED BY <1>3 DEF Walks

\* Where the walk of LossPeriod starts.
FirstOpen(s, cur) ==
  IF s.lastEarned >= cur THEN NextScheduled(s.lastEarned)
  ELSE IF ~ScheduledOn(cur) THEN NextScheduled(cur) ELSE cur

\* LossPeriod is the end of that walk.
LEMMA LossPeriodWalks ==
  ASSUME NEW s, NEW cur, NEW spare \in Nat, FirstOpen(s, cur) \in Nat
  PROVE  \E w : IsWalk(w, FirstOpen(s, cur), spare) /\ LossPeriod(s, cur, spare) = w[spare]
<1> DEFINE first == FirstOpen(s, cur)
           body(w) == [n \in 0..spare |-> IF n > 0 THEN NextScheduled(w[n - 1]) ELSE first]
           W == CHOOSE f : f = body(f)
<1>1. PICK w : IsWalk(w, first, spare)
  BY WalkExists
<1>2. w = body(w)
  BY <1>1 DEF IsWalk
<1>3. W = body(W)
  <2> HIDE DEF body
  <2> QED BY <1>2
<1>4. LossPeriod(s, cur, spare) = W[spare]
  BY Zenon DEF LossPeriod, FirstOpen
<1>5. /\ W[0] = first /\ W = [n \in 0..spare |-> W[n]]
      /\ \A i \in 1..spare : W[i] = NextScheduled(W[i - 1])
  <2> HIDE DEF W, first
  <2> QED BY <1>3
<1> HIDE DEF W, first, body
<1>6. \A i \in 0..spare : W[i] \in Nat
  <2> DEFINE Typed == {i \in 0..spare : W[i] \in Nat}
  <2>1. 0 \in Typed
    BY <1>5 DEF first
  <2>2. ASSUME NEW i \in 0..spare, i < spare, i \in Typed PROVE i + 1 \in Typed
    <3>1. i + 1 \in 1..spare /\ (i + 1) - 1 = i /\ W[i] \in Nat
      BY <2>2
    <3>2. W[i + 1] = NextScheduled(W[i])
      BY <1>5, <3>1
    <3>3. W[i + 1] \in (W[i] + 1)..(W[i] + 7)
      BY <3>1, <3>2, NextScheduledIs
    <3> QED BY <3>1, <3>3
  <2> HIDE DEF Typed
  <2>3. \A i \in 0..spare : i \in Typed
    BY <2>1, <2>2, UpwardInduction
  <2> QED BY <2>3 DEF Typed
<1>7. W \in [0..spare -> Nat]
  BY <1>5, <1>6
<1> QED BY <1>4, <1>5, <1>7 DEF IsWalk, first

\* The n-th period of the walk has n active periods before it.
LEMMA WalkCounts ==
  ASSUME NEW a \in Nat, NEW w, NEW spare \in Nat, NEW first \in Nat,
         IsWalk(w, first, spare),
         a <= first, ScheduledOn(first), Active(a, first) = {}
  PROVE  \A i \in 0..spare : /\ w[i] \in Nat /\ a <= w[i] /\ ScheduledOn(w[i])
                             /\ Cardinality(Active(a, w[i])) = i
<1> DEFINE Good == {i \in 0..spare : /\ w[i] \in Nat /\ a <= w[i] /\ ScheduledOn(w[i])
                                     /\ Cardinality(Active(a, w[i])) = i}
<1>1. 0 \in Good
  <2>1. w[0] = first /\ Cardinality(Active(a, first)) = 0
    BY FS_EmptySet DEF IsWalk
  <2> QED BY <2>1
<1>2. ASSUME NEW i \in 0..spare, i < spare, i \in Good PROVE i + 1 \in Good
  <2> DEFINE x == w[i]
             y == w[i + 1]
  <2>1. i + 1 \in 1..spare /\ (i + 1) - 1 = i /\ x \in Nat /\ a <= x /\ ScheduledOn(x)
        /\ Cardinality(Active(a, x)) = i
    BY <1>2
  <2>2. y = NextScheduled(x)
    BY <2>1 DEF IsWalk
  <2> HIDE DEF x, y
  <2>3. /\ y \in (x + 1)..(x + 7) /\ ScheduledOn(y)
        /\ \A r \in (x + 1)..(y - 1) : ~ScheduledOn(r)
    BY <2>1, <2>2, NextScheduledIs
  <2>4. Active(a, y) = Active(a, x) \cup {x} /\ x \notin Active(a, x)
    <3>1. \A q \in Int : q \in a..(y - 1) <=> q \in a..(x - 1) \/ q = x \/ q \in (x + 1)..(y - 1)
      BY <2>1, <2>3
    <3>2. x \in Int /\ x \notin a..(x - 1)
      BY <2>1
    <3>3. \A b, c : \A q \in b..c : q \in Int
      OBVIOUS
    <3> QED BY <2>1, <2>3, <3>1, <3>2, <3>3, Zenon DEF Active
  <2>5. Cardinality(Active(a, y)) = i + 1
    BY <2>1, <2>4, ActiveFinite, FS_AddElement
  <2>6. y \in Nat /\ a <= y
    BY <2>1, <2>3
  <2> QED BY <2>1, <2>3, <2>5, <2>6 DEF y
<1> HIDE DEF Good
<1>3. \A i \in 0..spare : i \in Good
  BY <1>1, <1>2, UpwardInduction
<1> QED BY <1>3 DEF Good

\* So n freezes last up to the n-th period of the walk and not beyond.
LEMMA ActiveUpTo ==
  ASSUME NEW a \in Nat, NEW n \in Nat, NEW end \in Nat, NEW c \in Nat,
         a <= end, ScheduledOn(end), Cardinality(Active(a, end)) = n
  PROVE  Cardinality(Active(a, c)) <= n <=> c <= end
<1>1. /\ IsFiniteSet(Active(a, end)) /\ IsFiniteSet(Active(a, c))
      /\ Cardinality(Active(a, c)) \in Nat
  BY ActiveFinite
<1>2. CASE c <= end
  <2>1. Active(a, c) \subseteq Active(a, end)
    BY <1>2 DEF Active
  <2> QED BY <1>1, <1>2, <2>1, FS_Subset
<1>3. CASE ~(c <= end)
  <2> DEFINE upto == Active(a, end) \cup {end}
  <2>1. upto \subseteq Active(a, c) /\ end \notin Active(a, end)
    BY <1>3 DEF Active
  <2>2. Cardinality(upto) = n + 1
    BY <1>1, <2>1, FS_AddElement
  <2> HIDE DEF upto
  <2>3. Cardinality(upto) <= Cardinality(Active(a, c))
    BY <1>1, <2>1, FS_Subset
  <2> QED BY <1>1, <1>3, <2>2, <2>3
<1> QED BY <1>2, <1>3

\* The walk starts at the first active period that can still be earned.
LEMMA FirstOpenIs ==
  ASSUME NEW s \in State, NEW cur \in Period
  PROVE  LET first == FirstOpen(s, cur)
             a     == Later(cur, s.lastEarned + 1)
         IN  /\ first \in Nat /\ a \in Nat /\ a <= first
             /\ ScheduledOn(first) /\ Active(a, first) = {}
<1>1. cur \in Nat /\ s.lastEarned \in Nat
  BY CalendarAssumption DEF State, Date, Period, NoDate
<1> DEFINE first == FirstOpen(s, cur)
           a     == Later(cur, s.lastEarned + 1)
<1>2. CASE s.lastEarned >= cur
  <2>1. first = NextScheduled(s.lastEarned) /\ a = s.lastEarned + 1
    BY <1>1, <1>2 DEF FirstOpen, Later
  <2>2. /\ first \in (s.lastEarned + 1)..(s.lastEarned + 7) /\ ScheduledOn(first)
        /\ \A r \in (s.lastEarned + 1)..(first - 1) : ~ScheduledOn(r)
    BY <1>1, <2>1, NextScheduledIs
  <2> HIDE DEF first, a
  <2> QED BY <1>1, <2>1, <2>2 DEF Active, first, a
<1>3. CASE ~(s.lastEarned >= cur) /\ ~ScheduledOn(cur)
  <2>1. first = NextScheduled(cur) /\ a = cur
    BY <1>1, <1>3 DEF FirstOpen, Later
  <2>2. /\ first \in (cur + 1)..(cur + 7) /\ ScheduledOn(first)
        /\ \A r \in (cur + 1)..(first - 1) : ~ScheduledOn(r)
    BY <1>1, <2>1, NextScheduledIs
  <2> HIDE DEF first, a
  <2>3. \A q \in a..(first - 1) : ~ScheduledOn(q)
    BY <1>1, <1>3, <2>1, <2>2
  <2> QED BY <1>1, <2>1, <2>2, <2>3 DEF Active, first, a
<1>4. CASE ~(s.lastEarned >= cur) /\ ScheduledOn(cur)
  <2>1. first = cur /\ a = cur
    BY <1>1, <1>4 DEF FirstOpen, Later
  <2> HIDE DEF first, a
  <2>2. a..(first - 1) = {}
    BY <1>1, <2>1
  <2> QED BY <1>1, <1>4, <2>1, <2>2 DEF Active, first, a
<1> QED BY <1>2, <1>3, <1>4

\* Up to its loss period, and not beyond, a chain outlives any silence.
LEMMA LossSurvives ==
  ASSUME NEW s \in State, NEW cur \in Period, s.settledThrough < cur,
         Derive(s, cur).lossPeriod # NoDate, NEW c \in Int, cur <= c
  PROVE  /\ Derive(s, cur).lossPeriod \in Nat
         /\ Settle(s, c).currentCount > 0 <=> c <= Derive(s, cur).lossPeriod
<1> DEFINE m     == Cardinality(Missed(s, cur))
           a     == Later(cur, s.lastEarned + 1)
           spare == IF AutoConsume THEN s.freezes - m ELSE 0
           loss  == Derive(s, cur).lossPeriod
<1>1. /\ cur \in Nat /\ c \in Nat /\ s.lastEarned \in Nat /\ s.settledThrough \in Nat
      /\ s.currentCount \in Nat /\ s.freezes \in Nat /\ m \in Nat /\ IsFiniteSet(Missed(s, cur))
  BY ChargedFinite, CalendarAssumption DEF State, Date, Period, NoDate
<1>2. /\ s.lastEarned # NoDate /\ s.currentCount > 0
      /\ m = 0 \/ (AutoConsume /\ m <= s.freezes)
      /\ loss = LossPeriod(s, cur, spare)
  <2> DEFINE started == s.lastEarned # NoDate /\ s.currentCount > 0
             covered == m = 0 \/ (AutoConsume /\ m <= s.freezes)
             pending == IF ~started \/ ~AutoConsume THEN 0
                        ELSE IF covered THEN m ELSE s.freezes
             rest    == IF AutoConsume THEN s.freezes - pending ELSE 0
  <2>1. loss = IF started /\ covered THEN LossPeriod(s, cur, rest) ELSE NoDate
    BY Zenon DEF Derive
  <2>2. started /\ covered /\ loss = LossPeriod(s, cur, rest)
    BY <2>1
  <2>3. rest = spare
    BY <2>2
  <2> QED BY <2>2, <2>3
<1>3. spare \in Nat
  <2> HIDE DEF m
  <2> QED BY <1>1, <1>2
<1>4. /\ loss \in Nat /\ a \in Nat /\ a <= loss /\ ScheduledOn(loss)
      /\ Cardinality(Active(a, loss)) = spare
  <2> DEFINE first == FirstOpen(s, cur)
  <2>1. first \in Nat /\ a \in Nat /\ a <= first /\ ScheduledOn(first) /\ Active(a, first) = {}
    BY FirstOpenIs
  <2> HIDE DEF spare, a
  <2>2. PICK w : IsWalk(w, first, spare) /\ loss = w[spare]
    BY <1>2, <1>3, <2>1, LossPeriodWalks
  <2> HIDE DEF first, loss
  <2>3. spare \in 0..spare
    BY <1>3
  <2> QED BY <1>3, <2>1, <2>2, <2>3, WalkCounts
<1>5. Cardinality(Missed(s, c)) = m + Cardinality(Active(a, c))
  <2> DEFINE from == Later(s.lastEarned, s.settledThrough)
  <2>1. /\ Missed(s, cur) = {q \in (from + 1)..(cur - 1) : ScheduledOn(q)}
        /\ Missed(s, c) = {q \in (from + 1)..(c - 1) : ScheduledOn(q)}
        /\ Active(a, c) = {q \in a..(c - 1) : ScheduledOn(q)}
    BY DEF Missed, Active
  <2>2. from \in Nat /\ a = Later(cur, from + 1)
    BY <1>1 DEF Later
  <2> HIDE DEF from, a
  <2>3. /\ Missed(s, c) = Missed(s, cur) \cup Active(a, c)
        /\ Missed(s, cur) \cap Active(a, c) = {}
    <3>1. \A q \in Int : q \in (from + 1)..(c - 1) <=> q \in (from + 1)..(cur - 1) \/ q \in a..(c - 1)
      BY <1>1, <2>2 DEF Later
    <3>2. \A q \in Int : ~(q \in (from + 1)..(cur - 1) /\ q \in a..(c - 1))
      BY <1>1, <2>2 DEF Later
    <3>3. \A x, y : \A q \in x..y : q \in Int
      OBVIOUS
    <3> QED BY <2>1, <3>1, <3>2, <3>3, Zenon
  <2>4. IsFiniteSet(Active(a, c)) /\ Cardinality(Active(a, c)) \in Nat
    BY <1>1, <1>4, ActiveFinite
  <2>5. Cardinality(Missed(s, cur) \cap Active(a, c)) = 0
    BY <2>3, FS_EmptySet
  <2>6. Cardinality(Missed(s, c)) =
          m + Cardinality(Active(a, c)) - Cardinality(Missed(s, cur) \cap Active(a, c))
    BY <1>1, <2>3, <2>4, FS_Union
  <2> HIDE DEF m
  <2> QED BY <1>1, <2>4, <2>5, <2>6
<1>6. Breaks(s, c) <=> Cardinality(Missed(s, c)) > (IF AutoConsume THEN s.freezes ELSE 0)
  <2>1. Charged(s, c) = Missed(s, c)
    BY <1>1, <1>2 DEF Charged
  <2>2. Cardinality(Missed(s, c)) \in Nat
    <3>1. Cardinality(Active(a, c)) \in Nat
      BY <1>1, <1>4, ActiveFinite
    <3> HIDE DEF m
    <3> QED BY <1>1, <1>5, <3>1
  <2> HIDE DEF m
  <2> QED BY <1>1, <2>1, <2>2, ConfigAssumption DEF Breaks, Spent
<1>7. Settle(s, c).currentCount > 0 <=> ~Breaks(s, c)
  BY <1>1, <1>2 DEF Settle, State
<1>8. Cardinality(Active(a, c)) <= spare <=> c <= loss
  <2> HIDE DEF a, spare, loss
  <2> QED BY <1>1, <1>3, <1>4, ActiveUpTo
<1>9. Cardinality(Active(a, c)) \in Nat
  BY <1>1, <1>4, ActiveFinite
<1> HIDE DEF m, a, loss
<1>10. loss \in Nat
  BY <1>4
<1> QED BY <1>1, <1>2, <1>5, <1>6, <1>7, <1>8, <1>9, <1>10 DEF loss

\* A replay of past periods is settled up to the present and no further.
LEMMA ReplayPast ==
  ASSUME NEW earned, NEW cur \in Period, \A p \in Period : p > cur => p \notin earned
  PROVE  Replay(earned, cur).settledThrough < cur
<1> DEFINE R == ReplayUpTo(earned)
           Good == {i \in 0..cur : R[i].settledThrough < i \/ R[i].settledThrough = NoDate}
<1>1. /\ 0 \in Nat /\ cur \in Nat /\ cur \in 0..LastPeriod /\ 0 <= cur
      /\ cur > 0 /\ LastPeriod \in Nat /\ NoDate < cur
  BY CalendarAssumption DEF Period, NoDate
<1>2. 0 \in Good
  BY <1>1, ReplayRuns DEF IsRun, NewState
<1>3. ASSUME NEW i \in 0..cur, i < cur, i \in Good PROVE i + 1 \in Good
  <2>1. i + 1 \in Period /\ i + 1 \in 0..cur /\ (i + 1) - 1 = i
    BY <1>1, <1>3 DEF Period
  <2>2. R[i + 1] = ReplayStep(R[i], earned, i + 1) /\ R[i] \in State
    BY <2>1, ReplayAt
  <2>3. R[i].settledThrough \in Int
    BY <2>2, CalendarAssumption DEF State, Date, Period, NoDate
  <2>4. R[i + 1].settledThrough \in {R[i].settledThrough, i}
    <3>1. CASE i + 1 \in earned
      <4>1. /\ Settle(R[i], i + 1) \in State
            /\ Settle(R[i], i + 1).settledThrough \in {R[i].settledThrough, i}
        BY <2>1, <2>2, SettleType, SettlePointer DEF Later
      <4> QED BY <2>1, <2>2, <3>1, <4>1, ApplyFields DEF ReplayStep
    <3>2. CASE i + 1 \notin earned
      BY <2>2, <3>2 DEF ReplayStep
    <3> QED BY <3>1, <3>2
  <2>5. R[i + 1].settledThrough < i + 1 \/ R[i + 1].settledThrough = NoDate
    BY <1>3, <2>3, <2>4
  <2> QED BY <2>1, <2>5
<1> HIDE DEF Good
<1>4. cur \in Good
  BY <1>1, <1>2, <1>3, UpwardInduction
<1>5. R[LastPeriod] = R[cur] /\ R[cur] \in State
  BY <1>1, ReplayQuiet, ReplayAt
<1>6. R[cur].settledThrough < cur
  BY <1>1, <1>4 DEF Good
<1>7. R[cur].settledThrough \in Int
  BY <1>5, CalendarAssumption DEF State, Date, Period, NoDate
<1> QED BY <1>1, <1>5, <1>6, <1>7, SettlePointer DEF Replay, Later

\* Neither the settle pointer nor the ledger is ahead of the present.
HomeInv ==
  /\ tz = DefaultTZ
  /\ st.settledThrough < Cur
  /\ \A p \in Earned(marks) : p <= Cur
  /\ PeriodKey(0, DefaultTZ) <= Cur

\* The inductive step of what earns a period that is not in the future.
LEMMA HomeMark ==
  ASSUME TypeOK, HomeInv, NEW p \in Period, p <= Cur, NEW a \in Amounts, AddMark(p, a)
  PROVE  \A q \in Earned(marks') : q <= Cur
<1>1. marks \in [Period -> 0..MaxAmount] /\ marks' = [marks EXCEPT ![p] = @ + a]
  BY DEF TypeOK, AddMark
<1> QED BY <1>1 DEF HomeInv, Earned

\* The inductive step of what leaves the ledger, and settles the row or not.
LEMMA HomeSettles ==
  ASSUME TypeOK, HomeInv, Cur' = Cur, tz' = tz,
         \A q \in Earned(marks') : q <= Cur,
         st'.settledThrough \in {st.settledThrough, Cur - 1}
  PROVE  HomeInv'
<1>1. Cur \in Int
  BY CurType, CalendarAssumption DEF Period
<1> QED BY <1>1 DEF HomeInv

\* Where a settlement of today may leave the pointer.
LEMMA TodayPointer ==
  ASSUME NEW s \in State, NEW cur \in Period
  PROVE  Settle(s, cur).settledThrough \in {s.settledThrough, cur - 1}
BY SettlePointer DEF Later

\* The inductive step of HomeInv.
LEMMA HomeStep ==
  ASSUME AtHome, TypeOK, HomeInv, [Next]_vars
  PROVE  HomeInv'
<1>1. /\ st \in State /\ Cur \in Period /\ marks \in [Period -> 0..MaxAmount]
      /\ now \in Time /\ Cur \in Int /\ st.settledThrough \in Int
      /\ \A p \in Earned(marks) : p <= Cur
  <2>1. st \in State /\ marks \in [Period -> 0..MaxAmount] /\ now \in Time
    BY DEF TypeOK
  <2>2. Cur \in Period /\ Cur \in Int
    BY CurType DEF Period
  <2>3. st.settledThrough \in Int
    BY <2>1, CalendarAssumption DEF State, Date, Period, NoDate
  <2> QED BY <2>1, <2>2, <2>3 DEF HomeInv
<1>2. CASE Advance
  <2>1. /\ now' = now + 1 /\ now' \in Time /\ tz' = tz /\ st' = st /\ marks' = marks
    BY <1>1, <1>2, CalendarAssumption DEF Advance, Time
  <2>2. Cur' \in Period /\ Cur <= Cur'
    <3>1. /\ DefaultTZ \in Zones /\ Cur = PeriodKey(now, DefaultTZ) /\ now < Horizon
          /\ Cur' = PeriodKey(now', DefaultTZ)
      BY <1>2, <2>1, EngineAssumption DEF Cur, HomeInv, Advance
    <3> QED BY <1>1, <2>1, <3>1, CalendarAssumption DEF AtHome, Period
  <2>3. PeriodKey(0, DefaultTZ) \in Period /\ \A p \in Earned(marks) : p \in Int
    BY CalendarAssumption, EngineAssumption DEF Time, Period, Earned
  <2> QED BY <1>1, <2>1, <2>2, <2>3 DEF HomeInv, Period
<1>3. CASE \/ UNCHANGED vars \/ SettleDue \/ RemindDue
           \/ \E r \in Reminders \cup {NoReminder} : SetReminder(r)
           \/ \E n \in FreezeGrants : SetFreezes(n)
  <2>1. /\ now' = now /\ tz' = tz /\ marks' = marks /\ Cur' = Cur
        /\ st' \in {st, Settle(st, Cur)} \/ \E n : st' = [st EXCEPT !.freezes = n]
    BY <1>3, Zenon DEF vars, SettleDue, SettleOne, RemindDue, RemindOne, SetReminder, SetFreezes, Cur
  <2>2. st'.settledThrough \in {st.settledThrough, Cur - 1}
    BY <1>1, <2>1, TodayPointer DEF State
  <2> QED BY <1>1, <2>1, <2>2, HomeSettles
<1>4. ASSUME NEW a \in Amounts, RecordCurrent(a) PROVE HomeInv'
  <2>1. Settle(st, Cur) \in State
    BY <1>1, SettleType
  <2>2. /\ AddMark(Cur, a) /\ Cur' = Cur /\ tz' = tz
        /\ st' \in {Settle(st, Cur), Apply(Settle(st, Cur), Cur)}
    BY <1>4 DEF RecordCurrent, Cur
  <2>3. st'.settledThrough = Settle(st, Cur).settledThrough
    BY <1>1, <2>1, <2>2, ApplyFields
  <2> QED BY <1>1, <2>2, <2>3, TodayPointer, HomeMark, HomeSettles
<1>5. ASSUME NEW d \in Delays, NEW a \in Amounts, RecordGrace(d, a) PROVE HomeInv'
  <2> DEFINE p       == PeriodKey(now - d, tz)
             applied == IF ReachesMin(p, a) THEN Apply(st, p) ELSE st
  <2>1. p \in Period /\ p < Cur
    BY <1>5, CalendarAssumption DEF TypeOK, RecordGrace, Period
  <2>2. applied \in State /\ applied.settledThrough = st.settledThrough
    BY <1>1, <2>1, ApplyType, ApplyFields
  <2>3. AddMark(p, a) /\ Cur' = Cur /\ tz' = tz /\ st' = Settle(applied, Cur)
    BY <1>5 DEF RecordGrace, Cur
  <2>4. p <= Cur
    BY <1>1, <2>1 DEF Period
  <2> HIDE DEF p, applied
  <2> QED BY <1>1, <2>1, <2>2, <2>3, <2>4, TodayPointer, HomeMark, HomeSettles
<1>6. ASSUME NEW ledger, Rebuild(ledger), now' = now, tz' = tz,
             \A p \in Earned(ledger) : p <= Cur
      PROVE  HomeInv'
  <2>1. \A p \in Period : p > Cur => p \notin Earned(ledger)
    BY <1>1, <1>6 DEF Period
  <2>2. st'.settledThrough < Cur
    BY <1>1, <1>6, <2>1, ReplayPast DEF Rebuild
  <2> QED BY <1>6, <2>2 DEF HomeInv, Rebuild, Cur
<1>7. CASE Unrecord \/ Recount
  <2> DEFINE ledger == [marks EXCEPT ![Cur] = 0]
  <2>1. Earned(ledger) \subseteq Earned(marks)
    <3>1. \A p \in Period : ledger[p] = IF p = Cur THEN 0 ELSE marks[p]
      BY <1>1
    <3> HIDE DEF ledger
    <3> QED BY <3>1, EngineAssumption DEF Earned
  <2>2. now' = now /\ tz' = tz /\ (Rebuild(ledger) \/ Rebuild(marks))
    BY <1>7 DEF Unrecord, Recount
  <2> HIDE DEF ledger
  <2> QED BY <1>1, <1>6, <2>1, <2>2
<1>8. ASSUME NEW h \in Histories, ReplaceHistory(h) PROVE HomeInv'
  <2> DEFINE ledger == [p \in Period |-> IF p \in h THEN MinAmount ELSE 0]
  <2>1. Earned(ledger) \subseteq h
    BY EngineAssumption DEF Earned
  <2>2. Rebuild(ledger) /\ now' = now /\ tz' = tz
    BY <1>8 DEF ReplaceHistory
  <2>3. \A p \in Earned(ledger) : p <= Cur
    <3>1. PeriodKey(0, DefaultTZ) \in Period /\ \A p \in Earned(ledger) : p \in Period
      BY CalendarAssumption, EngineAssumption DEF Time, Period, Earned
    <3>2. PeriodKey(0, DefaultTZ) <= Cur /\ \A p \in Earned(ledger) : p <= PeriodKey(0, DefaultTZ)
      BY <2>1 DEF HomeInv, AtHome
    <3> HIDE DEF ledger
    <3> QED BY <1>1, <3>1, <3>2 DEF Period
  <2> HIDE DEF ledger
  <2> QED BY <1>6, <2>2, <2>3
<1>9. ASSUME NEW n \in ShiftDays, ShiftHistory(n) PROVE HomeInv'
  <2>1. n \in Nat
    BY EngineAssumption
  <2>2. /\ marks' = [p \in Period |-> IF p + n \in Period THEN marks[p + n] ELSE 0]
        /\ st'.settledThrough =
             IF st.settledThrough = NoDate THEN NoDate ELSE st.settledThrough - n
        /\ Cur' = Cur /\ tz' = tz
    BY <1>1, <1>9 DEF ShiftHistory, State, Cur
  <2>3. \A p \in Earned(marks') : p <= Cur
    <3>1. ASSUME NEW p \in Period, marks'[p] >= MinAmount PROVE p <= Cur
      <4>1. p + n \in Period /\ marks[p + n] >= MinAmount
        BY <2>2, <3>1, EngineAssumption
      <4>2. p + n <= Cur
        BY <1>1, <4>1 DEF Earned
      <4> QED BY <1>1, <2>1, <4>2 DEF Period
    <3> QED BY <3>1 DEF Earned
  <2>4. st'.settledThrough < Cur
    BY <1>1, <2>1, <2>2 DEF HomeInv
  <2> QED BY <2>2, <2>3, <2>4 DEF HomeInv
<1>10. CASE Repair
  <2>1. /\ st'.settledThrough = Later(Settle(st, Cur).settledThrough, Cur - 1)
        /\ marks' = marks
    BY <1>10, RepairIs
  <2>2. Cur' = Cur /\ tz' = tz
    BY <1>10 DEF Repair, Cur
  <2>3. st'.settledThrough \in {st.settledThrough, Cur - 1}
    BY <1>1, <2>1, TodayPointer DEF Later
  <2> QED BY <1>1, <2>1, <2>2, <2>3, HomeSettles
<1>11. \A z \in Zones : ~SetTimezone(z)
  BY DEF AtHome, SetTimezone
<1> QED BY <1>2, <1>3, <1>4, <1>5, <1>7, <1>8, <1>9, <1>10, <1>11 DEF Next

LEMMA HomeCorrect ==
  ASSUME AtHome
  PROVE  Spec => []HomeInv
<1>1. Init => HomeInv
  <2> SUFFICES ASSUME Init PROVE HomeInv
    OBVIOUS
  <2>1. Earned(marks) = {} /\ tz = DefaultTZ /\ st.settledThrough = 0
    BY EngineAssumption DEF Init, Earned, NewState, NoDate
  <2>2. Cur = PeriodKey(0, DefaultTZ) /\ Cur \in 2..LastPeriod
    BY CalendarAssumption, EngineAssumption DEF Init, Cur, Time
  <2> QED BY <2>1, <2>2 DEF HomeInv
<1>2. TypeOK /\ HomeInv /\ [Next]_vars => HomeInv'
  BY HomeStep
<1> QED BY <1>1, <1>2, TypeCorrect, PTL DEF Spec

\* LossAt is exact (state.go:43-44): what a chain survives without activity is
\* every period up to its loss period and no later one, with grace, repairs and
\* whatever is rewritten, for a subject who stays at home.
THEOREM LossExactCorrect ==
  ASSUME AtHome
  PROVE  Spec => []LossExact
<1>1. TypeOK /\ HomeInv => LossExact
  <2> SUFFICES ASSUME TypeOK, HomeInv, Derive(st, Cur).lossPeriod # NoDate,
                      NEW cur \in Cur..(Derive(st, Cur).lossPeriod + 2)
               PROVE  Settle(st, cur).currentCount > 0 <=> cur <= Derive(st, Cur).lossPeriod
    BY Zenon DEF LossExact
  <2>1. st \in State /\ Cur \in Period /\ st.settledThrough < Cur
    BY CurType DEF TypeOK, HomeInv
  <2>2. Cur \in Int /\ cur \in Int /\ Cur <= cur
    BY <2>1 DEF Period
  <2> QED BY <2>1, <2>2, LossSurvives
<1> QED BY <1>1, TypeCorrect, HomeCorrect, PTL

(***************************************************************************)
(* The instant a chain is lost at.                                         *)
(***************************************************************************)

\* No clock change at home falls on a boundary: the clock shows the boundary, and
\* it has just shown the slot before it.
CleanBoundaries ==
  \A p \in Nat : \A end \in PeriodEnds(p, DefaultTZ) :
    /\ Wall(end, DefaultTZ) = (p + 1) * SlotsPerPeriod + Boundary
    /\ Wall(end - 1, DefaultTZ) = Wall(end, DefaultTZ) - 1

\* The clock of any instant, within the bounds or not, is a number.
LEMMA OffsetType ==
  ASSUME NEW t \in Int, NEW z \in Zones
  PROVE  OffsetAt(t, z) \in Int /\ Wall(t, z) \in Int
BY CalendarAssumption DEF OffsetAt, Wall, Time

\* A period ends at an instant.
LEMMA EndsType ==
  ASSUME NEW p \in Nat, NEW z \in Zones
  PROVE  PeriodEnds(p, z) \subseteq Int
<1> DEFINE w     == (p + 1) * SlotsPerPeriod + Boundary
           exact == {t \in {w - Offset[z][u] : u \in Time} : Wall(t, z) = w}
           gap   == {t \in Time : Wall(t, z) < w /\ w < Wall(t + 1, z)}
           edges == UNION {{w - OffsetAt(t, z), w - OffsetAt(t + 1, z)} : t \in gap}
<1>1. w \in Int
  BY CalendarAssumption
<1>2. PeriodEnds(p, z) \in {exact, edges}
  BY DEF PeriodEnds, InstantsOf
<1> HIDE DEF w
<1>3. exact \subseteq Int
  BY <1>1, CalendarAssumption
<1>4. \A t \in gap : t \in Int /\ t + 1 \in Int
  BY DEF Time
<1>5. \A t \in gap : w - OffsetAt(t, z) \in Int /\ w - OffsetAt(t + 1, z) \in Int
  <2> HIDE DEF gap
  <2> QED BY <1>1, <1>4, OffsetType
<1>6. edges \subseteq Int
  <2> HIDE DEF gap
  <2> QED BY <1>5
<1> HIDE DEF exact, edges
<1> QED BY <1>2, <1>3, <1>6

\* A clock that is not changed shows later periods later.
LEMMA SteadyClock ==
  ASSUME NEW t \in Int, NEW u \in Int, NEW z \in Zones, t <= u,
         OffsetAt(t, z) = OffsetAt(u, z)
  PROVE  PeriodKey(t, z) <= PeriodKey(u, z)
<1>1. OffsetAt(t, z) \in Int /\ SlotsPerPeriod \in Nat \ {0} /\ Boundary \in Int
  BY OffsetType, CalendarAssumption
<1>2. \A m, n \in Int : m <= n => m \div SlotsPerPeriod <= n \div SlotsPerPeriod
  BY <1>1
<1>3. /\ Wall(t, z) - Boundary \in Int /\ Wall(u, z) - Boundary \in Int
      /\ Wall(t, z) - Boundary <= Wall(u, z) - Boundary
  BY <1>1 DEF Wall
<1> QED BY <1>2, <1>3 DEF PeriodKey

\* At home no instant shows an earlier period than an instant before it.
LEMMA HomeClock ==
  ASSUME AtHome, NEW t \in Int, NEW u \in Int, t <= u
  PROVE  PeriodKey(t, DefaultTZ) <= PeriodKey(u, DefaultTZ)
<1> DEFINE Key(i) == PeriodKey(i, DefaultTZ)
<1>1. DefaultTZ \in Zones /\ Horizon \in Nat /\ Time = 0..Horizon
  BY CalendarAssumption, EngineAssumption DEF Time
<1>2. \A i \in Int : Key(i) \in Int
  <2>1. \A x \in Int : x \div SlotsPerPeriod \in Int
    BY CalendarAssumption
  <2>2. \A i \in Int : Wall(i, DefaultTZ) - Boundary \in Int
    BY <1>1, OffsetType, CalendarAssumption
  <2> QED BY <2>1, <2>2 DEF PeriodKey
<1>3. \A a, b \in Time : a <= b => Key(a) <= Key(b)
  <2> SUFFICES ASSUME NEW a \in Time, NEW b \in Time, a <= b PROVE Key(a) <= Key(b)
    OBVIOUS
  <2> DEFINE Good == {i \in Int : Key(a) <= Key(i)}
  <2>1. a \in Good
    BY <1>1, <1>2
  <2>2. \A i \in a..Horizon : i < Horizon /\ i \in Good => i + 1 \in Good
    <3> SUFFICES ASSUME NEW i \in a..Horizon, i < Horizon, Key(a) <= Key(i)
                 PROVE  Key(a) <= Key(i + 1)
      BY <1>1
    <3>1. i \in Time /\ i \in Int /\ i + 1 \in Int /\ a \in Int
      BY <1>1
    <3>2. Key(i) <= Key(i + 1)
      BY <3>1 DEF AtHome
    <3>3. Key(a) \in Int /\ Key(i) \in Int /\ Key(i + 1) \in Int
      BY <1>2, <3>1
    <3> HIDE DEF Key
    <3> QED BY <3>2, <3>3
  <2>3. a \in Nat /\ b \in a..Horizon
    BY <1>1
  <2> HIDE DEF Good, Key
  <2>4. \A i \in a..Horizon : i \in Good
    BY <1>1, <2>1, <2>2, <2>3, UpwardInduction
  <2> QED BY <2>3, <2>4 DEF Good
<1> DEFINE Clamp(i) == IF i < 0 THEN 0 ELSE IF i > Horizon THEN Horizon ELSE i
<1>4. Clamp(t) \in Time /\ Clamp(u) \in Time /\ Clamp(t) <= Clamp(u)
  BY <1>1
<1>5. \A i \in Int : Clamp(i) \in Int /\ OffsetAt(i, DefaultTZ) = OffsetAt(Clamp(i), DefaultTZ)
  BY <1>1 DEF OffsetAt
<1>6. CASE t <= Clamp(t) /\ Clamp(u) <= u
  <2>1. Key(t) <= Key(Clamp(t)) /\ Key(Clamp(u)) <= Key(u)
    BY <1>1, <1>5, <1>6, SteadyClock
  <2>2. Key(Clamp(t)) <= Key(Clamp(u))
    BY <1>3, <1>4
  <2>3. Key(t) \in Int /\ Key(u) \in Int /\ Key(Clamp(t)) \in Int /\ Key(Clamp(u)) \in Int
    BY <1>2, <1>5
  <2> HIDE DEF Key, Clamp
  <2>4. Key(t) <= Key(u)
    BY <2>1, <2>2, <2>3
  <2> QED BY <2>4 DEF Key
<1>7. CASE ~(t <= Clamp(t) /\ Clamp(u) <= u)
  <2>1. Clamp(t) = Clamp(u)
    BY <1>1, <1>7
  <2> HIDE DEF Clamp
  <2>2. OffsetAt(t, DefaultTZ) = OffsetAt(u, DefaultTZ)
    BY <1>5, <2>1
  <2>3. DefaultTZ \in Zones /\ t \in Int /\ u \in Int /\ t <= u
    BY <1>1
  <2> QED BY <2>2, <2>3, SteadyClock
<1> QED BY <1>6, <1>7

\* An instant is in a later period exactly when this one has ended.
LEMMA EndsExactly ==
  ASSUME AtHome, CleanBoundaries, NEW p \in Nat, NEW end \in PeriodEnds(p, DefaultTZ),
         NEW t \in Time
  PROVE  PeriodKey(t, DefaultTZ) <= p <=> t < end
<1>1. DefaultTZ \in Zones /\ t \in Int /\ SlotsPerPeriod \in Nat \ {0} /\ Boundary \in Int
  BY CalendarAssumption, EngineAssumption DEF Time
<1>2. end \in Int
  BY <1>1, EndsType
<1>3. PeriodKey(end, DefaultTZ) = p + 1 /\ PeriodKey(end - 1, DefaultTZ) = p
  <2>1. /\ Wall(end, DefaultTZ) - Boundary = (p + 1) * SlotsPerPeriod
        /\ Wall(end - 1, DefaultTZ) - Boundary = p * SlotsPerPeriod + (SlotsPerPeriod - 1)
    BY <1>1, <1>2, OffsetType DEF CleanBoundaries
  <2>2. \A k \in Nat, r \in 0..(SlotsPerPeriod - 1) :
          (k * SlotsPerPeriod + r) \div SlotsPerPeriod = k
    BY <1>1
  <2>3. (p + 1) * SlotsPerPeriod = (p + 1) * SlotsPerPeriod + 0
    BY <1>1
  <2>4. 0 \in 0..(SlotsPerPeriod - 1) /\ SlotsPerPeriod - 1 \in 0..(SlotsPerPeriod - 1)
    BY <1>1
  <2> QED BY <2>1, <2>2, <2>3, <2>4 DEF PeriodKey
<1>4. PeriodKey(t, DefaultTZ) \in Int
  BY <1>1, CalendarAssumption
<1>5. t < end => PeriodKey(t, DefaultTZ) <= p
  BY <1>1, <1>2, <1>3, HomeClock
<1>6. end <= t => p + 1 <= PeriodKey(t, DefaultTZ)
  BY <1>1, <1>2, <1>3, HomeClock
<1> QED BY <1>1, <1>2, <1>4, <1>5, <1>6

\* The same of the instant a subject is shown (period.go:28-43, state.go:43-44):
\* the chain is alive up to the slot before loss_at and not from it on, on days
\* that daylight saving makes longer or shorter too.
THEOREM LossAtExactCorrect ==
  ASSUME AtHome, CleanBoundaries
  PROVE  Spec => []LossAtExact
<1>1. TypeOK /\ HomeInv => LossAtExact
  <2> DEFINE loss == Derive(st, Cur).lossPeriod
  <2> SUFFICES ASSUME TypeOK, HomeInv, loss # NoDate,
                      NEW end \in PeriodEnds(loss, tz), NEW t \in now..Horizon
               PROVE  Settle(st, PeriodKey(t, tz)).currentCount > 0 <=> t < end
    BY Zenon DEF LossAtExact
  <2>1. st \in State /\ Cur \in Period /\ st.settledThrough < Cur /\ tz = DefaultTZ
    BY CurType DEF TypeOK, HomeInv
  <2>2. t \in Time /\ t \in Int /\ now \in Int /\ now <= t
    BY CalendarAssumption DEF TypeOK, Time
  <2>3. PeriodKey(t, tz) \in Int /\ Cur <= PeriodKey(t, tz)
    BY <2>1, <2>2, HomeClock, CalendarAssumption, EngineAssumption DEF Cur
  <2>4. /\ loss \in Nat
        /\ Settle(st, PeriodKey(t, tz)).currentCount > 0 <=> PeriodKey(t, tz) <= loss
    BY <2>1, <2>3, LossSurvives
  <2> QED BY <2>1, <2>2, <2>4, EndsExactly
<1> QED BY <1>1, TypeCorrect, HomeCorrect, PTL

-----------------------------------------------------------------------------
(***************************************************************************)
(* A day is not over before its reminder.                                  *)
(***************************************************************************)

\* Where the clock at home is put forward, the time of day it skips belongs to the
\* period, or a later one, in which time.Date answers for it: no clock is put
\* forward over the last hour of a day into the next one.
SkipsWithin ==
  \A t \in Time, w \in Int :
    Wall(t, DefaultTZ) < w /\ w < Wall(t + 1, DefaultTZ) =>
      PeriodKey(w - OffsetAt(t, DefaultTZ), DefaultTZ) <= (w - Boundary) \div SlotsPerPeriod

\* At home time passes by itself, and nothing else moves it.
LEMMA HomeMoves ==
  ASSUME AtHome, [Next]_vars
  PROVE  Advance \/ (now' = now /\ tz' = tz)
<1>1. ASSUME NEW z \in Zones, SetTimezone(z) PROVE FALSE
  BY <1>1 DEF SetTimezone, AtHome
<1> QED
  BY <1>1, Zenon DEF Next, vars, RecordCurrent, RecordGrace, Unrecord, Recount, ReplaceHistory,
     ShiftHistory, SetFreezes, Repair, SetReminder, SettleDue, SettleOne, RemindDue, RemindOne

\* A later clock shows a later period, or the same.
LEMMA KeyIsMonotone ==
  ASSUME NEW v \in Int, NEW w \in Int, v <= w
  PROVE  /\ (v - Boundary) \div SlotsPerPeriod <= (w - Boundary) \div SlotsPerPeriod
         /\ (v - Boundary) \div SlotsPerPeriod \in Int
         /\ (w - Boundary) \div SlotsPerPeriod \in Int
<1>1. \A m, n \in Int : m <= n => m \div SlotsPerPeriod <= n \div SlotsPerPeriod
  BY CalendarAssumption
<1>2. \A m \in Int : m \div SlotsPerPeriod \in Int
  BY CalendarAssumption
<1>3. v - Boundary \in Int /\ w - Boundary \in Int /\ v - Boundary <= w - Boundary
  BY CalendarAssumption
<1> QED BY <1>1, <1>2, <1>3

\* Every instant is in a period.
LEMMA KeyType ==
  ASSUME NEW t \in Int, NEW z \in Zones
  PROVE  PeriodKey(t, z) \in Int
<1>1. Wall(t, z) \in Int
  BY OffsetType
<1> QED BY <1>1, KeyIsMonotone DEF PeriodKey

\* The instant that time.Date answers a time of day with is in no later period
\* than the time of day is.
LEMMA InstantBelongs ==
  ASSUME AtHome, SkipsWithin, NEW w \in Int, NEW at \in InstantsOf(w, DefaultTZ)
  PROVE  at \in Int /\ PeriodKey(at, DefaultTZ) <= (w - Boundary) \div SlotsPerPeriod
<1> DEFINE z     == DefaultTZ
           exact == {t \in {w - Offset[z][u] : u \in Time} : Wall(t, z) = w}
           gap   == {t \in Time : Wall(t, z) < w /\ w < Wall(t + 1, z)}
           edges == UNION {{w - OffsetAt(t, z), w - OffsetAt(t + 1, z)} : t \in gap}
           Day(v) == (v - Boundary) \div SlotsPerPeriod
<1>1. z \in Zones /\ \A u \in Time : Offset[z][u] \in Int
  BY CalendarAssumption, EngineAssumption
<1>2. CASE at \in exact
  <2>1. at \in Int /\ Wall(at, z) = w
    BY <1>1, <1>2
  <2>2. PeriodKey(at, z) = Day(w)
    BY <2>1 DEF PeriodKey
  <2> HIDE DEF z
  <2>3. Day(w) \in Int
    BY KeyIsMonotone
  <2> HIDE DEF Day
  <2>4. PeriodKey(at, z) <= Day(w)
    BY <2>2, <2>3
  <2> QED BY <2>1, <2>4 DEF z, Day
<1>3. CASE at \in edges
  <2>1. PICK t \in gap : at = w - OffsetAt(t, z) \/ at = w - OffsetAt(t + 1, z)
    BY <1>3
  <2>2. /\ t \in Time /\ t \in Int /\ t + 1 \in Int
        /\ Wall(t, z) < w /\ w < Wall(t + 1, z)
    BY <2>1 DEF Time
  <2> HIDE DEF z
  <2>3. /\ Wall(t, z) \in Int /\ OffsetAt(t, z) \in Int /\ Wall(t, z) = t + OffsetAt(t, z)
        /\ Wall(t + 1, z) \in Int /\ OffsetAt(t + 1, z) \in Int
        /\ Wall(t + 1, z) = t + 1 + OffsetAt(t + 1, z)
    BY <1>1, <2>2, OffsetType DEF Wall
  <2>4. CASE at = w - OffsetAt(t, z)
    <3>1. PeriodKey(w - OffsetAt(t, z), z) <= Day(w)
      BY <2>2, Zenon DEF SkipsWithin, z
    <3>2. at \in Int
      BY <2>3, <2>4
    <3> HIDE DEF Day
    <3>3. PeriodKey(at, z) <= Day(w)
      BY <2>4, <3>1
    <3> QED BY <3>2, <3>3 DEF z, Day
  <2>5. CASE at = w - OffsetAt(t + 1, z)
    <3>1. at \in Int /\ at <= t
      BY <2>2, <2>3, <2>5
    <3>2. PeriodKey(at, z) <= PeriodKey(t, z)
      BY <2>2, <3>1, HomeClock DEF z
    <3>3. PeriodKey(t, z) <= Day(w) /\ PeriodKey(t, z) \in Int /\ Day(w) \in Int
      BY <2>2, <2>3, KeyIsMonotone DEF PeriodKey
    <3>4. PeriodKey(at, z) \in Int
      BY <1>1, <3>1, KeyType
    <3> HIDE DEF Day
    <3>5. PeriodKey(at, z) <= Day(w)
      BY <3>2, <3>3, <3>4
    <3> QED BY <3>1, <3>5 DEF z, Day
  <2> QED BY <2>1, <2>4, <2>5
<1> QED BY <1>2, <1>3 DEF InstantsOf

\* No day ends before its reminder (scheduler.go:171-172, 221-228), on days that
\* daylight saving makes longer or shorter too, unless the boundary is before
\* midnight.
THEOREM ReminderReachedCorrect ==
  ASSUME AtHome, SkipsWithin, Boundary \in Nat
  PROVE  Spec => ReminderReached
<1>1. TypeOK /\ HomeInv /\ [Next]_vars =>
        [exists /\ DayPeriods /\ reminder # NoReminder
         /\ st.currentCount > 0 /\ AtRisk(Derive(st, Cur)) /\ Cur' > Cur
           => \A at \in ReminderInstants : at <= now]_vars
  <2> SUFFICES ASSUME TypeOK, HomeInv, [Next]_vars, reminder # NoReminder, Cur' > Cur,
                      NEW at \in ReminderInstants
               PROVE  at <= now
    BY Zenon
  <2>1. /\ Cur \in Period /\ Cur \in Int /\ now \in Int /\ now \in Time
        /\ tz = DefaultTZ /\ DefaultTZ \in Zones
    BY CurType, CalendarAssumption, EngineAssumption DEF TypeOK, HomeInv, Time, Period
  <2>2. Advance
    <3>1. now' = now /\ tz' = tz => Cur' = Cur
      BY DEF Cur
    <3>2. Advance \/ (now' = now /\ tz' = tz)
      BY HomeMoves
    <3> QED BY <2>1, <3>1, <3>2
  <2>3. now' = now + 1 /\ Cur' = PeriodKey(now + 1, DefaultTZ)
    BY <2>1, <2>2 DEF Advance, Cur
  <2> DEFINE w == Cur * SlotsPerPeriod + reminder
  <2>4. /\ w \in Int /\ reminder \in 0..(SlotsPerPeriod - 1)
        /\ at \in InstantsOf(w, DefaultTZ)
    BY <2>1, CalendarAssumption, EngineAssumption DEF TypeOK, ReminderInstants
  <2>5. (w - Boundary) \div SlotsPerPeriod <= Cur
    <3>1. w - 0 \in Int /\ w - Boundary <= w /\ w - Boundary \in Int
      BY <2>4, CalendarAssumption
    <3>2. \A m, n \in Int : m <= n => m \div SlotsPerPeriod <= n \div SlotsPerPeriod
      BY CalendarAssumption
    <3>3. w \div SlotsPerPeriod = Cur
      <4>1. \A k \in Nat, r \in 0..(SlotsPerPeriod - 1) :
              (k * SlotsPerPeriod + r) \div SlotsPerPeriod = k
        BY CalendarAssumption
      <4> QED BY <2>1, <2>4, <4>1 DEF Period
    <3> HIDE DEF w
    <3> QED BY <2>4, <3>1, <3>2, <3>3
  <2> HIDE DEF w
  <2>6. at \in Int /\ PeriodKey(at, DefaultTZ) <= (w - Boundary) \div SlotsPerPeriod
    BY <2>4, InstantBelongs
  <2>7. /\ PeriodKey(at, DefaultTZ) \in Int /\ PeriodKey(now + 1, DefaultTZ) \in Int
        /\ (w - Boundary) \div SlotsPerPeriod \in Int
    <3>1. now + 1 \in Int
      BY <2>1
    <3> QED BY <2>1, <2>4, <2>6, <3>1, KeyType, KeyIsMonotone
  <2>8. now + 1 <= at => PeriodKey(now + 1, DefaultTZ) <= PeriodKey(at, DefaultTZ)
    BY <2>1, <2>6, HomeClock
  <2> QED BY <2>1, <2>3, <2>5, <2>6, <2>7, <2>8
<1> QED BY <1>1, TypeCorrect, HomeCorrect, PTL DEF Spec, ReminderReached
=============================================================================
