-------------------------- MODULE SettleLoopProofs --------------------------
(***************************************************************************)
(* Theorems about SettleLoop: the closed form of Settle and SettleEvents   *)
(* is what the loop of core.Settle computes, for every calendar, every     *)
(* configuration, every state and every current period.                    *)
(***************************************************************************)
EXTENDS SettleLoop, StreakCoreProofs

\* What the events so far say.
Told == {events[i] : i \in DOMAIN events}

\* What is charged to whoever Settle is called with, and how much of it lies
\* before the loop's period.
Due    == Charged(s0, cur)
Passed == {q \in Due : q < p}

\* The freezes have covered every miss so far.
Paying ==
  /\ s = [s0 EXCEPT !.freezes = @ - Len(events)]
  /\ Len(events) = Cardinality(Passed) /\ Len(events) <= Spent(s0, cur)
  /\ Told = {Ev("freeze_consumed", q, s0.currentCount) : q \in Passed}

\* The last miss has broken the chain.
Broken ==
  /\ Breaks(s0, cur)
  /\ s = [s0 EXCEPT !.currentCount = 0, !.freezeProgress = 0, !.freezes = @ - Spent(s0, cur)]
  /\ Len(events) = Spent(s0, cur) + 1
  /\ Told = SettleEvents(s0, cur)

\* The inductive invariant: the loop's period is an active one after the last
\* one resolved, and what lies before it is resolved.
LoopInv ==
  /\ s0 \in StartStates /\ cur \in 2..LastPeriod
  /\ events \in Seq(Event)
  /\ done => /\ s = Settle(s0, cur)
             /\ Told = SettleEvents(s0, cur)
             /\ Len(events) = Cardinality(SettleEvents(s0, cur))
  /\ ~done /\ s0.lastEarned = NoDate => s = s0 /\ events = <<>>
  /\ ~done /\ s0.lastEarned # NoDate =>
       /\ p \in Nat /\ Later(s0.lastEarned, s0.settledThrough) < p /\ ScheduledOn(p)
       /\ Paying \/ Broken

\* One more event.
LEMMA AppendTold ==
  ASSUME NEW S, NEW sq \in Seq(S), NEW e \in S
  PROVE  /\ Append(sq, e) \in Seq(S) /\ Len(Append(sq, e)) = Len(sq) + 1
         /\ {Append(sq, e)[i] : i \in DOMAIN Append(sq, e)} = {sq[i] : i \in DOMAIN sq} \cup {e}
<1> DEFINE t == Append(sq, e)
<1>1. /\ t \in Seq(S) /\ Len(t) = Len(sq) + 1 /\ Len(sq) \in Nat
      /\ DOMAIN t = 1..(Len(sq) + 1) /\ DOMAIN sq = 1..Len(sq)
      /\ \A i \in 1..Len(sq) : t[i] = sq[i]
      /\ t[Len(sq) + 1] = e
  OBVIOUS
<1> HIDE DEF t
<1>2. ASSUME NEW i \in DOMAIN t PROVE t[i] \in {sq[j] : j \in DOMAIN sq} \cup {e}
  <2>1. i \in DOMAIN sq \/ i = Len(sq) + 1
    BY <1>1
  <2> QED BY <1>1, <2>1
<1>3. ASSUME NEW i \in DOMAIN sq PROVE sq[i] \in {t[j] : j \in DOMAIN t}
  <2>1. i \in DOMAIN t
    BY <1>1
  <2> QED BY <1>1, <2>1
<1>4. e \in {t[j] : j \in DOMAIN t}
  BY <1>1
<1> QED BY <1>1, <1>2, <1>3, <1>4 DEF t

\* The states Settle is checked from are states.
LEMMA StartTypes ==
  ASSUME NEW x \in StartStates, NEW c \in 2..LastPeriod
  PROVE  /\ x \in State /\ c \in Period /\ c \in Nat
         /\ Later(x.lastEarned, x.settledThrough) \in Nat
         /\ x.lastEarned = NoDate => x.currentCount = 0
BY LoopAssumption, ConfigAssumption, CalendarAssumption
   DEF StartStates, State, Date, Period, NoDate, Later

\* The start of the loop: nothing lies before the first active period.
LEMMA LoopStarts ==
  ASSUME LoopInit
  PROVE  LoopInv
<1>1. s0 \in StartStates /\ cur \in 2..LastPeriod /\ s = s0 /\ events = <<>> /\ ~done
  BY DEF LoopInit
<1>2. s0 \in State /\ cur \in Period /\ Later(s0.lastEarned, s0.settledThrough) \in Nat
  BY <1>1, StartTypes
<1>3. /\ p \in Nat /\ Later(s0.lastEarned, s0.settledThrough) < p /\ ScheduledOn(p)
      /\ \A r \in (Later(s0.lastEarned, s0.settledThrough) + 1)..(p - 1) : ~ScheduledOn(r)
  <2> DEFINE from == Later(s0.lastEarned, s0.settledThrough)
  <2>1. p = NextScheduled(from) /\ from \in Nat
    BY <1>2 DEF LoopInit
  <2> HIDE DEF from
  <2>2. p \in (from + 1)..(from + 7) /\ ScheduledOn(p)
        /\ \A r \in (from + 1)..(p - 1) : ~ScheduledOn(r)
    BY <2>1, NextScheduledIs
  <2> QED BY <2>1, <2>2 DEF from
<1>4. Passed = {}
  <2>1. \A q \in Due : q \in Nat /\ ScheduledOn(q) /\ q > Later(s0.lastEarned, s0.settledThrough)
    BY <1>2 DEF Due, Charged, Missed
  <2> QED BY <1>2, <1>3, <2>1 DEF Passed
<1>5. Paying
  <2>1. Len(events) = 0 /\ DOMAIN events = {}
    BY <1>1
  <2>2. s = [s0 EXCEPT !.freezes = @ - 0]
    BY <1>1, <1>2 DEF State
  <2>3. Cardinality(Passed) = 0 /\ Told = {}
    BY <1>4, <2>1, FS_EmptySet DEF Told
  <2> QED BY <1>2, <1>4, <2>1, <2>2, <2>3, SpentType DEF Paying
<1> QED BY <1>1, <1>3, <1>5 DEF LoopInv

\* At a miss the freezes have covered what lies before it, and moving on from
\* the miss resolves it and nothing else.
LEMMA MissIs ==
  ASSUME LoopInv, AtMiss
  PROVE  /\ s0 \in State /\ cur \in Period /\ s0.lastEarned # NoDate
         /\ Paying /\ p \in Due /\ p \in Period /\ p \notin Passed
         /\ Ev("freeze_consumed", p, s.currentCount) \in Event
         /\ Ev("broken", p, s.currentCount) \in Event
         /\ s.currentCount = s0.currentCount
         /\ Rank(Due, p) = Len(events) /\ Len(events) < Cardinality(Due)
         /\ Due \in SUBSET Nat /\ IsFiniteSet(Due) /\ Len(events) \in Nat
         /\ NextScheduled(p) \in Nat /\ p < NextScheduled(p) /\ ScheduledOn(NextScheduled(p))
         /\ {q \in Due : q < NextScheduled(p)} = Passed \cup {p}
<1>1. /\ s0 \in State /\ cur \in Period /\ cur \in Nat
      /\ Later(s0.lastEarned, s0.settledThrough) \in Nat
  BY StartTypes DEF LoopInv
<1>2. s0.lastEarned # NoDate /\ Paying
  <2>1. s0.lastEarned # NoDate
    BY DEF LoopInv, AtMiss
  <2>2. ASSUME Broken PROVE FALSE
    <3>1. s = [s0 EXCEPT !.currentCount = 0, !.freezeProgress = 0, !.freezes = @ - Spent(s0, cur)]
      BY <2>2 DEF Broken
    <3>2. s.currentCount = 0
      BY <1>1, <3>1 DEF State
    <3> QED BY <3>2 DEF AtMiss
  <2> QED BY <2>1, <2>2 DEF LoopInv, AtMiss
<1>3. s.currentCount = s0.currentCount /\ s.currentCount > 0
  BY <1>1, <1>2 DEF Paying, AtMiss, State
<1>4. /\ Due \in SUBSET Nat /\ IsFiniteSet(Due) /\ Due \subseteq Period
      /\ Due = {q \in (Later(s0.lastEarned, s0.settledThrough) + 1)..(cur - 1) : ScheduledOn(q)}
  <2>1. IsFiniteSet(Due) /\ Due \subseteq Period
    BY <1>1, ChargedFinite DEF Due
  <2>2. Period \subseteq Nat
    BY CalendarAssumption DEF Period
  <2> QED BY <1>2, <1>3, <2>1, <2>2 DEF Due, Charged, Missed
<1>5. p \in Nat /\ Later(s0.lastEarned, s0.settledThrough) < p /\ ScheduledOn(p) /\ p < cur
  BY <1>2 DEF LoopInv, AtMiss
<1>6. p \in Due /\ p \in Period /\ p \notin Passed
  BY <1>1, <1>4, <1>5 DEF Passed
<1>7. Rank(Due, p) = Len(events) /\ Len(events) < Cardinality(Due) /\ Len(events) \in Nat
  <2>1. Rank(Due, p) = Cardinality(Passed)
    BY DEF Rank, Passed
  <2>2. Rank(Due, p) < Cardinality(Due) /\ Rank(Due, p) \in Nat
    BY <1>4, <1>5, <1>6, RankOrder
  <2> QED BY <1>2, <2>1, <2>2 DEF Paying
<1>8. /\ NextScheduled(p) \in (p + 1)..(p + 7) /\ ScheduledOn(NextScheduled(p))
      /\ \A r \in (p + 1)..(NextScheduled(p) - 1) : ~ScheduledOn(r)
  BY <1>5, NextScheduledIs
<1>9. {q \in Due : q < NextScheduled(p)} = Passed \cup {p}
  <2>1. \A q \in Due : q \in Nat /\ ScheduledOn(q)
    BY <1>4
  <2>2. \A q \in Due : q < NextScheduled(p) <=> q < p \/ q = p
    BY <1>5, <1>8, <2>1
  <2> QED BY <1>6, <2>2, Zenon DEF Passed
<1>10. \A type \in EventType : Ev(type, p, s.currentCount) \in Event
  BY <1>1, <1>3, <1>6 DEF State, Ev, Event
<1> QED BY <1>1, <1>2, <1>3, <1>4, <1>5, <1>6, <1>7, <1>8, <1>9, <1>10 DEF EventType

\* A freeze covers one more miss.
LEMMA SpendKeeps ==
  ASSUME LoopInv, SpendFreeze
  PROVE  LoopInv'
<1> DEFINE e == Ev("freeze_consumed", p, s.currentCount)
           k == Len(events)
<1>1. /\ AtMiss /\ AutoConsume /\ s.freezes > 0
      /\ s' = [s EXCEPT !.freezes = @ - 1]
      /\ events' = Append(events, e) /\ p' = NextScheduled(p)
      /\ s0' = s0 /\ cur' = cur /\ done' = done
  BY DEF SpendFreeze
<1>2. /\ s0 \in State /\ cur \in Period /\ Paying /\ p \in Due /\ p \notin Passed
      /\ e \in Event /\ s.currentCount = s0.currentCount
      /\ k < Cardinality(Due) /\ k \in Nat
      /\ Due \in SUBSET Nat /\ IsFiniteSet(Due)
      /\ p' \in Nat /\ p < p' /\ ScheduledOn(p')
      /\ {q \in Due : q < p'} = Passed \cup {p}
  BY <1>1, MissIs
<1>3. events \in Seq(Event)
  BY DEF LoopInv
<1>4. /\ events' \in Seq(Event) /\ Len(events') = k + 1 /\ Told' = Told \cup {e}
  <2> HIDE DEF e
  <2> QED BY <1>1, <1>2, <1>3, AppendTold DEF Told
<1>5. Passed' = Passed \cup {p}
  BY <1>1, <1>2 DEF Passed, Due
<1>6. Cardinality(Passed') = k + 1
  <2>1. IsFiniteSet(Passed) /\ Cardinality(Passed) = k
    BY <1>2, FS_Subset DEF Passed, Paying
  <2> QED BY <1>2, <1>5, <2>1, FS_AddElement
<1>7. k + 1 <= Spent(s0, cur)
  <2>1. s.freezes = s0.freezes - k /\ s0.freezes \in Nat
    BY <1>2 DEF Paying, State
  <2>2. Spent(s0, cur) = IF Cardinality(Due) < s0.freezes THEN Cardinality(Due) ELSE s0.freezes
    BY <1>1 DEF Spent, Due
  <2>3. Cardinality(Due) \in Nat
    BY <1>2, FS_CardinalityType
  <2> HIDE DEF k
  <2> QED BY <1>1, <1>2, <2>1, <2>2, <2>3
<1>8. Paying'
  <2>1. s' = [s0 EXCEPT !.freezes = @ - (k + 1)]
    <3>1. s = [s0 EXCEPT !.freezes = @ - k]
      BY <1>2 DEF Paying
    <3>2. s0.freezes \in Nat /\ (s0.freezes - k) - 1 = s0.freezes - (k + 1)
      BY <1>2 DEF State
    <3> HIDE DEF k, e
    <3> QED BY <1>1, <1>2, <3>1, <3>2 DEF State
  <2>2. Told' = {Ev("freeze_consumed", q, s0.currentCount) : q \in Passed'}
    BY <1>2, <1>4, <1>5 DEF Paying
  <2> QED BY <1>1, <1>4, <1>6, <1>7, <2>1, <2>2 DEF Paying
<1>9. /\ ~done /\ s0.lastEarned # NoDate
      /\ Later(s0.lastEarned, s0.settledThrough) < p'
  <2>1. /\ p \in Nat /\ Later(s0.lastEarned, s0.settledThrough) < p
        /\ ~done /\ s0.lastEarned # NoDate
    BY <1>1, MissIs DEF LoopInv, AtMiss
  <2>2. Later(s0.lastEarned, s0.settledThrough) \in Nat
    BY StartTypes DEF LoopInv
  <2> QED BY <1>2, <2>1, <2>2
<1> QED BY <1>1, <1>2, <1>4, <1>8, <1>9 DEF LoopInv

\* A miss that no freeze covers is the break.
LEMMA BreakKeeps ==
  ASSUME LoopInv, BreakChain
  PROVE  LoopInv'
<1> DEFINE e == Ev("broken", p, s.currentCount)
           k == Len(events)
<1>1. /\ AtMiss /\ ~(AutoConsume /\ s.freezes > 0)
      /\ s' = [s EXCEPT !.currentCount = 0, !.freezeProgress = 0]
      /\ events' = Append(events, e) /\ p' = NextScheduled(p)
      /\ s0' = s0 /\ cur' = cur /\ done' = done
  BY DEF BreakChain
<1>2. /\ s0 \in State /\ cur \in Period /\ Paying /\ p \in Due /\ p \in Nat
      /\ e \in Event /\ s.currentCount = s0.currentCount
      /\ Rank(Due, p) = k /\ k < Cardinality(Due) /\ k \in Nat
      /\ Due \in SUBSET Nat /\ IsFiniteSet(Due)
      /\ p' \in Nat /\ p < p' /\ ScheduledOn(p')
  BY <1>1, MissIs
<1>3. events' \in Seq(Event) /\ Len(events') = k + 1 /\ Told' = Told \cup {e}
  <2> HIDE DEF e
  <2> QED BY <1>1, <1>2, AppendTold DEF Told, LoopInv
<1>4. Spent(s0, cur) = k
  <2>1. s.freezes = s0.freezes - k /\ s0.freezes \in Nat /\ k <= Spent(s0, cur)
    BY <1>2 DEF Paying, State
  <2>2. Spent(s0, cur) = IF ~AutoConsume THEN 0
          ELSE IF Cardinality(Due) < s0.freezes THEN Cardinality(Due) ELSE s0.freezes
    BY DEF Spent, Due
  <2>3. Cardinality(Due) \in Nat
    BY <1>2, FS_CardinalityType
  <2> HIDE DEF k
  <2> QED BY <1>1, <1>2, <2>1, <2>2, <2>3, ConfigAssumption
<1>5. Breaks(s0, cur)
  BY <1>2, <1>4, FS_CardinalityType DEF Breaks, Due
<1>6. Told' = SettleEvents(s0, cur)
  <2>1. \A q \in Due : /\ Rank(Due, q) < k <=> q < p
                       /\ Rank(Due, q) = k <=> q = p
    <3>1. /\ \A q \in Due : Rank(Due, q) \in Nat
          /\ \A q, x \in Due : q < x => Rank(Due, q) < Rank(Due, x)
      BY <1>2, RankOrder
    <3> HIDE DEF k
    <3> QED BY <1>2, <3>1
  <2>2. Told = {Ev("freeze_consumed", q, s0.currentCount) : q \in Passed}
    BY <1>2 DEF Paying
  <2>3. e = Ev("broken", p, s0.currentCount)
    BY <1>2
  <2>4. ASSUME NEW x PROVE x \in SettleEvents(s0, cur) <=> x \in Told \cup {e}
    <3>1. x \in SettleEvents(s0, cur) <=>
            \E q \in Due : \/ Rank(Due, q) < k /\ x = Ev("freeze_consumed", q, s0.currentCount)
                           \/ Rank(Due, q) = k /\ x = Ev("broken", q, s0.currentCount)
      BY <1>4, SettleEventsAre DEF Due
    <3>2. x \in Told \cup {e} <=>
            \/ \E q \in Due : q < p /\ x = Ev("freeze_consumed", q, s0.currentCount)
            \/ x = Ev("broken", p, s0.currentCount)
      BY <2>2, <2>3 DEF Passed
    <3> HIDE DEF k, e
    <3> QED BY <1>2, <2>1, <3>1, <3>2, Zenon
  <2> QED BY <1>3, <2>4
<1>7. s' = [s0 EXCEPT !.currentCount = 0, !.freezeProgress = 0, !.freezes = @ - k]
  BY <1>1, <1>2 DEF Paying, State
<1>8. Broken'
  BY <1>1, <1>3, <1>4, <1>5, <1>6, <1>7 DEF Broken
<1>9. /\ ~done /\ s0.lastEarned # NoDate
      /\ Later(s0.lastEarned, s0.settledThrough) < p'
  <2>1. /\ p \in Nat /\ Later(s0.lastEarned, s0.settledThrough) < p
        /\ ~done /\ s0.lastEarned # NoDate
    BY <1>1, MissIs DEF LoopInv, AtMiss
  <2>2. Later(s0.lastEarned, s0.settledThrough) \in Nat
    BY StartTypes DEF LoopInv
  <2> QED BY <1>2, <2>1, <2>2
<1> QED BY <1>1, <1>2, <1>3, <1>8, <1>9 DEF LoopInv

\* Nothing was ever earned: the settlement has nothing to charge.
LEMMA ReturnKeeps ==
  ASSUME LoopInv, ReturnEarly
  PROVE  LoopInv'
<1>1. /\ s' = [s EXCEPT !.settledThrough = PrevPeriod(cur)]
      /\ s0' = s0 /\ cur' = cur /\ events' = events /\ done' /\ ~done
      /\ s.lastEarned = NoDate
  BY DEF ReturnEarly
<1>2. s0 \in State /\ cur \in Period /\ s0 \in StartStates
  BY StartTypes DEF LoopInv
<1>3. s0.lastEarned = NoDate
  <2>1. CASE Paying
    BY <1>1, <1>2, <2>1 DEF Paying, State
  <2>2. CASE Broken
    <3>1. s = [s0 EXCEPT !.currentCount = 0, !.freezeProgress = 0, !.freezes = @ - Spent(s0, cur)]
      BY <2>2 DEF Broken
    <3> QED BY <1>1, <1>2, <3>1 DEF State
  <2> QED BY <1>1, <2>1, <2>2 DEF LoopInv
<1>4. s = s0 /\ events = <<>>
  BY <1>1, <1>3 DEF LoopInv
<1>5. SettleEvents(s0, cur) = {} /\ Spent(s0, cur) = 0 /\ ~Breaks(s0, cur)
  BY <1>2, <1>3, SettleIdle
<1>6. s' = Settle(s0, cur)
  <2>1. s0.freezes = s0.freezes - 0 /\ s0.freezes \in Nat
    BY <1>2 DEF State
  <2> QED BY <1>1, <1>2, <1>3, <1>4, <1>5, <2>1 DEF Settle, State
<1>7. Told' = {} /\ Len(events') = 0
  BY <1>1, <1>4 DEF Told
<1> QED BY <1>1, <1>2, <1>5, <1>6, <1>7, FS_EmptySet DEF LoopInv

\* The loop leaves when everything that is charged lies before its period, or
\* when the chain is lost.
LEMMA LeaveKeeps ==
  ASSUME LoopInv, LeaveLoop
  PROVE  LoopInv'
<1> DEFINE k == Len(events)
<1>1. /\ s' = [s EXCEPT !.settledThrough = Later(@, PrevPeriod(cur))]
      /\ s0' = s0 /\ cur' = cur /\ events' = events /\ done' /\ ~done
      /\ s.lastEarned # NoDate /\ (p >= cur \/ s.currentCount = 0)
  BY DEF LeaveLoop
<1>2. /\ s0 \in State /\ cur \in Period /\ s0 \in StartStates /\ cur \in Nat
      /\ Spent(s0, cur) \in Nat
  BY StartTypes, SpentType DEF LoopInv
<1>3. s0.lastEarned # NoDate /\ p \in Nat /\ (Paying \/ Broken)
  <2>1. s0.lastEarned # NoDate
    BY <1>1 DEF LoopInv
  <2> QED BY <1>1, <2>1 DEF LoopInv
<1>4. Due \in SUBSET Nat /\ IsFiniteSet(Due) /\ Cardinality(Due) \in Nat
  BY <1>2, ChargedFinite, CalendarAssumption DEF Due, Period
<1>5. Told' = Told /\ Len(events') = k
  BY <1>1 DEF Told
<1>6. CASE Paying
  <2>1. Passed = Due
    <3>1. CASE s.currentCount = 0
      <4>1. s0.currentCount = 0
        BY <1>2, <1>6, <3>1 DEF Paying, State
      <4>2. Due = {}
        BY <1>2, <4>1, SettleIdle DEF Due
      <4> QED BY <4>2 DEF Passed
    <3>2. CASE p >= cur
      <4>1. \A q \in Due : q \in Nat /\ q < cur
        BY <1>2, StartTypes DEF LoopInv, Due, Charged, Missed
      <4>2. \A q \in Due : q < p
        BY <1>2, <1>3, <3>2, <4>1
      <4> QED BY <4>2 DEF Passed
    <3> QED BY <1>1, <3>1, <3>2
  <2>2. k = Cardinality(Due) /\ k <= Spent(s0, cur)
    BY <1>6, <2>1 DEF Paying
  <2>3. Spent(s0, cur) = k
    BY <1>2, <1>4, <2>2, ConfigAssumption DEF Spent, Due, State
  <2>4. ~Breaks(s0, cur)
    BY <1>4, <2>2, <2>3 DEF Breaks, Due
  <2>5. s' = Settle(s0, cur)
    <3>1. s = [s0 EXCEPT !.freezes = @ - k]
      BY <1>6 DEF Paying
    <3> HIDE DEF k
    <3>2. Settle(s0, cur) =
            [s0 EXCEPT !.freezes = @ - k, !.settledThrough = Later(@, PrevPeriod(cur))]
      BY <1>2, <1>3, <2>3, <2>4 DEF Settle, State
    <3> QED BY <1>1, <1>2, <3>1, <3>2 DEF State
  <2>6. Told = SettleEvents(s0, cur)
    <3>1. Told = {Ev("freeze_consumed", q, s0.currentCount) : q \in Due}
      BY <1>6, <2>1 DEF Paying
    <3>2. \A q \in Due : Rank(Due, q) < k /\ Rank(Due, q) # k
      <4>1. \A q \in Due : Rank(Due, q) < Cardinality(Due) /\ Rank(Due, q) \in Nat
        BY <1>4, RankOrder
      <4> HIDE DEF k
      <4> QED BY <1>4, <2>2, <4>1
    <3>3. ASSUME NEW x PROVE x \in SettleEvents(s0, cur) <=> x \in Told
      <4>1. x \in SettleEvents(s0, cur) <=>
              \E q \in Due : \/ Rank(Due, q) < k /\ x = Ev("freeze_consumed", q, s0.currentCount)
                             \/ Rank(Due, q) = k /\ x = Ev("broken", q, s0.currentCount)
        BY <2>3, SettleEventsAre DEF Due
      <4> HIDE DEF k
      <4> QED BY <3>1, <3>2, <4>1, Zenon
    <3> QED BY <3>3
  <2>7. Cardinality(SettleEvents(s0, cur)) = k
    BY <1>2, <1>4, <2>2, <2>3, <2>4, SettleEventsCount
  <2> QED BY <1>1, <1>5, <2>5, <2>6, <2>7 DEF LoopInv
<1>7. CASE Broken
  <2>1. /\ Breaks(s0, cur) /\ k = Spent(s0, cur) + 1 /\ Told = SettleEvents(s0, cur)
        /\ s = [s0 EXCEPT !.currentCount = 0, !.freezeProgress = 0,
                          !.freezes = @ - Spent(s0, cur)]
    BY <1>7 DEF Broken
  <2>2. s' = Settle(s0, cur)
    <3>1. Settle(s0, cur) =
            [s0 EXCEPT !.currentCount = 0, !.freezeProgress = 0,
                       !.freezes = @ - Spent(s0, cur),
                       !.settledThrough = Later(@, PrevPeriod(cur))]
      BY <1>2, <1>3, <2>1 DEF Settle, State
    <3> QED BY <1>1, <1>2, <2>1, <3>1 DEF State
  <2>3. Cardinality(SettleEvents(s0, cur)) = k
    BY <1>2, <2>1, SettleEventsCount
  <2> QED BY <1>1, <1>5, <2>1, <2>2, <2>3 DEF LoopInv
<1> QED BY <1>3, <1>6, <1>7

\* The inductive invariant of the loop holds.
LEMMA LoopCorrect == LoopSpec => []LoopInv
<1>1. LoopInit => LoopInv
  BY LoopStarts
<1>2. LoopInv /\ [LoopNext]_loopVars => LoopInv'
  <2>1. ASSUME LoopInv, UNCHANGED loopVars PROVE LoopInv'
    <3>1. /\ s0' = s0 /\ cur' = cur /\ s' = s /\ p' = p /\ events' = events /\ done' = done
          /\ Passed' = Passed /\ Told' = Told
      BY <2>1 DEF loopVars, Passed, Due, Told
    <3>2. Paying' <=> Paying
      BY <3>1 DEF Paying
    <3>3. Broken' <=> Broken
      BY <3>1 DEF Broken
    <3> QED BY <2>1, <3>1, <3>2, <3>3 DEF LoopInv
  <2> QED BY <2>1, SpendKeeps, BreakKeeps, ReturnKeeps, LeaveKeeps DEF LoopNext
<1> QED BY <1>1, <1>2, PTL DEF LoopSpec

\* The loop of transition.go:32-58 computes the closed form of Settle, emits
\* the events of SettleEvents and emits each of them once.
THEOREM ClosedFormCorrect == LoopSpec => []ClosedForm
<1>1. LoopInv => ClosedForm
  BY DEF LoopInv, ClosedForm, Told
<1> QED BY <1>1, LoopCorrect, PTL

\* Settling late is settling often (transition.go:28-31, DESIGN.md:412): what
\* the loop leaves for a later settlement is what that one would have done from
\* there on anyway, and at the same instant it is nothing.
THEOREM ComposesCorrect == LoopSpec => []Composes
<1>1. LoopInv => Composes
  <2> SUFFICES ASSUME LoopInv, done, NEW c \in cur..LastPeriod
               PROVE  /\ Settle(s, c) = Settle(s0, c)
                      /\ SettleEvents(s, c) = {e \in SettleEvents(s0, c) : e.period >= cur}
    BY DEF Composes
  <2>1. s0 \in State /\ cur \in Period /\ c \in Period /\ cur <= c /\ s = Settle(s0, cur)
    BY StartTypes, CalendarAssumption DEF LoopInv, Period
  <2> QED BY <2>1, SettleComposes, SettleEventsCompose
<1> QED BY <1>1, LoopCorrect, PTL
=============================================================================
