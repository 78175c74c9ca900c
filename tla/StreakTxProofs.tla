--------------------------- MODULE StreakTxProofs ---------------------------
(***************************************************************************)
(* Theorems about the operations run as concurrent transactions: each one  *)
(* goes on with the instant and the zone it read, whatever others commit   *)
(* in between, and what the operations promise still holds.                *)
(***************************************************************************)
EXTENDS StreakTx, StreakEngineProofs

(***************************************************************************)
(* A transaction at an instant and in a zone it has read.  The core does   *)
(* not know the clock or the zone: At(t, z) changes none of it.            *)
(***************************************************************************)

LEMMA CoreAt ==
  ASSUME NEW t, NEW z
  PROVE  /\ \A p : At(t, z)!ScheduledOn(p) = ScheduledOn(p)
         /\ \A a, b : At(t, z)!Later(a, b) = Later(a, b)
         /\ \A S : At(t, z)!Cardinality(S) = Cardinality(S)
         /\ \A s, c : /\ At(t, z)!Charged(s, c) = Charged(s, c)
                      /\ At(t, z)!Spent(s, c) = Spent(s, c)
                      /\ At(t, z)!Breaks(s, c) = Breaks(s, c)
<1>1. \A p : At(t, z)!ScheduledOn(p) = ScheduledOn(p)
  BY DEF ScheduledOn, At!ScheduledOn
<1>2. \A a, b : At(t, z)!Later(a, b) = Later(a, b)
  BY DEF Later, At!Later
<1>3. ASSUME NEW s, NEW c PROVE At(t, z)!Missed(s, c) = Missed(s, c)
  BY <1>1, <1>2 DEF Missed, At!Missed
<1>4. ASSUME NEW s, NEW c PROVE At(t, z)!Charged(s, c) = Charged(s, c)
  BY <1>3, Zenon DEF Charged, At!Charged, NoDate, At!NoDate
<1>5. ASSUME NEW S PROVE At(t, z)!Cardinality(S) = Cardinality(S)
  BY DEF Cardinality, At!Cardinality
<1>6. ASSUME NEW s, NEW c PROVE At(t, z)!Spent(s, c) = Spent(s, c)
  BY <1>4, <1>5, Zenon DEF Spent, At!Spent
<1>7. ASSUME NEW s, NEW c PROVE At(t, z)!Breaks(s, c) = Breaks(s, c)
  BY <1>4, <1>5, <1>6, Zenon DEF Breaks, At!Breaks
<1> QED BY <1>1, <1>2, <1>4, <1>5, <1>6, <1>7

\* A settlement, an earn and the forgiveness of a shift, and their events.
LEMMA StepsAt ==
  ASSUME NEW t, NEW z
  PROVE  /\ \A s, c : /\ At(t, z)!Settle(s, c) = Settle(s, c)
                      /\ At(t, z)!SettleEvents(s, c) = SettleEvents(s, c)
                      /\ At(t, z)!Apply(s, c) = Apply(s, c)
                      /\ At(t, z)!ApplyEvents(s, c) = ApplyEvents(s, c)
                      /\ At(t, z)!Forgive(s, c) = Forgive(s, c)
         /\ \A k, p, n : At(t, z)!Ev(k, p, n) = Ev(k, p, n)
         /\ \A p, a : At(t, z)!ReachesMin(p, a) = ReachesMin(p, a)
<1>1. ASSUME NEW k, NEW p, NEW n PROVE At(t, z)!Ev(k, p, n) = Ev(k, p, n)
  BY DEF Ev, At!Ev
<1>2. ASSUME NEW p, NEW a PROVE At(t, z)!ReachesMin(p, a) = ReachesMin(p, a)
  BY DEF ReachesMin, At!ReachesMin
<1>3. ASSUME NEW s, NEW c PROVE At(t, z)!Settle(s, c) = Settle(s, c)
  <2>1. /\ At(t, z)!Breaks(s, c) = Breaks(s, c) /\ At(t, z)!Spent(s, c) = Spent(s, c)
        /\ At(t, z)!PrevPeriod(c) = PrevPeriod(c) /\ At(t, z)!NoDate = NoDate
    BY CoreAt DEF PrevPeriod, At!PrevPeriod, NoDate, At!NoDate
  <2>2. \A a, b : At(t, z)!Later(a, b) = Later(a, b)
    BY CoreAt
  <2> QED BY <2>1, <2>2, Zenon DEF Settle, At!Settle
<1>4. ASSUME NEW s, NEW c PROVE At(t, z)!SettleEvents(s, c) = SettleEvents(s, c)
  <2>1. At(t, z)!Charged(s, c) = Charged(s, c) /\ At(t, z)!Spent(s, c) = Spent(s, c)
    BY CoreAt
  <2>2. \A S : At(t, z)!Cardinality(S) = Cardinality(S)
    BY CoreAt
  <2> DEFINE M == Charged(s, c)
             Before(q)   == Cardinality({r \in M : r < q})
             RankAt(q) == At(t, z)!Cardinality({r \in M : r < q})
  <2>3. \A q : RankAt(q) = Before(q)
    BY <2>2
  <2>4. /\ {q \in M : RankAt(q) < Spent(s, c)} = {q \in M : Before(q) < Spent(s, c)}
        /\ {q \in M : RankAt(q) = Spent(s, c)} = {q \in M : Before(q) = Spent(s, c)}
    <3> HIDE DEF M, Before, RankAt
    <3> QED BY <2>3
  <2>5. At(t, z)!SettleEvents(s, c) =
          {At(t, z)!Ev("freeze_consumed", q, s.currentCount) :
             q \in {m \in M : RankAt(m) < Spent(s, c)}}
          \cup {At(t, z)!Ev("broken", q, s.currentCount) :
                  q \in {m \in M : RankAt(m) = Spent(s, c)}}
    BY <2>1 DEF At!SettleEvents
  <2>6. SettleEvents(s, c) =
          {Ev("freeze_consumed", q, s.currentCount) :
             q \in {m \in M : Before(m) < Spent(s, c)}}
          \cup {Ev("broken", q, s.currentCount) :
                  q \in {m \in M : Before(m) = Spent(s, c)}}
    BY DEF SettleEvents
  <2> HIDE DEF M, Before, RankAt
  <2> QED BY <1>1, <2>4, <2>5, <2>6
<1>5. ASSUME NEW s, NEW c
      PROVE  /\ At(t, z)!Earns(s, c) = Earns(s, c)
             /\ At(t, z)!FreezeDue(s) = FreezeDue(s)
             /\ At(t, z)!FreezeGranted(s) = FreezeGranted(s)
  BY CoreAt, Zenon DEF Earns, At!Earns, FreezeDue, At!FreezeDue, FreezeGranted, At!FreezeGranted
<1>6. ASSUME NEW s, NEW c PROVE At(t, z)!Apply(s, c) = Apply(s, c)
  <2>1. \A a, b : At(t, z)!Later(a, b) = Later(a, b)
    BY CoreAt
  <2> QED BY <1>5, <2>1, Zenon DEF Apply, At!Apply
<1>7. ASSUME NEW s, NEW c PROVE At(t, z)!ApplyEvents(s, c) = ApplyEvents(s, c)
  BY <1>1, <1>5, Zenon DEF ApplyEvents, At!ApplyEvents
<1>8. ASSUME NEW s, NEW c PROVE At(t, z)!Forgive(s, c) = Forgive(s, c)
  BY CoreAt, Zenon DEF Forgive, At!Forgive, PrevPeriod, At!PrevPeriod
<1> QED BY <1>1, <1>2, <1>3, <1>4, <1>6, <1>7, <1>8

-----------------------------------------------------------------------------
(***************************************************************************)
(* What a transaction commits, as a step of the core: with the period cur  *)
(* of the instant t it read, which need not be the current one any more.   *)
(***************************************************************************)

\* The last marker after a settlement of the row s.
Left(s, cur, t) ==
  IF Breaks(s, cur) THEN [kind |-> "broken", count |-> s.currentCount, at |-> t] ELSE marker

\* A settlement of the row s and the events of an earn go to the outbox.
Tells(s, cur, t, earns) ==
  /\ out' = SettleEvents(s, cur) \cup earns
  /\ charged' = charged \cup Charges(SettleEvents(s, cur))
  /\ marker' = Left(s, cur, t)

Records(cur, t, a) ==
  LET settled == Settle(st, cur)
  IN  /\ AddMark(cur, a)
      /\ st' = IF ReachesMin(cur, a) THEN Apply(settled, cur) ELSE settled
      /\ Tells(st, cur, t, IF ReachesMin(cur, a) THEN ApplyEvents(settled, cur) ELSE {})

RecordsLate(p, cur, t, a) ==
  LET applied == IF ReachesMin(p, a) THEN Apply(st, p) ELSE st
  IN  /\ AddMark(p, a)
      /\ st' = Settle(applied, cur)
      /\ Tells(applied, cur, t, IF ReachesMin(p, a) THEN ApplyEvents(st, p) ELSE {})

Settles(cur, t) ==
  /\ marks' = marks
  /\ Tells(st, cur, t, {})
  /\ st' = Settle(st, cur) \/ \E to \in Period : st' = Forgive(Settle(st, cur), to)

Repairs(cur, t) ==
  LET settled == Settle(st, cur)
      lost    == IF Breaks(st, cur) THEN st.currentCount ELSE marker.count
      n       == settled.currentCount + lost
  IN  /\ Breaks(st, cur) \/ marker.kind = "broken"
      /\ marks' = marks
      /\ st' = Forgive([settled EXCEPT !.currentCount = n, !.longest = Later(@, n)], cur)
      /\ out' = SettleEvents(st, cur) \cup {Ev("repaired", cur, n)}
      /\ charged' = charged \cup Charges(SettleEvents(st, cur))
      /\ marker' = [kind |-> "repaired", count |-> n, at |-> t]

\* A zone is set before the first activity: there is no row to settle.
MovesAlone ==
  st' = st /\ marks' = marks /\ marker' = marker /\ charged' = charged /\ out' = {}

\* The outbox rows of a settlement at an instant that was read before.
LEMMA TellsAt ==
  ASSUME NEW t, NEW z, NEW s \in State, NEW cur \in Period,
         NEW earns, \A e \in earns : e.type \notin MarkerTypes, Charges(earns) = {},
         NEW evs, evs = SettleEvents(s, cur) \cup earns, At(t, z)!PersistEvents(evs)
  PROVE  Tells(s, cur, t, earns)
<1> DEFINE breaks == OfType(evs, {"broken"})
<1>1. /\ Breaks(s, cur) <=> \E e \in SettleEvents(s, cur) : e.type = "broken"
      /\ \A e \in SettleEvents(s, cur) : /\ e.type \in {"freeze_consumed", "broken"}
                                         /\ e.count = s.currentCount
  BY SettleTold
<1>2. OfType(evs, {"repaired"}) = {}
  BY <1>1 DEF OfType, MarkerTypes
<1>3. /\ Breaks(s, cur) <=> breaks # {}
      /\ \A e \in breaks : e.count = s.currentCount
  BY <1>1 DEF OfType, MarkerTypes
<1>4. \A types : At(t, z)!OfType(evs, types) = OfType(evs, types)
  BY DEF OfType, At!OfType
<1>5. out' = evs /\ charged' = charged \cup Charges(evs)
  BY <1>4 DEF At!PersistEvents, Charges, PeriodsOf, At!PeriodsOf, ChargeTypes, At!ChargeTypes
<1>6. marker' = IF breaks # {}
                THEN [kind |-> "broken", count |-> (CHOOSE e \in breaks : TRUE).count, at |-> t]
                ELSE marker
  BY <1>2, <1>4, Zenon DEF At!PersistEvents
<1> HIDE DEF breaks
<1>7. breaks # {} => (CHOOSE e \in breaks : TRUE).count = s.currentCount
  BY <1>3
<1>8. Charges(evs) = Charges(SettleEvents(s, cur))
  <2>1. Charges(SettleEvents(s, cur) \cup earns) = Charges(SettleEvents(s, cur)) \cup Charges(earns)
    BY OtherCharges
  <2> QED BY <2>1
<1> QED BY <1>3, <1>5, <1>6, <1>7, <1>8 DEF Tells, Left

\* The period of the instant, in the zone, that were read.
LEMMA PeriodAt ==
  ASSUME NEW t \in Time, NEW z \in Zones
  PROVE  /\ PeriodKey(t, z) \in Period /\ At(t, z)!Cur = PeriodKey(t, z)
         /\ \A u, y : At(t, z)!PeriodKey(u, y) = PeriodKey(u, y)
<1>1. \A u, y : At(t, z)!OffsetAt(u, y) = OffsetAt(u, y)
  BY Zenon DEF At!OffsetAt, OffsetAt
<1>2. \A u, y : At(t, z)!PeriodKey(u, y) = PeriodKey(u, y)
  BY <1>1 DEF At!PeriodKey, PeriodKey, At!Wall, Wall
<1>3. At(t, z)!Cur = PeriodKey(t, z)
  BY <1>2 DEF At!Cur
<1> QED BY <1>2, <1>3, CalendarAssumption DEF Period

\* Record of the period of the instant that was read.
LEMMA RecordsAt ==
  ASSUME TypeOK, NEW t \in Time, NEW z \in Zones, NEW a \in Amounts,
         At(t, z)!RecordCurrent(a)
  PROVE  Records(PeriodKey(t, z), t, a) /\ exists' /\ UNCHANGED <<reminder, claims>>
<1> DEFINE cur == PeriodKey(t, z)
           settled == Settle(st, cur)
           earns == IF ReachesMin(cur, a) THEN ApplyEvents(settled, cur) ELSE {}
<1>1. cur \in Period /\ st \in State
  BY PeriodAt DEF TypeOK
<1>2. /\ At(t, z)!AddMark(cur, a)
      /\ st' = IF ReachesMin(cur, a) THEN Apply(settled, cur) ELSE settled
      /\ At(t, z)!PersistEvents(SettleEvents(st, cur) \cup earns)
      /\ exists' /\ UNCHANGED <<reminder, claims>>
  <2> HIDE DEF cur
  <2>1. At(t, z)!Cur = cur
    BY PeriodAt DEF cur
  <2>2. /\ At(t, z)!Settle(st, cur) = settled
        /\ At(t, z)!SettleEvents(st, cur) = SettleEvents(st, cur)
        /\ At(t, z)!Apply(settled, cur) = Apply(settled, cur)
        /\ At(t, z)!ApplyEvents(settled, cur) = ApplyEvents(settled, cur)
        /\ At(t, z)!ReachesMin(cur, a) = ReachesMin(cur, a)
    BY StepsAt
  <2> QED BY <2>1, <2>2 DEF At!RecordCurrent
<1>3. \A e \in earns : e.type \notin MarkerTypes
  BY EarnsOther
<1>4. Charges(earns) = {}
  BY OtherCharges
<1> HIDE DEF earns
<1>5. Tells(st, cur, t, earns)
  BY <1>1, <1>2, <1>3, <1>4, TellsAt
<1>6. AddMark(cur, a)
  BY <1>2 DEF AddMark, At!AddMark
<1> QED BY <1>2, <1>5, <1>6, Zenon DEF Records, earns

\* Record of a period that closed before the instant that was read.
LEMMA RecordsLateAt ==
  ASSUME TypeOK, NEW t \in Time, NEW z \in Zones, NEW d \in Delays, NEW a \in Amounts,
         At(t, z)!RecordGrace(d, a)
  PROVE  /\ PeriodKey(t - d, z) \in Period
         /\ RecordsLate(PeriodKey(t - d, z), PeriodKey(t, z), t, a)
         /\ exists' /\ UNCHANGED <<reminder, claims>>
<1> DEFINE cur == PeriodKey(t, z)
           p == PeriodKey(t - d, z)
           applied == IF ReachesMin(p, a) THEN Apply(st, p) ELSE st
           earns == IF ReachesMin(p, a) THEN ApplyEvents(st, p) ELSE {}
<1>1. cur \in Period /\ st \in State
  BY PeriodAt DEF TypeOK
<1>2. /\ t - d \in Time /\ At(t, z)!AddMark(p, a)
      /\ st' = Settle(applied, cur)
      /\ At(t, z)!PersistEvents(earns \cup SettleEvents(applied, cur))
      /\ exists' /\ UNCHANGED <<reminder, claims>>
  <2> HIDE DEF cur, p
  <2>1. At(t, z)!Cur = cur /\ At(t, z)!PeriodKey(t - d, z) = p /\ At(t, z)!Time = Time
    BY PeriodAt DEF cur, p, Time, At!Time
  <2>2. /\ \A s : At(t, z)!Settle(s, cur) = Settle(s, cur)
        /\ \A s : At(t, z)!SettleEvents(s, cur) = SettleEvents(s, cur)
        /\ At(t, z)!Apply(st, p) = Apply(st, p)
        /\ At(t, z)!ApplyEvents(st, p) = ApplyEvents(st, p)
        /\ At(t, z)!ReachesMin(p, a) = ReachesMin(p, a)
    BY StepsAt
  <2> QED BY <2>1, <2>2 DEF At!RecordGrace
<1>3. p \in Period
  BY <1>2, PeriodAt
<1>4. applied \in State
  BY <1>1, <1>3, ApplyType
<1>5. \A e \in earns : e.type \notin MarkerTypes
  BY EarnsOther
<1>6. Charges(earns) = {}
  BY OtherCharges
<1>7. earns \cup SettleEvents(applied, cur) = SettleEvents(applied, cur) \cup earns
  OBVIOUS
<1> HIDE DEF earns, applied
<1>8. Tells(applied, cur, t, earns)
  BY <1>1, <1>2, <1>4, <1>5, <1>6, <1>7, TellsAt
<1>9. AddMark(p, a)
  BY <1>2 DEF AddMark, At!AddMark
<1> QED BY <1>2, <1>3, <1>8, <1>9, Zenon DEF RecordsLate, earns, applied

\* A settlement by the tick, and one with what a shift of the zone adds forgiven.
LEMMA SettlesAt ==
  ASSUME TypeOK, NEW t \in Time, NEW z \in Zones,
         \/ At(t, z)!SettleOne
         \/ exists /\ \E to \in Zones : At(t, z)!Rezone(to)
  PROVE  /\ Settles(PeriodKey(t, z), t)
         /\ exists' = exists /\ UNCHANGED <<reminder, claims>>
<1> DEFINE cur == PeriodKey(t, z)
<1>1. cur \in Period /\ st \in State
  BY PeriodAt DEF TypeOK
<1>2. /\ At(t, z)!Cur = cur
      /\ At(t, z)!Settle(st, cur) = Settle(st, cur)
      /\ At(t, z)!SettleEvents(st, cur) = SettleEvents(st, cur)
      /\ \A s, c : At(t, z)!Forgive(s, c) = Forgive(s, c)
      /\ \A y : At(t, z)!PeriodKey(t, y) = PeriodKey(t, y)
      /\ \A y \in Zones : PeriodKey(t, y) \in Period
  BY PeriodAt, StepsAt
<1> HIDE DEF cur
<1>3. /\ At(t, z)!PersistEvents(SettleEvents(st, cur))
      /\ marks' = marks /\ exists' = exists /\ UNCHANGED <<reminder, claims>>
      /\ st' = Settle(st, cur) \/ \E to \in Period : st' = Forgive(Settle(st, cur), to)
  <2>1. CASE At(t, z)!SettleOne
    BY <1>2, <2>1 DEF At!SettleOne
  <2>2. ASSUME exists, NEW to \in Zones, At(t, z)!Rezone(to)
        PROVE  /\ At(t, z)!PersistEvents(SettleEvents(st, cur))
               /\ marks' = marks /\ exists' = exists /\ UNCHANGED <<reminder, claims>>
               /\ st' = Forgive(Settle(st, cur), PeriodKey(t, to))
    BY <1>2, <2>2 DEF At!Rezone
  <2> QED BY <1>2, <2>1, <2>2
<1>4. Tells(st, cur, t, {})
  <2>1. SettleEvents(st, cur) = SettleEvents(st, cur) \cup {}
        /\ \A e \in {} : e.type \notin MarkerTypes
    OBVIOUS
  <2> QED BY <1>1, <1>3, <2>1, OtherCharges, TellsAt
<1> QED BY <1>3, <1>4 DEF Settles, cur

\* A zone set before the streak exists.
LEMMA MovesAloneAt ==
  ASSUME NEW t, NEW z, NEW to, ~exists, At(t, z)!Rezone(to)
  PROVE  MovesAlone /\ exists' = exists /\ UNCHANGED <<reminder, claims>>
<1>1. At(t, z)!PersistEvents({}) /\ st' = st /\ marks' = marks
      /\ exists' = exists /\ UNCHANGED <<reminder, claims>>
  BY DEF At!Rezone
<1>2. \A types : At(t, z)!OfType({}, types) = {}
  BY DEF At!OfType
<1>3. At(t, z)!PeriodsOf({}) = {}
  BY DEF At!PeriodsOf
<1> QED BY <1>1, <1>2, <1>3 DEF MovesAlone, At!PersistEvents

\* The repair of what the last break lost, as it was when the row was locked.
LEMMA RepairsAt ==
  ASSUME TypeOK, NEW t \in Time, NEW z \in Zones, At(t, z)!Repair
  PROVE  Repairs(PeriodKey(t, z), t) /\ exists' = exists /\ UNCHANGED <<reminder, claims>>
<1> DEFINE cur      == PeriodKey(t, z)
           settled  == Settle(st, cur)
           events   == SettleEvents(st, cur)
           breaks   == OfType(events, {"broken"})
           latest   == At(t, z)!LatestBreak(events)
           n        == settled.currentCount + latest.count
           restored == [settled EXCEPT !.currentCount = n, !.longest = Later(@, n)]
           told     == events \cup {Ev("repaired", cur, n)}
           repairs  == OfType(told, {"repaired"})
<1>1. cur \in Period /\ st \in State
  BY PeriodAt DEF TypeOK
<1>2. /\ latest.kind = "broken" /\ st' = Forgive(restored, cur)
      /\ At(t, z)!PersistEvents(told)
      /\ marks' = marks /\ exists' = exists /\ UNCHANGED <<reminder, claims>>
  <2>1. At(t, z)!Cur = cur
    BY PeriodAt
  <2> HIDE DEF cur
  <2>2. /\ At(t, z)!Settle(st, cur) = settled /\ At(t, z)!SettleEvents(st, cur) = events
        /\ \A k : At(t, z)!Ev("repaired", cur, k) = Ev("repaired", cur, k)
        /\ \A s : At(t, z)!Forgive(s, cur) = Forgive(s, cur)
        /\ \A x, y : At(t, z)!Later(x, y) = Later(x, y)
    BY StepsAt, CoreAt
  <2> HIDE DEF settled, events, latest
  <2>3. latest = At(t, z)!LatestBreak(events)
    BY DEF latest
  <2>4. /\ At(t, z)!Repairable(latest)
        /\ st' = At(t, z)!Forgive([settled EXCEPT !.currentCount = n,
                                     !.longest = At(t, z)!Later(settled.longest, n)], cur)
        /\ At(t, z)!PersistEvents(events \cup {At(t, z)!Ev("repaired", cur, n)})
        /\ marks' = marks /\ exists' = exists /\ UNCHANGED <<reminder, claims>>
    BY <2>1, <2>2, <2>3 DEF At!Repair
  <2> QED BY <2>2, <2>4 DEF At!Repairable
<1>3. \A evs, types : At(t, z)!OfType(evs, types) = OfType(evs, types)
  BY DEF OfType, At!OfType
<1>4. latest = Left(st, cur, t)
  <2>1. /\ Breaks(st, cur) <=> breaks # {}
        /\ \A e \in breaks : e.count = st.currentCount
    BY <1>1, SettleTold DEF OfType
  <2> HIDE DEF events
  <2>2. latest = IF breaks # {}
                 THEN [kind |-> "broken", count |-> (CHOOSE e \in breaks : TRUE).count, at |-> t]
                 ELSE marker
    BY <1>3, Zenon DEF At!LatestBreak
  <2> HIDE DEF breaks, latest
  <2>3. breaks # {} => (CHOOSE e \in breaks : TRUE).count = st.currentCount
    BY <2>1
  <2> QED BY <2>1, <2>2, <2>3 DEF Left
<1>5. n = settled.currentCount + (IF Breaks(st, cur) THEN st.currentCount ELSE marker.count)
      /\ (Breaks(st, cur) \/ marker.kind = "broken")
  <2> HIDE DEF latest, settled
  <2> QED BY <1>2, <1>4 DEF Left
<1>6. repairs = {Ev("repaired", cur, n)}
  <2>1. \A e \in events : e.type \in {"freeze_consumed", "broken"}
    BY <1>1, SettleTold
  <2> HIDE DEF n, events
  <2> QED BY <2>1 DEF OfType, Ev
<1> HIDE DEF n
<1>7. (CHOOSE e \in repairs : TRUE).count = n
  <2> HIDE DEF repairs
  <2>1. (\A e \in repairs : e.count = n) /\ \E e \in repairs : TRUE
    BY <1>6 DEF Ev
  <2> QED BY <2>1
<1>8. out' = told /\ charged' = charged \cup Charges(told)
  BY <1>2, <1>3
     DEF At!PersistEvents, Charges, PeriodsOf, At!PeriodsOf, ChargeTypes, At!ChargeTypes
<1>9. marker' = [kind |-> "repaired", count |-> n, at |-> t]
  <2>1. repairs # {}
    BY <1>6
  <2>2. marker' = [kind |-> "repaired", count |-> (CHOOSE e \in repairs : TRUE).count, at |-> t]
    <3> HIDE DEF told
    <3> QED BY <1>2, <1>3, <2>1 DEF At!PersistEvents
  <2> QED BY <1>7, <2>2
<1>10. Charges(told) = Charges(events)
  <2>1. Charges({Ev("repaired", cur, n)}) = {}
    BY OtherCharges
  <2>2. Charges(told) = Charges(events) \cup Charges({Ev("repaired", cur, n)})
    <3> HIDE DEF events
    <3> QED BY OtherCharges
  <2> QED BY <2>1, <2>2
<1> HIDE DEF cur, events, settled
<1>11. /\ st' = Forgive(restored, cur) /\ out' = events \cup {Ev("repaired", cur, n)}
       /\ charged' = charged \cup Charges(events)
  BY <1>2, <1>8, <1>10
<1> QED BY <1>2, <1>5, <1>9, <1>11 DEF Repairs, cur, events, settled

\* What any commit writes is one of these steps of the core.
CoreStep(cur, t) ==
  \/ \E a \in Amounts : Records(cur, t, a)
  \/ \E p \in Period, a \in Amounts : RecordsLate(p, cur, t, a)
  \/ Settles(cur, t)
  \/ MovesAlone
  \/ Repairs(cur, t)

LEMMA CommitIs ==
  ASSUME TxTypeOK, NEW p \in Procs, Commit(p)
  PROVE  /\ \E cur \in Period, t \in Time : CoreStep(cur, t)
         /\ tz' \in Zones /\ exists' \in BOOLEAN /\ (exists => exists')
         /\ UNCHANGED <<now, reminder, claims>> /\ tx' = [tx EXCEPT ![p] = Idle]
<1>1. PICK t \in Time, z \in Zones : Body(tx[p].op, t, z)
  BY DEF Commit, TxTypeOK, Tx
<1> DEFINE Rest == exists' \in BOOLEAN /\ (exists => exists') /\ UNCHANGED <<reminder, claims>>
<1>2. TypeOK /\ PeriodKey(t, z) \in Period /\ exists \in BOOLEAN /\ tz \in Zones
  BY PeriodAt DEF TxTypeOK, TypeOK
<1>3. ASSUME NEW a \in Amounts, At(t, z)!RecordCurrent(a)
      PROVE  CoreStep(PeriodKey(t, z), t) /\ Rest
  BY <1>2, <1>3, RecordsAt DEF CoreStep
<1>4. ASSUME NEW d \in Delays, NEW a \in Amounts, At(t, z)!RecordGrace(d, a)
      PROVE  CoreStep(PeriodKey(t, z), t) /\ Rest
  BY <1>2, <1>4, RecordsLateAt DEF CoreStep
<1>5. ASSUME At(t, z)!SettleOne PROVE CoreStep(PeriodKey(t, z), t) /\ Rest
  BY <1>2, <1>5, SettlesAt DEF CoreStep
<1>6. ASSUME NEW to \in Zones, At(t, z)!Rezone(to) PROVE CoreStep(PeriodKey(t, z), t) /\ Rest
  <2>1. CASE exists
    BY <1>2, <1>6, <2>1, SettlesAt DEF CoreStep
  <2>2. CASE ~exists
    BY <1>2, <1>6, <2>2, MovesAloneAt DEF CoreStep
  <2> QED BY <2>1, <2>2
<1>7. ASSUME At(t, z)!Repair PROVE CoreStep(PeriodKey(t, z), t) /\ Rest
  BY <1>2, <1>7, RepairsAt DEF CoreStep
<1> HIDE DEF Rest
<1>8. CoreStep(PeriodKey(t, z), t) /\ Rest /\ tz' \in Zones
  BY <1>1, <1>2, <1>3, <1>4, <1>5, <1>6, <1>7 DEF Body
<1>9. now' = now /\ tx' = [tx EXCEPT ![p] = Idle]
  BY DEF Commit
<1> QED BY <1>2, <1>8, <1>9 DEF Rest

\* Every other step of the transactions leaves the tables and their clock, or
\* is the clock's.
LEMMA OtherStepIs ==
  ASSUME TxTypeOK, [TxNext]_<<vars, tx>>, ~ \E p \in Procs : Commit(p)
  PROVE  /\ UNCHANGED vars \/ (Advance /\ tx' = tx)
         /\ tx' \in [Procs -> Tx]
<1>1. tx \in [Procs -> Tx] /\ tz \in Zones /\ now \in Time /\ Idle \in Tx
  BY CalendarAssumption, EngineAssumption DEF TxTypeOK, TypeOK, Idle, Tx, Time
<1>2. CASE TxAdvance
  BY <1>1, <1>2 DEF TxAdvance
<1>3. ASSUME NEW p \in Procs, NEW op \in HostOps \cup {"settle"}, Begin(p, op)
      PROVE  UNCHANGED vars /\ tx' \in [Procs -> Tx]
  <2> DEFINE begun == [Idle EXCEPT !.stage = "begun", !.op = op, !.at = now]
  <2>1. begun \in Tx
    BY <1>1 DEF Tx
  <2>2. tx' = [tx EXCEPT ![p] = begun] /\ UNCHANGED vars
    BY <1>3 DEF Begin
  <2> HIDE DEF begun
  <2> QED BY <1>1, <2>1, <2>2
<1>4. ASSUME NEW p \in Procs, ReadSubject(p)
      PROVE  UNCHANGED vars /\ tx' \in [Procs -> Tx]
  <2> DEFINE read == [tx[p] EXCEPT !.stage = "read", !.zone = tz]
  <2>1. tx[p] \in Tx
    BY <1>1
  <2>2. read \in Tx
    BY <1>1, <2>1 DEF Tx
  <2>3. tx' = [tx EXCEPT ![p] = read] /\ UNCHANGED vars
    BY <1>1, <1>4 DEF ReadSubject
  <2> HIDE DEF read
  <2> QED BY <1>1, <2>2, <2>3
<1>5. ASSUME LoadCandidate PROVE UNCHANGED vars /\ tx' \in [Procs -> Tx]
  <2> DEFINE read == [tx[Ticker] EXCEPT !.stage = "read", !.zone = tz]
  <2>1. tx[Ticker] \in Tx
    BY <1>1 DEF Procs
  <2>2. read \in Tx
    BY <1>1, <2>1 DEF Tx
  <2>3. /\ tx' = [tx EXCEPT ![Ticker] = read] \/ tx' = [tx EXCEPT ![Ticker] = Idle]
        /\ UNCHANGED vars
    BY <1>5 DEF LoadCandidate
  <2> HIDE DEF read
  <2> QED BY <1>1, <2>2, <2>3
<1>6. ASSUME NEW p \in Procs, Rollback(p) PROVE UNCHANGED vars /\ tx' \in [Procs -> Tx]
  BY <1>1, <1>6 DEF Rollback
<1>7. CASE UNCHANGED <<vars, tx>>
  BY <1>1, <1>7
<1> QED BY <1>2, <1>3, <1>4, <1>5, <1>6, <1>7 DEF TxNext, Procs

-----------------------------------------------------------------------------
(***************************************************************************)
(* Types.                                                                  *)
(***************************************************************************)

\* A step of the core keeps the types of the row, the ledger and the outbox.
LEMMA CoreStepTypes ==
  ASSUME TypeOK, NEW cur \in Period, NEW t \in Time, CoreStep(cur, t)
  PROVE  /\ st' \in State /\ marks' \in [Period -> 0..MaxAmount]
         /\ marker' \in Marker /\ charged' \subseteq Period /\ out' \subseteq Event
<1> DEFINE Goal == /\ st' \in State /\ marks' \in [Period -> 0..MaxAmount]
                   /\ marker' \in Marker /\ charged' \subseteq Period /\ out' \subseteq Event
<1>1. /\ st \in State /\ marks \in [Period -> 0..MaxAmount]
      /\ marker \in Marker /\ charged \subseteq Period
  BY DEF TypeOK
<1>2. ASSUME NEW s \in State
      PROVE  /\ Settle(s, cur) \in State /\ SettleEvents(s, cur) \subseteq Event
             /\ Charges(SettleEvents(s, cur)) \subseteq Period /\ Left(s, cur, t) \in Marker
  <2>1. SettleEvents(s, cur) \subseteq Event
    BY SettleEventsType
  <2>2. Charges(SettleEvents(s, cur)) \subseteq Period
    BY <2>1 DEF Charges, PeriodsOf, OfType, Event
  <2>3. Left(s, cur, t) \in Marker
    BY <1>1 DEF Left, Marker, State
  <2> QED BY <2>1, <2>2, <2>3, SettleType
<1>3. ASSUME NEW s \in State, NEW earns \in SUBSET Event, Tells(s, cur, t, earns)
      PROVE  marker' \in Marker /\ charged' \subseteq Period /\ out' \subseteq Event
  BY <1>1, <1>2, <1>3 DEF Tells
<1>4. ASSUME NEW a \in Amounts, Records(cur, t, a) PROVE Goal
  <2> DEFINE settled == Settle(st, cur)
             earns == IF ReachesMin(cur, a) THEN ApplyEvents(settled, cur) ELSE {}
  <2>1. settled \in State /\ Apply(settled, cur) \in State /\ earns \in SUBSET Event
    BY <1>1, <1>2, ApplyType, ApplyEventsType
  <2>2. /\ AddMark(cur, a) /\ Tells(st, cur, t, earns)
        /\ st' = settled \/ st' = Apply(settled, cur)
    BY <1>4 DEF Records
  <2> HIDE DEF earns
  <2> QED BY <1>1, <1>3, <2>1, <2>2, MarkGrows
<1>5. ASSUME NEW p \in Period, NEW a \in Amounts, RecordsLate(p, cur, t, a)
      PROVE  Goal
  <2> DEFINE applied == IF ReachesMin(p, a) THEN Apply(st, p) ELSE st
             earns == IF ReachesMin(p, a) THEN ApplyEvents(st, p) ELSE {}
  <2>1. applied \in State /\ earns \in SUBSET Event
    BY <1>1, ApplyType, ApplyEventsType
  <2>2. AddMark(p, a) /\ Tells(applied, cur, t, earns) /\ st' = Settle(applied, cur)
    BY <1>5 DEF RecordsLate
  <2> HIDE DEF earns, applied
  <2> QED BY <1>1, <1>2, <1>3, <2>1, <2>2, MarkGrows
<1>6. CASE Settles(cur, t)
  BY <1>1, <1>2, <1>3, <1>6, ForgiveType DEF Settles
<1>7. CASE MovesAlone
  BY <1>1, <1>7 DEF MovesAlone
<1>8. CASE Repairs(cur, t)
  <2> DEFINE settled  == Settle(st, cur)
             n        == settled.currentCount
                           + (IF Breaks(st, cur) THEN st.currentCount ELSE marker.count)
             restored == [settled EXCEPT !.currentCount = n, !.longest = Later(@, n)]
  <2>1. n \in Nat /\ settled \in State
    BY <1>1, <1>2 DEF State, Marker
  <2>2. /\ st' = Forgive(restored, cur) /\ marks' = marks
        /\ out' = SettleEvents(st, cur) \cup {Ev("repaired", cur, n)}
        /\ charged' = charged \cup Charges(SettleEvents(st, cur))
        /\ marker' = [kind |-> "repaired", count |-> n, at |-> t]
    BY <1>8 DEF Repairs
  <2> HIDE DEF n, settled
  <2>3. restored \in State
    BY <2>1 DEF State, Later
  <2>4. Ev("repaired", cur, n) \in Event
    BY <2>1 DEF Event, Ev, EventType
  <2> HIDE DEF restored
  <2>5. st' \in State
    BY <2>2, <2>3, ForgiveType
  <2>6. marker' \in Marker
    BY <2>1, <2>2 DEF Marker
  <2> QED BY <1>1, <1>2, <2>2, <2>4, <2>5, <2>6
<1> QED BY <1>4, <1>5, <1>6, <1>7, <1>8 DEF CoreStep

\* Whatever transactions interleave, the tables and the transactions under way
\* are in the states the schema and the code expect.
THEOREM TxTypeCorrect == TxSpec => []TxTypeOK
<1>1. TxInit => TxTypeOK
  <2>1. Idle \in Tx
    BY CalendarAssumption, EngineAssumption DEF Idle, Tx, Time
  <2> QED BY <2>1, TypeInit DEF TxInit, TxTypeOK
<1>2. TxTypeOK /\ [TxNext]_<<vars, tx>> => TxTypeOK'
  <2> SUFFICES ASSUME TxTypeOK, [TxNext]_<<vars, tx>> PROVE TxTypeOK'
    OBVIOUS
  <2>1. ASSUME NEW p \in Procs, Commit(p) PROVE TxTypeOK'
    <3>1. PICK cur \in Period, t \in Time : CoreStep(cur, t)
      BY <2>1, CommitIs
    <3>2. TypeOK'
      BY <2>1, <3>1, CommitIs, CoreStepTypes DEF TxTypeOK, TypeOK
    <3>3. tx' \in [Procs -> Tx]
      <4>1. Idle \in Tx
        BY CalendarAssumption, EngineAssumption DEF Idle, Tx, Time
      <4> QED BY <2>1, <4>1, CommitIs DEF TxTypeOK
    <3> QED BY <3>2, <3>3 DEF TxTypeOK
  <2>2. CASE ~ \E p \in Procs : Commit(p)
    <3>1. tx' \in [Procs -> Tx] /\ (UNCHANGED vars \/ Advance)
      BY <2>2, OtherStepIs
    <3>2. CASE UNCHANGED vars
      BY <3>1, <3>2 DEF TxTypeOK, TypeOK, vars
    <3>3. CASE Advance
      <4>1. now' \in Time
        BY <3>3, CalendarAssumption DEF Advance, TxTypeOK, TypeOK, Time
      <4> QED BY <3>1, <3>3, <4>1 DEF Advance, TxTypeOK, TypeOK
    <3> QED BY <3>1, <3>2, <3>3
  <2> QED BY <2>1, <2>2
<1> QED BY <1>1, <1>2, PTL DEF TxSpec

-----------------------------------------------------------------------------
(***************************************************************************)
(* Charges, losses and counts.                                             *)
(***************************************************************************)

\* A late transaction charges only what no other charged before it.
LEMMA CoreStepCharges ==
  ASSUME TypeOK, ChargedBehind, NEW cur \in Period, NEW t \in Time, CoreStep(cur, t)
  PROVE  ChargedBehind' /\ Charges(out') \cap charged = {}
<1>1. st \in State /\ charged \in SUBSET Int /\ Behind(charged, st)
  BY CalendarAssumption DEF TypeOK, ChargedBehind, Period
<1> DEFINE Goal == ChargedBehind' /\ Charges(out') \cap charged = {}
           new(s) == Charges(SettleEvents(s, cur))
<1>2. ASSUME NEW s \in State, Behind(charged, s)
      PROVE  /\ new(s) \cap charged = {} /\ Behind(charged \cup new(s), Settle(s, cur))
             /\ charged \cup new(s) \in SUBSET Int /\ Settle(s, cur) \in State
  <2>1. new(s) \cap charged = {} /\ Behind(charged \cup new(s), Settle(s, cur))
    BY <1>1, <1>2, SettleOnce
  <2>2. new(s) \subseteq Int
    BY SettleCharges, CalendarAssumption DEF Period
  <2> HIDE DEF new
  <2> QED BY <1>1, <2>1, <2>2, SettleType
<1>3. ASSUME NEW s \in State, Behind(charged, s), NEW earns, Charges(earns) = {},
             out' = SettleEvents(s, cur) \cup earns, charged' = charged \cup new(s),
             Behind(charged \cup new(s), st')
      PROVE  Goal
  <2>1. Charges(SettleEvents(s, cur) \cup earns) = new(s) \cup Charges(earns)
    BY OtherCharges
  <2>2. Charges(out') = new(s)
    BY <1>3, <2>1
  <2> HIDE DEF new
  <2> QED BY <1>2, <1>3, <2>2 DEF ChargedBehind
<1> SUFFICES Goal
  OBVIOUS
<1> HIDE DEF new, Goal
<1>4. ASSUME NEW a \in Amounts, Records(cur, t, a) PROVE Goal
  <2> DEFINE settled == Settle(st, cur)
             earns == IF ReachesMin(cur, a) THEN ApplyEvents(settled, cur) ELSE {}
  <2>1. /\ out' = SettleEvents(st, cur) \cup earns /\ charged' = charged \cup new(st)
        /\ st' = settled \/ st' = Apply(settled, cur)
    BY <1>4 DEF Records, Tells, new
  <2>2. Charges(earns) = {}
    BY OtherCharges
  <2> HIDE DEF earns
  <2>3. Behind(charged \cup new(st), st')
    BY <1>1, <1>2, <2>1, ApplyBehind
  <2> QED BY <1>1, <1>3, <2>1, <2>2, <2>3
<1>5. ASSUME NEW p \in Period, NEW a \in Amounts, RecordsLate(p, cur, t, a) PROVE Goal
  <2> DEFINE applied == IF ReachesMin(p, a) THEN Apply(st, p) ELSE st
             earns == IF ReachesMin(p, a) THEN ApplyEvents(st, p) ELSE {}
  <2>1. /\ out' = SettleEvents(applied, cur) \cup earns /\ charged' = charged \cup new(applied)
        /\ st' = Settle(applied, cur)
    BY <1>5 DEF RecordsLate, Tells, new
  <2>2. Charges(earns) = {}
    BY OtherCharges
  <2>3. applied \in State /\ Behind(charged, applied)
    BY <1>1, ApplyType, ApplyBehind
  <2> HIDE DEF earns, applied
  <2> QED BY <1>2, <1>3, <2>1, <2>2, <2>3
<1>6. CASE Settles(cur, t)
  <2>1. /\ out' = SettleEvents(st, cur) \cup {} /\ charged' = charged \cup new(st)
        /\ st' = Settle(st, cur) \/ \E to \in Period : st' = Forgive(Settle(st, cur), to)
    BY <1>6 DEF Settles, Tells, new
  <2>2. Behind(charged \cup new(st), st')
    BY <1>1, <1>2, <2>1, ForgiveBehind
  <2>3. Charges({}) = {}
    BY OtherCharges
  <2> QED BY <1>1, <1>3, <2>1, <2>2, <2>3
<1>7. CASE MovesAlone
  BY <1>1, <1>7, OtherCharges DEF MovesAlone, ChargedBehind, Goal
<1>8. CASE Repairs(cur, t)
  <2> DEFINE settled  == Settle(st, cur)
             n        == settled.currentCount
                           + (IF Breaks(st, cur) THEN st.currentCount ELSE marker.count)
             restored == [settled EXCEPT !.currentCount = n, !.longest = Later(@, n)]
  <2>1. /\ st' = Forgive(restored, cur)
        /\ out' = SettleEvents(st, cur) \cup {Ev("repaired", cur, n)}
        /\ charged' = charged \cup new(st)
    BY <1>8 DEF Repairs, new
  <2>2. n \in Nat /\ settled \in State
    <3>1. settled \in State
      BY <1>1, <1>2
    <3>2. settled.currentCount \in Nat /\ st.currentCount \in Nat /\ marker.count \in Nat
      BY <1>1, <3>1 DEF State, Marker, TypeOK
    <3> QED BY <3>1, <3>2
  <2>3. Behind(charged \cup new(st), settled)
    BY <1>1, <1>2
  <2> HIDE DEF n, settled
  <2>4. restored \in State /\ restored.lastEarned = settled.lastEarned
        /\ restored.settledThrough = settled.settledThrough
    BY <2>2 DEF State, Later
  <2>5. Behind(charged \cup new(st), restored)
    BY <2>3, <2>4 DEF Behind
  <2> HIDE DEF restored
  <2>6. Behind(charged \cup new(st), st')
    BY <1>1, <1>2, <2>1, <2>4, <2>5, ForgiveBehind
  <2> DEFINE told == {Ev("repaired", cur, n)}
  <2>7. Charges(told) = {} /\ out' = SettleEvents(st, cur) \cup told
    BY <2>1, OtherCharges
  <2> HIDE DEF told
  <2> QED BY <1>1, <1>3, <2>1, <2>6, <2>7
<1> QED BY <1>4, <1>5, <1>6, <1>7, <1>8 DEF CoreStep

\* No period is charged twice, by however many transactions that read their
\* clock and their zone before it was charged.
THEOREM TxChargedOnceCorrect == TxSpec => ChargedOnce
<1> DEFINE Once == PeriodsOf(OfType(out', ChargeTypes)) \cap charged = {}
<1>1. TxInit => ChargedBehind
  BY DEF TxInit, Init, ChargedBehind, Behind
<1>2. TxTypeOK /\ ChargedBehind /\ [TxNext]_<<vars, tx>> => ChargedBehind' /\ [Once]_vars
  <2> SUFFICES ASSUME TxTypeOK, ChargedBehind, [TxNext]_<<vars, tx>>
               PROVE  ChargedBehind' /\ [Once]_vars
    OBVIOUS
  <2>1. ASSUME NEW p \in Procs, Commit(p) PROVE ChargedBehind' /\ Once
    BY <2>1, CommitIs, CoreStepCharges DEF TxTypeOK, Charges
  <2>2. CASE Advance
    BY <2>2, OtherCharges DEF Advance, ChargedBehind, Charges
  <2>3. CASE UNCHANGED vars
    BY <2>3 DEF vars, ChargedBehind
  <2> HIDE DEF Once
  <2> QED BY <2>1, <2>2, <2>3, OtherStepIs
<1> QED BY <1>1, <1>2, TxTypeCorrect, PTL DEF TxSpec, ChargedOnce

\* What a settlement and the events of an earn tell of a chain they break.
LEMMA BreakTold ==
  ASSUME NEW s \in State, NEW cur \in Period, NEW t, NEW earns,
         Tells(s, cur, t, earns), Breaks(s, cur)
  PROVE  \E e \in out' : e.type = "broken" /\ e.count = s.currentCount
BY SettleTold DEF Tells

\* A step of the core that lowers the count tells the break.
LEMMA CoreStepLosses ==
  ASSUME TypeOK, NEW cur \in Period, NEW t \in Time, CoreStep(cur, t),
         st'.currentCount < st.currentCount
  PROVE  \E e \in out' : e.type = "broken" /\ e.count >= st.currentCount
<1> DEFINE Goal == \E e \in out' : e.type = "broken" /\ e.count >= st.currentCount
<1>1. st \in State /\ Settle(st, cur) \in State /\ st.currentCount \in Nat
      /\ Settle(st, cur).currentCount = IF Breaks(st, cur) THEN 0 ELSE st.currentCount
  BY SettleType, SettleCount DEF TypeOK, State
<1>2. ASSUME NEW s \in State, NEW earns, Tells(s, cur, t, earns), Breaks(s, cur),
             s.currentCount >= st.currentCount
      PROVE  Goal
  BY <1>2, BreakTold
<1> SUFFICES Goal
  OBVIOUS
<1> HIDE DEF Goal
<1>3. ASSUME NEW a \in Amounts, Records(cur, t, a) PROVE Goal
  <2> DEFINE settled == Settle(st, cur)
             earns == IF ReachesMin(cur, a) THEN ApplyEvents(settled, cur) ELSE {}
  <2>1. /\ Tells(st, cur, t, earns)
        /\ st' = settled \/ st' = Apply(settled, cur)
    BY <1>3 DEF Records
  <2>2. st'.currentCount >= settled.currentCount
    BY <1>1, <2>1, ApplyFields DEF State
  <2>3. st'.currentCount \in Nat /\ settled.currentCount \in Nat
    BY <1>1, <2>1, ApplyType DEF State
  <2>4. Breaks(st, cur)
    BY <1>1, <2>2, <2>3
  <2> HIDE DEF earns
  <2> QED BY <1>1, <1>2, <2>1, <2>4
<1>4. ASSUME NEW p \in Period, NEW a \in Amounts, RecordsLate(p, cur, t, a) PROVE Goal
  <2> DEFINE applied == IF ReachesMin(p, a) THEN Apply(st, p) ELSE st
             earns == IF ReachesMin(p, a) THEN ApplyEvents(st, p) ELSE {}
  <2>1. Tells(applied, cur, t, earns) /\ st' = Settle(applied, cur)
    BY <1>4 DEF RecordsLate
  <2>2. applied \in State /\ applied.currentCount >= st.currentCount
    BY <1>1, ApplyType, ApplyFields
  <2> HIDE DEF earns, applied
  <2>3. Breaks(applied, cur)
    <3>1. st'.currentCount = IF Breaks(applied, cur) THEN 0 ELSE applied.currentCount
      BY <2>1, <2>2, SettleCount
    <3> QED BY <1>1, <2>2, <3>1 DEF State
  <2> QED BY <1>2, <2>1, <2>2, <2>3
<1>5. CASE Settles(cur, t)
  <2>1. /\ Tells(st, cur, t, {})
        /\ st' = Settle(st, cur) \/ \E to \in Period : st' = Forgive(Settle(st, cur), to)
    BY <1>5 DEF Settles
  <2>2. st'.currentCount = Settle(st, cur).currentCount
    BY <1>1, <2>1 DEF Forgive, State
  <2>3. Breaks(st, cur) /\ st.currentCount >= st.currentCount
    BY <1>1, <2>2
  <2> DEFINE none == {}
  <2>4. Tells(st, cur, t, none)
    BY <2>1
  <2> HIDE DEF none
  <2> QED BY <1>1, <1>2, <2>3, <2>4
<1>6. CASE MovesAlone
  BY <1>1, <1>6 DEF MovesAlone
<1>7. CASE Repairs(cur, t)
  <2> DEFINE settled  == Settle(st, cur)
             n        == settled.currentCount
                           + (IF Breaks(st, cur) THEN st.currentCount ELSE marker.count)
             restored == [settled EXCEPT !.currentCount = n, !.longest = Later(@, n)]
  <2>1. st' = Forgive(restored, cur)
    BY <1>7 DEF Repairs
  <2>2. n >= st.currentCount
    BY <1>1 DEF TypeOK, Marker
  <2> HIDE DEF n, settled
  <2>3. st'.currentCount = n
    BY <1>1, <2>1 DEF Forgive, State, settled
  <2>4. n \in Int
    BY <1>1 DEF n, settled, TypeOK, Marker
  <2> QED BY <1>1, <2>2, <2>3, <2>4
<1> QED BY <1>3, <1>4, <1>5, <1>6, <1>7 DEF CoreStep

\* However late it commits, a transaction that lowers the persisted count tells
\* a break of at least what was lost.
THEOREM TxNoSilentLossCorrect == TxSpec => NoSilentLoss
<1> DEFINE Step == st'.currentCount < st.currentCount =>
                     \E e \in out' : e.type = "broken" /\ e.count >= st.currentCount
<1>1. TxTypeOK /\ [TxNext]_<<vars, tx>> => [Step]_vars
  <2> SUFFICES ASSUME TxTypeOK, [TxNext]_<<vars, tx>> PROVE [Step]_vars
    OBVIOUS
  <2>1. ASSUME NEW p \in Procs, Commit(p) PROVE Step
    BY <2>1, CommitIs, CoreStepLosses DEF TxTypeOK
  <2>2. CASE Advance
    <3>1. st' = st /\ st.currentCount \in Nat
      BY <2>2 DEF Advance, TxTypeOK, TypeOK, State
    <3> QED BY <3>1
  <2> HIDE DEF Step
  <2> QED BY <2>1, <2>2, OtherStepIs
<1> QED BY <1>1, TxTypeCorrect, PTL DEF TxSpec, NoSilentLoss

\* A step of the core keeps the chain, with what a repair would add to it,
\* covered by what was earned.
LEMMA CoreStepCovered ==
  ASSUME TypeOK, Covered, NEW cur \in Period, NEW t \in Time, CoreStep(cur, t)
  PROVE  Covered'
<1>1. /\ st \in State /\ Settle(st, cur) \in State /\ marker \in Marker
      /\ marks \in [Period -> 0..MaxAmount] /\ CoveredAs(st, marker, marks)
  BY SettleType DEF TypeOK, Covered
<1>2. \A s \in State : Left(s, cur, t) \in Marker
  BY <1>1 DEF Left, Marker, State
<1>3. \A s \in State : \A ledger : CoveredAs(s, marker, ledger) =>
        CoveredAs(Settle(s, cur), Left(s, cur, t), ledger)
  BY <1>1, CoveredSettle DEF Left
<1>4. ASSUME NEW a \in Amounts, Records(cur, t, a) PROVE Covered'
  <2> DEFINE settled == Settle(st, cur)
  <2>1. /\ AddMark(cur, a) /\ marker' = Left(st, cur, t)
        /\ st' = IF ReachesMin(cur, a) THEN Apply(settled, cur) ELSE settled
    BY <1>4 DEF Records, Tells
  <2>2. CoveredAs(settled, marker', marks) /\ marker' \in Marker
    BY <1>1, <1>2, <1>3, <2>1
  <2>3. /\ Grows(marks, marks') /\ marks' \in [Period -> 0..MaxAmount]
        /\ ReachesMin(cur, a) => cur \in Earned(marks')
    BY <2>1, MarkGrows
  <2> HIDE DEF settled
  <2>4. settled \in State
    BY <1>1 DEF settled
  <2>5. CASE ReachesMin(cur, a)
    BY <1>1, <2>1, <2>2, <2>3, <2>4, <2>5, CoveredApply DEF Covered
  <2>6. CASE ~ReachesMin(cur, a)
    BY <1>1, <2>1, <2>2, <2>3, <2>4, <2>6, CoveredGrows DEF Covered
  <2> QED BY <2>5, <2>6
<1>5. ASSUME NEW p \in Period, NEW a \in Amounts, RecordsLate(p, cur, t, a) PROVE Covered'
  <2> DEFINE applied == IF ReachesMin(p, a) THEN Apply(st, p) ELSE st
  <2>1. AddMark(p, a) /\ marker' = Left(applied, cur, t) /\ st' = Settle(applied, cur)
    BY <1>5 DEF RecordsLate, Tells
  <2>2. /\ Grows(marks, marks') /\ marks' \in [Period -> 0..MaxAmount]
        /\ ReachesMin(p, a) => p \in Earned(marks')
    BY <2>1, MarkGrows
  <2>3. applied \in State /\ CoveredAs(applied, marker, marks')
    BY <1>1, <2>2, ApplyType, CoveredApply, CoveredGrows
  <2> HIDE DEF applied
  <2> QED BY <1>3, <2>1, <2>3 DEF Covered
<1>6. CASE Settles(cur, t)
  <2>1. /\ marks' = marks /\ marker' = Left(st, cur, t)
        /\ st' = Settle(st, cur) \/ \E to \in Period : st' = Forgive(Settle(st, cur), to)
    BY <1>6 DEF Settles, Tells
  <2>2. CoveredAs(Settle(st, cur), marker', marks')
    BY <1>1, <1>3, <2>1
  <2>3. /\ st'.currentCount = Settle(st, cur).currentCount
        /\ st'.lastEarned = Settle(st, cur).lastEarned
        /\ st'.longest = Settle(st, cur).longest
    BY <1>1, <2>1 DEF Forgive, State
  <2> QED BY <2>2, <2>3 DEF Covered, CoveredAs
<1>7. CASE MovesAlone
  BY <1>1, <1>7 DEF MovesAlone, Covered
<1>8. CASE Repairs(cur, t)
  <2> DEFINE settled == Settle(st, cur)
             lost    == IF Breaks(st, cur) THEN st.currentCount ELSE marker.count
             n       == settled.currentCount + lost
             all     == Cardinality(ActiveEarned(marks))
             upTo    == Cardinality(EarnedUpTo(marks, settled.lastEarned))
  <2>1. /\ st' = Forgive([settled EXCEPT !.currentCount = n, !.longest = Later(@, n)], cur)
        /\ Breaks(st, cur) \/ marker.kind = "broken"
        /\ marks' = marks /\ marker' = [kind |-> "repaired", count |-> n, at |-> t]
    BY <1>8 DEF Repairs
  <2>2. Owed(Left(st, cur, t)) = lost /\ Owed(marker') = 0
    BY <2>1 DEF Owed, Left
  <2>3. CoveredAs(settled, Left(st, cur, t), marks)
    BY <1>1, <1>3
  <2>4. n <= upTo /\ settled.longest <= all
    BY <2>2, <2>3 DEF CoveredAs
  <2>5. upTo \in Nat /\ all \in Nat /\ upTo <= all
    BY EarnedFinite
  <2>6. settled \in State /\ n \in Nat
    BY <1>1 DEF State, Marker
  <2> HIDE DEF n, settled
  <2>7. /\ st'.currentCount = n /\ st'.lastEarned = settled.lastEarned
        /\ st'.longest = Later(settled.longest, n) /\ settled.longest \in Nat
    BY <2>1, <2>6 DEF Forgive, State
  <2> HIDE DEF upTo, all, lost
  <2>8. st'.currentCount + Owed(marker') <= upTo /\ st'.longest <= all
    BY <2>2, <2>4, <2>5, <2>6, <2>7 DEF Later
  <2> QED BY <2>1, <2>7, <2>8 DEF Covered, CoveredAs, upTo, all
<1> QED BY <1>4, <1>5, <1>6, <1>7, <1>8 DEF CoreStep

\* No chain is longer than what was earned, however transactions interleave.
THEOREM TxNoInflationCorrect == TxSpec => []NoInflation
<1>1. TxInit => Covered
  <2> SUFFICES ASSUME TxInit PROVE Covered
    OBVIOUS
  <2>1. st.currentCount = 0 /\ st.longest = 0 /\ Owed(marker) = 0
    BY DEF TxInit, Init, NewState, NoMarker, Owed
  <2> QED BY <2>1, EarnedFinite DEF Covered, CoveredAs
<1>2. TxTypeOK /\ Covered /\ [TxNext]_<<vars, tx>> => Covered'
  <2> SUFFICES ASSUME TxTypeOK, Covered, [TxNext]_<<vars, tx>> PROVE Covered'
    OBVIOUS
  <2>1. ASSUME NEW p \in Procs, Commit(p) PROVE Covered'
    BY <2>1, CommitIs, CoreStepCovered DEF TxTypeOK
  <2>2. CASE Advance \/ UNCHANGED vars
    BY <2>2 DEF Advance, vars, Covered
  <2> QED BY <2>1, <2>2, OtherStepIs
<1>3. Covered => NoInflation
  BY DEF Covered, CoveredAs, NoInflation, ActiveEarned
<1> QED BY <1>1, <1>2, <1>3, TxTypeCorrect, PTL DEF TxSpec

-----------------------------------------------------------------------------
(***************************************************************************)
(* A late tick cannot be seen.                                             *)
(***************************************************************************)

\* The period the tick settles to, by what it read.
TickPeriod == PeriodKey(tx[Ticker].at, tx[Ticker].zone)

\* What a transaction under way has read is still good for something: the clock
\* has not gone back; the holder of the subject's lock has its present zone, and
\* a zone change its present instant too; the streak the tick found due is there,
\* and what the tick is about to resolve has elapsed for the subject, or others
\* have resolved it since.
Fresh ==
  /\ \A p \in Procs : tx[p].stage # "idle" =>
       tx[p].at <= now /\ (tx[p].op = "settimezone" => tx[p].at = now)
  /\ \A p \in Procs : HoldsSubject(p) => tx[p].zone = tz
  /\ \A p \in Procs, q \in Procs : HoldsSubject(p) /\ HoldsSubject(q) => p = q
  /\ tx[Ticker].stage # "idle" => tx[Ticker].op = "settle"
  /\ tx[Ticker].stage = "read" =>
       exists /\ st.lastEarned # NoDate /\ (TickPeriod <= Cur \/ ResolvedUpTo(st, TickPeriod))

\* Nothing that was resolved comes back, and an earned streak stays one.
LEMMA CoreStepResolves ==
  ASSUME TypeOK, NEW cur \in Period, NEW t \in Time, CoreStep(cur, t), st.lastEarned # NoDate
  PROVE  /\ st'.lastEarned # NoDate
         /\ Later(st'.lastEarned, st'.settledThrough) >= Later(st.lastEarned, st.settledThrough)
<1> DEFINE Kept(a, b) ==
      /\ b.lastEarned # NoDate
      /\ Later(b.lastEarned, b.settledThrough) >= Later(a.lastEarned, a.settledThrough)
<1>1. \A s \in State : s.lastEarned \in Int /\ s.settledThrough \in Int
  BY CalendarAssumption DEF State, Date, Period, NoDate
<1>2. ASSUME NEW s \in State, s.lastEarned # NoDate
      PROVE  Settle(s, cur) \in State /\ Kept(s, Settle(s, cur))
  <2>1. /\ Settle(s, cur).lastEarned = s.lastEarned
        /\ Settle(s, cur).settledThrough = Later(s.settledThrough, cur - 1)
    BY <1>2, SettlePointer
  <2>2. cur - 1 \in Int
    BY CalendarAssumption DEF Period
  <2> QED BY <1>1, <1>2, <2>1, <2>2, SettleType DEF Later
<1>3. ASSUME NEW s \in State, NEW p \in Period, s.lastEarned # NoDate
      PROVE  Apply(s, p) \in State /\ Kept(s, Apply(s, p))
  <2>1. CASE ~Earns(s, p)
    BY <1>1, <1>3, <2>1, ApplyFields DEF Later
  <2>2. CASE Earns(s, p)
    <3>1. Apply(s, p).lastEarned = p /\ Apply(s, p).settledThrough = s.settledThrough
          /\ s.lastEarned < p /\ p \in Int /\ p # NoDate
      BY <2>2, ApplyFields, CalendarAssumption DEF Earns, Period, NoDate
    <3> QED BY <1>1, <3>1, ApplyType DEF Later
  <2> QED BY <2>1, <2>2
<1>4. ASSUME NEW s \in State, NEW to \in Period, s.lastEarned # NoDate
      PROVE  Kept(s, Forgive(s, to))
  <2>1. /\ Forgive(s, to).lastEarned = s.lastEarned
        /\ Forgive(s, to).settledThrough = Later(s.settledThrough, to - 1)
        /\ to - 1 \in Int
    BY CalendarAssumption DEF Forgive, State, PrevPeriod, Period
  <2> QED BY <1>1, <1>4, <2>1 DEF Later
<1>5. ASSUME NEW a \in State, NEW b \in State, NEW c \in State, Kept(a, b), Kept(b, c)
      PROVE  Kept(a, c)
  <2>1. \A s \in State : Later(s.lastEarned, s.settledThrough) \in Int
    BY <1>1 DEF Later
  <2> HIDE DEF Later
  <2> QED BY <1>5, <2>1
<1> SUFFICES Kept(st, st')
  OBVIOUS
<1>6. st \in State /\ Settle(st, cur) \in State /\ Kept(st, Settle(st, cur))
  BY <1>2 DEF TypeOK
<1> HIDE DEF Kept
<1>7. ASSUME NEW a \in Amounts, Records(cur, t, a) PROVE Kept(st, st')
  <2> DEFINE settled == Settle(st, cur)
  <2>1. st' = settled \/ st' = Apply(settled, cur)
    BY <1>7 DEF Records
  <2>2. Apply(settled, cur) \in State /\ Kept(settled, Apply(settled, cur))
    BY <1>3, <1>6 DEF Kept
  <2> QED BY <1>5, <1>6, <2>1, <2>2
<1>8. ASSUME NEW p \in Period, NEW a \in Amounts, RecordsLate(p, cur, t, a)
      PROVE  Kept(st, st')
  <2> DEFINE applied == IF ReachesMin(p, a) THEN Apply(st, p) ELSE st
  <2>1. st' = Settle(st, cur) \/ st' = Settle(Apply(st, p), cur)
    BY <1>8 DEF RecordsLate
  <2>2. Apply(st, p) \in State /\ Kept(st, Apply(st, p))
    BY <1>3, <1>6
  <2>3. Settle(Apply(st, p), cur) \in State /\ Kept(Apply(st, p), Settle(Apply(st, p), cur))
    BY <1>2, <2>2 DEF Kept
  <2> QED BY <1>5, <1>6, <2>1, <2>2, <2>3
<1>9. ASSUME NEW s \in State, NEW to \in Period, Kept(st, s), st' = Forgive(s, to)
      PROVE  Kept(st, st')
  <2>1. Forgive(s, to) \in State /\ Kept(s, Forgive(s, to))
    BY <1>4, <1>9, ForgiveType DEF Kept
  <2> QED BY <1>5, <1>6, <1>9, <2>1
<1>10. CASE Settles(cur, t)
  BY <1>6, <1>9, <1>10 DEF Settles
<1>11. CASE MovesAlone
  <2>1. st' = st /\ Later(st.lastEarned, st.settledThrough) \in Int
    BY <1>1, <1>6, <1>11 DEF MovesAlone, Later
  <2> QED BY <2>1 DEF Kept
<1>12. CASE Repairs(cur, t)
  <2> DEFINE settled  == Settle(st, cur)
             n        == settled.currentCount
                           + (IF Breaks(st, cur) THEN st.currentCount ELSE marker.count)
             restored == [settled EXCEPT !.currentCount = n, !.longest = Later(@, n)]
  <2>1. st' = Forgive(restored, cur)
    BY <1>12 DEF Repairs
  <2>2. n \in Nat
    <3>1. settled.currentCount \in Nat /\ st.currentCount \in Nat /\ marker.count \in Nat
      BY <1>6 DEF State, Marker, TypeOK
    <3> QED BY <3>1
  <2> HIDE DEF n, settled
  <2>3. settled \in State
    BY <1>6 DEF settled
  <2>4. /\ restored \in State /\ restored.lastEarned = settled.lastEarned
        /\ restored.settledThrough = settled.settledThrough
    BY <2>2, <2>3 DEF State, Later
  <2>5. Kept(st, restored)
    BY <1>6, <2>4 DEF Kept, settled
  <2> HIDE DEF restored
  <2> QED BY <1>9, <2>1, <2>4, <2>5
<1> QED BY <1>7, <1>8, <1>10, <1>11, <1>12 DEF CoreStep

\* A commit that moves the subject settles it first, in the zone it has read.
LEMMA MoveIs ==
  ASSUME TxTypeOK, NEW p \in Procs, Commit(p)
  PROVE  \/ tz' = tz
         \/ /\ tx[p].op = "settimezone"
            /\ exists => \E to \in Zones :
                 st' = Forgive(Settle(st, PeriodKey(tx[p].at, tx[p].zone)),
                               PeriodKey(tx[p].at, to))
<1>1. PICK t \in Time, z \in Zones : Body(tx[p].op, t, z) /\ t = tx[p].at /\ z = tx[p].zone
  BY DEF Commit, TxTypeOK, Tx
<1> DEFINE cur == PeriodKey(t, z)
<1>2. /\ At(t, z)!Cur = cur /\ At(t, z)!Settle(st, cur) = Settle(st, cur)
      /\ \A s, c : At(t, z)!Forgive(s, c) = Forgive(s, c)
      /\ \A y : At(t, z)!PeriodKey(t, y) = PeriodKey(t, y)
  BY PeriodAt, StepsAt
<1> HIDE DEF cur
<1>3. ASSUME exists, NEW to \in Zones, At(t, z)!Rezone(to)
      PROVE  st' = Forgive(Settle(st, cur), PeriodKey(t, to))
  BY <1>2, <1>3 DEF At!Rezone
<1> QED BY <1>1, <1>3 DEF Body, cur

\* The inductive step of Fresh.
LEMMA FreshStep ==
  ASSUME TxTypeOK, Fresh, [TxNext]_<<vars, tx>>, NeverBack, "settimezone" \notin Straddlers
  PROVE  Fresh'
<1>1. /\ tx \in [Procs -> Tx] /\ Ticker \in Procs /\ now \in Time /\ tz \in Zones
      /\ \A p \in Procs : tx[p].at \in Time /\ tx[p].zone \in Zones
      /\ TypeOK /\ st \in State
  BY DEF TxTypeOK, TypeOK, Tx, Procs
\* A step changes at most the transaction of one process.
<1>2. ASSUME NEW p \in Procs, NEW new, tx' = [tx EXCEPT ![p] = new]
      PROVE  /\ tx'[p] = new
             /\ \A q \in Procs : q # p => tx'[q] = tx[q] /\ HoldsSubject(q)' = HoldsSubject(q)
             /\ p # Ticker => tx'[Ticker] = tx[Ticker] /\ TickPeriod' = TickPeriod
             /\ HoldsSubject(p)' <=> new.stage = "read" /\ LocksSubject(new.op)
  BY <1>1, <1>2, Zenon DEF HoldsSubject, TickPeriod, LocksSubject
<1>3. ASSUME UNCHANGED vars PROVE Cur' = Cur
  BY <1>3 DEF vars, Cur
<1>4. ASSUME NEW p \in Procs, NEW new, tx' = [tx EXCEPT ![p] = new], UNCHANGED vars,
             new.stage # "idle" =>
               new.at <= now /\ (new.op = "settimezone" => new.at = now),
             new.stage = "read" /\ LocksSubject(new.op) =>
               new.zone = tz /\ ~ \E q \in Procs : HoldsSubject(q),
             p = Ticker => new.stage \in {"idle", "begun"} /\ (new.stage = "idle" \/ new.op = "settle")
      PROVE  Fresh'
  <2>1. Cur' = Cur /\ st' = st /\ exists' = exists /\ now' = now /\ tz' = tz
    BY <1>4, <1>3 DEF vars
  <2>2. \A q \in Procs : tx'[q].stage # "idle" =>
          tx'[q].at <= now' /\ (tx'[q].op = "settimezone" => tx'[q].at = now')
    BY <1>2, <1>4, <2>1 DEF Fresh
  <2>3. ASSUME NEW q \in Procs, HoldsSubject(q)' PROVE tx'[q].zone = tz'
    <3>1. CASE q = p
      BY <1>2, <1>4, <2>1, <2>3, <3>1
    <3>2. CASE q # p
      <4>1. tx'[q] = tx[q] /\ HoldsSubject(q)' = HoldsSubject(q)
        BY <1>2, <1>4, <3>2
      <4>2. tx[q].zone = tz
        BY <2>3, <4>1 DEF Fresh
      <4> QED BY <2>1, <4>1, <4>2
    <3> QED BY <3>1, <3>2
  <2>4. \A q \in Procs, r \in Procs : HoldsSubject(q)' /\ HoldsSubject(r)' => q = r
    BY <1>2, <1>4 DEF Fresh
  <2>5. tx'[Ticker].stage # "idle" => tx'[Ticker].op = "settle"
    BY <1>1, <1>2, <1>4 DEF Fresh
  <2>6. tx'[Ticker].stage = "read" =>
          /\ exists' /\ st'.lastEarned # NoDate
          /\ TickPeriod' <= Cur' \/ ResolvedUpTo(st', TickPeriod')
    BY <1>1, <1>2, <1>4, <2>1 DEF Fresh
  <2> QED BY <2>2, <2>3, <2>4, <2>5, <2>6 DEF Fresh
<1>5. CASE TxAdvance
  <2>1. /\ now' = now + 1 /\ now' \in Time /\ UNCHANGED <<tz, exists, st, tx>>
        /\ \A p \in Procs : tx[p].stage = "idle" \/ tx[p].op # "settimezone"
    BY <1>1, <1>5, CalendarAssumption DEF TxAdvance, Advance, Time
  <2>2. Cur <= Cur'
    BY <1>1, <2>1 DEF NeverBack, Cur, Time
  <2>3. TickPeriod' = TickPeriod /\ \A q \in Procs : HoldsSubject(q)' = HoldsSubject(q)
    BY <2>1 DEF TickPeriod, HoldsSubject
  <2>4. TickPeriod \in Int /\ Cur \in Int /\ Cur' \in Int
    <3>1. \A t \in Time, z \in Zones : PeriodKey(t, z) \in Int
      BY CalendarAssumption
    <3> QED BY <1>1, <2>1, <3>1 DEF TickPeriod, Cur
  <2>5. \A p \in Procs : tx[p].stage # "idle" => tx[p].at <= now'
    BY <1>1, <2>1 DEF Fresh, Time
  <2> QED BY <2>1, <2>2, <2>3, <2>4, <2>5 DEF Fresh
<1>6. ASSUME NEW p \in Procs, NEW op, Begin(p, op), p = Ticker => op = "settle"
      PROVE  Fresh'
  <2> DEFINE new == [Idle EXCEPT !.stage = "begun", !.op = op, !.at = now]
  <2>1. new.stage = "begun" /\ new.op = op /\ new.at = now
    BY DEF Idle
  <2>2. tx' = [tx EXCEPT ![p] = new] /\ UNCHANGED vars /\ now <= now
    BY <1>1, <1>6 DEF Begin, Time
  <2> HIDE DEF new
  <2> QED BY <1>4, <1>6, <2>1, <2>2
<1>7. ASSUME NEW p \in Procs, ReadSubject(p) PROVE Fresh'
  <2> DEFINE new == [tx[p] EXCEPT !.stage = "read", !.zone = tz]
  <2>1. /\ tx[p].stage = "begun" /\ p # Ticker /\ UNCHANGED vars
        /\ LocksSubject(tx[p].op) => ~ \E q \in Procs : HoldsSubject(q)
    BY <1>7 DEF ReadSubject
  <2>2. /\ new.stage = "read" /\ new.zone = tz /\ new.op = tx[p].op /\ new.at = tx[p].at
        /\ tx' = [tx EXCEPT ![p] = new]
    BY <1>1, <1>7 DEF ReadSubject, Tx
  <2>3. new.at <= now /\ (new.op = "settimezone" => new.at = now)
    BY <2>1, <2>2 DEF Fresh
  <2> HIDE DEF new
  <2> QED BY <1>4, <2>1, <2>2, <2>3
<1>8. ASSUME NEW p \in Procs, tx' = [tx EXCEPT ![p] = Idle], UNCHANGED vars PROVE Fresh'
  BY <1>4, <1>8 DEF Idle
<1>9. CASE LoadCandidate
  <2> DEFINE new == [tx[Ticker] EXCEPT !.stage = "read", !.zone = tz]
  <2>1. CASE tx' = [tx EXCEPT ![Ticker] = Idle]
    BY <1>1, <1>8, <1>9, <2>1 DEF LoadCandidate
  <2>2. CASE tx' # [tx EXCEPT ![Ticker] = Idle]
    <3>1. /\ tx[Ticker].stage = "begun" /\ UNCHANGED vars /\ exists
          /\ SettleIsDue(st, PeriodKey(tx[Ticker].at, tz))
          /\ tx' = [tx EXCEPT ![Ticker] = new]
      BY <1>1, <1>9, <2>2 DEF LoadCandidate
    <3>2. /\ new.stage = "read" /\ new.zone = tz /\ new.op = tx[Ticker].op
          /\ new.at = tx[Ticker].at
      BY <1>1 DEF Tx
    <3> HIDE DEF new
    <3>3. tx'[Ticker] = new /\ TickPeriod' = PeriodKey(new.at, new.zone)
      BY <1>1, <3>1 DEF TickPeriod
    <3>4. new.op = "settle" /\ new.at <= now
      BY <1>1, <3>1, <3>2 DEF Fresh
    <3>5. TickPeriod' <= Cur'
      BY <1>1, <1>3, <3>1, <3>2, <3>3, <3>4 DEF NeverBack, Cur
    <3>6. /\ st' = st /\ exists' = exists /\ now' = now /\ tz' = tz
          /\ st.lastEarned # NoDate
      BY <3>1 DEF vars, SettleIsDue
    <3>7. \A q \in Procs : q # Ticker => tx'[q] = tx[q] /\ HoldsSubject(q)' = HoldsSubject(q)
      BY <1>1, <1>2, <3>1
    <3>8. ~HoldsSubject(Ticker)'
      BY <3>3, <3>4 DEF HoldsSubject, LocksSubject
    <3> QED BY <3>1, <3>2, <3>3, <3>4, <3>5, <3>6, <3>7, <3>8 DEF Fresh
  <2> QED BY <2>1, <2>2
<1>10. ASSUME NEW p \in Procs, Commit(p) PROVE Fresh'
  <2>1. /\ tx' = [tx EXCEPT ![p] = Idle] /\ now' = now /\ tx[p].stage = "read"
        /\ tz' \in Zones /\ (exists => exists')
    BY <1>10, CommitIs DEF Commit
  <2>2. /\ tx'[p].stage = "idle" /\ ~HoldsSubject(p)'
        /\ \A q \in Procs : q # p => tx'[q] = tx[q] /\ HoldsSubject(q)' = HoldsSubject(q)
        /\ p # Ticker => tx'[Ticker] = tx[Ticker] /\ TickPeriod' = TickPeriod
    <3>1. Idle.stage = "idle"
      BY DEF Idle
    <3> QED BY <1>2, <2>1, <3>1
  <2>3. tz' = tz \/ (tx[p].op = "settimezone" /\ HoldsSubject(p))
    BY <1>10, <2>1, MoveIs DEF HoldsSubject, LocksSubject
  <2>4. \A q \in Procs : HoldsSubject(q)' => tx'[q].zone = tz'
    BY <2>2, <2>3 DEF Fresh
  <2>5. ASSUME p # Ticker, tx[Ticker].stage = "read"
        PROVE  /\ exists' /\ st'.lastEarned # NoDate
               /\ TickPeriod <= Cur' \/ ResolvedUpTo(st', TickPeriod)
    <3>1. /\ exists /\ st.lastEarned # NoDate
          /\ TickPeriod <= Cur \/ ResolvedUpTo(st, TickPeriod)
      BY <2>5 DEF Fresh
    <3>2. PICK cur \in Period, t \in Time : CoreStep(cur, t)
      BY <1>10, CommitIs
    <3>3. /\ st'.lastEarned # NoDate
          /\ Later(st'.lastEarned, st'.settledThrough) >= Later(st.lastEarned, st.settledThrough)
          /\ st' \in State
      BY <1>1, <3>1, <3>2, CoreStepResolves, CoreStepTypes
    <3>4. /\ TickPeriod \in Int /\ Cur \in Int /\ Cur \in Period
          /\ Later(st.lastEarned, st.settledThrough) \in Int
          /\ st'.lastEarned \in Int /\ st'.settledThrough \in Int
          /\ Later(st'.lastEarned, st'.settledThrough) \in Int
          /\ Later(st'.lastEarned, st'.settledThrough) >= st'.settledThrough
      BY <1>1, <3>3, CalendarAssumption
         DEF TickPeriod, Cur, Later, State, Date, Period, NoDate
    <3>5. CASE ResolvedUpTo(st, TickPeriod)
      BY <2>1, <3>1, <3>3, <3>4, <3>5 DEF ResolvedUpTo
    <3>6. CASE TickPeriod <= Cur /\ tz' = tz
      BY <2>1, <3>1, <3>3, <3>6 DEF Cur
    <3>7. CASE TickPeriod <= Cur /\ tz' # tz
      <4>1. PeriodKey(tx[p].at, tx[p].zone) = Cur
        BY <2>1, <2>3, <3>7 DEF Fresh, Cur
      <4>2. PICK to \in Zones : st' = Forgive(Settle(st, Cur), PeriodKey(tx[p].at, to))
        BY <1>10, <3>1, <3>7, <4>1, MoveIs
      <4>3. /\ Settle(st, Cur) \in State /\ Settle(st, Cur).settledThrough >= Cur - 1
            /\ PeriodKey(tx[p].at, to) \in Int
        BY <1>1, <3>4, SettleType, SettledThroughIs, CalendarAssumption
      <4>4. st'.settledThrough = Later(Settle(st, Cur).settledThrough, PeriodKey(tx[p].at, to) - 1)
        BY <4>2, <4>3 DEF Forgive, State, PrevPeriod
      <4>5. Settle(st, Cur).settledThrough \in Int
        BY <4>3, CalendarAssumption DEF State, Date, Period, NoDate
      <4>6. st'.settledThrough >= Cur - 1
        BY <3>4, <4>3, <4>4, <4>5 DEF Later
      <4> QED BY <2>1, <3>1, <3>3, <3>4, <3>7, <4>6 DEF ResolvedUpTo
    <3> QED BY <3>1, <3>5, <3>6, <3>7
  <2> QED BY <1>1, <2>1, <2>2, <2>4, <2>5 DEF Fresh
<1>11. CASE UNCHANGED <<vars, tx>>
  <2>1. /\ UNCHANGED <<now, tz, exists, st, tx>> /\ TickPeriod' = TickPeriod /\ Cur' = Cur
        /\ \A q \in Procs : HoldsSubject(q)' = HoldsSubject(q)
    BY <1>11 DEF vars, TickPeriod, Cur, HoldsSubject
  <2> QED BY <2>1 DEF Fresh
<1> QED
  <2>1. ASSUME NEW p \in Hosts, NEW op \in HostOps, Begin(p, op) PROVE Fresh'
    BY <1>6, <2>1, TxAssumption DEF Procs
  <2>2. CASE Begin(Ticker, "settle")
    BY <1>1, <1>6, <2>2
  <2>3. ASSUME NEW p \in Procs, Rollback(p) PROVE Fresh'
    BY <1>8, <2>3 DEF Rollback
  <2> QED BY <1>5, <1>7, <1>9, <1>10, <1>11, <2>1, <2>2, <2>3 DEF TxNext

\* A tick that commits late, after others moved the clock, the subject or the
\* row, changes nothing a reader can see.
THEOREM TickInvisibleCorrect ==
  ASSUME NeverBack, "settimezone" \notin Straddlers
  PROVE  TxSpec => TickInvisible
<1> DEFINE Step == TickCommits => Reads(st', Cur) = Reads(st, Cur)
<1>1. TxInit => Fresh
  <2> SUFFICES ASSUME TxInit PROVE Fresh
    OBVIOUS
  <2>1. \A p \in Procs : tx[p].stage = "idle"
    BY DEF TxInit, Idle
  <2> QED BY <2>1 DEF Fresh, HoldsSubject, Procs
<1>2. TxTypeOK /\ Fresh /\ [TxNext]_<<vars, tx>> => Fresh'
  BY FreshStep
<1>3. TxTypeOK /\ Fresh /\ [TxNext]_<<vars, tx>> => [Step]_<<vars, tx>>
  <2> SUFFICES ASSUME TxTypeOK, Fresh, [TxNext]_<<vars, tx>>, TickCommits
               PROVE  Reads(st', Cur) = Reads(st, Cur)
    OBVIOUS
  <2>1. /\ st \in State /\ Cur \in Period /\ tx \in [Procs -> Tx] /\ Ticker \in Procs
        /\ tx[Ticker].op = "settle" /\ tx[Ticker].stage = "read"
        /\ st.lastEarned # NoDate /\ (TickPeriod <= Cur \/ ResolvedUpTo(st, TickPeriod))
    BY CurType DEF TxTypeOK, TypeOK, Procs, Fresh, TickCommits
  <2>2. CASE Commit(Ticker)
    <3>1. PICK t \in Time, z \in Zones :
            Body("settle", t, z) /\ t = tx[Ticker].at /\ z = tx[Ticker].zone
      BY <2>1, <2>2 DEF Commit, Tx
    <3>2. At(t, z)!SettleOne
      BY <3>1 DEF Body
    <3>3. /\ TickPeriod = PeriodKey(t, z) /\ TickPeriod \in Period
          /\ st' = Settle(st, TickPeriod)
      BY <3>1, <3>2, PeriodAt, StepsAt DEF At!SettleOne, TickPeriod
    <3> QED BY <2>1, <3>3, SettledReads, ResolvedReads
  <2>3. ASSUME NEW p \in Procs, p # Ticker, tx'[Ticker] = tx[Ticker] PROVE FALSE
    BY <2>1, <2>3 DEF TickCommits, Idle
  <2>4. ASSUME NEW p \in Procs, Commit(p), p # Ticker PROVE FALSE
    BY <2>1, <2>3, <2>4 DEF Commit
  <2>5. CASE ~ \E p \in Procs : Commit(p)
    <3>1. UNCHANGED vars \/ Advance
      BY <2>5, OtherStepIs
    <3>2. st' = st
      BY <3>1 DEF vars, Advance
    <3> QED BY <3>2
  <2> QED BY <2>2, <2>4, <2>5
<1> QED BY <1>1, <1>2, <1>3, TxTypeCorrect, PTL DEF TxSpec, TickInvisible
=============================================================================
