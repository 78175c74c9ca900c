---------------------------- MODULE StreakEngine ----------------------------
(***************************************************************************)
(* The operations of streakd's engine (internal/engine) on one streak of   *)
(* one subject, each as the transaction the code runs: the row is read     *)
(* under its lock, so an operation is one step.  The clock advances, and   *)
(* the scheduler runs or does not run, between any two of them.            *)
(*                                                                         *)
(* An operation that returns an error rolls back and changes nothing: it   *)
(* is a guard here.                                                        *)
(***************************************************************************)
EXTENDS StreakDue

CONSTANTS
  Ops,            \* the operations the host and the scheduler use
  DefaultTZ,      \* WithDefaultTimezone
  MinAmount,      \* cfg.MinAmountPerPeriod, normalized
  DayPeriods,     \* cfg.Period = "day"
  DefaultReminder,\* cfg.ReminderLocalTime of the registered type
  Grace,          \* boundaryGrace, in slots
  RepairWindow,   \* repairWindow, in slots
  Delays,         \* inputs: how long before now an activity may have happened
  Amounts,        \* inputs: RecordReq.Amount
  MaxAmount,      \* bound: the amount of one ledger row
  Histories,      \* inputs: the ledgers ReplaceHistory is given
  ShiftDays,      \* inputs: the days ShiftHistory is given
  FreezeGrants,   \* inputs: the inventories SetFreezes is given
  Reminders       \* inputs: the wall-clock slots SetReminder is given

NoReminder == -1

OpNames == {"record", "unrecord", "recount", "replace", "shift", "setfreezes",
            "settimezone", "repair", "setreminder", "settle", "remind"}

ASSUME EngineAssumption ==
  /\ Ops \subseteq OpNames
  /\ DefaultTZ \in Zones
  /\ MinAmount \in Nat \ {0} /\ MaxAmount \in Nat /\ MinAmount <= MaxAmount
  /\ Amounts \subseteq Nat \ {0}
  /\ DayPeriods \in BOOLEAN /\ (ActiveDays # 0..6 => DayPeriods)
  /\ Grace \in Nat /\ RepairWindow \in Nat
  /\ Delays \subseteq Nat
  /\ Histories \subseteq SUBSET Period
  /\ ShiftDays \subseteq Nat \ {0}
  /\ FreezeGrants \subseteq Nat
  /\ Reminders \subseteq 0..(SlotsPerPeriod - 1)
  /\ DefaultReminder \in Reminders \cup {NoReminder}

VARIABLES
  now,       \* the engine clock
  tz,        \* subjects.timezone
  exists,    \* the streak's row has been inserted
  st,        \* the streak's row: its core.State
  marks,     \* period_marks: the amount of each period, 0 where there is no row
  reminder,  \* config.reminder_local_time of the streak
  claims,    \* reminder_claims: the days claimed
  marker,    \* the last 'broken' or 'repaired' row of the outbox
  charged,   \* the periods the outbox has a charge for (a freeze or a break)
  out        \* the events the last transaction committed

vars == <<now, tz, exists, st, marks, reminder, claims, marker, charged, out>>

Marker == [kind : {"none", "broken", "repaired"}, count : Nat, at : Time]
NoMarker == [kind |-> "none", count |-> 0, at |-> 0]

\* The state of every variable is what its table and the bounds allow.
TypeOK ==
  /\ now \in Time
  /\ tz \in Zones
  /\ exists \in BOOLEAN
  /\ st \in State
  /\ marks \in [Period -> 0..MaxAmount]
  /\ reminder \in Reminders \cup {NoReminder}
  /\ claims \subseteq Period
  /\ marker \in Marker
  /\ charged \subseteq Period
  /\ out \subseteq Event

Init ==
  /\ now = 0
  /\ tz = DefaultTZ
  /\ exists = FALSE
  /\ st = NewState
  /\ marks = [p \in Period |-> 0]
  /\ reminder = DefaultReminder
  /\ claims = {}
  /\ marker = NoMarker
  /\ charged = {}
  /\ out = {}

-----------------------------------------------------------------------------
\* The current period of the subject.
Cur == PeriodKey(now, tz)

\* EarnedPeriods: the ledger rows that reached the threshold.
Earned(ledger) == {p \in Period : ledger[p] >= MinAmount}

OfType(evs, types) == {e \in evs : e.type \in types}

\* The types of event that resolve an elapsed period.
ChargeTypes == {"freeze_consumed", "broken"}

PeriodsOf(evs) == {e.period : e \in evs}

\* persistEvents: the outbox rows, as the rest of the engine reads them back.
\* Repair emits its event after those of its own settlement.
PersistEvents(evs) ==
  LET breaks  == OfType(evs, {"broken"})
      repairs == OfType(evs, {"repaired"})
      mark(kind, es) == [kind |-> kind, count |-> (CHOOSE e \in es : TRUE).count, at |-> now]
  IN  /\ out' = evs
      /\ charged' = charged \cup PeriodsOf(OfType(evs, ChargeTypes))
      /\ marker' = IF repairs # {} THEN mark("repaired", repairs)
                   ELSE IF breaks # {} THEN mark("broken", breaks)
                   ELSE marker

\* Time passes.
Advance ==
  /\ now < Horizon
  /\ now' = now + 1
  /\ out' = {}
  /\ UNCHANGED <<tz, exists, st, marks, reminder, claims, marker, charged>>

-----------------------------------------------------------------------------
(***************************************************************************)
(* Host operations                                                         *)
(***************************************************************************)

\* AddMark: amount a more in the ledger row of period p.
AddMark(p, a) ==
  /\ marks[p] + a <= MaxAmount
  /\ marks' = [marks EXCEPT ![p] = @ + a]

\* Apply earns p only once its row has reached the threshold.
ReachesMin(p, a) == marks[p] + a >= MinAmount

\* Mutant of RecordCurrent: earn first, then resolve what elapsed.
RecordEarnsFirst(a) ==
  LET applied == IF ReachesMin(Cur, a) THEN Apply(st, Cur) ELSE st
  IN  /\ "record" \in Ops
      /\ AddMark(Cur, a)
      /\ st' = Settle(applied, Cur)
      /\ PersistEvents(SettleEvents(applied, Cur) \cup
                       IF ReachesMin(Cur, a) THEN ApplyEvents(st, Cur) ELSE {})
      /\ exists' = TRUE
      /\ UNCHANGED <<now, tz, reminder, claims>>

\* Record, an activity of the current period: resolve what elapsed, then earn.
\* Its instant in the period makes no difference.
RecordCurrent(a) ==
  LET settled == Settle(st, Cur)
  IN  /\ "record" \in Ops
      /\ AddMark(Cur, a)
      /\ st' = IF ReachesMin(Cur, a) THEN Apply(settled, Cur) ELSE settled
      /\ PersistEvents(SettleEvents(st, Cur) \cup
                       IF ReachesMin(Cur, a) THEN ApplyEvents(settled, Cur) ELSE {})
      /\ exists' = TRUE
      /\ now' = now /\ tz' = tz /\ UNCHANGED <<reminder, claims>>

\* Record, an activity from just before a boundary that has since passed: its
\* period is earned first and the boundary settled after.
RecordGrace(d, a) ==
  LET at      == now - d
      p       == PeriodKey(at, tz)
      applied == IF ReachesMin(p, a) THEN Apply(st, p) ELSE st
  IN  /\ "record" \in Ops
      /\ at \in Time /\ p < Cur /\ d <= Grace
      /\ st.settledThrough < p /\ st.lastEarned < p
      /\ AddMark(p, a)
      /\ st' = Settle(applied, Cur)
      /\ PersistEvents((IF ReachesMin(p, a) THEN ApplyEvents(st, p) ELSE {})
                       \cup SettleEvents(applied, Cur))
      /\ exists' = TRUE
      /\ now' = now /\ tz' = tz /\ UNCHANGED <<reminder, claims>>

\* recountLocked: the state becomes what the ledger replays to.  No events.
Rebuild(ledger) ==
  /\ marks' = ledger
  /\ st' = Replay(Earned(ledger), Cur)
  /\ PersistEvents({})

\* Mutant of Unrecord: the count is taken back without a replay.
UnrecordDecrements ==
  /\ "unrecord" \in Ops /\ exists
  /\ marks' = [marks EXCEPT ![Cur] = 0]
  /\ st' = IF st.lastEarned = Cur
           THEN [st EXCEPT !.currentCount = @ - 1, !.lastEarned = PrevPeriod(Cur)]
           ELSE st
  /\ PersistEvents({})
  /\ UNCHANGED <<now, tz, exists, reminder, claims>>

\* Unrecord: the current period's row is deleted.
Unrecord ==
  /\ "unrecord" \in Ops /\ exists
  /\ Rebuild([marks EXCEPT ![Cur] = 0])
  /\ UNCHANGED <<now, tz, exists, reminder, claims>>

Recount ==
  /\ "recount" \in Ops /\ exists
  /\ Rebuild(marks)
  /\ UNCHANGED <<now, tz, exists, reminder, claims>>

\* ReplaceHistory: the ledger becomes exactly the periods given.
ReplaceHistory(periods) ==
  /\ "replace" \in Ops
  /\ Rebuild([p \in Period |-> IF p \in periods THEN MinAmount ELSE 0])
  /\ exists' = TRUE
  /\ claims' = {}
  /\ UNCHANGED <<now, tz, reminder>>

\* Mutant of ShiftHistory: the settle pointer does not move along.
ShiftKeepsPointer(n) ==
  LET earlier(date) == IF date = NoDate THEN NoDate ELSE date - n
  IN  /\ "shift" \in Ops /\ exists /\ DayPeriods
      /\ \A p \in Period : p <= n => marks[p] = 0
      /\ st.lastEarned \notin 1..n /\ st.settledThrough \notin 1..n
      /\ marks' = [p \in Period |-> IF p + n \in Period THEN marks[p + n] ELSE 0]
      /\ claims' = {}
      /\ st' = [st EXCEPT !.lastEarned = earlier(@)]
      /\ PersistEvents({})
      /\ UNCHANGED <<now, tz, exists, reminder>>

\* ShiftHistory: ledger and pointers move n days into the past, no recount.
\* Bound: nothing moves before the first period.
ShiftHistory(n) ==
  LET earlier(date) == IF date = NoDate THEN NoDate ELSE date - n
  IN  /\ "shift" \in Ops /\ exists /\ DayPeriods
      /\ \A p \in Period : p <= n => marks[p] = 0
      /\ st.lastEarned \notin 1..n /\ st.settledThrough \notin 1..n
      /\ marks' = [p \in Period |-> IF p + n \in Period THEN marks[p + n] ELSE 0]
      /\ claims' = {}
      /\ st' = [st EXCEPT !.lastEarned = earlier(@), !.settledThrough = earlier(@)]
      /\ PersistEvents({})
      /\ UNCHANGED <<now, tz, exists, reminder>>

\* SetFreezes: the inventory is overwritten, without a settlement.
SetFreezes(n) ==
  /\ "setfreezes" \in Ops /\ exists
  /\ st' = [st EXCEPT !.freezes = n]
  /\ PersistEvents({})
  /\ UNCHANGED <<now, tz, exists, marks, reminder, claims>>

\* Mutant of Forgive: the gap a zone shift creates stays.
ForgiveNothing(s, cur) == s

\* The settle pointer is pulled to just before the period cur of a zone.
Forgive(s, cur) == [s EXCEPT !.settledThrough = Later(@, PrevPeriod(cur))]

\* Mutant of Rezone: the events of its settlement are not persisted.
RezoneSilently(z) ==
  /\ st' = IF exists THEN Forgive(Settle(st, Cur), PeriodKey(now, z)) ELSE st
  /\ PersistEvents({})
  /\ now' = now /\ UNCHANGED <<exists, marks, reminder, claims>>

\* Mutant of Rezone: what elapsed in the old zone is forgiven too.
RezoneUnsettled(z) ==
  /\ st' = IF exists THEN Forgive(st, PeriodKey(now, z)) ELSE st
  /\ PersistEvents({})
  /\ now' = now /\ UNCHANGED <<exists, marks, reminder, claims>>

\* Settle under the old zone, then forgive what the shift to zone z adds.
Rezone(z) ==
  /\ st' = IF exists THEN Forgive(Settle(st, Cur), PeriodKey(now, z)) ELSE st
  /\ PersistEvents(IF exists THEN SettleEvents(st, Cur) ELSE {})
  /\ now' = now /\ UNCHANGED <<exists, marks, reminder, claims>>

SetTimezone(z) == "settimezone" \in Ops /\ z # tz /\ tz' = z /\ Rezone(z)

\* latestBreak as Repair reads it, after the events of its own settlement.
LatestBreak(evs) ==
  LET breaks == OfType(evs, {"broken"})
  IN  IF breaks # {}
      THEN [kind |-> "broken", count |-> (CHOOSE e \in breaks : TRUE).count, at |-> now]
      ELSE marker

\* Mutant of Repairable: a break can be repaired again.
RepairableAgain(m) == m.count > 0 /\ now - m.at <= RepairWindow

\* lostCount is 0 unless the last marker is a break.
Repairable(m) == m.kind = "broken" /\ m.count > 0 /\ now - m.at <= RepairWindow

\* Repair: what the last break lost comes back on top of what was earned since.
Repair ==
  LET settled  == Settle(st, Cur)
      lost     == LatestBreak(SettleEvents(st, Cur))
      n        == settled.currentCount + lost.count
      restored == [settled EXCEPT !.currentCount = n, !.longest = Later(@, n)]
  IN  /\ "repair" \in Ops /\ exists
      /\ Repairable(lost)
      /\ st' = Forgive(restored, Cur)
      /\ PersistEvents(SettleEvents(st, Cur) \cup {Ev("repaired", Cur, n)})
      /\ now' = now /\ tz' = tz /\ UNCHANGED <<exists, marks, reminder, claims>>

\* SetReminder sets or clears the reminder and creates a missing streak.
SetReminder(r) ==
  /\ "setreminder" \in Ops
  /\ reminder' = r
  /\ exists' = TRUE
  /\ PersistEvents({})
  /\ UNCHANGED <<now, tz, st, marks, claims>>

-----------------------------------------------------------------------------
(***************************************************************************)
(* Scheduler: the two halves of Tick.  That is two steps, because any host *)
(* operation may commit between them.                                      *)
(***************************************************************************)

\* settleOne: the row is settled, whatever the prefilter saw.
SettleOne ==
  /\ exists
  /\ st' = Settle(st, Cur)
  /\ PersistEvents(SettleEvents(st, Cur))
  /\ now' = now /\ tz' = tz /\ UNCHANGED <<exists, marks, reminder, claims>>

SettleDue == "settle" \in Ops /\ SettleIsDue(st, Cur) /\ SettleOne

\* Mutant of ReminderInstants: the civil day of the clock, not of the period.
ReminderOnCivilDay ==
  InstantsOf((Wall(now, tz) \div SlotsPerPeriod) * SlotsPerPeriod + reminder, tz)

\* reminderInstant: the slot `reminder' of the civil day that names the current
\* period, whatever the boundary offset.
ReminderInstants == InstantsOf(Cur * SlotsPerPeriod + reminder, tz)

\* remindDue's prefilter.
ReminderIsDue ==
  /\ DayPeriods /\ reminder # NoReminder /\ st.currentCount > 0
  /\ \E at \in ReminderInstants : now >= at

\* remindOne: one claim per day.
RemindOne ==
  LET view == Derive(st, Cur)
  IN  /\ exists
      /\ AtRisk(view) /\ Cur \notin claims
      /\ claims' = claims \cup {Cur}
      /\ PersistEvents({Ev("at_risk", Cur, view.count)})
      /\ UNCHANGED <<now, tz, exists, st, marks, reminder>>

RemindDue == "remind" \in Ops /\ ReminderIsDue /\ RemindOne

Next ==
  \/ Advance
  \/ \E a \in Amounts : RecordCurrent(a)
  \/ \E d \in Delays, a \in Amounts : RecordGrace(d, a)
  \/ Unrecord
  \/ Recount
  \/ \E periods \in Histories : ReplaceHistory(periods)
  \/ \E n \in ShiftDays : ShiftHistory(n)
  \/ \E n \in FreezeGrants : SetFreezes(n)
  \/ \E z \in Zones : SetTimezone(z)
  \/ Repair
  \/ \E r \in Reminders \cup {NoReminder} : SetReminder(r)
  \/ SettleDue
  \/ RemindDue

Spec == Init /\ [][Next]_vars

\* RunScheduler ticks for ever: what is due to be settled is settled.
FairSpec == Spec /\ WF_vars(SettleDue)
=============================================================================
