-------------------------- MODULE StreakProperties --------------------------
(***************************************************************************)
(* What one streak promises: the invariants and action properties of       *)
(* StreakEngine.  Each one holds for some set of operations Ops; the       *)
(* README says which and why the others break it.                          *)
(***************************************************************************)
EXTENDS StreakEngine

\* The streak as it stands now, with every elapsed period resolved.
Live == Settle(st, Cur)

\* Replay's promise (replay.go:5-8): once settled, the state kept
\* incrementally is the state the ledger replays to.
Oracle == exists => Live = Replay(Earned(marks), Cur)

\* The part of that promise a user would notice (streakd.go:23, PLAN.md:138,
\* DESIGN.md:313-315): recounting the ledger never changes the count, so that
\* no zone hop can make the same day count twice.
OracleCount == exists => Live.currentCount = Replay(Earned(marks), Cur).currentCount

\* The counters of a state fit together: the best chain is never behind the
\* present one and the progress never passes the price of a freeze.
Consistent(s) == s.currentCount <= s.longest /\ s.freezeProgress <= EarnEvery

\* The row stays consistent whatever operations are used, and a streak that
\* earned was settled (settleDue's prefilter relies on it).
Sane ==
  /\ Consistent(st)
  /\ st.lastEarned # NoDate => st.settledThrough # NoDate
  /\ ~exists => st = NewState

\* No period is ever charged twice, with a freeze or with a break, however
\* records, settlements, repairs and zone changes are interleaved.
ChargedOnce ==
  [][PeriodsOf(OfType(out', ChargeTypes)) \cap charged = {}]_vars

\* A chain never shrinks silently (transition.go:28-29, 47-52): when a step
\* lowers the persisted count it commits a break that carries at least the
\* count that was lost, which is what Repair restores.
NoSilentLoss ==
  [][st'.currentCount < st.currentCount =>
       \E e \in out' : e.type = "broken" /\ e.count >= st.currentCount]_vars

\* What a reader sees of a streak; a charge that is pending already counts.
Reads(s, cur) ==
  LET d == Derive(s, cur)
  IN  <<d.count, d.longest, d.liveness = "broken", d.earnedThisPeriod,
        d.freezesAfterSpend, d.freezeProgress, d.lossPeriod>>

\* Correctness of every read never depends on the scheduler running
\* (scheduler.go:19-20): a settlement changes nothing a reader can see, now
\* or in any later period.
SettlingInvisible ==
  [][SettleDue =>
       \A cur \in Cur..LastPeriod : Reads(st', cur) = Reads(st, cur)]_vars

\* SetTimezone's generosity rule (admin.go:17-21): what the subject sees after
\* the change is what was true before it; a zone change never breaks a streak
\* and never spends a freeze.
Generosity ==
  [][tz' # tz =>
       LET before == Derive(st, PeriodKey(now, tz))
           after  == Derive(st', PeriodKey(now, tz'))
       IN  /\ after.count = before.count
           /\ after.longest = before.longest
           /\ after.freezesAfterSpend = before.freezesAfterSpend
           /\ after.freezeProgress = before.freezeProgress
           /\ before.liveness # "broken" => after.liveness = "alive"]_vars

\* Nobody has a longer chain than the periods they earned, with travel, grace
\* and repairs, as long as the ledger is not rewritten.
NoInflation ==
  st.longest <= Cardinality({p \in Earned(marks) : ScheduledOn(p)})

\* A repaired chain is alive at once, with the count the event reports
\* (admin.go:132).
RepairedAlive ==
  [][\A e \in OfType(out', {"repaired"}) :
        LET view == Derive(st', PeriodKey(now', tz'))
        IN  view.liveness = "alive" /\ view.count = e.count]_vars

\* Reporting activity never costs anything: not the chain, not a freeze, not
\* even when it arrives after the boundary.
RecordNeverCosts ==
  [][(\E a \in Amounts : RecordCurrent(a) \/ \E d \in Delays : RecordGrace(d, a)) =>
       LET before == Derive(st, Cur)
           after  == Derive(st', Cur)
       IN  /\ after.count >= before.count
           /\ after.longest >= before.longest
           /\ after.freezesAfterSpend >= before.freezesAfterSpend]_vars

\* An at_risk event is true when it is sent (scheduler.go:207-208): by the
\* ledger, today is active and unearned and the chain it counts is alive.
AtRiskHonest ==
  [][\A e \in OfType(out', {"at_risk"}) :
        /\ e.period = Cur /\ ScheduledOn(e.period)
        /\ e.period \notin Earned(marks)
        /\ e.count > 0 /\ e.count = Replay(Earned(marks), Cur).currentCount]_vars

\* LossAt is exact (state.go:43-44): without further activity the chain
\* survives up to the end of the loss period, and not beyond.
LossExact ==
  LET loss == Derive(st, Cur).lossPeriod
  IN  loss # NoDate =>
        \A cur \in Cur..(loss + 2) :
          Settle(st, cur).currentCount > 0 <=> cur <= loss

\* The same of the instant a subject is shown (period.go:28-43, state.go:43-44):
\* with a day that daylight saving makes longer or shorter, the chain is alive
\* up to the very slot before loss_at, and not from it on.
LossAtExact ==
  LET loss == Derive(st, Cur).lossPeriod
  IN  loss # NoDate =>
        \A end \in PeriodEnds(loss, tz), t \in now..Horizon :
          Settle(st, PeriodKey(t, tz)).currentCount > 0 <=> t < end

\* No day ends before its reminder (scheduler.go:171-172, 221-228): when one
\* ends on a chain at risk, the tick had found the reminder due.
ReminderReached ==
  [][exists /\ DayPeriods /\ reminder # NoReminder
     /\ st.currentCount > 0 /\ AtRisk(Derive(st, Cur)) /\ Cur' > Cur
       => \A at \in ReminderInstants : at <= now]_vars

\* Derive agrees with Settle (state.go:48-49): what a reader is shown is what
\* a settlement at that instant would persist.
DeriveAgrees ==
  LET d == Derive(st, Cur)
  IN  /\ d.count = Live.currentCount
      /\ d.longest = Live.longest
      /\ d.freezesAfterSpend = Live.freezes
      /\ d.freezeProgress = Live.freezeProgress
      /\ d.pendingSpend = Cardinality(OfType(SettleEvents(st, Cur), {"freeze_consumed"}))

\* Unrecord reverses one mark (DESIGN.md:303-304): without a row of the
\* current period that reached the threshold it changes no count, and with one
\* it costs at most one.
UnrecordReversesOne ==
  [][Unrecord =>
       LET reached == Cur \in Earned(marks) /\ ScheduledOn(Cur)
       IN  /\ st'.currentCount <= Live.currentCount
           /\ st'.currentCount >= Live.currentCount - (IF reached THEN 1 ELSE 0)]_vars

\* The scheduler charges whatever is owed (scheduler.go:16-20): a pending
\* charge does not stay pending.
EverySettled ==
  SettleEvents(st, Cur) # {} ~> SettleEvents(st, Cur) = {}
=============================================================================
