--------------------------- MODULE StreakCalendar ---------------------------
(***************************************************************************)
(* The calendar of streakd (internal/core/period.go, date.go): instants,   *)
(* time zones and the periods the instants belong to.                      *)
(*                                                                         *)
(* An instant is a number of slots since the start of the model; a zone is *)
(* the offset of its wall clock from the instant, which may change with    *)
(* the instant (daylight saving).  Periods (days, weeks or months) are     *)
(* numbered consecutively, so "the next calendar period" is p + 1.  Number *)
(* NoDate = 0 stands for the zero core.Date, which is before every date.   *)
(***************************************************************************)
EXTENDS Integers

CONSTANTS
  Zones,           \* the IANA zones a subject may live in
  Horizon,         \* bound: the last instant of the model
  LastPeriod,      \* bound: the last period any instant belongs to
  SlotsPerPeriod,  \* how many slots of wall clock one period lasts
  Boundary,        \* cfg.BoundaryOffsetMin, in slots
  Offset,          \* Offset[z][t]: wall clock of zone z minus the instant t
  ActiveDays       \* cfg.WeekdayMask: the active residues modulo 7

Time   == 0..Horizon
Period == 1..LastPeriod
NoDate == 0
Date   == Period \cup {NoDate}

\* The offset of zone z at any instant: outside the bounds it stays as it is.
OffsetAt(t, z) ==
  Offset[z][IF t < 0 THEN 0 ELSE IF t > Horizon THEN Horizon ELSE t]

\* The wall clock of zone z at instant t, in slots since local midnight of
\* the civil day number 0.
Wall(t, z) == t + OffsetAt(t, z)

\* time.Date (Go's time package): an instant that zone z's clock shows as w.
\* An overlap has two of them.  In a gap there is none, and the answer is w
\* by the offset before or after it: the package does not say which.
InstantsOf(w, z) ==
  LET exact == {t \in {w - Offset[z][u] : u \in Time} : Wall(t, z) = w}
      gap   == {t \in Time : Wall(t, z) < w /\ w < Wall(t + 1, z)}
  IN  IF exact # {} THEN exact
      ELSE UNION {{w - OffsetAt(t, z), w - OffsetAt(t + 1, z)} : t \in gap}

\* PeriodKey: the boundary offset is subtracted from the wall clock, in a
\* frame without a zone, and the result is cut to a date.
PeriodKey(t, z) == (Wall(t, z) - Boundary) \div SlotsPerPeriod

\* Mutant of PeriodEnds: a period lasts as long as its slots, whatever the clock does.
PeriodEndsElapsed(p, z) ==
  {t + SlotsPerPeriod : t \in InstantsOf(p * SlotsPerPeriod + Boundary, z)}

\* PeriodEnd: the shifted local midnight that starts the next period.
PeriodEnds(p, z) == InstantsOf((p + 1) * SlotsPerPeriod + Boundary, z)

\* The period before p, active or not (prevPeriod and prevCalendarPeriod).
PrevPeriod(p) == p - 1

\* Config.ScheduledOn: p is an active, non-rest, period.  Weeks and months
\* have no rest days: for them ActiveDays is 0..6.
ScheduledOn(p) == (p % 7) \in ActiveDays

\* NextScheduled: the first active period after p.
NextScheduled(p) ==
  CHOOSE q \in (p + 1)..(p + 7) :
    ScheduledOn(q) /\ \A r \in (p + 1)..(q - 1) : ~ScheduledOn(r)

\* Every instant of the model belongs, in every zone, to a period that has a
\* period before it: the program's dates are nowhere near the zero date.
ASSUME CalendarAssumption ==
  /\ Horizon \in Nat /\ LastPeriod \in Nat
  /\ SlotsPerPeriod \in Nat \ {0} /\ Boundary \in Int
  /\ \A z \in Zones, t \in Time : Offset[z][t] \in Int
  /\ \A z \in Zones, t \in Time : PeriodKey(t, z) \in 2..LastPeriod
  /\ ActiveDays \subseteq 0..6 /\ ActiveDays # {}
=============================================================================
