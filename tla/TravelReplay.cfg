SPECIFICATION Spec
CONSTANTS
  Zones = {"west", "home", "east"}
  DefaultTZ = "home"
  Horizon = 6
  LastPeriod = 8
  SlotsPerPeriod = 2
  Boundary = 0
  Offset <- FlightOffset
  ActiveDays <- EveryDay
  Initial = 0
  EarnEvery = 2
  FreezeCap = 2
  AutoConsume = TRUE
  Milestones = {2}
  Target = 0
  Ops = {"record", "settle", "settimezone"}
  MinAmount = 1
  DayPeriods = TRUE
  DefaultReminder <- NoReminder
  Grace = 1
  RepairWindow = 99
  Delays = {}
  Amounts = {1}
  MaxAmount = 1
  Histories = {}
  ShiftDays = {}
  FreezeGrants = {}
  Reminders = {}
INVARIANTS OracleCount
CHECK_DEADLOCK FALSE
