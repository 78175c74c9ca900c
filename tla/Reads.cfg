SPECIFICATION ReadsSpec
CONSTANTS
  OpsDuring = {"record", "settle", "settimezone", "repair"}
  Zones = {"west", "home", "dst"}
  DefaultTZ = "home"
  Horizon = 4
  LastPeriod = 5
  SlotsPerPeriod = 2
  Boundary = 0
  Offset <- FlightOffset
  ActiveDays <- EveryDay
  Initial = 1
  EarnEvery = 2
  FreezeCap = 1
  AutoConsume = TRUE
  Milestones = {2}
  Target = 0
  Ops = {"record", "unrecord", "recount", "settle", "settimezone", "repair", "setfreezes"}
  MinAmount = 1
  DayPeriods = TRUE
  DefaultReminder <- NoReminder
  Grace = 1
  RepairWindow = 99
  Delays = {1}
  Amounts = {1}
  MaxAmount = 1
  Histories = {}
  ShiftDays = {}
  FreezeGrants = {0, 2}
  Reminders = {}
INVARIANTS Sane
PROPERTIES ReadHonest Generosity 
CHECK_DEADLOCK FALSE
