SPECIFICATION Spec
CONSTANTS
  Zones = {"home"}
  DefaultTZ = "home"
  Horizon = 6
  LastPeriod = 8
  SlotsPerPeriod = 1
  Boundary = 0
  Offset <- HomeOnly
  ActiveDays <- EveryDay
  Initial = 0
  EarnEvery = 2
  FreezeCap = 2
  AutoConsume = TRUE
  Milestones = {2}
  Target = 0
  Ops = {"record", "settle"}
  MinAmount = 1
  DayPeriods = TRUE
  DefaultReminder <- NoReminder
  Grace = 1
  RepairWindow = 99
  Delays = {1}
  Amounts = {1}
  MaxAmount = 1
  Histories = {}
  ShiftDays = {}
  FreezeGrants = {}
  Reminders = {}
INVARIANTS Oracle
CHECK_DEADLOCK FALSE
