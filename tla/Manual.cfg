SPECIFICATION Spec
CONSTANTS
  Zones = {"home"}
  DefaultTZ = "home"
  Horizon = 12
  LastPeriod = 9
  SlotsPerPeriod = 3
  Boundary = 1
  Offset <- SummerOffset
  ActiveDays <- EveryDay
  Initial = 1
  EarnEvery = 2
  FreezeCap = 2
  AutoConsume = FALSE
  Milestones = {2}
  Target = 0
  Ops = {"record", "unrecord", "recount", "settle", "shift", "setreminder", "remind"}
  MinAmount = 1
  DayPeriods = TRUE
  DefaultReminder <- NoReminder
  Grace = 1
  RepairWindow = 99
  Delays = {}
  Amounts = {1}
  MaxAmount = 1
  Histories = {}
  ShiftDays = {1, 2}
  FreezeGrants = {}
  Reminders = {0, 2}
INVARIANTS Oracle LossAtExact
PROPERTIES AtRiskHonest ReminderReached
CHECK_DEADLOCK FALSE
