SPECIFICATION Spec
CONSTANTS
  Zones = {"home"}
  DefaultTZ = "home"
  Horizon = 5
  LastPeriod = 7
  SlotsPerPeriod = 1
  Boundary = 0
  Offset <- HomeOnly
  ActiveDays <- RestDays
  Initial = 1
  EarnEvery = 2
  FreezeCap = 2
  AutoConsume = TRUE
  Milestones = {2}
  Target = 0
  Ops = {"record", "unrecord", "settle", "replace", "remind"}
  MinAmount = 2
  DayPeriods = TRUE
  DefaultReminder = 0
  Grace = 1
  RepairWindow = 99
  Delays = {}
  Amounts = {1}
  MaxAmount = 2
  Histories = {{1, 2}}
  ShiftDays = {}
  FreezeGrants = {}
  Reminders = {0}
INVARIANTS TypeOK Oracle LossExact DeriveAgrees
PROPERTIES AtRiskHonest RecordNeverCosts UnrecordReversesOne
CHECK_DEADLOCK FALSE
