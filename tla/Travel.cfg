SPECIFICATION FairSpec
CONSTANTS
  Zones = {"west", "home", "east", "dst"}
  DefaultTZ = "home"
  Horizon = 10
  LastPeriod = 8
  SlotsPerPeriod = 2
  Boundary = 0
  Offset <- FlightOffset
  ActiveDays <- RestDays
  Initial = 1
  EarnEvery = 2
  FreezeCap = 1
  AutoConsume = TRUE
  Milestones = {2}
  Target = 0
  Ops = {"record", "settle", "settimezone", "repair"}
  MinAmount = 2
  DayPeriods = TRUE
  DefaultReminder <- NoReminder
  Grace = 1
  RepairWindow = 99
  Delays = {}
  Amounts = {1}
  MaxAmount = 2
  Histories = {}
  ShiftDays = {}
  FreezeGrants = {}
  Reminders = {}
INVARIANTS NoInflation
PROPERTIES ChargedOnce NoSilentLoss RepairedAlive EverySettled ImplementsEager
CHECK_DEADLOCK FALSE
