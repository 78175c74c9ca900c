SPECIFICATION TxSpec
CONSTANTS
  Zones = {"west", "home"}
  DefaultTZ = "home"
  Horizon = 5
  LastPeriod = 5
  SlotsPerPeriod = 2
  Boundary = 0
  Offset <- FlightOffset
  ActiveDays <- EveryDay
  Initial = 1
  EarnEvery = 2
  FreezeCap = 1
  AutoConsume = TRUE
  Milestones = {2}
  Target = 0
  Ops = {"record", "settle", "settimezone", "repair"}
  MinAmount = 1
  DayPeriods = TRUE
  DefaultReminder <- NoReminder
  Grace = 1
  RepairWindow = 99
  Delays = {1}
  Amounts = {1}
  MaxAmount = 1
  Histories = {}
  ShiftDays = {}
  FreezeGrants = {}
  Reminders = {}
  h1 = h1
  h2 = h2
  ticker = ticker
  Hosts <- TwoHosts
  Ticker = ticker
  HostOps = {"record", "settimezone", "repair"}
  Straddlers = {"record", "repair", "settle"}
SYMMETRY HostSymmetry
INVARIANTS TxTypeOK NoInflation
PROPERTIES  ChargedOnce NoSilentLoss
CHECK_DEADLOCK FALSE
