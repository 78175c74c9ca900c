SPECIFICATION OutboxSpec
CONSTANTS
  Zones = {}
  Horizon = 0
  LastPeriod = 5
  SlotsPerPeriod = 1
  Boundary = 0
  Offset <- NoOffset
  ActiveDays <- EveryDay
  Initial = 1
  EarnEvery = 2
  FreezeCap = 1
  AutoConsume = TRUE
  Milestones = {2}
  Target = 0
  p1 = p1
  p2 = p2
  s1 = s1
  s2 = s2
  k1 = k1
  k2 = k2
  None = None
  Procs = {p1, p2}
  Streaks = {s1, s2}
  Keys = {k1, k2}
  Calls <- OwnKeys
  MinAmount = 1
  Days = {2, 3, 5}
  Limit = 100
  MaxCalls = 2
  MaxFaults = 0
INVARIANTS NothingSkipped
CHECK_DEADLOCK FALSE
