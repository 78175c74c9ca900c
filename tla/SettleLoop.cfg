SPECIFICATION LoopSpec
CONSTANTS
  Zones = {}
  Horizon = 0
  LastPeriod = 7
  SlotsPerPeriod = 1
  Boundary = 0
  Offset = 0
  ActiveDays = {0, 1, 2, 3, 6}
  Initial = 0
  EarnEvery = 1
  FreezeCap = 2
  AutoConsume = TRUE
  Milestones = {}
  Target = 0
  MaxCount = 2
  MaxStock = 3
INVARIANTS ClosedForm Composes
 
CHECK_DEADLOCK FALSE
