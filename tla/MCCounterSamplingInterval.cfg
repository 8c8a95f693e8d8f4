SPECIFICATION Spec
CONSTANTS
  TicksPerSecond = 2
  Times <- MCTimes
  UnitBegins <- MCUnitBegins
  UpdateCycle = 4
  DutyCycle = 8
  Overruns = {0, 1}
  EarlyWakes = {}
  Limit = 6
  Start = 9
  Jumps = {}
  MaxSetBacks = 0
  DayTicks = 28
  DaysPerWeek = 2
  Offset <- MCOffset
INVARIANT OveruseIsExceeding
CHECK_DEADLOCK FALSE
