SPECIFICATION Spec
CONSTANTS
  TicksPerSecond = 2
  Times <- MCTimes
  UnitBegins <- MCUnitBegins
  UpdateCycle = 4
  DutyCycle = 4
  Overruns = {0, 1, 4}
  EarlyWakes = {1, 5}
  Limit = 6
  Start = 9
  Jumps <- MCJumps
  MaxSetBacks = 1
  DayTicks = 28
  DaysPerWeek = 2
  Offset <- MCOffset
INVARIANTS
  TypeOK
  ActiveWithinUnit
  ContinuousUseIsCounted
  TimelyOveruseIsExceeding
  CalendarIsLocal
PROPERTY StaysExceeding
\* the model stops at the last clock reading
CHECK_DEADLOCK FALSE
