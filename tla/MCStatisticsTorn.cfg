SPECIFICATION Spec
CONSTANTS
  TicksPerSecond = 1
  Times <- MCTimes
  UnitBegins <- MCUnitBegins
  UpdateCycle = 2
  Names = {"game", "browser"}
  Limit = 3
  Gaps = {1, 2, 3}
  Start = 1
  Faults = {"crash", "crashInSave"}
  MaxSetBacks = 0
\* the model stops at the last clock reading
CHECK_DEADLOCK FALSE
INVARIANT TerminatedAgain
