SPECIFICATION Spec
CONSTANTS
  TicksPerSecond = 1
  Times <- MCTimes
  UnitBegins <- MCUnitBegins
  UpdateCycle = 2
  Names = {"game", "browser"}
  Limit = 3
  Gaps <- MCGaps
  Start = 1
  Faults = {"crash", "crashInSave", "openFails", "writeFails"}
  MaxSetBacks = 1
INVARIANTS
  TypeOK
  ExcessIsRemembered
  NeverOvercharged
  FileIsAccepted
PROPERTY ImplementsStore
\* the model stops at the last clock reading
CHECK_DEADLOCK FALSE
