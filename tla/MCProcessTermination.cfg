SPECIFICATION Spec
CONSTANTS
  Pids = {p1, p2}
  Programs = {"game", "tool"}
  Matching = {"game", ""}
  Timeout = 2
INVARIANTS
  TypeOK
  MatchedAreKilled
PROPERTIES
  GraceBeforeKill
  ImplementsEnforcement
  CycleEnds
  OffendersGo
