SPECIFICATION Spec
CONSTANTS
  Names = {"game", "tool"}
  Commands = {"java game", "java editor"}
  Pids = {1, 2}
  Configs <- MCConfigs
  ExampleRule <- MCExampleRule
  Unwritable = {"tool"}
  Faults = {"list", "rate", "save"}
  Cap = 2
INVARIANTS
  TypeOK
  SavedIsLoaded
  NoneIsSpared
PROPERTY OnlyExceedingAreTerminated
PROPERTY ImplementsEnforcement
PROPERTY EnforcedWhileUp
