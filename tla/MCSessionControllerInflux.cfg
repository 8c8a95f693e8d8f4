SPECIFICATION Spec
CONSTANTS
  Names = {"game", "tool"}
  Commands = {"java game", "java editor"}
  Pids = {1, 2}
  Configs <- MCConfigs
  ExampleRule <- MCExampleRule
  Unwritable = {}
  Faults = {}
  Cap = 2
PROPERTY LimitsAreEnforced
