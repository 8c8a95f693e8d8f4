SPECIFICATION ServiceSpec
CONSTANTS
  Main = main
  Pool = {}
  InterruptsOwner = FALSE
  MaxTerms = 1
  MaxCalls = 1
PROPERTY RestartedRuns
