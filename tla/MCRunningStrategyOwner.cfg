SPECIFICATION Spec
CONSTANTS
  Main = main
  Pool = {}
  InterruptsOwner = TRUE
  MaxTerms = 1
PROPERTY TermEndsDaemon
\* the process may end, and main may wait for itself
CHECK_DEADLOCK FALSE
