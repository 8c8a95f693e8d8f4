SPECIFICATION ServiceSpec
CONSTANTS
  Main = main
  Pool = {p1, p2}
  InterruptsOwner = FALSE
  MaxTerms = 3
  MaxCalls = 3
INVARIANTS
  TypeOK
  StopBound
  WaiterIsNotified
  CancelOnLiveStrategy
  OwnerGoesOn
  TermIsNotLost
PROPERTY TermEndsDaemon
