SPECIFICATION Spec
CONSTANTS
  Pids = {p1, p2}
  Programs = {"game", "tool"}
  Matching = {"game"}
  Timeout = 2
INVARIANT ListingSurvives
