CONSTANTS
  x = x
  y = y
  lock = lock
  Addrs = {x, y, lock}
  WordLimit = 4
  NumFuncs = 2
  MaxSwitches = 3
  Programs <- TwoThreadPrograms
  Schedules <- NoSchedules
SPECIFICATION CheckerSpec
CHECK_DEADLOCK FALSE
INVARIANTS
  CleanBetweenRuns
  FoundSetsAreTheAccesses
  NoPanic
  ExploredInOrder
  ReportTellsTheRun
  EveryFeasibleScheduleRan
  FlaggedAreTheReachable
PROPERTIES
  CheckerEnds
