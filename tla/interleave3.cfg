CONSTANTS
  x = x
  y = y
  lock = lock
  Addrs = {x, y, lock}
  WordLimit = 4
  NumFuncs = 3
  MaxSwitches = 2
  Programs <- ThreeThreadPrograms
  Schedules <- NoSchedules
SPECIFICATION ILSpec
CHECK_DEADLOCK FALSE
INVARIANTS
  QueueDrained
  ExitedNeverRuns
  EveryFeasibleScheduleRan
