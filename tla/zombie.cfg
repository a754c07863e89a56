CONSTANTS
  x = x
  y = y
  lock = lock
  Addrs = {x, y, lock}
  WordLimit = 4
  NumFuncs = 2
  MaxSwitches = 1
  Programs <- QuickLastPrograms
  Schedules <- NoSchedules
SPECIFICATION ILSpec
CHECK_DEADLOCK FALSE
INVARIANT
  ExitedNeverRuns
