CONSTANTS
  x = x
  y = y
  lock = lock
  Addrs = {x, y, lock}
  WordLimit = 4
  NumFuncs = 2
  Programs <- TwoThreadPrograms
  Schedules <- TwoThreadSchedules
SPECIFICATION Spec
CHECK_DEADLOCK FALSE
INVARIANTS
  ReportInBounds
  CommitsAreCounted
  TrackedBeforeCommit
PROPERTIES
  RunEnds
  ImplementsScheduledRun
