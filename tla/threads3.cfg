CONSTANTS
  x = x
  y = y
  lock = lock
  Addrs = {x, y, lock}
  WordLimit = 4
  NumFuncs = 3
  Programs <- ThreeThreadPrograms
  Schedules <- ThreeThreadSchedules
SPECIFICATION Spec
CHECK_DEADLOCK FALSE
INVARIANTS
  ThreadsInv
  QueueHoldsTheOthers
  OnlyPutcPanics
PROPERTIES
  ImplementsScheduledRun
