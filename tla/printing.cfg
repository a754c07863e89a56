CONSTANTS
  x = x
  y = y
  lock = lock
  Addrs = {x, y, lock}
  WordLimit = 4
  NumFuncs = 2
  Programs <- PrintingPrograms
  Schedules <- TwoThreadSchedules
SPECIFICATION Spec
CHECK_DEADLOCK FALSE
PROPERTY
  PutcFollowsSchedule
