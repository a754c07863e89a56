CONSTANTS
  Threads = {1, 2, 3, 4}
  Locks = {cur_vibes, enqueue_lock, dequeue_lock}
  NoLock = NoLock
  cur_vibes = cur_vibes
  enqueue_lock = enqueue_lock
  dequeue_lock = dequeue_lock
  Global = Global
  Deltas <- Steps
  Calls = 2
  WordLimit = 8
  QUEUE_SIZE = 3
  Clients <- QueueClients
  end = 3
  Elements <- Values
SPECIFICATION MCSpec
CHECK_DEADLOCK FALSE
INVARIANTS
  MutualExclusion
  NoUpdateLost
  FifoUnlessRisky
PROPERTIES
  ImplementsFifo
  CountersEnd
