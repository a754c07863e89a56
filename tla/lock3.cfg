CONSTANTS
  Threads = {producerA, producerB, consumerA}
  Locks = {enqueue_lock, dequeue_lock}
  NoLock = NoLock
SPECIFICATION Spec
CHECK_DEADLOCK FALSE
INVARIANT Exclusive
