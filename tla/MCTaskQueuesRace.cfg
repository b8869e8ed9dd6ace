SPECIFICATION Spec
CONSTANTS
  Threads = {t1, t2}
  MaxQueues = 2
  Concurrent = TRUE
INVARIANT QueueIdsUnique
CHECK_DEADLOCK FALSE
