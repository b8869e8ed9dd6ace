SPECIFICATION Spec
CONSTANTS
  Threads = {t1, t2, t3}
  MaxQueues = 4
  Concurrent = FALSE
SYMMETRY Symmetry
INVARIANTS
  EntriesMatchLoops
  QueueIdsUnique
  RunsTasksAnswersRight
CHECK_DEADLOCK FALSE
