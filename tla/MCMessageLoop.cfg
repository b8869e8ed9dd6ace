SPECIFICATION FairSpec
CONSTANTS
  Posters = {p1, p2}
  Observers = {o1}
  MaxTime = 3
  MaxTasks = 3
  TimerUnit = 2
INVARIANTS
  NoLostWakeUp
  NeverEarly
  RunsInOrder
  DueTasksRunBeforeDisposal
  ObserversHearEveryTask
PROPERTIES
  EveryTaskSettles
  TerminateEndsLoop
CHECK_DEADLOCK FALSE
