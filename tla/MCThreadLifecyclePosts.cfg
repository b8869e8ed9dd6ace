SPECIFICATION Spec
CONSTANTS
  Owner = owner
  Users = {u1}
  MaxTime = 1
  MaxTasks = 2
  TimerUnit = 1
INVARIANT LoopOutlivesCalls
CHECK_DEADLOCK FALSE
