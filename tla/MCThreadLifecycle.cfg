SPECIFICATION Spec
CONSTANTS
  Owner = owner
  Users = {u1}
  MaxTime = 2
  MaxTasks = 3
  TimerUnit = 2
INVARIANTS
  ConstructorOutlivesLocals
  JoinFindsLoop
PROPERTY JoinCompletes
CHECK_DEADLOCK FALSE
