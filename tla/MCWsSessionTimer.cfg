SPECIFICATION Spec
CONSTANTS
  CtrlMax = 2
  LenModulus = 4
  SizeModulus = 65536
  MaxLen = 4
  MaxFrames = 1
  MaxBytes = 4
  MaxConnections = 2
INVARIANT
  CloseTimeoutAfterClose
CHECK_DEADLOCK FALSE
