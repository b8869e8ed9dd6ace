SPECIFICATION FairSpec
CONSTANTS
  CtrlMax = 2
  LenModulus = 4
  SizeModulus = 65536
  MaxLen = 4
  MaxFrames = 1
  MaxBytes = 4
  MaxConnections = 1
PROPERTY
  CloseAlwaysEnds
CHECK_DEADLOCK FALSE
