SPECIFICATION ClientSpec
CONSTANTS
  CtrlMax = 2
  LenModulus = 4
  SizeModulus = 65536
  MaxLen = 3
  MaxFrames = 2
  MaxBytes = 4
  MaxConnections = 2
  Lengths <- MCLengths
  Masks <- MCMasks
  MaxWrites = 3
  Bytes <- MCBytes
  MaxChunk = 2
  MaxText = 4
INVARIANTS
  ChecksHold
  CloseIsLastFrame
  CloseIsAnswered
  DeliveredIsValid
  ConnectedAfterHandshake
  HeadersDecode
  Utf8Agrees
  Base64RoundTrip
PROPERTIES
  UnansweredCloseEnds
  UvConnectReturns
CHECK_DEADLOCK FALSE
