SPECIFICATION ClientSpec
CONSTANTS
  MaxRequests = 3
  MaxUnits = 4
  MaxRetries = 1
  MaxRedirects = 2
  Hosts <- MCHosts
  Certs <- MCCerts
INVARIANTS
  AnsweredOnce
  BodyConserved
  IdentityChecked
  TimerOfThisStream
PROPERTIES
  RequestReturns
  EvRequestReturns
  BeastRequestReturns
CHECK_DEADLOCK FALSE
