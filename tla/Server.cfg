SPECIFICATION MainSpec
CONSTANTS
  None = none
  CLIENT_INIT_COUNT = 2
  CLIENT_INCREASE = 1
  Capacity = 3
  MaxConnections = 2
  MaxSegments = 2
  PeersLeave = TRUE
  AcceptMayFail = TRUE
  CallsMayFail = TRUE
INVARIANTS
  TypeOK
  AcceptChain
  ReceiveChain
  DataBeforeDisconnect
  CountAtMostConnected
  LeftByInit
  ArmedIsHeard
PROPERTIES ImplementsLifecycle
CHECK_DEADLOCK FALSE
