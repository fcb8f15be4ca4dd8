SPECIFICATION FairSpec
CONSTANTS
  None = none
  CLIENT_INIT_COUNT = 1
  CLIENT_INCREASE = 1
  Capacity = 3
  MaxConnections = 2
  MaxSegments = 2
  PeersLeave = TRUE
  AcceptMayFail = TRUE
  CallsMayFail = TRUE
PROPERTIES
  SegmentsHandled
  CloseNoticed
  KeepsAccepting
CHECK_DEADLOCK FALSE
