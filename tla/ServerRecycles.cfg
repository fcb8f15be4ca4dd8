SPECIFICATION FairSpec
CONSTANTS
  None = none
  CLIENT_INIT_COUNT = 1
  CLIENT_INCREASE = 1
  Capacity = 3
  MaxConnections = 2
  MaxSegments = 1
  PeersLeave = TRUE
  AcceptMayFail = FALSE
  CallsMayFail = FALSE
PROPERTY SocketsRecycled
CHECK_DEADLOCK FALSE
