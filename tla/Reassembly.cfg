SPECIFICATION Spec
CONSTANTS
  mBufferSize = 3
  MAX_SOCK_RECVBUF = 8
  Capacity = 3
  MaxBytes = 24
INVARIANTS
  TypeOK
  StreamPreserved
  NothingLeftBehind
CHECK_DEADLOCK FALSE
