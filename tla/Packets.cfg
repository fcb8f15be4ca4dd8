SPECIFICATION Spec
CONSTANTS
  b1 = b1
  b2 = b2
  b3 = b3
  b4 = b4
  b5 = b5
  b6 = b6
  b7 = b7
  none = none
  None = none
  Blocks <- MCBlocks
  MAX_QUEUE_SIZE = 3
  MaxLeaked = 2
  MaxContexts = 1
SYMMETRY BlockSymmetry
INVARIANTS
  OneOwner
  NoneLost
CHECK_DEADLOCK FALSE
