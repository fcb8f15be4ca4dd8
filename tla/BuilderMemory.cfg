SPECIFICATION MemorySpec
CONSTANTS
  Data <- MCData
  Undefined = 2
  initial_size_ = 1
  buffer_minalign_ = 2
  max_size_ = 100
  MaxLength = 3
  MaxTotal = 6
  Builders = {b1, b2}
  Detached = {d1, d2}
  Messengers = {m1, m2}
  Allocators = {a1}
  Blocks = {k1, k2, k3, k4}
  Temp = Temp
  None = None
INVARIANTS
  Intact
  RightAllocator
  OneOwner
  AllocatorOutlives
SYMMETRY Symmetry
CHECK_DEADLOCK FALSE
