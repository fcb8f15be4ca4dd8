SPECIFICATION Spec
CONSTANTS
  Capacity = 3
  MaxRequests = 8
INVARIANTS
  CompletesTheFront
  StartedInOrder
  WaitsForOne
CHECK_DEADLOCK FALSE
