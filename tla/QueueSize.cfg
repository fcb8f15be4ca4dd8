SPECIFICATION Spec
CONSTANTS
  d1 = d1
  d2 = d2
  none = none
  Data <- MCData
  Default = none
  MAX_QUEUE_SIZE = 4
INVARIANT SizeIsIndexDifference
