SPECIFICATION Spec
CONSTANTS
  Types <- MCTypes
  Keys <- MCKeys
  Traffics <- MCTraffics
INVARIANTS
  AcceptedIsReadable
  AcceptsWhatIsBuilt
  ReadsAsSent
  FindsTheEnd
  KeysAreFound
CHECK_DEADLOCK FALSE
