SPECIFICATION Spec
CONSTANTS
  T = 2
  NumNodes = 21
  Keys <- LoadKeys
  Values = {v}
  NoRecord = NoRecord
  Loads <- ShortLoads
  Probes = {1}
ACTION_CONSTRAINTS
  InLoadOrder
  NoDuplicates
  ProbesOnly
  StaysOpen
INVARIANT EveryBlockHasOneParent
CHECK_DEADLOCK FALSE
