\* Trees of three levels and more, up to the last block, along workloads.
SPECIFICATION Spec
CONSTANTS
  T = 2
  NumNodes = 85
  Keys <- LoadKeys
  Values = {v}
  NoRecord = NoRecord
  Loads <- LongLoads
  Probes = {1, 120}
ACTION_CONSTRAINTS
  InLoadOrder
  NoDuplicates
  ProbesOnly
  StaysOpen
INVARIANTS
  HalfFull
  HeaderIsCurrent
  FullOnlyWhenExhausted
  PointersInUse
PROPERTIES
  RecordsKept
  BlocksHandedOutInOrder
\* The program may run into undefined behaviour, which has no next step.
CHECK_DEADLOCK FALSE
