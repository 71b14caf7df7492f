\* Wider nodes: halves of two records, so that what a split copies where can
\* be told apart.
SPECIFICATION FairSpec
CONSTANTS
  T = 3
  NumNodes = 7
  Keys = {1, 2, 3, 4, 5, 6, 7, 8}
  Values = {v}
  NoRecord = NoRecord
INVARIANTS
  EveryBlockHasOneParent
  SearchOrder
  HalfFull
PROPERTIES
  RecordsKept
  ImplementsMap
  CallsEnd
