\* A root and at most four leaves, the depth of the repository's own test
\* programs; every order of insertions, searches, closes and reopens.
SPECIFICATION Spec
CONSTANTS
  T = 2
  NumNodes = 5
  Keys = {1, 2, 3, 4, 5}
  Values = {v1, v2}
  NoRecord = NoRecord
SYMMETRY Sym
INVARIANTS
  TypeOK
  Defined
  EveryBlockHasOneParent
  SearchOrder
  HalfFull
  HeaderIsCurrent
  CopyIsCurrent
PROPERTIES
  RecordsKept
  BlocksHandedOutInOrder
  ImplementsMap
