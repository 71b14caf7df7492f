\* The program ends at "exit", and undefined behaviour has no successor.
SPECIFICATION Spec
CONSTANTS
  Order = 3
  Addresses <- MCAddresses
  Keys <- MCKeys
  Scripts <- MCScripts
  Numbers = {1, 2, 14, 28}
  MaxCalls = 3
INVARIANTS
  TypeOK
  EveryNodeHasOneParent
  LeavesAtOneLevel
  HalfFull
  CallsPrepared
PROPERTIES
  UndefinedAtSmallRootOnly
  ImplementsKeyList
CHECK_DEADLOCK FALSE
