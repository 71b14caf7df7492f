\* The program ends at "exit", and undefined behaviour has no successor.
SPECIFICATION Spec
CONSTANTS
  Order = 3
  Addresses <- MCAddresses
  Keys <- MCKeys
  Scripts <- AbsentScripts
  Numbers = {1, 2}
  MaxCalls = 1
PROPERTY IsKeyList
CHECK_DEADLOCK FALSE
