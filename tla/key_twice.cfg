SPECIFICATION Spec
CONSTANTS
  T = 2
  NumNodes = 5
  Keys = {1, 2, 3, 4, 5}
  Values = {v}
  NoRecord = NoRecord
INVARIANT KeysUnique
