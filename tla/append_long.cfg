SPECIFICATION Spec
CONSTANTS
  BlockSize = 128
  NodeCounts <- Counts
  IntMax = 32767
  FirstLengths = {0, 4, 128}
  MaxParts = 3
  MaxLength = 1664
  Partials = {60, 128, 200}
  Data = {d}
  New = New
  Zero = Zero
  Foreign = Foreign
INVARIANT AppendReturns
CHECK_DEADLOCK FALSE
