\* Two or three trees of max_depth 0, 1 and 2 and a block of data, behind an
\* empty file, the four bytes db_create leaves, or a header block.  An int so
\* narrow that the first trees of one and five nodes fit below it, and that
\* positions in the file and offsets in a tree of 21 nodes wrap.
SPECIFICATION Spec
CONSTANTS
  BlockSize = 128
  NodeCounts <- Counts
  IntMax = 1791
  FirstLengths = {0, 4, 128}
  MaxParts = 3
  MaxLength = 4096
  Partials = {60, 128, 200}
  Data = {d}
  New = New
  Zero = Zero
  Foreign = Foreign
CONSTRAINT FewWritten
INVARIANTS
  TypeOK
  PartsAligned
  PartsDisjoint
PROPERTY ImplementsArrays
\* block_append may run into undefined behaviour, and a write gone astray
\* does: neither has a next step.
CHECK_DEADLOCK FALSE
