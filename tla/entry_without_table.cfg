SPECIFICATION Spec
CONSTANTS
  Heads = {h1, h2}
  MaxDepths = {1, 2}
PROPERTY EntriesHaveTables
\* Undefined behaviour has no next step.
CHECK_DEADLOCK FALSE
