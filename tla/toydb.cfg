SPECIFICATION Spec
CONSTANTS
  Heads = {h1, h2}
  MaxDepths = {1, 2}
INVARIANTS
  TypeOK
  OpenedIsWhole
  SevenCharactersFound
\* Undefined behaviour has no next step.
CHECK_DEADLOCK FALSE
