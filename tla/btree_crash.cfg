\* The program may end at any time: no call need follow, and undefined
\* behaviour has no successor.
SPECIFICATION CrashSpec
CONSTANTS
  T = 2
  NumNodes = 21
  Keys <- MCKeys
  Values = {v}
  NoRecord = NoRecord
  MaxCrashes = 2
  Loads <- MCLoads
  Probes = {1}
ACTION_CONSTRAINTS
  InLoadOrder
  NoRepeat
  ProbesOnly
  FewRefused
  SecondKillEarly
INVARIANTS
  OneBlockUncounted
PROPERTIES
  KillBetweenCalls
  KillInInsertion
  SoundTreeKeepsRecords
CHECK_DEADLOCK FALSE
