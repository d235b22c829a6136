SPECIFICATION SpecCompaction
CONSTANTS
  MaxSessions = 1
  MaxEntries = 6
  MaxFaults = 0
  KeepRecent = 3
  MaxMoves = 2
  Inputs <- MCInputs
INVARIANTS
  CutIsClean
PROPERTIES
  CompactionForgetsNothing
  KeptWithinBudget
CHECK_DEADLOCK FALSE
