SPECIFICATION SpecCompaction
CONSTANTS
  MaxSessions = 1
  MaxEntries = 8
  MaxFaults = 0
  KeepRecent = 2
  MaxMoves = 0
  Inputs <- MCInputs
INVARIANTS
  HistoryCovered
CHECK_DEADLOCK FALSE
