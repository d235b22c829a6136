CONSTANTS
  a1 = a1
  a2 = a2
  p1 = p1
  p2 = p2
  Instance = {a1, a2}
  Provider = {p1, p2}
  Torn = Torn
  Absent = Absent
  None = None
  SyncStale = 2
  UpdateEvery = 3
  AsyncStale = 6
  MaxHold = 3
  MaxGrants = 2
  MaxUses = 1
  MaxCrashes = 1
SPECIFICATION Spec
INVARIANTS
  RefreshedOnce
  LoginKept
  RotationSaved
SYMMETRY Symmetric
CHECK_DEADLOCK FALSE
