CONSTANTS
  p1 = p1
  p2 = p2
  f1 = f1
  f2 = f2
  Proc = {p1, p2}
  Field = {f1, f2}
  User = User
  None = None
  Dead = Dead
  Absent = Absent
  Torn = Torn
  MaxSets = 2
  MaxCalls = 2
  MaxFaults = 1
SPECIFICATION Spec
INVARIANTS
  SetIsSaved
  MarksAreQueued
PROPERTIES
  OnlyOwnValues
  LeavesAlone
SYMMETRY Symmetric
CHECK_DEADLOCK FALSE
