CONSTANTS
  i1 = i1
  s1 = s1
  s2 = s2
  Spawner = Spawner
  Instance = {i1}
  Stopper = {s1, s2}
  NotFoundThreshold = 2
  MaxCrashes = 1
SPECIFICATION Spec
INVARIANTS
  PendingHasProcess
  ProcessesAreReachable
  RecordsMatchLive
SYMMETRY Symmetric
CHECK_DEADLOCK FALSE
