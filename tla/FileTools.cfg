CONSTANTS
  o1 = o1
  o2 = o2
  o3 = o3
  o4 = o4
  f = f
  link_f = link_f
  g = g
  NoOp = NoOp
  Ops = {o1, o2, o3, o4}
  Edits = {o1, o2, o4}
  MaxFailedWrites = 2
  Path <- MCPath
  PathOf <- MCPathOf
  Canon <- MCCanon
  InitialFiles <- MCInitialFiles
  Volatile <- MCVolatile
  Unreadable <- MCUnreadable
SPECIFICATION FairToolSpec
INVARIANTS MapHoldsLiveKeys EditSeesCurrentContent OneWriteInFlight LandedEditsKept
PROPERTIES LockSpec EveryCallEnds
CHECK_DEADLOCK FALSE
