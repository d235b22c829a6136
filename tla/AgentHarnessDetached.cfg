CONSTANTS
  p1 = p1
  p2 = p2
  m1 = m1
  w1 = w1
  w2 = w2
  None = None
  Prompt = {p1, p2}
  Message = {}
  Write = {w1, w2}
  Detached = {"prompt"}
  MaxReplies = 0
  MaxStructural = 0
  MaxAborts = 0
  MaxErrors = 0
SPECIFICATION Spec
INVARIANTS
  WritesKept
CHECK_DEADLOCK FALSE
