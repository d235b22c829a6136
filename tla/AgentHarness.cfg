CONSTANTS
  p1 = p1
  p2 = p2
  m1 = m1
  w1 = w1
  w2 = w2
  None = None
  Prompt = {p1}
  Message = {m1}
  Write = {w1}
  Detached = {}
  MaxReplies = 1
  MaxStructural = 1
  MaxAborts = 1
  MaxErrors = 2
SPECIFICATION Spec
PROPERTIES
  PromptsReturn
INVARIANTS
  WritesKept
  QueuedOnce
  PhaseIsTurn
  ContextIsSession
CHECK_DEADLOCK FALSE
