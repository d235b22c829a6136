SPECIFICATION FairSpec
CONSTANTS
  Prompts = {1, 2}
  Overlap = FALSE
  MaxRetries = 1
  MaxEvents = 1
  MaxAnswers = 3
INVARIANTS
  IdleMeansNoRun
  SessionInOrder
  QueueIsKept
  NothingIsStranded
  RetriesAreBounded
PROPERTIES
  SessionSettles
CHECK_DEADLOCK FALSE
