SPECIFICATION Spec
CONSTANTS
  Prompts = {1, 2}
  Overlap = TRUE
  MaxRetries = 1
  MaxEvents = 1
  MaxAnswers = 2
INVARIANTS
  IdleMeansNoRun
CHECK_DEADLOCK FALSE
