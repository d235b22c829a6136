CONSTANTS
  MaxContinuations = 1
  Modes = {"parallel", "sequential"}
  MaxRuns = 2
  MaxQueued = 2
  MaxAnswers = 1
  MaxCalls = 2
  MaxFailures = 1
SPECIFICATION FairSpec
INVARIANTS QueuesDeliver ContextIsTranscript ResultsPairCalls PendingCallsAreRunning
PROPERTIES RunEnds SteeringDelivered
CHECK_DEADLOCK FALSE
