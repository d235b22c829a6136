SPECIFICATION Spec
CONSTANTS
  MaxSessions = 2
  MaxEntries = 3
  MaxFaults = 2
  Inputs <- MCInputs
INVARIANTS
  SessionReopens
  UnsavedHasNoAnswer
PROPERTIES
  SavedIsDurable
  ForkKeepsConversation
CHECK_DEADLOCK FALSE
