SPECIFICATION LlmSpec
CONSTANTS
  MaxEvents = 3
  MaxConnections = 2
  MaxPlays = 1
  QueueSize = 2
  Turns = {t1}
  MaxRounds = 3
  HasFallback = TRUE
  MaxRestarts = 1
  None = None
PROPERTY ReasoningExpires
CHECK_DEADLOCK FALSE
