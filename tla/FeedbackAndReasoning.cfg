SPECIFICATION MCSpec
CONSTANTS
  MaxEvents = 3
  MaxConnections = 2
  MaxPlays = 1
  QueueSize = 2
  Turns = {t1}
  MaxRounds = 3
  HasFallback = TRUE
  MaxRestarts = 2
  None = None
INVARIANTS
  NothingIsSkipped
  ActsAsTold
PROPERTIES
  FeedbackIsSeen
  AskingIsShown
  EveryReasoningEnds
CHECK_DEADLOCK FALSE
