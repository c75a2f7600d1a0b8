SPECIFICATION FairSpec
CONSTANTS
  Jobs = {1, 2, 3}
  Delay <- OneSlow
  MaxTime = 3
  MaxCrashes = 1
INVARIANTS
  SentAtMostOnce
  CancelledIsNeverSent
  StartedInDueOrder
PROPERTIES
  EveryDueJobStarts
CHECK_DEADLOCK FALSE
