SPECIFICATION MCSpec
CONSTANTS
  MaxTurns = 2
  MaxBefore = 2
  Owners = {anna}
  Contents = {tea, milk}
  MaxMemories = 4
  MaxFaults = 1
  None = None
  MaxCommands = 2
  Lookups = {r1}
  TypeOrder <- TwoTypes
  Values <- TwoValues
  Bodies <- SomeRules
  v1 = v1
  v2 = v2
INVARIANTS
  DoneAsTold
  LinksBothWays
  RememberedOnce
  ToldIsApplied
PROPERTIES
  LockIsReleased
  FindsTheNearest
CHECK_DEADLOCK FALSE
