SPECIFICATION Spec
CONSTANTS
  MaxStreams = 2
  MaxActive = 1
  ClosedCapacity = 2
  MaxChunks = 1
  Slots = 1
  MaxRestarts = 1
  None = None
INVARIANT RecordingsArrive
PROPERTIES
  LateResultsAreDropped
  EverythingIsReleased
CHECK_DEADLOCK FALSE
