SPECIFICATION Spec
CONSTANTS
  MaxStreams = 2
  MaxPresses = 1
  MaxBlocks = 2
  RingLimit = 1
  None = None
INVARIANTS
  OnlyItsOwnAudio
  ToldTheResult
PROPERTIES
  ComesBack
CHECK_DEADLOCK FALSE
