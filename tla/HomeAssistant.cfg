SPECIFICATION MCSpec
CONSTANTS
  Turns = {t1, t2}
  Lights = {l1, l2}
  Manual = manual
  Signatures = {x, y}
  Users = {x, y}
  Sessions = {t1, t2}
  Recordings = {l1, l2}
  MaxRestarts = 1
  MaxCalls = 2
  MaxFaults = 1
  None = None
SYMMETRY Symmetry
INVARIANTS
  ToldAsDone
  LoadedIsTheFile
  OneSamplePerCapture
  OutcomesAreTheRouters
PROPERTIES
  OthersAreKept
CHECK_DEADLOCK FALSE
