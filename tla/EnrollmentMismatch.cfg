SPECIFICATION SessionsSpec
CONSTANTS
  Users = {u1, u2}
  Sessions = {s1, s2}
  Captures = {c1, c2}
  Target = 1
  NoUser = NoUser
  NoSession = NoSession
  NoCapture = NoCapture
  MaxCalls = 1
  MaxPresses = 1
  MaxReloads = 0
  OldSamples = {}
  MaxUsers = 2
  Admins = {s1, s2}
  Scores = {0, 1}
  Settings <- OneSetting
  MaxCrashes = 1
PROPERTY PressIsForTheActive
CHECK_DEADLOCK FALSE
