SPECIFICATION Spec
CONSTANTS
  t1 = t1
  t2 = t2
  t3 = t3
  r1 = r1
  r2 = r2
  s1 = s1
  s2 = s2
  u1 = u1
  kitchen = kitchen
  Sources = {kitchen}
  SourceOf <- OneSource
  Timeout = 1
  MaxTime = 2
  Guest = guest
  None = None
  Turns = {t1, t2, t3}
  Requests = {r1, r2}
  Sessions = {s1, s2}
  Users = {u1}
  Posts <- TwoClaimOne
  MaxInFlight = 3
  Overlap = FALSE
SYMMETRY Symmetry
INVARIANTS
  IdentityStaysInSession
  PendingActsOnce
PROPERTY ImplementsLedger
CHECK_DEADLOCK FALSE
