SPECIFICATION MCSpec
CONSTANTS
  kitchen = kitchen
  study = study
  t1 = t1
  t2 = t2
  t3 = t3
  r1 = r1
  s1 = s1
  None = None
  Turns = {t1, t2, t3}
  Requests = {r1}
  Sessions = {s1}
  Users = {}
  Sources = {kitchen}
  SourceOf <- OneSource
  Posts <- OnePost
  Timeout = 1
  MaxTime = 2
  MaxInFlight = 2
  Overlap = TRUE
  Guest = guest
  Speakers = {kitchen, study}
  Utterances = {1, 2, 3}
  SpeakerOf <- TwoRooms
  ResultCapacity = 1
INVARIANTS
  VoicesOfTheirSpeakers
  OneTurnPerVoice
  ResumesAClarification
  RowsAreAnswers
PROPERTIES
  EveryTurnEnds
CHECK_DEADLOCK FALSE
