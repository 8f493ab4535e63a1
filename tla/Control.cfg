SPECIFICATION FairSpec
CONSTANTS
  c1 = c1
  c2 = c2
  Client = {c1, c2}
  Asked <- MCAsked
  Vip = {v1, v2}
  Room = 2
  MaxEvents = 2
INVARIANTS
  TypeOK
  FailedServesNothing
  ShowsOneMoment
PROPERTIES
  ClientEnds
  SessionsEnd
  Participates
CHECK_DEADLOCK FALSE
