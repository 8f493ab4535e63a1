\* Two peers of one view claim an interface this daemon serves.
CONSTANTS
  me = me
  peer = peer
  other = other
  NoAddr = noaddr
  Address <- MCAddress
  Prefer <- MCPrefer
  NumVip = 1
  BalanceRate = 0
  CompleteBalance = FALSE
  ForceReup = FALSE
  Faults = {"send", "connect", "fatal"}
  StaleKinds = {}
  Me = me
  MaxMembers = 3
  MaxViews = 3
  MaxFaults = 0
  ErrorAfter = {}
  OneRival = FALSE
  FreshMoves = TRUE
SPECIFICATION Spec
CHECK_DEADLOCK FALSE
INVARIANTS
  AssertHolds
