\* One daemon and up to two peers: views, state messages, maturing and balancing.
CONSTANTS
  me = me
  peer = peer
  other = other
  NoAddr = noaddr
  Address <- MCAddress
  Prefer <- MCPrefer
  NumVip = 2
  BalanceRate = 1
  CompleteBalance = FALSE
  ForceReup = FALSE
  Faults = {"send", "connect", "fatal"}
  StaleKinds = {}
  Me = me
  MaxMembers = 3
  MaxViews = 2
  MaxFaults = 0
  ErrorAfter = {}
  OneRival = TRUE
  FreshMoves = TRUE
SPECIFICATION Spec
CHECK_DEADLOCK FALSE
INVARIANTS
  UpMatchesTable
  PendingCountsMissing
  ImmatureServesNothing
PROPERTIES
  KeepsService
