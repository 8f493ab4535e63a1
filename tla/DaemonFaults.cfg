\* One daemon and a peer: every call to Spread may fail, twice in all.
CONSTANTS
  me = me
  peer = peer
  other = other
  NoAddr = noaddr
  Address <- MCAddress
  Prefer <- MCPrefer
  NumVip = 2
  BalanceRate = 1
  CompleteBalance = FALSE
  ForceReup = FALSE
  Faults = {"send", "connect", "fatal"}
  StaleKinds = {}
  Me = me
  MaxMembers = 2
  MaxViews = 2
  MaxFaults = 2
  ErrorAfter = {"none", "arp"}
  OneRival = TRUE
  FreshMoves = TRUE
SPECIFICATION Spec
CHECK_DEADLOCK FALSE
INVARIANTS
  TypeOK
  CountMatchesTable
  AssertHolds
  ServesInView
  MatureArmed
  BalanceArmed
PROPERTIES
  KeepsService
