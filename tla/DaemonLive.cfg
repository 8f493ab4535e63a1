\* One daemon and a peer under fairness: what must happen after faults.
CONSTANTS
  me = me
  peer = peer
  other = other
  NoAddr = noaddr
  Address <- MCAddress
  Prefer <- MCPrefer
  NumVip = 1
  BalanceRate = 0
  CompleteBalance = FALSE
  ForceReup = FALSE
  Faults = {"send", "connect", "fatal"}
  StaleKinds = {}
  Me = me
  MaxMembers = 2
  MaxViews = 2
  MaxFaults = 2
  ErrorAfter = {"arp"}
  OneRival = TRUE
  FreshMoves = TRUE
SPECIFICATION FairSpec
CHECK_DEADLOCK FALSE
PROPERTIES
  GatherEnds
  EventuallyRuns
  Reconnects
