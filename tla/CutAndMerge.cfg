\* Three daemons, two of which prefer one interface; one is cut off and merges.
CONSTANTS
  Size = 3
  NoAddr = 0
  Address <- MCAddress
  Prefer <- SharedWish
  NumVip = 2
  BalanceRate = 1
  CompleteBalance = FALSE
  ForceReup = FALSE
  Faults = {}
  StaleKinds = {}
  Components <- CutAndMerge
  MaxViews = 3
  MaxFaults = 0
  MaxEvents = 3
  MaxBalances = 0
SPECIFICATION FormedSpec
CHECK_DEADLOCK FALSE
INVARIANTS
  CoveredOnce
