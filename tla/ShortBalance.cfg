\* A balancing round finds fewer interfaces to move than it counts.
CONSTANTS
  Size = 2
  NoAddr = 0
  Address <- MCAddress
  Prefer <- GreedyWish
  NumVip = 6
  BalanceRate = 2
  CompleteBalance = FALSE
  ForceReup = FALSE
  Faults = {}
  StaleKinds = {"balance"}
  Components <- OneThenTwo
  MaxViews = 3
  MaxFaults = 0
  MaxEvents = 3
  MaxBalances = 1
SPECIFICATION FormedSpec
CHECK_DEADLOCK FALSE
INVARIANTS
  CoveredOnce
