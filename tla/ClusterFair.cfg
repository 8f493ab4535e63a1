\* Two daemons under fairness that prefer the same interface: cut, merged, stopped, or without a call to Spread.
CONSTANTS
  Size = 2
  NoAddr = 0
  Address <- MCAddress
  Prefer <- SharedWish
  NumVip = 4
  BalanceRate = 1
  CompleteBalance = FALSE
  ForceReup = FALSE
  Faults = {"send", "connect"}
  StaleKinds = {}
  Components <- AnyComponent
  MaxViews = 3
  MaxFaults = 1
  MaxEvents = 3
  MaxBalances = 1
SPECIFICATION FormedFairSpec
CHECK_DEADLOCK FALSE
INVARIANTS
  UpMatchesTable
  CoveredOnce
PROPERTIES
  BalanceInItsView
  EventuallySettles
  EventuallyBalanced
