\* Three daemons that have formed a view, or two that a third joins, and any second view.
CONSTANTS
  Size = 3
  NoAddr = 0
  Address <- MCAddress
  Prefer <- NoWish
  NumVip = 3
  BalanceRate = 1
  CompleteBalance = FALSE
  ForceReup = FALSE
  Faults = {}
  StaleKinds = {}
  Components <- AnyComponent
  MaxViews = 2
  MaxFaults = 0
  MaxEvents = 3
  MaxBalances = 1
SPECIFICATION JoiningSpec
CHECK_DEADLOCK FALSE
INVARIANTS
  TypeOK
  Agreement
  CoveredOnce
