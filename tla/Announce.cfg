\* Sharing the ARP cache and announcing an interface with addresses on two networks.
CONSTANTS
  Ip <- MCIp
  Mac <- MCMac
  Garbage <- MCGarbage
  NoEntry = NoEntry
  Vif <- MCVif
  Vips <- TwoNetworks
  Notification <- MCNotification
  ArpSource = "proc"
  MaxReport = 1
  KernelCache <- MCKernelCache
  Report <- MCReport
  Overrun <- MCOverrun
  MaxReports = 2
  MaxInvokes = 2
SPECIFICATION FairSpec
CHECK_DEADLOCK FALSE
INVARIANTS
  TypeOK
  Sorted
  HoldsAdded
  EachVipTold
PROPERTIES
  RoundsEnd
