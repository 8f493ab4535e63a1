\* Two addresses of a virtual interface are on one network.
CONSTANTS
  Ip <- MCIp
  Mac <- MCMac
  Garbage <- MCGarbage
  NoEntry = NoEntry
  Vif <- MCVif
  Vips <- OneNetwork
  Notification <- MCNotification
  ArpSource = "proc"
  MaxReport = 1
  KernelCache <- MCKernelCache
  Report <- MCReport
  Overrun <- MCOverrun
  MaxReports = 2
  MaxInvokes = 2
SPECIFICATION Spec
CHECK_DEADLOCK FALSE
INVARIANTS
  EachVipTold
