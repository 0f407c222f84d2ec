SPECIFICATION ReportSpec
CONSTANTS
  Deployments <- MCDeployments
  Pods <- MCPods
  Foreign = Foreign
  Owner <- MCOwner
  Exempt <- MCNoExemption
  Observable <- MCObservable
  MaxSamples = 2
  Unreadable = Unreadable
  Unit = 840
  Threshold = 2
  Window = 2
  MaxPasses = 4
  NotListed = NotListed
  Hours = 2
  Limit = 2
  Memory <- MCMemory
  Totals <- MCTotals
INVARIANTS TypeOK IdleSinceHonest SharesAddUp
PROPERTIES IdleOnOwnEvidence OffListForAReason
