SPECIFICATION GovernorFairSpec
CONSTANTS
  api1 = api1
  Names = {api1}
  MaxReplicas = 1
  LabelSets = {"plain"}
  Absent = Absent
  Missing = Missing
  Garbage = Garbage
  NoName = NoName
  NoSelector = NoSelector
  Malformed = Malformed
  ExclusionSpecs <- MCNoExclusions
  Phases = {"OK", "Warning", "Exceeded", "Suspended"}
  CacheLag = FALSE
  PluginOn = FALSE
  UserOps = {"scale", "delete"}
  MaxFaults = 1
  Manager = Manager
  MonthLen = 2
  MaxTime = 4
  Rates = {1}
  Monthly <- MCLimits
  Webhook = TRUE
  FaultKinds = {"create", "fill", "query", "persist", "answer", "crash"}
  Never = Never
INVARIANTS GovernorTypeOK LedgerKept PrintedReportIsCurrent
PROPERTIES MarkedOnlyOverBudget OverspendingStops
CHECK_DEADLOCK FALSE
