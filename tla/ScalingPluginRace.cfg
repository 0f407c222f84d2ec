SPECIFICATION Spec
CONSTANTS
  api1 = api1
  api2 = api2
  Names = {api1}
  MaxReplicas = 1
  LabelSets = {"plain"}
  Absent = Absent
  Missing = Missing
  Garbage = Garbage
  NoName = NoName
  NoSelector = NoSelector
  Malformed = Malformed
  ExclusionSpecs <- MCNoExclusions
  Phases = {"Warning", "Exceeded", "Suspended"}
  CacheLag = FALSE
  PluginOn = TRUE
  UserOps = {}
  MaxFaults = 0
INVARIANTS Recoverable
