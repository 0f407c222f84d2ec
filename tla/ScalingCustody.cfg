SPECIFICATION Spec
CONSTANTS
  api1 = api1
  api2 = api2
  Names = {api1, api2}
  MaxReplicas = 2
  LabelSets = {"plain", "gold"}
  Absent = Absent
  Missing = Missing
  Garbage = Garbage
  NoName = NoName
  NoSelector = NoSelector
  Malformed = Malformed
  ExclusionSpecs <- MCExclusions
  Phases = {"Warning", "Exceeded", "Suspended"}
  CacheLag = FALSE
  PluginOn = FALSE
  UserOps = {"scale", "delete", "exclude"}
  MaxFaults = 2
INVARIANTS CustodyKept NothingLeftBehind
PROPERTIES CustodyRefined
