SPECIFICATION FairSpec
CONSTANTS
  api1 = api1
  api2 = api2
  Names = {api1, api2}
  MaxReplicas = 1
  LabelSets = {"plain", "gold"}
  Absent = Absent
  Missing = Missing
  Garbage = Garbage
  NoName = NoName
  NoSelector = NoSelector
  Malformed = Malformed
  ExclusionSpecs <- MCExclusions
  Phases = {"Suspended"}
  CacheLag = FALSE
  PluginOn = FALSE
  UserOps = {"scale", "race", "relabel", "delete"}
  MaxFaults = 1
INVARIANTS Recoverable MarkedIsRestorable
PROPERTIES DeletionCompletes HardLimitReached
