SPECIFICATION Spec
CONSTANTS
  api1 = api1
  api2 = api2
  Names = {api1}
  MaxReplicas = 1
  LabelSets = {"plain", "gold"}
  Absent = Absent
  Missing = Missing
  Garbage = Garbage
  NoName = NoName
  NoSelector = NoSelector
  Malformed = Malformed
  ExclusionSpecs <- MCLabelExclusions
  Phases = {"Warning", "Exceeded", "Suspended"}
  CacheLag = TRUE
  PluginOn = TRUE
  UserOps = {"relabel", "delete", "create", "tamper", "exclude"}
  MaxFaults = 0
INVARIANTS TypeOK ShieldedNeverInHand
