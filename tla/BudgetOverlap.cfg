SPECIFICATION Spec
CONSTANTS
  p1 = p1
  p2 = p2
  Procs = {p1, p2}
  MonthLen = 2
  MaxTime = 2
  Rates = {1}
  Monthly <- MCUnlimited
  WindowOk = TRUE
  Webhook = TRUE
  CacheLag = TRUE
  FaultKinds = {"crash", "fill", "answer", "slack"}
  MaxFaults = 1
  Never = Never
SYMMETRY MCSymmetry
INVARIANTS TypeOK ChargedOnce
PROPERTIES ReportFinal
