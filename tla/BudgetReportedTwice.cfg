SPECIFICATION Spec
CONSTANTS
  p1 = p1
  Procs = {p1}
  MonthLen = 2
  MaxTime = 5
  Rates = {1}
  Monthly <- MCUnlimited
  WindowOk = TRUE
  Webhook = FALSE
  CacheLag = FALSE
  FaultKinds = {"query"}
  MaxFaults = 1
  Never = Never
INVARIANTS Conserved
