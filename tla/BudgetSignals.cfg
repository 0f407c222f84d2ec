SPECIFICATION FairSpec
CONSTANTS
  p1 = p1
  Procs = {p1}
  MonthLen = 6
  MaxTime = 8
  Rates = {1}
  Monthly <- MCLimits
  WindowOk = TRUE
  Webhook = TRUE
  CacheLag = FALSE
  FaultKinds = {"create", "query", "persist"}
  MaxFaults = 2
  Never = Never
INVARIANTS NoRepeatedNotice NoticeInStep
PROPERTIES PhaseOnlyClimbs TransitionTimesHonest ResetOnlyAfterReport OverrunReported
