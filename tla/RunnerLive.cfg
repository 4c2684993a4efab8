CONSTANTS
  w1 = w1
  k1 = k1
  Workers = {w1}
  Killers = {k1}
  MaxRuns = 2
  Policies = {"always", "on_success", "never"}
  ReportHomes = {"fallback"}
  Timeouts = {TRUE, FALSE}
  InterruptAt = {"wait", "mkdtemp", "launch", "report"}
  GroupSignalDenied = TRUE
  DirectKillDenied = FALSE
SPECIFICATION FairSpec
INVARIANT NoLeakBeforeKill
PROPERTIES KeptByPolicy IsObedientRunner TimeoutEndsRun KillReturns
