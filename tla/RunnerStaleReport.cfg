CONSTANTS
  w1 = w1
  Workers = {w1}
  Killers = {}
  MaxRuns = 2
  Policies = {"always"}
  ReportHomes = {"own"}
  Timeouts = {TRUE, FALSE}
  InterruptAt = {"wait"}
  GroupSignalDenied = FALSE
  DirectKillDenied = FALSE
SPECIFICATION Spec
INVARIANT OwnReport
