CONSTANTS
  w1 = w1
  k1 = k1
  Workers = {w1}
  Killers = {k1}
  MaxRuns = 1
  Policies = {"always"}
  ReportHomes = {"fallback"}
  Timeouts = {TRUE, FALSE}
  InterruptAt = {}
  GroupSignalDenied = FALSE
  DirectKillDenied = FALSE
SPECIFICATION FairSpec
PROPERTY TreeTerminated
