CONSTANTS
  w1 = w1
  k1 = k1
  Workers = {w1}
  Killers = {k1}
  MaxRuns = 2
  Policies = {"always"}
  ReportHomes = {"fallback", "own", "none"}
  Timeouts = {TRUE, FALSE}
  InterruptAt = {}
  GroupSignalDenied = TRUE
  DirectKillDenied = FALSE
  Deliveries = {"signal", "thread"}
SPECIFICATION TaskSpec
INVARIANTS TaskTypeOK NoOrphanAfterKill NoDirAfterKill
PROPERTIES LastRound HandlerEnds KillEndsRun
