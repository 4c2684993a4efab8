CONSTANTS
  w1 = w1
  w2 = w2
  k1 = k1
  Workers = {w1, w2}
  Killers = {k1}
  MaxRuns = 2
  Policies = {"always"}
  ReportHomes = {"fallback"}
  Timeouts = {TRUE}
  InterruptAt = {"wait"}
  GroupSignalDenied = TRUE
  DirectKillDenied = FALSE
SPECIFICATION Spec
INVARIANTS TypeOK SingleRun NoOrphan CancelHonoured ClaimedOnce
SYMMETRY ThreadSymmetry
PROPERTY IsRunner
