CONSTANTS
  Cases = {c1, c2, c3}
  Modules = {m1, m2}
  ModuleOf <- Layout
  Settings <- Everything
  MaxTries = 2
  MaxRerun = 2
SPECIFICATION FairSpec
INVARIANTS TypeOK NoFalseGreen NothingDropped RecoveredHonest NarrowedExact NoOrphanVariable ToleranceHonest
PROPERTIES IsRetrier IsDecisive
