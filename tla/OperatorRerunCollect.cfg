CONSTANTS
  Cases = {c1, c2}
  Modules = {m1, m2}
  ModuleOf <- Layout
  Settings <- Collecting
  MaxTries = 0
  MaxRerun = 2
SPECIFICATION Spec
INVARIANTS RecoveredPassed
