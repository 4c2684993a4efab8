CONSTANTS
  Limits = {0, 1, 2}
  MaxLen = 2
  MaxWrites = 2
  PipeSize = 1
SPECIFICATION Spec
INVARIANTS DrainTypeOK TextHonest LiveAgrees NeverCutOff
PROPERTIES NeverBlocked Returns
