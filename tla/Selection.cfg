CONSTANTS
  ClassLike = {"TestC", "TestD"}
  Dotted <- Pieced
  Layouts <- Projects
  MaxShards = 3
  MaxRounds = 2
SPECIFICATION SelectionSpec
INVARIANT FairShares
PROPERTIES RerunExact RootdirKept
CHECK_DEADLOCK FALSE
