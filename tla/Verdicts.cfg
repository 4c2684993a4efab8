CONSTANTS
  MaxCount = 3
  MaxTests = 3
  Rates <- SomeRates
  Caps <- SomeCaps
SPECIFICATION VerdictsSpec
INVARIANTS ZeroCapIsStrict RateOneIsStrict  DriftIsRed
PROPERTY PassingNeverHurts
CHECK_DEADLOCK FALSE
