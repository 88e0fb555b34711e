SPECIFICATION FairSpec
CONSTANTS
  Instruments = {"i1"}
  Levels = {"1", "2"}
  Terms = {"m1", "m2"}
  UsdTerms = {"m2"}
  Bands <- MCBands
  Prices = {1}
  MaxAge = 1
  MaxStale = 1
  MaxRtt = 1
  MaxAttempts = 2
  MaxChanges = 2
  MaxFaults = 1
INVARIANTS
    CancelPossible
    ContradictionIsFinal
    PriceIsCurrent
CHECK_DEADLOCK FALSE
