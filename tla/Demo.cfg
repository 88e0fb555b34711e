SPECIFICATION FairDemoSpec
CONSTANTS
  Programs <- MCPrograms
  Lot = 2
  MinSize = 2
  Fee = 1
  TerminalAttempts = 3
  CleanupAttempts = 4
  Lifetime = 2
  MaxDeposits = 1
INVARIANTS
    RestingIsGuarded
    OkIsClean
CHECK_DEADLOCK FALSE
