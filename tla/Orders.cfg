SPECIFICATION FairSpec
CONSTANTS
  OrderIds = {o1, o2}
  AlgoIds = {a1}
  OcoIds = {x1}
  Terms = {"A", "B"}
  TrackerLimit = 1
  MaxCalls = 2
  MaxFaults = 3
INVARIANTS
    OneOrderPerCall
    CanceledStays
PROPERTIES
    OkIsTrue
CHECK_DEADLOCK FALSE
