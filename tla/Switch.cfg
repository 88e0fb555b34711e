SPECIFICATION FairSpec
CONSTANTS
    T = 15
    N = 2
    ArmLag = 1
    Lag = 1
    Budget = 15
    LateRequests = TRUE
INVARIANTS
    SwitchHeld
    OnlyLongDispatchesOutliveSwitch
    FailClosed
PROPERTIES
    UncleanExitFires
