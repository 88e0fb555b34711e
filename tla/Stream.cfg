SPECIFICATION FairSpec
CONSTANTS
    MinBackoff = 2
    MaxBackoff = 7
    Limit = 2
    QueueCapacity = 1
    Configured = {1}
    Keys <- MCKeys
    MaxTs = 2
    MaxFaults = 2
INVARIANTS
    NothingLostSilently
PROPERTIES
    NoStepBack
    KeepsPromise
    Recovers
CHECK_DEADLOCK FALSE
