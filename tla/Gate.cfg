\* A channel of one event: whoever reports waits for room, or gives up.
SPECIFICATION FairSpec
CONSTANTS
    Streams = {public, private}
    N = 2
    Capacity = 1
    MaxStrikes = 3
    MaxFaults = 1
INVARIANTS
    GapsReachTheGate
    OpenGateMeansUp
PROPERTIES
    GapsGetReconciled
    DeferredCandleRuns
