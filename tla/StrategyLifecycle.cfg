SPECIFICATION Spec
CONSTANTS
    PerKind = 2
    Baseline = 0
    EntrySize = 1
    MinSize = 1
    MaxEntries = 2
    MaxAtr = 1
    Events <- EveryEvent
    Faults <- NoticedFaults
INVARIANTS
    NoOrphans
    OneLivePerPurpose
    HeldIsAccounted
    BoundedExposure
    ShutdownIsClean
PROPERTIES
    SubmitsAlone
