SPECIFICATION FairSpec
CONSTANTS
    PerKind = 2
    Baseline = 0
    EntrySize = 1
    MinSize = 1
    MaxEntries = 2
    MaxAtr = 0
    Events <- TickEvents
    Faults = {}
PROPERTIES
    FillsGetProtected
    ExitsComplete
