\* Three lots and a minimum of two: a protected position grows and shrinks lot
\* by lot, and a fill or a sell may leave dust.  Ticks, private events and the
\* shutdown, and calls that are refused.
SPECIFICATION Spec
CONSTANTS
    PerKind = 2
    Baseline = 0
    EntrySize = 3
    MinSize = 2
    MaxEntries = 1
    MaxAtr = 0
    Events <- FillEvents
    Faults <- Refusals
INVARIANTS
    ProtectedWhenIdle
PROPERTIES
    ExitAlone
