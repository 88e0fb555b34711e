SPECIFICATION FairSpec
CONSTANTS
    Prices <- MCPrices
    Books <- MCBooks
    BadBooks <- MCBadBooks
    Depth = 2
    Window = 2
    MaxSeq = 3
    MaxFaults = 2
INVARIANTS
    TrustedBooksAreTrue
PROPERTIES
    NeverBackwards
    BookRecovers
CHECK_DEADLOCK FALSE
