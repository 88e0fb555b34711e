SPECIFICATION FeedSpec
CONSTANTS
  Period = 4
  Poll = 2
  MaxStale = 1
  Lag = 1
  TickTimeout = 2
  Limit = 3
  Start = 12
  MaxTime = 24
  MaxOutages = 1
  MaxFailures = 1
INVARIANTS
    NoBarSkipped
    EntrySeesItsBar
PROPERTIES
    BarsOnTime
CHECK_DEADLOCK FALSE
