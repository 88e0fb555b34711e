SPECIFICATION FairSpec
CONSTANTS
  c1 = c1
  c2 = c2
  refresher = refresher
  Clients <- MCClients
  Refresher <- MCRefresher
  Limit <- MCLimit
  Window = 2
  Cooldown = 2
  Ttl = 2
  RefreshMargin = 1
  MaxRtt = 2
  MaxWait = 3
  MaxRequests <- MCMaxRequests
  MaxFaults = 1
INVARIANTS
    Paced
PROPERTIES
    CooldownKept
    SignedInTime
CHECK_DEADLOCK FALSE
