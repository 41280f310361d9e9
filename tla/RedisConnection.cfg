SPECIFICATION FairSpec
CONSTANTS
  Endpoints = 2
  ConnectTimeout = TRUE
  PingTimeout = TRUE
  ResolverFails = TRUE
  MaxPublishes = 2
  MaxFaults = 2
INVARIANTS BusyWhileConnected RetryPending Watched
  
