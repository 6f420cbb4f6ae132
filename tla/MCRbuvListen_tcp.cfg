SPECIFICATION ListenFairSpec
CHECK_DEADLOCK FALSE
CONSTANTS
  MaxRequests = 4
  MaxBacklog = 2
  MayRaise = TRUE
INVARIANTS
  ListenTypeOK
  RequestsHeld
  ConnectHasBlock
  ListenerHasBlock
  WatchAgrees
  AbortNeedsMishap
PROPERTIES
  RequestsAreServed
  CloseCompletes
  ConnectionsReported
