SPECIFICATION FairSpec
CHECK_DEADLOCK FALSE
CONSTANTS
  Request = {r1, r2, r3, r4}
  Threads = 2
  None = None
  Other = Other
  MayRaise = TRUE
INVARIANTS
  TypeOK
  NoRequestLost
  RequestsProtected
  StatusIsTrue
PROPERTIES
  RequestsReported
