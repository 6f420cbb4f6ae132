SPECIFICATION SpecAnyCancel
CHECK_DEADLOCK FALSE
CONSTANTS
  Request = {r1}
  Threads = 1
  None = None
  Other = Other
  MayRaise = FALSE
INVARIANTS
  OnlyPendingCancelled
