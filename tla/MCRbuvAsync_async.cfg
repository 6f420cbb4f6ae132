SPECIFICATION FairSpec
CHECK_DEADLOCK FALSE
CONSTANTS
  None = None
  LoopThread = main
  Handle = {a1, a2}
  Sender = {s1, s2}
  MayRaise = TRUE
INVARIANTS
  NoUseAfterFree
  NoSendLost
  IInv
PROPERTIES
  SendAnswered
