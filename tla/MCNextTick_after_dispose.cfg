SPECIFICATION TickSpec
CHECK_DEADLOCK FALSE
CONSTANTS
  None = None
  Handle <- MCHandle
  Kind <- MCKind
  TickHandle = {k1, k2}
  TimerHandles = {}
  IdleHandles = {}
  MaxTicks = 3
  Block = {b1}
  Mode = {"default"}
  MayRaise = FALSE
  StopsIdleLoop = FALSE
  RearmsDue = FALSE
  StartsClosing = FALSE
INVARIANTS
  TickHandleUsable
