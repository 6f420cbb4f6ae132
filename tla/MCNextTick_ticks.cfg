SPECIFICATION TickFairSpec
CHECK_DEADLOCK FALSE
CONSTANTS
  None = None
  Handle <- MCHandle
  Kind <- MCKind
  TickHandle = {k1, k2}
  TimerHandles = {}
  IdleHandles = {i1}
  MaxTicks = 3
  Block = {b1}
  Mode = {"default", "nowait"}
  MayRaise = TRUE
  StopsIdleLoop = TRUE
  RearmsDue = FALSE
  StartsClosing = TRUE
INVARIANTS
  TicksInOrder
  TickHandleIsCurrent
  QueuedTickIsArmed
PROPERTIES
  DroppedByException
  TickRuns
