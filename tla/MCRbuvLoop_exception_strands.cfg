SPECIFICATION Spec
CHECK_DEADLOCK FALSE
CONSTANTS
  None = None
  Handle <- MCHandle
  Kind <- MCKind
  TimerHandles = {}
  IdleHandles = {i1, i2}
  PrepareHandles = {}
  CheckHandles = {}
  PollHandles = {}
  SignalHandles = {}
  Block = {b1}
  Mode = {"default"}
  MayRaise = TRUE
  StopsIdleLoop = FALSE
  RearmsDue = FALSE
  StartsClosing = FALSE
PROPERTIES
  RunDrains
