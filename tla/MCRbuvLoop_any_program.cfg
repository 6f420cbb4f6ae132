SPECIFICATION Spec
CHECK_DEADLOCK FALSE
SYMMETRY MCSymmetry
CONSTANTS
  None = None
  Handle <- MCHandle
  Kind <- MCKind
  TimerHandles = {}
  IdleHandles = {i1, i2}
  PrepareHandles = {}
  CheckHandles = {}
  PollHandles = {}
  SignalHandles = {s1}
  Block = {b1}
  Mode = {"default", "once"}
  MayRaise = TRUE
  StopsIdleLoop = TRUE
  RearmsDue = TRUE
  StartsClosing = TRUE
INVARIANTS
  TypeOK
  NoDanglingHandle
  CloseStateAgrees
  RunModeAgrees
  IInv
PROPERTIES
  LifecycleHeld
  NoBlockAfterStop
