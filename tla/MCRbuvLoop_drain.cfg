SPECIFICATION FairSpec
CHECK_DEADLOCK FALSE
CONSTANTS
  None = None
  Handle <- MCHandle
  Kind <- MCKind
  TimerHandles = {t1}
  IdleHandles = {}
  PrepareHandles = {r1}
  CheckHandles = {}
  PollHandles = {p1}
  SignalHandles = {}
  Block = {b1}
  Mode = {"default", "once", "nowait", "other"}
  MayRaise = FALSE
  StopsIdleLoop = FALSE
  RearmsDue = FALSE
  StartsClosing = FALSE
INVARIANTS
  CloseNotForgotten
PROPERTIES
  RunDrains
  DisposeClosesAll
  StopEndsRun
  CloseFinishes
  DisposeEnds
