SPECIFICATION SpecAnyMoment
CHECK_DEADLOCK FALSE
CONSTANTS
  Loop = Loop
  Handle = {h1}
  Request = {}
  None = None
INVARIANTS
  CallbackSafe
