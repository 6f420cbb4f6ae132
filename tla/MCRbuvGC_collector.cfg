SPECIFICATION Spec
CHECK_DEADLOCK FALSE
CONSTANTS
  Loop = Loop
  Handle = {h1, h2, h3}
  Request = {r1, r2}
  None = None
SYMMETRY Symmetric
INVARIANTS
  CallbackSafe
  MethodSafe
  FreeSafe
