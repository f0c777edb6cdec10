SPECIFICATION Spec
CONSTANTS
  Teardown = FALSE
  None = None
  Sizes = {1, 3}
  Room = 2
  MaxConns = 2
  MaxOps = 3
INVARIANT AcceptIsServed
CHECK_DEADLOCK FALSE
