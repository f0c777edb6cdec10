SPECIFICATION FairSpec
CONSTANTS
  Teardown = TRUE
  None = None
  Sizes = {1, 3}
  Room = 2
  MaxConns = 2
  MaxOps = 4
INVARIANT TypeOK
INVARIANT NoDanglingRequest
INVARIANT PendingIsOwned
INVARIANT WireOrder
PROPERTY ImplementsLifetime
PROPERTY Settles
CHECK_DEADLOCK FALSE
