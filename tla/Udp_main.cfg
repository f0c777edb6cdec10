SPECIFICATION FairSpec
CONSTANTS
  None = None
  Room = 2
  Width = 2
  MaxArrivals = 2
  MaxOps = 4
INVARIANT Inv
INVARIANT Delivery
PROPERTY ImplementsLifetime
PROPERTY SendSettles
CHECK_DEADLOCK FALSE
