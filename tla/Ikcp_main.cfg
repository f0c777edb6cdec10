SPECIFICATION FairSpec
CONSTANTS
  a = a
  b = b
  Nodes = {a, b}
  Modulus = 12
  SndWnd = 2
  RcvWnd = 3
  Start = 10
  Plans <- FillOrBoth
  MaxFaults = 1
INVARIANT Inv
INVARIANT DeliveredInOrder
INVARIANT AckedIsReceived
PROPERTY Arrives
CHECK_DEADLOCK FALSE
