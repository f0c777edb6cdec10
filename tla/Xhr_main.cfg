SPECIFICATION Spec
CONSTANTS
  x1 = x1
  x2 = x2
  Xhrs = {x1, x2}
  Budgets <- CallBudgets
  MaxNest = 2
INVARIANT Inv
INVARIANT SentIsUnderWay
PROPERTY EventOrder
PROPERTY SendSettles
CHECK_DEADLOCK FALSE
