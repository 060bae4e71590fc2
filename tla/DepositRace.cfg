SPECIFICATION Spec
CONSTANTS
  Last = 2
  Requests = {w1, w2}
  Orders = {o1}
  Handlers = {h1, h2}
  Amount = 2
  Fee <- FeeTwo
SYMMETRY Symmetry
INVARIANTS TypeOK HeldWasPaid DepositFollowsRequest
PROPERTIES StartsAtRest
CHECK_DEADLOCK FALSE
