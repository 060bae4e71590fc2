SPECIFICATION FairSpec
CONSTANTS
  u1 = u1
  o1 = o1
  p1 = p1
  p2 = p2
  k1 = k1
  Users = {u1}
  Orders = {o1}
  Payments = {p1, p2}
  Refunds = {x1, x2}
  Claims = {c1, c2}
  Handlers = {h1}
  Buyer <- OneBuyer
  PaysFor <- PayOne
  Method <- Either
  Key <- OwnKey
  UnifiedKeys = {uid1}
  Concerns <- ClaimOne
  Price <- PriceFour
  Share <- Split
  Fee <- FeeTwo
  Deposit <- Ten
  RefundAmounts = {2}
  MaxCrashes = 0
  ReplyLoss = FALSE
PROPERTIES IncomeAndRefundsEnd
CHECK_DEADLOCK FALSE
