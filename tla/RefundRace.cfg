SPECIFICATION Spec
CONSTANTS
  u1 = u1
  o1 = o1
  p1 = p1
  p2 = p2
  k1 = k1
  Users = {u1}
  Orders = {o1}
  Payments = {p1, p2}
  Refunds = {x1, x2}
  Claims = {c1}
  Handlers = {h1, h2}
  Buyer <- OneBuyer
  PaysFor <- PayOne
  Method <- Either
  Key <- SameKey
  UnifiedKeys = {uid1}
  Concerns <- ClaimOne
  Price <- PriceFour
  Share <- Split
  Fee <- FeeTwo
  Deposit <- Ten
  RefundAmounts = {2, 4}
  MaxCrashes = 1
  ReplyLoss = TRUE
SYMMETRY Symmetry
INVARIANTS TypeOK WalletsMatchJournal LedgerMatchesSnapshot RefundTakesSplitBack OrderFollowsRefund IncomeMatchesLedger ClaimKnowsRefund RefundedOnce
CHECK_DEADLOCK FALSE
