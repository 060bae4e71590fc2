SPECIFICATION Spec
CONSTANTS
  a1 = a1
  r1 = r1
  r2 = r2
  Accounts = {a1}
  Requests = {r1, r2}
  Handlers = {h1}
  Worker = worker
  Owner <- OneAccount
  Amount <- OneAndTwo
  Channel <- WechatAndBank
  Deposit <- Three
  SpendAmounts = {}
  AdminActions = {"approve", "reject", "execute", "complete", "retry_payout", "sync_gateway_status"}
  MaxRetry = 0
  RetryBound = 1
  MaxCrashes = 1
  ReplyLoss = TRUE
  LateNotices = TRUE
INVARIANTS HoldMatchesStatus TxnFollowsRequest
PROPERTIES ImplementsEscrow
CHECK_DEADLOCK FALSE
