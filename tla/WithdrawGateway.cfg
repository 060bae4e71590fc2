SPECIFICATION FairSpec
CONSTANTS
  a1 = a1
  r1 = r1
  r2 = r2
  Accounts = {a1}
  Requests = {r1}
  Handlers = {h1}
  Worker = worker
  Owner <- OneAccount
  Amount <- Unit
  Channel <- AllAlipay
  Deposit <- Two
  SpendAmounts = {}
  AdminActions = {"approve", "reject", "execute", "mark_processing", "supplement_success", "supplement_fail"}
  MaxRetry = 1
  RetryBound = 2
  MaxCrashes = 1
  ReplyLoss = TRUE
  LateNotices = TRUE
INVARIANTS PaidXorReturned AutoRetryBudget
PROPERTIES WorkerSettles
CHECK_DEADLOCK FALSE
