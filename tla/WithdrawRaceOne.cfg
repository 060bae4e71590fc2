SPECIFICATION Spec
CONSTANTS
  a1 = a1
  r1 = r1
  r2 = r2
  Accounts = {a1}
  Requests = {r1}
  Handlers = {h1, h2}
  Worker = worker
  Owner <- OneAccount
  Amount <- Unit
  Channel <- AllWechat
  Deposit <- Two
  SpendAmounts = {2}
  AdminActions = {"approve", "reject", "execute", "complete", "fail", "retry_payout"}
  MaxRetry = 0
  RetryBound = 1
  MaxCrashes = 0
  ReplyLoss = TRUE
  LateNotices = FALSE
VIEW Present
SYMMETRY HandlerSymmetry
INVARIANTS TypeOK LonePaysOnce MoneyConserved
CHECK_DEADLOCK FALSE
