--------------------------- MODULE WalletWithdraw ---------------------------
(***************************************************************************)
(* The withdrawal core of the Go API: a user moves money from the balance  *)
(* of a wallet account to its frozen balance, an administrator reviews the *)
(* request, a payment gateway pays it, and the platform then either drops  *)
(* the frozen money (paid) or gives it back (rejected, failed).  Failed    *)
(* requests may be tried again, by hand or by the reconcile worker.        *)
(*                                                                         *)
(* Granularity.  Every database transaction that changes an account starts *)
(* by locking the account row (SELECT ... FOR UPDATE) and so is one step.  *)
(* What a handler read BEFORE that lock is kept in its session: the code   *)
(* checks the status of a request on a copy loaded outside the transaction *)
(* or before the lock, and another handler may run in between.             *)
(***************************************************************************)
EXTENDS Integers, FiniteSets, FiniteSetsExt

CONSTANTS
  Accounts,      \* wallet accounts
  Requests,      \* withdraw requests, each with its wallet transaction
  Handlers,      \* HTTP handlers that may run at the same time
  Worker,        \* the goroutine of the reconcile worker
  Owner,         \* the account of a request
  Amount,        \* the amount of a request
  Channel,       \* its withdraw method: "wechat", "alipay" or "bank_card"
  Deposit,       \* what an account holds at the start
  SpendAmounts,  \* what a purchase from the balance may cost
  AdminActions,  \* the actions of ReviewWithdraw the operators use
  MaxRetry,      \* defaultWithdrawAutoRetryMaxCount
  RetryBound,    \* bound: no retry of a request is started after so many
  MaxCrashes,    \* bound: handlers that die half way
  ReplyLoss,     \* TRUE: the gateway may accept a payout and its reply be lost
  LateNotices    \* TRUE: a notice of the gateway may arrive at any later time

AllActions == {"approve", "reject", "execute", "mark_processing", "complete",
               "fail", "sync_gateway_status", "retry_payout",
               "supplement_success", "supplement_fail"}

ASSUME ConstantsOK ==
  /\ Worker \notin Handlers
  /\ Owner \in [Requests -> Accounts]
  /\ Amount \in [Requests -> Nat \ {0}]
  /\ Channel \in [Requests -> {"wechat", "alipay", "bank_card"}]
  /\ Deposit \in [Accounts -> Nat]
  /\ SpendAmounts \subseteq Nat \ {0}
  /\ AdminActions \subseteq AllActions
  /\ MaxRetry \in Nat /\ RetryBound \in Nat /\ MaxCrashes \in Nat
  /\ RetryBound > MaxRetry
  /\ {ReplyLoss, LateNotices} \subseteq BOOLEAN

VARIABLES
  wallet,    \* wallet_accounts: balance, frozen and total of each account
  request,   \* withdraw_requests: status, and whether a gateway reference is stored
  txn,       \* wallet_transactions: status and the retry part of response_data
  payout,    \* the payout as the gateway knows it, by its out number
  notices,   \* what the gateway has ever announced
  session,   \* what each running handler has read and does next
  batch,     \* the rows the worker has listed and not yet worked on, as they were then
  crashes,   \* number of handlers that died half way
  outflow,   \* history: money that left an account, by withdrawals and by purchases
  stale,     \* history: sessions whose request another has changed since they read it
  mishap,    \* history: what befell a request that its checks do not see
  tries      \* history: how often a request was tried again

past == <<stale, mishap, tries>>
vars == <<wallet, request, txn, payout, notices, session, batch, crashes, outflow, past>>

Sessions == Handlers \cup {Worker}
InFlow == {"pending_transfer", "transferring"}
ReqStatus == {"none", "pending_review", "rejected", "success", "failed"} \cup InFlow
TxnStatus == {"none", "pending_review", "processing", "success", "failed"}
Settled == {"success", "failed"}
PayoutState == {"none", "accepted", "paid", "failed"}
Notice == Requests \X {"paid", "failed"}

\* response_data: the retry counter, whether a next retry is due, and whether it
\* shows that the payout was submitted.
Data == [retries : Nat, due : BOOLEAN, submitted : BOOLEAN]
NoData == [retries |-> 0, due |-> FALSE, submitted |-> FALSE]

\* The statement a session executes next.
Points == {"approve", "reject", "mark_processing", "complete", "call", "executed",
           "fail_read", "fail", "settle_read", "settle",
           "callback_settle", "callback_fail_read", "callback_fail",
           "query", "progress_record", "progress_data", "retry", "reload", "restore"}
Idle == [at |-> "idle"]
Row == [status : ReqStatus, ref : BOOLEAN]
Mishap == {"overtaken", "stale_write", "paid_at_once", "misled", "by_hand", "reset"}
Busy == [at : Points, req : Requests, seen : ReqStatus, data : Data, again : BOOLEAN]

-----------------------------------------------------------------------------
\* The account updates.  Each is guarded in the code by the row lock and the
\* version compare-and-set, so none works on a stale account.

\* A new hold: withdraw and retry move the amount to the frozen balance.
CanHold(r) == wallet[Owner[r]].balance >= Amount[r]
Hold(r) ==
  wallet' = [wallet EXCEPT ![Owner[r]] =
    [balance |-> @.balance - Amount[r], frozen |-> @.frozen + Amount[r],
     total |-> (@.balance - Amount[r]) + (@.frozen + Amount[r])]]

\* The end of a hold: both directions first check the frozen balance.
UncheckedFrozen(r) == TRUE  \* mutant
HasFrozen(r) == wallet[Owner[r]].frozen >= Amount[r]
Return(r) ==
  wallet' = [wallet EXCEPT ![Owner[r]] =
    [balance |-> @.balance + Amount[r], frozen |-> @.frozen - Amount[r],
     total |-> @.balance + Amount[r] + @.frozen - Amount[r]]]
StaleTotalRelease(r) ==  \* mutant: the total is computed before the release
  /\ wallet' = [wallet EXCEPT ![Owner[r]] =
       [balance |-> @.balance, frozen |-> @.frozen - Amount[r], total |-> @.total]]
  /\ outflow' = [outflow EXCEPT ![Owner[r]].withdrawn = @ + Amount[r]]
Release(r) ==
  /\ wallet' = [wallet EXCEPT ![Owner[r]] =
       [balance |-> @.balance, frozen |-> @.frozen - Amount[r],
        total |-> @.balance + @.frozen - Amount[r]]]
  /\ outflow' = [outflow EXCEPT ![Owner[r]].withdrawn = @ + Amount[r]]

\* Only wechat and alipay payouts take part in automatic retries.
AutoRetry(r) == Channel[r] \in {"wechat", "alipay"}

SubmittedData(r, d) ==
  IF AutoRetry(r) THEN [d EXCEPT !.retries = @ + 1, !.due = FALSE] ELSE d
OneMoreRetryData(r, d) ==  \* mutant: the budget is off by one
  IF AutoRetry(r) THEN [d EXCEPT !.due = d.retries <= MaxRetry] ELSE d
FailureData(r, d) ==
  IF AutoRetry(r) THEN [d EXCEPT !.due = d.retries < MaxRetry] ELSE d
ExecutionData(r, d) ==
  IF AutoRetry(r) THEN [d EXCEPT !.due = FALSE, !.submitted = TRUE]
                  ELSE [d EXCEPT !.submitted = TRUE]

SetRequest(r, status) == request' = [request EXCEPT ![r].status = status]
SetTxn(r, status, d) == txn' = [txn EXCEPT ![r] = [status |-> status, data |-> d]]

-----------------------------------------------------------------------------
Init ==
  /\ wallet = [a \in Accounts |-> [balance |-> Deposit[a], frozen |-> 0, total |-> Deposit[a]]]
  /\ request = [r \in Requests |-> [status |-> "none", ref |-> FALSE]]
  /\ txn = [r \in Requests |-> [status |-> "none", data |-> NoData]]
  /\ payout = [r \in Requests |-> "none"]
  /\ notices = {}
  /\ session = [s \in Sessions |-> Idle]
  /\ batch = [r \in {} |-> [status |-> "none", ref |-> FALSE]]
  /\ crashes = 0
  /\ outflow = [a \in Accounts |-> [withdrawn |-> 0, spent |-> 0]]
  /\ stale = {} /\ mishap = {} /\ tries = [r \in Requests |-> 0]

\* A user asks for a withdrawal; the row, the transaction and the hold are one
\* database transaction.
Withdraw(r) ==
  /\ request[r].status = "none"
  /\ CanHold(r)
  /\ Hold(r)
  /\ SetRequest(r, "pending_review")
  /\ SetTxn(r, "pending_review", NoData)
  /\ UNCHANGED <<payout, notices, session, batch, outflow, crashes, past>>

\* A purchase paid from the balance of the same account (PayOrder, ifpay).
Spend(a, n) ==
  /\ wallet[a].balance >= n
  /\ wallet' = [wallet EXCEPT ![a] =
       [balance |-> @.balance - n, frozen |-> @.frozen,
        total |-> @.balance - n + @.frozen]]
  /\ outflow' = [outflow EXCEPT ![a].spent = @ + n]
  /\ UNCHANGED <<request, txn, payout, notices, session, batch, crashes, past>>
-----------------------------------------------------------------------------
\* Sessions: a handler starts by loading the request and its transaction.  It keeps
\* of them what a later statement uses.

UsesData == {"call", "fail_read", "query"}

Open(s, r, point, seen) ==
  /\ session[s] = Idle
  /\ session' = [session EXCEPT ![s] =
       [at |-> point, req |-> r, seen |-> seen,
        data |-> IF point \in UsesData THEN txn[r].data ELSE NoData, again |-> FALSE]]

GoTo(s, point) == session' = [session EXCEPT ![s].at = point]
Done(s) == session' = [session EXCEPT ![s] = Idle]
\* An error rolls the transaction back; a retry then undoes its hold.
Abort(s) == IF session[s].again THEN GoTo(s, "restore") ELSE Done(s)

At(s, point) == session[s].at = point

\* A request that still shows a trace of its submission may be refreshed.  The status and
\* the reference are those of a copy of its row, the transaction is read again.
RefreshOnlyPending(row, r) ==  \* mutant: a transferring request is taken for settled
  row.status = "pending_transfer" /\ (row.ref \/ txn[r].data.submitted)
CanRefresh(row, r) ==
  \/ row.status = "transferring"
  \/ row.status = "pending_transfer" /\ (row.ref \/ txn[r].data.submitted)

\* The statuses from which an action of ReviewWithdraw may start, and the
\* statement it goes to: the check is made on the copy read here.
Reviewable(action) ==
  CASE action \in {"approve", "reject"} -> {"pending_review"}
    [] action \in {"execute", "mark_processing"} -> {"pending_transfer"}
    [] action = "retry_payout" -> {"failed"}
    [] OTHER -> InFlow
PointOf(action) ==
  CASE action = "execute" -> "call"
    [] action = "fail" -> "fail_read"
    [] action = "sync_gateway_status" -> "query"
    [] action = "retry_payout" -> "retry"
    [] action = "supplement_success" -> "callback_settle"
    [] action = "supplement_fail" -> "callback_fail_read"
    [] OTHER -> action

\* What an operator does by hand: he ends a payout, or sends it again or resets its data.
ByHand == {"complete", "fail", "supplement_success", "supplement_fail"}
Resets == {"retry_payout", "mark_processing"}

ReviewWithdraw(s, r, action) ==
  /\ request[r].status \in Reviewable(action)
  /\ action = "sync_gateway_status" => CanRefresh(request[r], r) /\ AutoRetry(r)
  /\ action = "retry_payout" => tries[r] < RetryBound
  /\ Open(s, r, PointOf(action),
          IF action = "sync_gateway_status" THEN request[r].status ELSE "none")
  /\ mishap' = mishap \cup {<<r, k>> : k \in {k \in {"by_hand", "reset"} :
                               action \in IF k = "by_hand" THEN ByHand ELSE Resets}}
  /\ UNCHANGED <<wallet, request, txn, payout, notices, batch, outflow, crashes, stale, tries>>

\* The gateway announces the end of a payout, possibly again and possibly late.
GatewayCallback(s, r, result) ==
  /\ <<r, result>> \in notices
  /\ LateNotices \/ payout[r] = result
  /\ Open(s, r, IF result = "paid" THEN "callback_settle" ELSE "callback_fail_read", "none")
  /\ mishap' = IF payout[r] = result THEN mishap ELSE mishap \cup {<<r, "misled">>}
  /\ UNCHANGED <<wallet, request, txn, payout, notices, batch, outflow, crashes, stale, tries>>

\* One round of the worker: it lists what is in flight, then takes the listed copies one
\* by one and refreshes those that allow it; what is due is retried when none is left.
\* Bank transfers are left out: they are listed too, and nothing is done about them.
WorkerList ==
  /\ session[Worker] = Idle /\ DOMAIN batch = {}
  /\ batch' = [r \in {q \in Requests : request[q].status \in InFlow /\ AutoRetry(q)} |-> request[r]]
  /\ DOMAIN batch' # {}
  /\ UNCHANGED <<wallet, request, txn, payout, notices, session, outflow, crashes, past>>

WorkerRefresh(r) ==
  /\ session[Worker] = Idle /\ r \in DOMAIN batch
  /\ batch' = [q \in DOMAIN batch \ {r} |-> batch[q]]
  /\ IF CanRefresh(batch[r], r)
     THEN /\ Open(Worker, r, "query", batch[r].status)
          /\ stale' = IF batch[r].status = request[r].status THEN stale ELSE stale \cup {Worker}
     ELSE UNCHANGED <<session, stale>>
  /\ UNCHANGED <<wallet, request, txn, payout, notices, outflow, crashes, mishap, tries>>

WorkerRetry(r) ==
  /\ DOMAIN batch = {}
  /\ request[r].status = "failed" /\ AutoRetry(r) /\ txn[r].data.due
  /\ tries[r] < RetryBound
  /\ Open(Worker, r, "retry", "none")
  /\ UNCHANGED <<wallet, request, txn, payout, notices, batch, outflow, crashes, past>>
-----------------------------------------------------------------------------
\* The transactions of ReviewWithdraw.  None looks at the status again.

ReviewApprove(s) ==
  /\ At(s, "approve")
  /\ LET r == session[s].req IN
       /\ SetRequest(r, "pending_transfer")
       /\ SetTxn(r, "processing", NoData)
  /\ Done(s)
  /\ UNCHANGED <<wallet, payout, notices, outflow, crashes>>

ReviewReject(s) ==
  /\ At(s, "reject")
  /\ LET r == session[s].req IN
       /\ HasFrozen(r)
       /\ Return(r)
       /\ SetRequest(r, "rejected")
       /\ SetTxn(r, "failed", NoData)
  /\ Done(s)
  /\ UNCHANGED <<payout, notices, outflow, crashes>>

\* The operator may enter the reference of the payout made by hand.
ReviewMarkProcessing(s) ==
  /\ At(s, "mark_processing")
  /\ LET r == session[s].req IN
       /\ \E entered \in BOOLEAN :
            request' = [request EXCEPT ![r] =
              [status |-> "transferring", ref |-> @.ref \/ entered]]
       /\ SetTxn(r, "processing", NoData)
  /\ Done(s)
  /\ UNCHANGED <<wallet, payout, notices, outflow, crashes>>

ReviewComplete(s) ==
  /\ At(s, "complete")
  /\ LET r == session[s].req IN
       /\ HasFrozen(r)
       /\ Release(r)
       /\ SetRequest(r, "success")
       /\ SetTxn(r, "success", NoData)
  /\ Done(s)
  /\ UNCHANGED <<payout, notices, crashes>>

\* execute writes whatever status the gateway answered, here kept in seen.
ReviewExecuted(s) ==
  /\ At(s, "executed")
  /\ LET r == session[s].req IN
       /\ request' = [request EXCEPT ![r] = [status |-> session[s].seen, ref |-> TRUE]]
       /\ SetTxn(r, "processing", ExecutionData(r, session[s].data))
  /\ Done(s)
  /\ UNCHANGED <<wallet, payout, notices, outflow, crashes>>

\* The check of the frozen balance fails: reject and complete roll back.
ReviewRefused(s) ==
  /\ At(s, "reject") \/ At(s, "complete")
  /\ ~ HasFrozen(session[s].req)
  /\ Done(s)
  /\ UNCHANGED <<wallet, request, txn, payout, notices, outflow, crashes>>
-----------------------------------------------------------------------------
\* executeWithdrawPayout, called inside the transaction of execute.  A second
\* submission of an out number the gateway already works on creates no payout.

Replied(s, point, status) ==
  session' = [session EXCEPT ![s].at = point, ![s].seen = status]

\* "transferring" is the answer to a payout that is, or already was, accepted.
PayoutAccepted(s) ==
  /\ At(s, "call")
  /\ LET r == session[s].req IN
       /\ payout' = IF AutoRetry(r) /\ payout[r] \in {"none", "failed"}
                    THEN [payout EXCEPT ![r] = "accepted"] ELSE payout
       /\ Replied(s, "executed", "transferring")
  /\ UNCHANGED <<wallet, request, txn, notices, outflow, crashes>>

\* The alipay sidecar passes a final success of the transfer on at once.
PayoutPaidAtOnce(s) ==
  /\ At(s, "call")
  /\ LET r == session[s].req IN
       /\ Channel[r] = "alipay"
       /\ payout' = [payout EXCEPT ![r] = "paid"]
       /\ notices' = notices \cup {<<r, "paid">>}
       /\ Replied(s, "executed", "success")
  /\ UNCHANGED <<wallet, request, txn, outflow, crashes>>

PayoutRefused(s) ==
  /\ At(s, "call")
  /\ LET r == session[s].req IN
       /\ AutoRetry(r) /\ payout[r] \in {"none", "failed"}
       /\ payout' = [payout EXCEPT ![r] = "failed"]
       /\ session' = [session EXCEPT ![s].at = "fail_read", ![s].data.submitted = TRUE]
  /\ UNCHANGED <<wallet, request, txn, notices, outflow, crashes>>

\* No usable answer: nothing was submitted, or it was and the reply is lost.
PayoutError(s) ==
  /\ At(s, "call")
  /\ LET r == session[s].req IN
       \/ UNCHANGED payout
       \/ /\ ReplyLoss /\ AutoRetry(r) /\ payout[r] \in {"none", "failed"}
          /\ payout' = [payout EXCEPT ![r] = "accepted"]
  /\ Abort(s)
  /\ UNCHANGED <<wallet, request, txn, notices, outflow, crashes>>

\* The gateway ends an accepted payout and announces it.
GatewayResolve(r, result) ==
  /\ payout[r] = "accepted"
  /\ payout' = [payout EXCEPT ![r] = result]
  /\ notices' = notices \cup {<<r, result>>}
  /\ UNCHANGED <<wallet, request, txn, session, batch, outflow, crashes, past>>
-----------------------------------------------------------------------------
\* completeWithdrawByCallbackTx and failWithdrawByCallbackTxWithPayload read the
\* status inside the transaction, but before they lock the account.

UncheckedSettleRead(s) ==  \* mutant: a late notice is applied to any request
  /\ At(s, "callback_settle")
  /\ session' = [session EXCEPT ![s].at = "settle", ![s].data = txn[session[s].req].data]
  /\ UNCHANGED <<wallet, request, txn, payout, notices, outflow, crashes>>

CallbackSettleRead(s) ==
  /\ At(s, "callback_settle")
  /\ LET r == session[s].req IN
       IF txn[r].status \in Settled \/ request[r].status \notin InFlow
       THEN Done(s)
       ELSE session' = [session EXCEPT ![s].at = "settle", ![s].data = txn[r].data]
  /\ UNCHANGED <<wallet, request, txn, payout, notices, outflow, crashes>>

SettleRead(s) ==
  /\ At(s, "settle_read")
  /\ IF request[session[s].req].status \in InFlow THEN GoTo(s, "settle") ELSE Done(s)
  /\ UNCHANGED <<wallet, request, txn, payout, notices, outflow, crashes>>

Settle(s) ==
  /\ At(s, "settle")
  /\ LET r == session[s].req IN
       IF HasFrozen(r)
       THEN /\ Release(r)
            /\ request' = [request EXCEPT ![r] = [status |-> "success", ref |-> TRUE]]
            /\ SetTxn(r, "success", session[s].data)
       ELSE UNCHANGED <<wallet, outflow, request, txn>>
  /\ Done(s)
  /\ UNCHANGED <<payout, notices, crashes>>

FailRead(s) ==
  /\ At(s, "fail_read")
  /\ IF request[session[s].req].status \in InFlow THEN GoTo(s, "fail") ELSE Abort(s)
  /\ UNCHANGED <<wallet, request, txn, payout, notices, outflow, crashes>>

Failed(s, r) ==
  /\ HasFrozen(r)
  /\ Return(r)
  /\ SetRequest(r, "failed")
  /\ SetTxn(r, "failed", FailureData(r, session[s].data))
  /\ Done(s)

Fail(s) ==
  /\ At(s, "fail")
  /\ LET r == session[s].req IN
       \/ Failed(s, r)
       \/ /\ ~ HasFrozen(r)
          /\ Abort(s)
          /\ UNCHANGED <<wallet, request, txn>>
  /\ UNCHANGED <<payout, notices, outflow, crashes>>

\* A failure notice writes the transaction first: the lock on that row then keeps
\* the request from changing until the notice is applied.
CallbackFailRead(s) ==
  /\ At(s, "callback_fail_read")
  /\ LET r == session[s].req IN
       IF txn[r].status \in Settled THEN Done(s)
       ELSE session' = [session EXCEPT ![s].at = "callback_fail", ![s].data = txn[r].data]
  /\ UNCHANGED <<wallet, request, txn, payout, notices, outflow, crashes>>

CallbackFail(s) ==
  /\ At(s, "callback_fail")
  /\ LET r == session[s].req IN
       \/ request[r].status \in InFlow /\ Failed(s, r)
       \/ /\ request[r].status \notin InFlow \/ ~ HasFrozen(r)
          /\ Done(s)
          /\ UNCHANGED <<wallet, request, txn>>
  /\ UNCHANGED <<payout, notices, outflow, crashes>>
-----------------------------------------------------------------------------
\* refreshWithdrawGatewayStatus asks the gateway and acts on the answer; without
\* an end result it writes progress to two rows, outside any transaction.

PendingIsFailure(s) ==  \* mutant: a payout under way is taken for a failed one
  /\ At(s, "query")
  /\ GoTo(s, IF payout[session[s].req] = "paid" THEN "settle_read" ELSE "fail_read")
  /\ UNCHANGED <<wallet, request, txn, payout, notices, outflow, crashes>>

RefreshQuery(s) ==
  /\ At(s, "query")
  /\ LET r == session[s].req IN
       CASE payout[r] = "paid" -> GoTo(s, "settle_read")
         [] payout[r] = "failed" -> GoTo(s, "fail_read")
         [] payout[r] = "accepted" -> GoTo(s, "progress_record")
         [] OTHER -> Done(s)
  /\ UNCHANGED <<wallet, request, txn, payout, notices, outflow, crashes>>

ProgressRecord(s) ==
  /\ At(s, "progress_record")
  /\ LET r == session[s].req IN
       request' = [request EXCEPT ![r] =
         [status |-> IF session[s].seen = "pending_transfer" THEN "transferring" ELSE @.status,
          ref |-> TRUE]]
  /\ GoTo(s, "progress_data")
  /\ UNCHANGED <<wallet, txn, payout, notices, outflow, crashes>>

ProgressData(s) ==
  /\ At(s, "progress_data")
  /\ txn' = [txn EXCEPT ![session[s].req].data = [session[s].data EXCEPT !.submitted = TRUE]]
  /\ Done(s)
  /\ UNCHANGED <<wallet, request, payout, notices, outflow, crashes>>
-----------------------------------------------------------------------------
\* retryWithdrawPayout: a transaction that locks the rows and takes a new hold,
\* then execute as a handler of its own, then an undo if execute failed.

RetryUnchecked(s) ==  \* mutant: the status is not read again under the lock
  /\ At(s, "retry")
  /\ LET r == session[s].req IN
       /\ CanHold(r) /\ Hold(r)
       /\ request' = [request EXCEPT ![r] = [status |-> "pending_transfer", ref |-> FALSE]]
       /\ SetTxn(r, "processing", SubmittedData(r, txn[r].data))
  /\ session' = [session EXCEPT ![s].at = "reload", ![s].again = TRUE]
  /\ UNCHANGED <<payout, notices, outflow, crashes>>

RetryForgetsTxn(s) ==  \* mutant: the transaction stays failed
  /\ At(s, "retry")
  /\ LET r == session[s].req IN
       /\ request[r].status = "failed" /\ CanHold(r) /\ Hold(r)
       /\ request' = [request EXCEPT ![r] = [status |-> "pending_transfer", ref |-> FALSE]]
  /\ session' = [session EXCEPT ![s].at = "reload", ![s].again = TRUE]
  /\ UNCHANGED <<txn, payout, notices, outflow, crashes>>

RetryHold(s) ==
  /\ At(s, "retry")
  /\ LET r == session[s].req IN
       IF request[r].status = "failed" /\ CanHold(r)
       THEN /\ Hold(r)
            /\ request' = [request EXCEPT ![r] = [status |-> "pending_transfer", ref |-> FALSE]]
            /\ SetTxn(r, "processing", SubmittedData(r, txn[r].data))
            /\ session' = [session EXCEPT ![s].at = "reload", ![s].again = TRUE]
       ELSE Done(s) /\ UNCHANGED <<wallet, request, txn>>
  /\ UNCHANGED <<payout, notices, outflow, crashes>>

RetryReload(s) ==
  /\ At(s, "reload")
  /\ LET r == session[s].req IN
       session' = [session EXCEPT ![s].data = txn[r].data, ![s].seen = request[r].status,
         ![s].at = IF request[r].status = "pending_transfer" THEN "call" ELSE "restore"]
  /\ UNCHANGED <<wallet, request, txn, payout, notices, outflow, crashes>>

RestoreKeepsHold(s) ==  \* mutant: the undo forgets the account
  /\ At(s, "restore")
  /\ LET r == session[s].req IN
       /\ request[r].status \in InFlow
       /\ SetRequest(r, "failed")
       /\ SetTxn(r, "failed", FailureData(r, txn[r].data))
  /\ Done(s)
  /\ UNCHANGED <<wallet, payout, notices, outflow, crashes>>

RetryRestore(s) ==
  /\ At(s, "restore")
  /\ LET r == session[s].req IN
       IF request[r].status \in InFlow /\ HasFrozen(r)
       THEN /\ Return(r)
            /\ SetRequest(r, "failed")
            /\ SetTxn(r, "failed", FailureData(r, txn[r].data))
       ELSE UNCHANGED <<wallet, request, txn>>
  /\ Done(s)
  /\ UNCHANGED <<payout, notices, outflow, crashes>>

\* A handler dies, or its client goes away: an open transaction rolls back.  The worker
\* also loses its list.
Crash(s) ==
  /\ session[s] # Idle
  /\ crashes < MaxCrashes
  /\ crashes' = crashes + 1
  /\ Done(s)
  /\ batch' = [r \in IF s = Worker THEN {} ELSE DOMAIN batch |-> batch[r]]
  /\ UNCHANGED <<wallet, request, txn, payout, notices, outflow>>
-----------------------------------------------------------------------------
Review(s) ==
  \/ ReviewApprove(s) \/ ReviewReject(s) \/ ReviewMarkProcessing(s)
  \/ ReviewComplete(s) \/ ReviewExecuted(s) \/ ReviewRefused(s)
Submit(s) ==
  PayoutAccepted(s) \/ PayoutPaidAtOnce(s) \/ PayoutRefused(s) \/ PayoutError(s)
Finish(s) ==
  \/ CallbackSettleRead(s) \/ SettleRead(s) \/ Settle(s) \/ FailRead(s) \/ Fail(s)
  \/ CallbackFailRead(s) \/ CallbackFail(s)
Refresh(s) == RefreshQuery(s) \/ ProgressRecord(s) \/ ProgressData(s)
Retry(s) == RetryHold(s) \/ RetryReload(s) \/ RetryRestore(s)
Step(s) == Review(s) \/ Submit(s) \/ Finish(s) \/ Refresh(s) \/ Retry(s)

\* What happens to a request behind the back of its checks, remembered for the properties.

\* The status check the next statement rests on still holds.
StillHolds(s) ==
  LET x == session[s]
      st == request[x.req].status
  IN /\ x.at \in {"approve", "reject"} => st = "pending_review"
     /\ x.at \in {"mark_processing", "executed"} => st = "pending_transfer"
     /\ x.at \in {"complete", "fail", "settle"} => st \in InFlow
     /\ x.at = "progress_record" /\ x.seen = "pending_transfer" => st \in InFlow

\* The step writes rows or reaches the gateway.
Acts == <<wallet, request, txn, payout>>' # <<wallet, request, txn, payout>>

\* overtaken: the statement ran although its check no longer held; stale_write: it ran on a
\* request that another had changed meanwhile; paid_at_once: the answer of the gateway made
\* it a success; misled: the answer was lost (or, above, a notice was late).
Mishaps(s) ==
  {k \in {"overtaken", "stale_write", "paid_at_once", "misled"} :
     /\ Acts
     /\ k = "overtaken" => s \in stale /\ ~ StillHolds(s)
     /\ k = "stale_write" => s \in stale /\ ~ At(s, "retry")
     /\ k = "paid_at_once" => At(s, "executed") /\ session[s].seen = "success"
     /\ k = "misled" => At(s, "call") /\ session'[s].at \in {"idle", "restore"}}

\* A change makes the other sessions on the request stale.  A retry reads everything again
\* under the locks.
Others(s) == {t \in Sessions \ {s} : session[t] # Idle /\ session[t].req = session[s].req}
Fresh(s) == IF session'[s] = Idle \/ At(s, "retry") THEN {s} ELSE {}

Remember(s) ==
  LET r == session[s].req
  IN /\ stale' = (stale \ Fresh(s)) \cup (IF Acts THEN Others(s) ELSE {})
     /\ mishap' = mishap \cup {<<r, k>> : k \in Mishaps(s)}
     /\ tries' = IF At(s, "retry") /\ Acts THEN [tries EXCEPT ![r] = @ + 1] ELSE tries

Run(s) == Step(s) /\ UNCHANGED batch /\ Remember(s)
Die(s) == Crash(s) /\ Remember(s)

Next ==
  \/ \E r \in Requests : Withdraw(r) \/ WorkerRefresh(r) \/ WorkerRetry(r)
  \/ WorkerList
  \/ \E a \in Accounts, n \in SpendAmounts : Spend(a, n)
  \/ \E s \in Handlers, r \in Requests :
       \/ \E action \in AdminActions : ReviewWithdraw(s, r, action)
       \/ \E result \in {"paid", "failed"} : GatewayCallback(s, r, result)
  \/ \E r \in Requests, result \in {"paid", "failed"} : GatewayResolve(r, result)
  \/ \E s \in Sessions : Run(s) \/ Die(s)

Spec == Init /\ [][Next]_vars

\* A handler that has started runs on, the worker's ticker keeps firing, and the
\* gateway ends what it accepted.  Nothing is assumed of users and operators.
Fairness ==
  /\ \A s \in Sessions : WF_vars(Run(s))
  /\ SF_vars(WorkerList)
  /\ \A r \in Requests :
       /\ SF_vars(WorkerRefresh(r)) /\ SF_vars(WorkerRetry(r))
       /\ WF_vars(\E result \in {"paid", "failed"} : GatewayResolve(r, result))
FairSpec == Spec /\ Fairness
-----------------------------------------------------------------------------
\* Type invariant: no account column ever becomes negative, whatever is stale
\* (ReviewWithdraw, retryWithdrawPayout, failWithdrawByCallbackTxWithPayload).
TypeOK ==
  /\ wallet \in [Accounts -> [balance : Nat, frozen : Nat, total : Nat]]
  /\ request \in [Requests -> Row]
  /\ txn \in [Requests -> [status : TxnStatus, data : Data]]
  /\ payout \in [Requests -> PayoutState]
  /\ notices \subseteq Notice
  /\ session \in [Sessions -> Busy \cup {Idle}]
  /\ batch \in UNION {[listed -> Row] : listed \in SUBSET Requests}
  /\ crashes \in 0 .. MaxCrashes
  /\ outflow \in [Accounts -> [withdrawn : Nat, spent : Nat]]
  /\ stale \subseteq Sessions
  /\ mishap \subseteq Requests \X Mishap
  /\ tries \in [Requests -> Nat]

\* The columns of an account agree, and no money appears or is lost on the way
\* between the balance, the frozen balance and the gateway, however many handlers
\* work on its requests at once (UpdateWalletAccountWithVersionTx and its callers).
MoneyConserved ==
  \A a \in Accounts :
    /\ wallet[a].total = wallet[a].balance + wallet[a].frozen
    /\ wallet[a].total + outflow[a].withdrawn + outflow[a].spent = Deposit[a]

\* The only request of its account: no other hold can be mistaken for its own.
Lone(r) == \A q \in Requests : Owner[q] = Owner[r] => q = r

\* The check of the frozen balance is the last line of defence against a stale
\* status: racing approvals, completions, failure notices and retries of a request
\* that is alone on its account never release its amount twice, and its failure is
\* never recorded while the money is held or gone (ReviewWithdraw,
\* completeWithdrawByCallbackTx, failWithdrawByCallbackTxWithPayload, retryWithdrawPayout).
LonePaysOnce ==
  \A r \in Requests : Lone(r) =>
    /\ outflow[Owner[r]].withdrawn \in {0, Amount[r]}
    /\ request[r].status \in {"failed", "rejected"} =>
         wallet[Owner[r]].frozen = 0 /\ outflow[Owner[r]].withdrawn = 0

\* The statuses under which the amount of a request is set aside.
Holding == {"pending_review"} \cup InFlow
HoldingOf(a) == {r \in Requests : Owner[r] = a /\ request[r].status \in Holding}

Befell(r, kinds) == \E k \in kinds : <<r, k>> \in mishap

\* The accounts whose books a known defect has touched: a statement ran on one of its
\* requests although another handler had made its status check false, or execute wrote
\* success without releasing the amount.
Spoiled == {Owner[r] : r \in {q \in Requests : Befell(q, {"overtaken", "paid_at_once"})}}

\* The frozen balance of an account is exactly the sum of its open requests: it is
\* one number for all of them, and no statement ever compares it with the rows.  It stays
\* so through racing handlers, stale copies, crashes and retries, until a statement is
\* overtaken or a payout is answered as paid at once
\* (wallet_accounts.frozen_balance and withdraw_requests.status).
HoldMatchesStatus ==
  \A a \in Accounts \ Spoiled :
    wallet[a].frozen = MapThenSumSet(LAMBDA r : Amount[r], HoldingOf(a))

\* The request and its transaction are written by different statements; users see
\* the status of the one or the other.  They agree under the same conditions
\* (UpdateWalletTransactionStatusTx and the requestUpdates of ReviewWithdraw).
TxnFollowsRequest ==
  \A r \in Requests : ~ Befell(r, {"overtaken", "paid_at_once"}) =>
    <<request[r].status, txn[r].status>> \in
      {<<"none", "none">>, <<"pending_review", "pending_review">>,
       <<"pending_transfer", "processing">>, <<"transferring", "processing">>,
       <<"rejected", "failed">>, <<"success", "success">>, <<"failed", "failed">>}

\* Between the user and the gateway: the platform keeps the money only of a payout
\* the gateway made, and gives back only the money of one it did not make, unless a reply
\* was lost or a notice late, an operator ended the payout by hand, or a statement acted on
\* a request that another handler had changed since it was read
\* (executeWithdrawPayout, refreshWithdrawGatewayStatus, RecordCallback).
PaidXorReturned ==
  \A r \in Requests : ~ Befell(r, {"misled", "by_hand", "stale_write"}) =>
    /\ request[r].status = "success" => payout[r] = "paid"
    /\ request[r].status \in {"rejected", "failed"} => payout[r] \in {"none", "failed"}

\* The worker gives up: it never tries a payout more often than the budget, whatever fails
\* in between, unless an operator sent it again or reset its data, or a stale write lost
\* the count (buildWithdrawRetryFailurePayload, RunWithdrawGatewayReconcileCycle).
AutoRetryBudget ==
  \A r \in Requests : ~ Befell(r, {"reset", "stale_write"}) => tries[r] <= MaxRetry

\* What the gateway works on is settled in the end, with no callback and no operator:
\* the worker asks until it has the result and applies it, as long as the account still
\* holds the money (StartWithdrawGatewayReconcileWorker, refreshWithdrawGatewayStatus).
WorkerSettles ==
  \A r \in Requests :
    request[r].status = "transferring" /\ payout[r] # "none"
      ~> request[r].status \in Settled \/ Owner[r] \in Spoiled

-----------------------------------------------------------------------------
\* What is promised (WithdrawEscrow), read off the account and the request.
StageOf(r) ==
  IF request[r].status \in Holding THEN "held"
  ELSE IF request[r].status = "success" THEN "paid" ELSE request[r].status

Escrow == INSTANCE WithdrawEscrow WITH
  free <- [a \in Accounts |-> wallet[a].balance],
  stage <- [r \in Requests |-> StageOf(r)],
  spoiled <- Spoiled

\* Withdrawals keep that promise, step by step, for every account until it is spoiled
\* (Withdraw, ReviewWithdraw, the callbacks and the worker against WithdrawEscrow).
ImplementsEscrow == Escrow!Spec
=============================================================================
