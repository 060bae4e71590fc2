------------------------ MODULE WalletWithdrawProofs ------------------------
(***************************************************************************)
(* Theorems about WalletWithdraw for every set of accounts, requests and   *)
(* handlers, every amount and every bound.                                 *)
(***************************************************************************)
EXTENDS WalletWithdraw, SetSums, TLAPS

USE DEF Row

WalletType == [Accounts -> [balance : Nat, frozen : Nat, total : Nat]]
OutflowType == [Accounts -> [withdrawn : Nat, spent : Nat]]

\* What a statement may do to the accounts: nothing, or one of four movements of money.
Moves ==
  \/ UNCHANGED <<wallet, outflow>>
  \/ \E r \in Requests :
       \/ CanHold(r) /\ Hold(r) /\ UNCHANGED outflow
       \/ HasFrozen(r) /\ Return(r) /\ UNCHANGED outflow
       \/ HasFrozen(r) /\ Release(r)
  \/ \E a \in Accounts, n \in SpendAmounts : Spend(a, n)

\* A session that is about to run a statement is busy with a request.
LEMMA BusySession ==
  ASSUME TypeOK, NEW s \in Sessions, NEW p \in Points, At(s, p)
  PROVE  session[s] \in Busy /\ session[s].req \in Requests
  BY DEF TypeOK, At, Points, Busy, Idle

\* A running session is busy with a request.
LEMMA StepBusy ==
  ASSUME TypeOK, NEW s \in Sessions, Step(s) \/ Crash(s)
  PROVE  session[s] \in Busy /\ session[s] # Idle /\ session[s].req \in Requests
<1>1. CASE \E p \in Points : At(s, p)
  BY <1>1, BusySession DEF Busy, Idle, Points
<1>2. CASE Crash(s)
  BY <1>2 DEF Crash, TypeOK, Busy
<1>3. Review(s) \/ Submit(s) => \E p \in Points : At(s, p)
  BY DEF Review, ReviewApprove, ReviewReject, ReviewMarkProcessing, ReviewComplete,
         ReviewExecuted, ReviewRefused, Submit, PayoutAccepted, PayoutPaidAtOnce,
         PayoutRefused, PayoutError, Points
<1>4. Finish(s) => \E p \in Points : At(s, p)
  BY DEF Finish, CallbackSettleRead, SettleRead, Settle, FailRead, Fail, CallbackFailRead,
         CallbackFail, Points
<1>5. Refresh(s) \/ Retry(s) => \E p \in Points : At(s, p)
  BY DEF Refresh, RefreshQuery, ProgressRecord, ProgressData, Retry, RetryHold, RetryReload,
         RetryRestore, Points
<1> QED BY <1>1, <1>2, <1>3, <1>4, <1>5 DEF Step

\* Every step of the system moves money in one of these ways.
LEMMA StepMoves == TypeOK /\ Next => Moves
<1> SUFFICES ASSUME TypeOK, Next PROVE Moves OBVIOUS
<1> USE DEF Moves
<1>1. ASSUME NEW r \in Requests, Withdraw(r) \/ WorkerRefresh(r) \/ WorkerRetry(r)
      PROVE Moves
  BY <1>1 DEF Withdraw, WorkerRefresh, WorkerRetry
<1>6. CASE WorkerList
  BY <1>6 DEF WorkerList
<1>2. ASSUME NEW a \in Accounts, NEW n \in SpendAmounts, Spend(a, n) PROVE Moves
  BY <1>2
<1>3. ASSUME NEW s \in Handlers, NEW r \in Requests,
             \/ \E action \in AdminActions : ReviewWithdraw(s, r, action)
             \/ \E result \in {"paid", "failed"} : GatewayCallback(s, r, result)
      PROVE Moves
  BY <1>3 DEF ReviewWithdraw, GatewayCallback
<1>4. ASSUME NEW r \in Requests, NEW result \in {"paid", "failed"}, GatewayResolve(r, result)
      PROVE Moves
  BY <1>4 DEF GatewayResolve
<1>5. ASSUME NEW s \in Sessions, Step(s) \/ Crash(s) PROVE Moves
  <2> DEFINE r == session[s].req
  <2>1. ASSUME NEW p \in Points, At(s, p) PROVE r \in Requests
    BY <2>1, BusySession
  <2>2. CASE Review(s)
    <3>1. CASE ReviewReject(s)
      BY <3>1, <2>1 DEF ReviewReject, Points
    <3>2. CASE ReviewComplete(s)
      BY <3>2, <2>1 DEF ReviewComplete, Points
    <3>3. CASE ReviewApprove(s) \/ ReviewMarkProcessing(s) \/ ReviewExecuted(s) \/ ReviewRefused(s)
      BY <3>3 DEF ReviewApprove, ReviewMarkProcessing, ReviewExecuted, ReviewRefused
    <3> QED BY <2>2, <3>1, <3>2, <3>3 DEF Review
  <2>3. CASE Submit(s)
    BY <2>3 DEF Submit, PayoutAccepted, PayoutPaidAtOnce, PayoutRefused, PayoutError
  <2>4. CASE Finish(s)
    <3>1. CASE Settle(s)
      BY <3>1, <2>1 DEF Settle, Points
    <3>2. CASE Fail(s)
      BY <3>2, <2>1 DEF Fail, Failed, Points
    <3>3. CASE CallbackFail(s)
      BY <3>3, <2>1 DEF CallbackFail, Failed, Points
    <3>4. CASE CallbackSettleRead(s) \/ SettleRead(s) \/ FailRead(s) \/ CallbackFailRead(s)
      BY <3>4 DEF CallbackSettleRead, SettleRead, FailRead, CallbackFailRead
    <3> QED BY <2>4, <3>1, <3>2, <3>3, <3>4 DEF Finish
  <2>5. CASE Refresh(s)
    BY <2>5 DEF Refresh, RefreshQuery, ProgressRecord, ProgressData
  <2>6. CASE Retry(s)
    <3>1. CASE RetryHold(s)
      BY <3>1, <2>1 DEF RetryHold, Points
    <3>2. CASE RetryReload(s)
      BY <3>2 DEF RetryReload
    <3>3. CASE RetryRestore(s)
      BY <3>3, <2>1 DEF RetryRestore, Points
    <3> QED BY <2>6, <3>1, <3>2, <3>3 DEF Retry
  <2>7. CASE Crash(s)
    BY <2>7 DEF Crash
  <2> QED BY <1>5, <2>2, <2>3, <2>4, <2>5, <2>6, <2>7 DEF Step
<1> QED BY <1>1, <1>2, <1>3, <1>4, <1>5, <1>6 DEF Next, Run, Die
-----------------------------------------------------------------------------
\* The type of an account and of its outflow, kept by every movement.
LEMMA MovesKeepType ==
  ASSUME wallet \in WalletType, outflow \in OutflowType, Moves
  PROVE  wallet' \in WalletType /\ outflow' \in OutflowType
<1>1. CASE UNCHANGED <<wallet, outflow>>
  BY <1>1
<1>2. ASSUME NEW r \in Requests, CanHold(r), Hold(r), UNCHANGED outflow
      PROVE wallet' \in WalletType /\ outflow' \in OutflowType
  BY <1>2, ConstantsOK DEF ConstantsOK, CanHold, Hold, WalletType
<1>3. ASSUME NEW r \in Requests, HasFrozen(r), Return(r), UNCHANGED outflow
      PROVE wallet' \in WalletType /\ outflow' \in OutflowType
  BY <1>3, ConstantsOK DEF ConstantsOK, HasFrozen, Return, WalletType
<1>4. ASSUME NEW r \in Requests, HasFrozen(r), Release(r)
      PROVE wallet' \in WalletType /\ outflow' \in OutflowType
  BY <1>4, ConstantsOK DEF ConstantsOK, HasFrozen, Release, WalletType, OutflowType
<1>5. ASSUME NEW a \in Accounts, NEW n \in SpendAmounts, Spend(a, n)
      PROVE wallet' \in WalletType /\ outflow' \in OutflowType
  <2>0. n \in Nat /\ wallet[a].balance >= n
    BY <1>5, ConstantsOK DEF ConstantsOK, Spend
  <2>1. wallet' = [wallet EXCEPT ![a] =
          [balance |-> @.balance - n, frozen |-> @.frozen,
           total |-> @.balance - n + @.frozen]]
    BY <1>5 DEF Spend
  <2>2. outflow' = [outflow EXCEPT ![a].spent = @ + n]
    BY <1>5 DEF Spend
  <2>3. wallet' \in WalletType
    BY <2>0, <2>1 DEF WalletType
  <2>4. outflow' \in OutflowType
    BY <2>0, <2>2 DEF OutflowType
  <2> QED BY <2>3, <2>4
<1> QED BY <1>1, <1>2, <1>3, <1>4, <1>5 DEF Moves

\* Every movement keeps the books of every account.
LEMMA MovesConserve ==
  ASSUME wallet \in WalletType, outflow \in OutflowType, MoneyConserved, Moves
  PROVE  MoneyConserved'
<1> SUFFICES ASSUME NEW a \in Accounts
    PROVE /\ wallet'[a].total = wallet'[a].balance + wallet'[a].frozen
          /\ wallet'[a].total + outflow'[a].withdrawn + outflow'[a].spent = Deposit[a]
  BY DEF MoneyConserved
<1> DEFINE Kept ==
      /\ wallet'[a].total = wallet'[a].balance + wallet'[a].frozen
      /\ wallet'[a].total + outflow'[a].withdrawn + outflow'[a].spent = Deposit[a]
<1>0. /\ wallet[a].total = wallet[a].balance + wallet[a].frozen
      /\ wallet[a].total + outflow[a].withdrawn + outflow[a].spent = Deposit[a]
      /\ wallet[a] \in [balance : Nat, frozen : Nat, total : Nat]
      /\ outflow[a] \in [withdrawn : Nat, spent : Nat]
      /\ Deposit[a] \in Nat
  BY ConstantsOK DEF MoneyConserved, WalletType, OutflowType, ConstantsOK
<1>1. CASE UNCHANGED <<wallet, outflow>>
  BY <1>1, <1>0
<1>2. ASSUME NEW r \in Requests, CanHold(r), Hold(r), UNCHANGED outflow PROVE Kept
  BY <1>0, <1>2, ConstantsOK DEF ConstantsOK, CanHold, Hold, WalletType
<1>3. ASSUME NEW r \in Requests, HasFrozen(r), Return(r), UNCHANGED outflow PROVE Kept
  BY <1>0, <1>3, ConstantsOK DEF ConstantsOK, HasFrozen, Return, WalletType
<1>4. ASSUME NEW r \in Requests, HasFrozen(r), Release(r) PROVE Kept
  BY <1>0, <1>4, ConstantsOK DEF ConstantsOK, HasFrozen, Release, WalletType, OutflowType
<1>5. ASSUME NEW b \in Accounts, NEW n \in SpendAmounts, Spend(b, n) PROVE Kept
  BY <1>0, <1>5, ConstantsOK DEF ConstantsOK, Spend, WalletType, OutflowType
<1> QED BY <1>1, <1>2, <1>3, <1>4, <1>5 DEF Moves
-----------------------------------------------------------------------------
\* Type correctness.

SessionType == [Sessions -> Busy \cup {Idle}]
RequestType == [Requests -> [status : ReqStatus, ref : BOOLEAN]]
TxnType == [Requests -> [status : TxnStatus, data : Data]]

\* The builders of response_data keep its type.
LEMMA DataTypes ==
  /\ NoData \in Data
  /\ \A r \in Requests, d \in Data :
       /\ SubmittedData(r, d) \in Data
       /\ FailureData(r, d) \in Data
       /\ ExecutionData(r, d) \in Data
       /\ [d EXCEPT !.submitted = TRUE] \in Data
<1>1. NoData \in Data
  BY DEF NoData, Data
<1>2. ASSUME NEW r \in Requests, NEW d \in Data
      PROVE  /\ SubmittedData(r, d) \in Data
             /\ FailureData(r, d) \in Data
             /\ ExecutionData(r, d) \in Data
             /\ [d EXCEPT !.submitted = TRUE] \in Data
  <2>1. [d EXCEPT !.submitted = TRUE] \in Data
    BY DEF Data
  <2>2. ASSUME NEW b \in BOOLEAN PROVE [d EXCEPT !.due = b] \in Data
    BY DEF Data
  <2>3. [d EXCEPT !.retries = @ + 1, !.due = FALSE] \in Data
    <3>1. d.retries + 1 \in Nat
      BY DEF Data
    <3> QED BY <3>1, Zenon DEF Data
  <2>4. [d EXCEPT !.due = FALSE, !.submitted = TRUE] \in Data
    BY DEF Data
  <2>5. (d.retries < MaxRetry) \in BOOLEAN
    BY ConstantsOK DEF ConstantsOK, Data
  <2> QED BY <2>1, <2>2, <2>3, <2>4, <2>5, Zenon DEF SubmittedData, FailureData, ExecutionData
<1> QED BY <1>1, <1>2

\* The control statements keep the type of the sessions.
LEMMA SessionTypes ==
  ASSUME session \in SessionType, NEW s \in Sessions, session[s] \in Busy
  PROVE  /\ Done(s) => session' \in SessionType
         /\ \A p \in Points : GoTo(s, p) => session' \in SessionType
         /\ Abort(s) => session' \in SessionType
<1>1. Done(s) => session' \in SessionType
  BY DEF Done, SessionType
<1>2. ASSUME NEW p \in Points, GoTo(s, p) PROVE session' \in SessionType
  <2>1. [session[s] EXCEPT !.at = p] \in Busy
    BY <1>2 DEF Busy
  <2> QED BY <1>2, <2>1 DEF GoTo, SessionType
<1>3. Abort(s) => session' \in SessionType
  BY <1>1, <1>2 DEF Abort, Points
<1> QED BY <1>1, <1>2, <1>3

LEMMA OpenType ==
  ASSUME TypeOK, NEW s \in Sessions, NEW r \in Requests, NEW p \in Points, NEW st \in ReqStatus,
         Open(s, r, p, st)
  PROVE  session' \in SessionType
<1> DEFINE new == [at |-> p, req |-> r, seen |-> st,
                   data |-> IF p \in UsesData THEN txn[r].data ELSE NoData, again |-> FALSE]
<1>1. txn[r].data \in Data /\ NoData \in Data
  BY DataTypes DEF TypeOK
<1>2. new \in Busy
  BY <1>1 DEF Busy
<1>3. session' = [session EXCEPT ![s] = new]
  BY DEF Open
<1> QED BY <1>2, <1>3 DEF TypeOK, SessionType

\* A copy in the worker's list is a row of a request.
LEMMA CopyType ==
  ASSUME TypeOK, NEW r \in DOMAIN batch
  PROVE  r \in Requests /\ batch[r] \in Row
<1>1. PICK listed \in SUBSET Requests : batch \in [listed -> Row]
  BY DEF TypeOK
<1> QED BY <1>1

LEMMA PointTypes ==
  /\ \A action \in AdminActions : PointOf(action) \in Points
  /\ "query" \in Points /\ "retry" \in Points
<1> SUFFICES ASSUME NEW action \in AdminActions PROVE PointOf(action) \in Points
  BY DEF Points
<1>1. action \in AllActions
  BY ConstantsOK DEF ConstantsOK
<1> QED BY <1>1 DEF AllActions, PointOf, Points

\* The rows, the gateway and the sessions; the accounts follow from StepMoves.
RowsType ==
  /\ request \in RequestType
  /\ txn \in TxnType
  /\ payout \in [Requests -> PayoutState]
  /\ notices \subseteq Notice
  /\ session \in SessionType
  /\ crashes \in 0 .. MaxCrashes

\* The worker's list and what is remembered.
PastType ==
  /\ batch \in UNION {[listed -> Row] : listed \in SUBSET Requests}
  /\ stale \subseteq Sessions
  /\ mishap \subseteq Requests \X Mishap
  /\ tries \in [Requests -> Nat]

LEMMA TypeParts ==
  TypeOK <=> wallet \in WalletType /\ outflow \in OutflowType /\ RowsType /\ PastType
  BY DEF TypeOK, WalletType, OutflowType, RowsType, PastType, RequestType, TxnType, SessionType

\* The writes of one row keep its type.
LEMMA RowTypes ==
  ASSUME RowsType, NEW r \in Requests
  PROVE  /\ \A st \in ReqStatus : SetRequest(r, st) => request' \in RequestType
         /\ \A st \in ReqStatus, b \in BOOLEAN :
              request' = [request EXCEPT ![r] = [status |-> st, ref |-> b]]
                => request' \in RequestType
         /\ \A st \in TxnStatus, d \in Data : SetTxn(r, st, d) => txn' \in TxnType
         /\ \A d \in Data : txn' = [txn EXCEPT ![r].data = d] => txn' \in TxnType
<1>1. request \in RequestType /\ txn \in TxnType
  BY DEF RowsType
<1>2. ASSUME NEW st \in ReqStatus, NEW b \in BOOLEAN,
             request' = [request EXCEPT ![r] = [status |-> st, ref |-> b]]
      PROVE  request' \in RequestType
  BY <1>1, <1>2 DEF RequestType
<1>3. ASSUME NEW st \in ReqStatus, SetRequest(r, st) PROVE request' \in RequestType
  <2>1. [request[r] EXCEPT !.status = st] \in [status : ReqStatus, ref : BOOLEAN]
    BY <1>1 DEF RequestType
  <2> QED BY <1>1, <1>3, <2>1 DEF RequestType, SetRequest
<1>4. ASSUME NEW st \in TxnStatus, NEW d \in Data, SetTxn(r, st, d) PROVE txn' \in TxnType
  BY <1>1, <1>4 DEF TxnType, SetTxn
<1>5. ASSUME NEW d \in Data, txn' = [txn EXCEPT ![r].data = d] PROVE txn' \in TxnType
  <2>1. [txn[r] EXCEPT !.data = d] \in [status : TxnStatus, data : Data]
    BY <1>1 DEF TxnType
  <2> QED BY <1>1, <1>5, <2>1 DEF TxnType
<1> QED BY <1>2, <1>3, <1>4, <1>5

LEMMA StartType ==
  ASSUME TypeOK,
         NEW r \in Requests,
         \/ Withdraw(r) \/ WorkerRefresh(r) \/ WorkerRetry(r)
         \/ \E s \in Handlers :
              \/ \E action \in AdminActions : ReviewWithdraw(s, r, action)
              \/ \E result \in {"paid", "failed"} : GatewayCallback(s, r, result)
         \/ \E result \in {"paid", "failed"} : GatewayResolve(r, result)
  PROVE  RowsType'
<1> RowsType
  BY TypeParts
<1>1. CASE Withdraw(r)
  BY <1>1, RowTypes, DataTypes DEF Withdraw, RowsType, ReqStatus, TxnStatus
<1>2. CASE WorkerRefresh(r) \/ WorkerRetry(r)
  <2>1. session' \in SessionType
    <3>1. "none" \in ReqStatus /\ Worker \in Sessions /\ session \in SessionType
      BY DEF ReqStatus, Sessions, RowsType
    <3>2. CASE WorkerRefresh(r)
      <4>1. r \in DOMAIN batch
        BY <3>2 DEF WorkerRefresh
      <4>2. batch[r].status \in ReqStatus
        BY <4>1, CopyType
      <4>3. Open(Worker, r, "query", batch[r].status) \/ UNCHANGED session
        BY <3>2 DEF WorkerRefresh
      <4> QED BY <3>1, <4>2, <4>3, OpenType, PointTypes
    <3>3. CASE WorkerRetry(r)
      BY <3>1, <3>3, OpenType, PointTypes DEF WorkerRetry
    <3> QED BY <1>2, <3>2, <3>3
  <2> QED BY <1>2, <2>1 DEF WorkerRefresh, WorkerRetry, RowsType
<1>3. ASSUME NEW s \in Handlers, NEW action \in AdminActions, ReviewWithdraw(s, r, action)
      PROVE RowsType'
  <2>1. session' \in SessionType
    <3>1. "none" \in ReqStatus /\ request[r].status \in ReqStatus /\ s \in Sessions
      BY DEF ReqStatus, Sessions, RowsType, RequestType
    <3>2. \E st \in ReqStatus : Open(s, r, PointOf(action), st)
      BY <1>3, <3>1 DEF ReviewWithdraw
    <3> QED BY <3>1, <3>2, OpenType, PointTypes
  <2> QED BY <1>3, <2>1 DEF ReviewWithdraw, RowsType
<1>4. ASSUME NEW s \in Handlers, NEW result \in {"paid", "failed"}, GatewayCallback(s, r, result)
      PROVE RowsType'
  <2>1. session' \in SessionType
    BY <1>4, OpenType DEF GatewayCallback, Sessions, Points, ReqStatus
  <2> QED BY <1>4, <2>1 DEF GatewayCallback, RowsType
<1>5. ASSUME NEW result \in {"paid", "failed"}, GatewayResolve(r, result) PROVE RowsType'
  BY <1>5 DEF GatewayResolve, RowsType, PayoutState, Notice
<1> QED BY <1>1, <1>2, <1>3, <1>4, <1>5

LEMMA ReviewType ==
  ASSUME TypeOK, NEW s \in Sessions, Review(s) PROVE RowsType'
<1> DEFINE r == session[s].req
<1>0. RowsType /\ session[s] \in Busy /\ r \in Requests
  <2>1. \E p \in Points : At(s, p)
    BY DEF Review, ReviewApprove, ReviewReject, ReviewMarkProcessing, ReviewComplete,
           ReviewExecuted, ReviewRefused, Points
  <2> QED BY <2>1, TypeParts, BusySession
<1>1. Done(s) => session' \in SessionType
  BY <1>0, SessionTypes DEF RowsType
<1>2. NoData \in Data /\ ExecutionData(r, session[s].data) \in Data /\ session[s].seen \in ReqStatus
  BY <1>0, DataTypes DEF Busy
<1>3. CASE ReviewApprove(s)
  BY <1>0, <1>1, <1>2, <1>3, RowTypes DEF ReviewApprove, RowsType, ReqStatus, TxnStatus, InFlow
<1>4. CASE ReviewReject(s)
  BY <1>0, <1>1, <1>2, <1>4, RowTypes DEF ReviewReject, RowsType, ReqStatus, TxnStatus
<1>5. CASE ReviewMarkProcessing(s)
  <2>1. \A entered \in BOOLEAN : (request[r].ref \/ entered) \in BOOLEAN
    BY <1>0 DEF RowsType, RequestType
  <2>2. PICK entered \in BOOLEAN :
          request' = [request EXCEPT ![r] =
            [status |-> "transferring", ref |-> request[r].ref \/ entered]]
    BY <1>5 DEF ReviewMarkProcessing
  <2>3. request' \in RequestType
    BY <1>0, <2>1, <2>2, RowTypes DEF ReqStatus, InFlow
  <2> QED BY <1>0, <1>1, <1>2, <1>5, <2>3, RowTypes DEF ReviewMarkProcessing, RowsType, TxnStatus
<1>6. CASE ReviewComplete(s)
  BY <1>0, <1>1, <1>2, <1>6, RowTypes DEF ReviewComplete, RowsType, ReqStatus, TxnStatus
<1>7. CASE ReviewExecuted(s)
  BY <1>0, <1>1, <1>2, <1>7, RowTypes DEF ReviewExecuted, RowsType, TxnStatus
<1>8. CASE ReviewRefused(s)
  BY <1>0, <1>1, <1>8 DEF ReviewRefused, RowsType
<1> QED BY <1>3, <1>4, <1>5, <1>6, <1>7, <1>8 DEF Review

LEMMA SubmitType ==
  ASSUME TypeOK, NEW s \in Sessions, Submit(s) PROVE RowsType'
<1> DEFINE r == session[s].req
<1>0. RowsType /\ session[s] \in Busy /\ r \in Requests
  <2>1. At(s, "call") /\ "call" \in Points
    BY DEF Submit, PayoutAccepted, PayoutPaidAtOnce, PayoutRefused, PayoutError, Points
  <2> QED BY <2>1, TypeParts, BusySession
<1>1. \A st \in ReqStatus : Replied(s, "executed", st) => session' \in SessionType
  <2> SUFFICES ASSUME NEW st \in ReqStatus, Replied(s, "executed", st)
               PROVE  session' \in SessionType
    OBVIOUS
  <2>1. [session[s] EXCEPT !.at = "executed", !.seen = st] \in Busy
    BY <1>0 DEF Busy, Points
  <2>2. session' = [session EXCEPT ![s] = [session[s] EXCEPT !.at = "executed", !.seen = st]]
    BY <1>0 DEF Replied, RowsType, SessionType
  <2> QED BY <1>0, <2>1, <2>2 DEF RowsType, SessionType
<1>2. \A p \in PayoutState : [payout EXCEPT ![r] = p] \in [Requests -> PayoutState]
  BY <1>0 DEF RowsType
<1>3. CASE PayoutAccepted(s)
  BY <1>0, <1>1, <1>2, <1>3 DEF PayoutAccepted, RowsType, ReqStatus, InFlow, PayoutState
<1>4. CASE PayoutPaidAtOnce(s)
  <2>1. notices' \subseteq Notice
    BY <1>0, <1>4 DEF PayoutPaidAtOnce, RowsType, Notice
  <2> QED BY <1>0, <1>1, <1>2, <1>4, <2>1
          DEF PayoutPaidAtOnce, RowsType, ReqStatus, PayoutState
<1>5. CASE PayoutRefused(s)
  <2>1. [session[s].data EXCEPT !.submitted = TRUE] \in Data
    BY <1>0, DataTypes DEF Busy
  <2>2. session' \in SessionType
    BY <1>0, <1>5, <2>1 DEF PayoutRefused, RowsType, SessionType, Busy, Points
  <2> QED BY <1>0, <1>2, <1>5, <2>2 DEF PayoutRefused, RowsType, PayoutState
<1>6. CASE PayoutError(s)
  <2>1. session' \in SessionType
    BY <1>0, <1>6, SessionTypes DEF PayoutError, RowsType
  <2> QED BY <1>0, <1>2, <1>6, <2>1 DEF PayoutError, RowsType, PayoutState
<1> QED BY <1>3, <1>4, <1>5, <1>6 DEF Submit
LEMMA FinishType ==
  ASSUME TypeOK, NEW s \in Sessions, Finish(s) PROVE RowsType'
<1> DEFINE r == session[s].req
<1>0. RowsType /\ session[s] \in Busy /\ r \in Requests
  <2>1. \E p \in Points : At(s, p)
    BY DEF Finish, CallbackSettleRead, SettleRead, Settle, FailRead, Fail, CallbackFailRead,
           CallbackFail, Points
  <2> QED BY <2>1, TypeParts, BusySession
<1>1. /\ Done(s) => session' \in SessionType
      /\ Abort(s) => session' \in SessionType
      /\ \A p \in Points : GoTo(s, p) => session' \in SessionType
  BY <1>0, SessionTypes DEF RowsType
<1>2. ASSUME NEW p \in Points, session' = [session EXCEPT ![s].at = p, ![s].data = txn[r].data]
      PROVE session' \in SessionType
  <2>1. txn[r].data \in Data
    BY <1>0 DEF RowsType, TxnType
  <2>2. [session[s] EXCEPT !.at = p, !.data = txn[r].data] \in Busy
    BY <1>0, <2>1 DEF Busy
  <2>3. session' = [session EXCEPT ![s] = [session[s] EXCEPT !.at = p, !.data = txn[r].data]]
    BY <1>0, <1>2 DEF RowsType, SessionType
  <2> QED BY <1>0, <2>2, <2>3 DEF RowsType, SessionType
<1>3. ASSUME Failed(s, r) PROVE request' \in RequestType /\ txn' \in TxnType /\ session' \in SessionType
  <2>1. FailureData(r, session[s].data) \in Data
    BY <1>0, DataTypes DEF Busy
  <2> QED BY <1>0, <1>1, <1>3, <2>1, RowTypes DEF Failed, ReqStatus, TxnStatus
<1>4. CASE CallbackSettleRead(s)
  BY <1>0, <1>1, <1>2, <1>4 DEF CallbackSettleRead, RowsType, Points
<1>5. CASE SettleRead(s)
  BY <1>0, <1>1, <1>5 DEF SettleRead, RowsType, Points
<1>6. CASE Settle(s)
  <2>1. session[s].data \in Data
    BY <1>0 DEF Busy
  <2> QED BY <1>0, <1>1, <1>6, <2>1, RowTypes DEF Settle, RowsType, ReqStatus, TxnStatus
<1>7. CASE FailRead(s)
  BY <1>0, <1>1, <1>7 DEF FailRead, RowsType, Points
<1>8. CASE Fail(s)
  BY <1>0, <1>1, <1>3, <1>8 DEF Fail, RowsType
<1>9. CASE CallbackFailRead(s)
  BY <1>0, <1>1, <1>2, <1>9 DEF CallbackFailRead, RowsType, Points
<1>10. CASE CallbackFail(s)
  BY <1>0, <1>1, <1>3, <1>10 DEF CallbackFail, RowsType
<1> QED BY <1>4, <1>5, <1>6, <1>7, <1>8, <1>9, <1>10 DEF Finish

LEMMA RefreshType ==
  ASSUME TypeOK, NEW s \in Sessions, Refresh(s) PROVE RowsType'
<1> DEFINE r == session[s].req
<1>0. RowsType /\ session[s] \in Busy /\ r \in Requests
  <2>1. \E p \in Points : At(s, p)
    BY DEF Refresh, RefreshQuery, ProgressRecord, ProgressData, Points
  <2> QED BY <2>1, TypeParts, BusySession
<1>1. /\ Done(s) => session' \in SessionType
      /\ \A p \in Points : GoTo(s, p) => session' \in SessionType
  BY <1>0, SessionTypes DEF RowsType
<1>2. CASE RefreshQuery(s)
  <2>1. session' \in SessionType
    BY <1>1, <1>2, Zenon DEF RefreshQuery, Points
  <2> QED BY <1>0, <1>2, <2>1 DEF RefreshQuery, RowsType
<1>3. CASE ProgressRecord(s)
  <2>1. request[r].status \in ReqStatus /\ "transferring" \in ReqStatus
    BY <1>0 DEF RowsType, RequestType, ReqStatus, InFlow
  <2>2. request' \in RequestType
    BY <1>0, <1>3, <2>1, RowTypes DEF ProgressRecord
  <2> QED BY <1>0, <1>1, <1>3, <2>2 DEF ProgressRecord, RowsType, Points
<1>4. CASE ProgressData(s)
  <2>1. [session[s].data EXCEPT !.submitted = TRUE] \in Data
    BY <1>0, DataTypes DEF Busy
  <2> QED BY <1>0, <1>1, <1>4, <2>1, RowTypes DEF ProgressData, RowsType
<1> QED BY <1>2, <1>3, <1>4 DEF Refresh

LEMMA RetryType ==
  ASSUME TypeOK, NEW s \in Sessions, Retry(s) PROVE RowsType'
<1> DEFINE r == session[s].req
<1>0. RowsType /\ session[s] \in Busy /\ r \in Requests
  <2>1. \E p \in Points : At(s, p)
    BY DEF Retry, RetryHold, RetryReload, RetryRestore, Points
  <2> QED BY <2>1, TypeParts, BusySession
<1>1. Done(s) => session' \in SessionType
  BY <1>0, SessionTypes DEF RowsType
<1>2. txn[r].data \in Data /\ request[r].status \in ReqStatus
  BY <1>0 DEF RowsType, TxnType, RequestType
<1>3. SubmittedData(r, txn[r].data) \in Data /\ FailureData(r, txn[r].data) \in Data
  BY <1>0, <1>2, DataTypes
<1>4. CASE RetryHold(s)
  <2>1. [session[s] EXCEPT !.at = "reload", !.again = TRUE] \in Busy
    BY <1>0 DEF Busy, Points
  <2>2. session' \in SessionType
    <3>1. CASE Done(s)
      BY <1>1, <3>1
    <3>2. CASE session' = [session EXCEPT ![s].at = "reload", ![s].again = TRUE]
      <4>1. session' = [session EXCEPT ![s] = [session[s] EXCEPT !.at = "reload", !.again = TRUE]]
        BY <1>0, <3>2 DEF RowsType, SessionType
      <4> QED BY <1>0, <2>1, <4>1 DEF RowsType, SessionType
    <3> QED BY <1>4, <3>1, <3>2 DEF RetryHold
  <2> QED BY <1>0, <1>3, <1>4, <2>2, RowTypes
          DEF RetryHold, RowsType, ReqStatus, InFlow, TxnStatus
<1>5. CASE RetryReload(s)
  <2> DEFINE next == IF request[r].status = "pending_transfer" THEN "call" ELSE "restore"
             new == [session[s] EXCEPT !.data = txn[r].data, !.seen = request[r].status, !.at = next]
  <2>1. next \in Points
    BY DEF Points
  <2>2. new \in Busy
    BY <1>0, <1>2, <2>1 DEF Busy
  <2>3. session' = [session EXCEPT ![s] = new]
    BY <1>0, <1>5 DEF RetryReload, RowsType, SessionType
  <2>4. session' \in SessionType
    <3> HIDE DEF new
    <3> QED BY <1>0, <2>2, <2>3 DEF RowsType, SessionType
  <2>5. UNCHANGED <<request, txn, payout, notices, crashes>>
    BY <1>5 DEF RetryReload
  <2> QED BY <1>0, <2>4, <2>5 DEF RowsType
<1>6. CASE RetryRestore(s)
  BY <1>0, <1>1, <1>3, <1>6, RowTypes DEF RetryRestore, RowsType, ReqStatus, TxnStatus
<1> QED BY <1>4, <1>5, <1>6 DEF Retry

LEMMA CrashType ==
  ASSUME TypeOK, NEW s \in Sessions, Crash(s) PROVE RowsType'
<1>1. RowsType /\ session[s] \in Busy
  BY TypeParts DEF Crash, RowsType, SessionType
<1>2. crashes' \in 0 .. MaxCrashes
  BY <1>1, ConstantsOK DEF ConstantsOK, Crash, RowsType
<1>3. session' \in SessionType
  BY <1>1, SessionTypes DEF Crash, RowsType
<1>4. UNCHANGED <<request, txn, payout, notices>>
  BY DEF Crash
<1> QED BY <1>1, <1>2, <1>3, <1>4 DEF RowsType

\* The steps that start a session or run one, by what they remember.
LEMMA PastStep ==
  ASSUME TypeOK, Next PROVE PastType'
<1>0. /\ batch \in UNION {[listed -> Row] : listed \in SUBSET Requests}
      /\ stale \subseteq Sessions /\ mishap \subseteq Requests \X Mishap
      /\ tries \in [Requests -> Nat]
      /\ request \in [Requests -> Row]
  BY DEF TypeOK
<1>1. CASE UNCHANGED <<batch, past>>
  BY <1>0, <1>1 DEF PastType, past
<1>2. CASE WorkerList
  <2> DEFINE listed == {q \in Requests : request[q].status \in InFlow /\ AutoRetry(q)}
  <2>1. batch' = [r \in listed |-> request[r]]
    BY <1>2 DEF WorkerList
  <2>2. batch' \in [listed -> Row] /\ listed \in SUBSET Requests
    BY <1>0, <2>1
  <2> HIDE DEF listed
  <2>3. batch' \in UNION {[d -> Row] : d \in SUBSET Requests}
    BY <2>2
  <2> QED BY <1>0, <1>2, <2>3 DEF WorkerList, PastType, past
<1>3. ASSUME NEW r \in Requests, WorkerRefresh(r) PROVE PastType'
  <2>1. batch' = [q \in DOMAIN batch \ {r} |-> batch[q]]
    BY <1>3 DEF WorkerRefresh
  <2>2. batch' \in [DOMAIN batch \ {r} -> Row] /\ DOMAIN batch \ {r} \in SUBSET Requests
    BY <2>1, CopyType
  <2>3. batch' \in UNION {[d -> Row] : d \in SUBSET Requests}
    BY <2>2
  <2>4. stale' \subseteq Sessions
    BY <1>0, <1>3 DEF WorkerRefresh, Sessions
  <2> QED BY <1>0, <1>3, <2>3, <2>4 DEF WorkerRefresh, PastType
<1>4. ASSUME NEW s \in Handlers, NEW r \in Requests,
             \/ \E action \in AdminActions : ReviewWithdraw(s, r, action)
             \/ \E result \in {"paid", "failed"} : GatewayCallback(s, r, result)
      PROVE  PastType'
  <2>1. mishap' \subseteq Requests \X Mishap
    BY <1>0, <1>4 DEF ReviewWithdraw, GatewayCallback, Mishap
  <2> QED BY <1>0, <1>4, <2>1 DEF ReviewWithdraw, GatewayCallback, PastType
<1>5. ASSUME NEW s \in Sessions, Run(s) \/ Die(s) PROVE PastType'
  <2>1. session[s].req \in Requests
    BY <1>5, StepBusy DEF Run, Die
  <2>2. batch' \in UNION {[d -> Row] : d \in SUBSET Requests}
    <3>1. CASE Run(s)
      BY <1>0, <3>1 DEF Run
    <3>2. CASE Die(s)
      <4> DEFINE d == IF s = Worker THEN {} ELSE DOMAIN batch
      <4>1. batch' = [r \in d |-> batch[r]]
        BY <3>2 DEF Die, Crash
      <4>2. batch' \in [d -> Row] /\ d \in SUBSET Requests
        BY <4>1, CopyType
      <4> HIDE DEF d
      <4> QED BY <4>2
    <3> QED BY <1>5, <3>1, <3>2
  <2>3. Remember(s)
    BY <1>5 DEF Run, Die
  <2>4. stale' \subseteq Sessions
    BY <1>0, <2>3 DEF Remember, Others
  <2>5. mishap' \subseteq Requests \X Mishap
    <3>1. Mishaps(s) \subseteq Mishap
      BY DEF Mishaps, Mishap
    <3> QED BY <1>0, <2>1, <2>3, <3>1 DEF Remember
  <2>6. tries' \in [Requests -> Nat]
    BY <1>0, <2>1, <2>3 DEF Remember
  <2> QED BY <2>2, <2>4, <2>5, <2>6 DEF PastType
<1> QED BY <1>1, <1>2, <1>3, <1>4, <1>5
        DEF Next, Withdraw, WorkerRetry, Spend, GatewayResolve, past

LEMMA TypeStep == TypeOK /\ [Next]_vars => TypeOK'
<1> SUFFICES ASSUME TypeOK, [Next]_vars PROVE TypeOK'
  OBVIOUS
<1>1. CASE UNCHANGED vars
  BY <1>1 DEF vars, past, TypeOK
<1>2. CASE Next
  <2>1. wallet' \in WalletType /\ outflow' \in OutflowType
    BY <1>2, StepMoves, MovesKeepType, TypeParts
  <2>2. RowsType'
    <3>1. ASSUME NEW a \in Accounts, NEW n \in SpendAmounts, Spend(a, n) PROVE RowsType'
      BY <3>1, TypeParts DEF Spend, RowsType
    <3>2. ASSUME NEW s \in Sessions, Run(s) \/ Die(s) PROVE RowsType'
      BY <3>2, ReviewType, SubmitType, FinishType, RefreshType, RetryType, CrashType
         DEF Run, Die, Step
    <3>3. CASE WorkerList
      BY <3>3, TypeParts DEF WorkerList, RowsType
    <3> QED BY <1>2, <3>1, <3>2, <3>3, StartType DEF Next
  <2>3. PastType'
    BY <1>2, PastStep
  <2>4. (wallet \in WalletType /\ outflow \in OutflowType /\ RowsType /\ PastType)' => TypeOK'
    BY DEF TypeOK, WalletType, OutflowType, RowsType, PastType, RequestType, TxnType, SessionType
  <2> QED BY <2>1, <2>2, <2>3, <2>4
<1> QED BY <1>1, <1>2

LEMMA InitType == Init => TypeOK
<1> SUFFICES ASSUME Init PROVE TypeOK
  OBVIOUS
<1>1. batch \in UNION {[listed -> Row] : listed \in SUBSET Requests}
  <2>1. batch \in [{} -> Row]
    BY DEF Init
  <2> QED BY <2>1
<1>2. wallet \in WalletType /\ outflow \in OutflowType /\ RowsType
  BY ConstantsOK, DataTypes
     DEF ConstantsOK, Init, WalletType, OutflowType, RowsType, RequestType, TxnType, SessionType,
         ReqStatus, TxnStatus, PayoutState, Notice
<1>3. PastType
  BY <1>1 DEF Init, PastType
<1> QED BY <1>2, <1>3, TypeParts

\* Every variable keeps its type, so no balance ever becomes negative: each statement
\* that takes money first checks, under the lock of the account, that it is there (Withdraw,
\* ReviewWithdraw, retryWithdrawPayout, PayOrder).
THEOREM TypeCorrect == Spec => []TypeOK
  BY InitType, TypeStep, PTL DEF Spec

\* No handler, in any interleaving with any other, makes or loses money
\* (UpdateWalletAccountWithVersionTx and its callers).
THEOREM Conservation == Spec => []MoneyConserved
<1>1. Init => MoneyConserved
  BY ConstantsOK DEF ConstantsOK, Init, MoneyConserved
<1>2. TypeOK /\ MoneyConserved /\ [Next]_vars => MoneyConserved'
  <2> SUFFICES ASSUME TypeOK, MoneyConserved, [Next]_vars PROVE MoneyConserved'
    OBVIOUS
  <2>1. Moves
    BY StepMoves DEF vars, Moves
  <2> QED BY <2>1, TypeParts, MovesConserve
<1> QED BY <1>1, <1>2, TypeCorrect, PTL DEF Spec
-----------------------------------------------------------------------------
(* The steps by the rows they touch.                                           *)

\* The statements that end or move a session leave the others alone.
OwnSession(s) ==
  /\ \A t \in Sessions : t # s => session'[t] = session[t]
  /\ session'[s] = Idle \/ session'[s].req = session[s].req

OwnRow(r) ==
  \A q \in Requests : q # r =>
    request'[q] = request[q] /\ txn'[q] = txn[q] /\ payout'[q] = payout[q]

LEMMA OwnSessions ==
  ASSUME TypeOK, NEW s \in Sessions, session[s] \in Busy
  PROVE  /\ Done(s) => OwnSession(s)
         /\ \A p : GoTo(s, p) => OwnSession(s)
         /\ Abort(s) => OwnSession(s)
         /\ \A p, st : Replied(s, p, st) => OwnSession(s)
<1>0. session \in [Sessions -> Busy \cup {Idle}]
  BY DEF TypeOK
<1>1. Done(s) => OwnSession(s)
  BY <1>0 DEF Done, OwnSession
<1>2. \A p : GoTo(s, p) => OwnSession(s)
  BY <1>0 DEF GoTo, OwnSession, Busy
<1>3. Abort(s) => OwnSession(s)
  BY <1>1, <1>2 DEF Abort
<1>4. \A p, st : Replied(s, p, st) => OwnSession(s)
  BY <1>0 DEF Replied, OwnSession, Busy
<1> QED BY <1>1, <1>2, <1>3, <1>4

LEMMA OwnRows ==
  ASSUME TypeOK, NEW r \in Requests
  PROVE  /\ \A st : SetRequest(r, st) => \A q \in Requests : q # r => request'[q] = request[q]
         /\ \A row : request' = [request EXCEPT ![r] = row]
                       => \A q \in Requests : q # r => request'[q] = request[q]
         /\ \A st, d : SetTxn(r, st, d) => \A q \in Requests : q # r => txn'[q] = txn[q]
         /\ \A pay : payout' = [payout EXCEPT ![r] = pay]
                       => \A q \in Requests : q # r => payout'[q] = payout[q]
  BY DEF TypeOK, SetRequest, SetTxn

LEMMA StepOwn ==
  ASSUME TypeOK, NEW s \in Sessions, Step(s) \/ Crash(s)
  PROVE  OwnSession(s) /\ OwnRow(session[s].req)
<1> DEFINE r == session[s].req
<1>0. session[s] \in Busy /\ r \in Requests /\ session \in [Sessions -> Busy \cup {Idle}]
  BY StepBusy DEF TypeOK
<1>1. CASE Review(s)
  <2>1. OwnSession(s)
    BY <1>0, <1>1, OwnSessions
       DEF Review, ReviewApprove, ReviewReject, ReviewMarkProcessing, ReviewComplete,
           ReviewExecuted, ReviewRefused
  <2>2. OwnRow(r)
    BY ZenonT(40), <1>0, <1>1, OwnRows
       DEF Review, ReviewApprove, ReviewReject, ReviewMarkProcessing, ReviewComplete,
           ReviewExecuted, ReviewRefused, OwnRow
  <2> QED BY <2>1, <2>2
<1>2. CASE Submit(s)
  <2>1. OwnSession(s)
    <3>1. CASE PayoutRefused(s)
      BY <1>0, <3>1 DEF PayoutRefused, OwnSession, Busy
    <3> QED
      BY <1>0, <1>2, <3>1, OwnSessions DEF Submit, PayoutAccepted, PayoutPaidAtOnce, PayoutError
  <2>2. OwnRow(r)
    BY SMTT(30), <1>0, <1>2, OwnRows
       DEF Submit, PayoutAccepted, PayoutPaidAtOnce, PayoutRefused, PayoutError, OwnRow
  <2> QED BY <2>1, <2>2
<1>3. CASE Finish(s)
  <2>1. OwnSession(s)
    <3>1. ASSUME NEW p, NEW d, session' = [session EXCEPT ![s].at = p, ![s].data = d]
          PROVE  OwnSession(s)
      BY <1>0, <3>1 DEF OwnSession, Busy
    <3> QED
      BY <1>0, <1>3, <3>1, OwnSessions
         DEF Finish, CallbackSettleRead, SettleRead, Settle, FailRead, Fail, Failed,
             CallbackFailRead, CallbackFail
  <2>2. OwnRow(r)
    BY <1>0, <1>3, OwnRows
       DEF Finish, CallbackSettleRead, SettleRead, Settle, FailRead, Fail, Failed,
           CallbackFailRead, CallbackFail, OwnRow
  <2> QED BY <2>1, <2>2
<1>4. CASE Refresh(s)
  <2>1. OwnSession(s)
    <3>1. CASE RefreshQuery(s)
      <4>1. Done(s) \/ \E p \in {"settle_read", "fail_read", "progress_record"} : GoTo(s, p)
        BY <3>1, Zenon DEF RefreshQuery
      <4> QED BY <1>0, <4>1, OwnSessions
    <3> QED BY <1>0, <1>4, <3>1, OwnSessions DEF Refresh, ProgressRecord, ProgressData
  <2>2. OwnRow(r)
    BY <1>0, <1>4, OwnRows DEF Refresh, RefreshQuery, ProgressRecord, ProgressData, OwnRow, TypeOK
  <2> QED BY <2>1, <2>2
<1>5. CASE Retry(s)
  <2>1. OwnSession(s)
    <3>1. CASE RetryHold(s)
      <4>1. Done(s) \/ session' = [session EXCEPT ![s].at = "reload", ![s].again = TRUE]
        BY <3>1 DEF RetryHold
      <4> QED BY <1>0, <4>1, OwnSessions DEF OwnSession, Busy
    <3>2. CASE RetryReload(s)
      <4>1. \E p, d, st : session' = [session EXCEPT ![s].data = d, ![s].seen = st, ![s].at = p]
        BY <3>2 DEF RetryReload
      <4> QED BY <1>0, <4>1 DEF OwnSession, Busy
    <3> QED BY <1>0, <1>5, <3>1, <3>2, OwnSessions DEF Retry, RetryRestore
  <2>2. OwnRow(r)
    BY <1>0, <1>5, OwnRows DEF Retry, RetryHold, RetryReload, RetryRestore, OwnRow
  <2> QED BY <2>1, <2>2
<1>6. CASE Crash(s)
  BY <1>0, <1>6, OwnSessions DEF Crash, OwnRow
<1> QED BY <1>1, <1>2, <1>3, <1>4, <1>5, <1>6 DEF Step

\* Why a session may start work on request r at the statement p, and what is remembered.
Reason(s, r, p) ==
  \/ \E action \in AdminActions :
       /\ p = PointOf(action) /\ request[r].status \in Reviewable(action)
       /\ action \in ByHand => <<r, "by_hand">> \in mishap'
       /\ action \in Resets => <<r, "reset">> \in mishap'
  \/ \E result \in {"paid", "failed"} :
       /\ request[r].status # "none"
       /\ payout[r] = result \/ <<r, "misled">> \in mishap'
       /\ p = IF result = "paid" THEN "callback_settle" ELSE "callback_fail_read"
  \/ p = "query" /\ request[r].status # "none" /\ (request[r].status \in InFlow \/ s \in stale')
  \/ p = "retry" /\ s = Worker /\ request[r].status = "failed" /\ AutoRetry(r) /\ txn[r].data.due

Started(s, r, p) ==
  /\ \E seen \in ReqStatus : Open(s, r, p, seen)
  /\ Reason(s, r, p)
  /\ stale \subseteq stale' /\ mishap \subseteq mishap'
  /\ \A q \in Requests : \A k \in {"overtaken", "paid_at_once"} :
       <<q, k>> \in mishap' => <<q, k>> \in mishap
  /\ UNCHANGED <<wallet, request, txn, payout, notices, outflow, tries>>

\* The worker's list changes, or nothing does.
Quiet == UNCHANGED <<wallet, request, txn, payout, notices, session, outflow, past>>

\* A request that does not exist yet: no one works on it, lists it or was told of it.
Born ==
  /\ \A s \in Sessions : session[s] # Idle => request[session[s].req].status # "none"
  /\ \A n \in notices : request[n[1]].status # "none"
  /\ \A r \in DOMAIN batch : request[r].status # "none"
  /\ \A r \in Requests : payout[r] # "none" => request[r].status # "none"
  /\ \A s \in Sessions : At(s, "executed") => session[s].seen \in {"transferring", "success"}

\* The steps of the system by the rows they touch: a new request, a purchase, the
\* gateway alone, a session that starts, one that runs, and none.
LEMMA NextParts ==
  ASSUME TypeOK, Born, [Next]_vars
  PROVE  \/ \E r \in Requests : Withdraw(r)
         \/ \E a \in Accounts, n \in SpendAmounts : Spend(a, n)
         \/ \E r \in Requests, result \in {"paid", "failed"} : GatewayResolve(r, result)
         \/ \E s \in Sessions, r \in Requests, p \in Points : Started(s, r, p)
         \/ \E s \in Sessions : Run(s) \/ Die(s)
         \/ Quiet
<1> DEFINE Start == \E s \in Sessions, r \in Requests, p \in Points : Started(s, r, p)
<1>0. request \in [Requests -> [status : ReqStatus, ref : BOOLEAN]] /\ "none" \in ReqStatus
  BY DEF TypeOK, ReqStatus
<1>1. ASSUME NEW s \in Handlers, NEW r \in Requests, NEW action \in AdminActions,
             ReviewWithdraw(s, r, action)
      PROVE Start
  <2> DEFINE p == PointOf(action)
  <2>1. \E seen \in ReqStatus : Open(s, r, p, seen)
    BY <1>0, <1>1 DEF ReviewWithdraw
  <2>2. /\ action \in ByHand => <<r, "by_hand">> \in mishap'
        /\ action \in Resets => <<r, "reset">> \in mishap'
        /\ mishap \subseteq mishap'
        /\ \A q \in Requests : \A k \in {"overtaken", "paid_at_once"} :
             <<q, k>> \in mishap' => <<q, k>> \in mishap
    BY <1>1 DEF ReviewWithdraw
  <2>3. Reason(s, r, p)
    BY <1>1, <2>2, Zenon DEF ReviewWithdraw, Reason
  <2>4. stale' = stale /\ UNCHANGED <<wallet, request, txn, payout, notices, outflow, tries>>
    BY <1>1 DEF ReviewWithdraw
  <2>5. Started(s, r, p)
    BY <2>1, <2>2, <2>3, <2>4 DEF Started
  <2> QED BY <2>5, PointTypes DEF Sessions
<1>2. ASSUME NEW s \in Handlers, NEW r \in Requests, NEW result \in {"paid", "failed"},
             GatewayCallback(s, r, result)
      PROVE Start
  <2> DEFINE p == IF result = "paid" THEN "callback_settle" ELSE "callback_fail_read"
  <2>1. \E seen \in ReqStatus : Open(s, r, p, seen)
    BY <1>0, <1>2 DEF GatewayCallback
  <2>2. /\ payout[r] = result \/ <<r, "misled">> \in mishap'
        /\ mishap \subseteq mishap'
        /\ \A q \in Requests : \A k \in {"overtaken", "paid_at_once"} :
             <<q, k>> \in mishap' => <<q, k>> \in mishap
    BY <1>2 DEF GatewayCallback
  <2>3. request[r].status # "none"
    BY <1>2 DEF GatewayCallback, Born
  <2>4. Reason(s, r, p)
    BY <2>2, <2>3 DEF Reason
  <2>5. stale' = stale /\ UNCHANGED <<wallet, request, txn, payout, notices, outflow, tries>>
    BY <1>2 DEF GatewayCallback
  <2>6. Started(s, r, p)
    BY <2>1, <2>2, <2>4, <2>5 DEF Started
  <2> QED BY <2>6 DEF Sessions, Points
<1>3. ASSUME NEW r \in Requests, WorkerRefresh(r) PROVE Start \/ Quiet
  <2>1. r \in DOMAIN batch /\ batch[r] \in [status : ReqStatus, ref : BOOLEAN]
    BY <1>3, CopyType DEF WorkerRefresh, Row
  <2>2. CASE CanRefresh(batch[r], r)
    <3>1. Open(Worker, r, "query", batch[r].status)
      BY <1>3, <2>2 DEF WorkerRefresh
    <3>2. stale' = IF batch[r].status = request[r].status THEN stale ELSE stale \cup {Worker}
      BY <1>3, <2>2 DEF WorkerRefresh
    <3>3. UNCHANGED <<wallet, request, txn, payout, notices, outflow, mishap, tries>>
      BY <1>3 DEF WorkerRefresh
    <3>4. request[r].status # "none" /\ (request[r].status \in InFlow \/ Worker \in stale')
      BY <2>1, <2>2, <3>2 DEF CanRefresh, InFlow, Born
    <3>5. Reason(Worker, r, "query")
      BY <3>4 DEF Reason
    <3>6. Started(Worker, r, "query")
      BY <2>1, <3>1, <3>2, <3>3, <3>5 DEF Started
    <3> QED BY <3>6 DEF Sessions, Points
  <2>3. CASE ~ CanRefresh(batch[r], r)
    BY <1>3, <2>3 DEF WorkerRefresh, Quiet, past
  <2> QED BY <2>2, <2>3
<1>4. ASSUME NEW r \in Requests, WorkerRetry(r) PROVE Start
  <2>1. Started(Worker, r, "retry")
    BY <1>0, <1>4 DEF WorkerRetry, Started, Reason, past
  <2> QED BY <2>1 DEF Sessions, Points
<1>5. ASSUME NEW s \in Handlers, NEW r \in Requests,
             \/ \E action \in AdminActions : ReviewWithdraw(s, r, action)
             \/ \E result \in {"paid", "failed"} : GatewayCallback(s, r, result)
      PROVE Start
  BY <1>1, <1>2, <1>5
<1>6. UNCHANGED vars \/ WorkerList => Quiet
  BY DEF vars, WorkerList, Quiet
<1> HIDE DEF Start
<1>7. \/ \E r \in Requests : Withdraw(r)
      \/ \E a \in Accounts, n \in SpendAmounts : Spend(a, n)
      \/ \E r \in Requests, result \in {"paid", "failed"} : GatewayResolve(r, result)
      \/ Start
      \/ \E s \in Sessions : Run(s) \/ Die(s)
      \/ Quiet
  BY <1>3, <1>4, <1>5, <1>6, Zenon DEF Next
<1> QED BY <1>7, Zenon DEF Start

\* What a session that starts knows.
LEMMA StartedSession ==
  ASSUME TypeOK, NEW s \in Sessions, NEW r \in Requests, NEW p \in Points, Started(s, r, p)
  PROVE  /\ session[s] = Idle /\ session'[s] # Idle
         /\ session'[s].req = r /\ session'[s].at = p /\ session'[s].again = FALSE
         /\ session'[s].data = IF p \in UsesData THEN txn[r].data ELSE NoData
         /\ \A t \in Sessions : t # s => session'[t] = session[t]
<1>0. PICK seen \in ReqStatus : Open(s, r, p, seen)
  BY DEF Started
<1> DEFINE new == [at |-> p, req |-> r, seen |-> seen,
                   data |-> IF p \in UsesData THEN txn[r].data ELSE NoData, again |-> FALSE]
<1>1. session[s] = Idle /\ session' = [session EXCEPT ![s] = new]
  BY <1>0 DEF Open
<1>2. new # Idle
  BY DEF Idle, Points
<1>3. session'[s] = new /\ \A t \in Sessions : t # s => session'[t] = session[t]
  BY <1>1 DEF TypeOK
<1> QED BY <1>1, <1>2, <1>3

\* The points at which a session may start.
LEMMA StartPoints ==
  ASSUME NEW s \in Sessions, NEW r \in Requests, NEW p \in Points, Reason(s, r, p)
  PROVE  p \in {"approve", "reject", "call", "mark_processing", "complete", "fail_read", "query",
                "retry", "callback_settle", "callback_fail_read"}
<1>1. ASSUME NEW action \in AdminActions
      PROVE  PointOf(action) \in {"approve", "reject", "call", "mark_processing", "complete",
               "fail_read", "query", "retry", "callback_settle", "callback_fail_read"}
  BY ConstantsOK DEF ConstantsOK, AllActions, PointOf
<1> QED BY <1>1 DEF Reason

-----------------------------------------------------------------------------
(* What is remembered of a step.                                               *)

\* What the statement of a session leaves in memory.
LEMMA Remembered ==
  ASSUME TypeOK, NEW s \in Sessions, Run(s) \/ Die(s), NEW r \in Requests, session[s].req = r
  PROVE  /\ mishap \subseteq mishap'
         /\ \A q \in Requests : \A k : q # r => (<<q, k>> \in mishap' => <<q, k>> \in mishap)
         /\ Acts /\ s \in stale /\ ~ StillHolds(s) => <<r, "overtaken">> \in mishap'
         /\ Acts /\ s \in stale /\ ~ At(s, "retry") => <<r, "stale_write">> \in mishap'
         /\ Acts /\ At(s, "executed") /\ session[s].seen = "success"
              => <<r, "paid_at_once">> \in mishap'
         /\ Acts /\ At(s, "call") /\ session'[s].at \in {"idle", "restore"}
              => <<r, "misled">> \in mishap'
<1>1. mishap' = mishap \cup {<<r, k>> : k \in Mishaps(s)}
  BY DEF Run, Die, Remember
<1>2. /\ Acts /\ s \in stale /\ ~ StillHolds(s) => "overtaken" \in Mishaps(s)
      /\ Acts /\ s \in stale /\ ~ At(s, "retry") => "stale_write" \in Mishaps(s)
      /\ Acts /\ At(s, "executed") /\ session[s].seen = "success" => "paid_at_once" \in Mishaps(s)
      /\ Acts /\ At(s, "call") /\ session'[s].at \in {"idle", "restore"} => "misled" \in Mishaps(s)
  BY DEF Mishaps
<1> QED BY <1>1, <1>2

\* A session that is not stale after the step of another was not stale before, and its
\* rows are as they were.
LEMMA OthersKept ==
  ASSUME TypeOK, NEW s \in Sessions, Run(s) \/ Die(s),
         NEW t \in Sessions \ stale', t # s, session'[t] # Idle
  PROVE  LET q == session[t].req IN
         /\ t \notin stale /\ session'[t] = session[t] /\ q \in Requests
         /\ request'[q] = request[q] /\ txn'[q] = txn[q] /\ payout'[q] = payout[q]
<1> DEFINE q == session[t].req
<1>1. session'[t] = session[t] /\ OwnRow(session[s].req)
  BY StepOwn DEF Run, Die, OwnSession
<1>2. q \in Requests
  BY <1>1 DEF TypeOK, Busy
<1>3. stale' = (stale \ Fresh(s)) \cup (IF Acts THEN Others(s) ELSE {})
  BY DEF Run, Die, Remember
<1>4. t \notin stale
  BY <1>3 DEF Fresh
<1>5. CASE q = session[s].req
  <2>1. t \in Others(s)
    BY <1>1, <1>5 DEF Others
  <2>2. ~ Acts
    BY <1>3, <2>1
  <2> QED BY <1>1, <1>2, <1>4, <2>2 DEF Acts
<1>6. CASE q # session[s].req
  BY <1>1, <1>2, <1>4, <1>6 DEF OwnRow
<1> QED BY <1>5, <1>6

\* A session ceases to be stale only at its end and where it reads everything again.
LEMMA OwnKept ==
  ASSUME TypeOK, NEW s \in Sessions, Run(s) \/ Die(s), s \notin stale', session'[s] # Idle
  PROVE  s \notin stale \/ At(s, "retry")
  BY DEF Run, Die, Remember, Fresh

-----------------------------------------------------------------------------
(* What a session that is not stale has read is still so.                      *)

Found(x, st) ==
  /\ x.at \in {"approve", "reject"} => st = "pending_review"
  /\ x.at \in {"mark_processing", "call", "executed"} => st = "pending_transfer"
  /\ x.at \in {"complete", "fail", "settle", "query", "progress_record", "progress_data"} =>
       st \in InFlow
  /\ x.at = "retry" => st = "failed"

\* Where a session holds a copy of response_data.
Copied == {"call", "executed", "fail_read", "fail", "settle_read", "settle", "callback_fail",
           "query", "progress_record", "progress_data"}
SameCount(x, d) == x.at \in Copied => x.data.retries = d.retries

FreshInv ==
  \A s \in Sessions \ stale : session[s] # Idle =>
    /\ Found(session[s], request[session[s].req].status)
    /\ SameCount(session[s], txn[session[s].req].data)

\* Points at which nothing is known of the status.
Free == {"fail_read", "settle_read", "callback_settle", "callback_fail_read", "callback_fail",
         "reload", "restore"}

LEMMA FoundWhenStarted ==
  ASSUME NEW s \in Sessions, NEW r \in Requests, NEW p \in Points, Reason(s, r, p), s \notin stale',
         NEW x, x.at = p
  PROVE  Found(x, request[r].status)
<1>1. ASSUME NEW action \in AdminActions, p = PointOf(action),
             request[r].status \in Reviewable(action)
      PROVE  Found(x, request[r].status)
  <2>1. action \in AllActions
    BY ConstantsOK DEF ConstantsOK
  <2> QED BY <1>1, <2>1 DEF AllActions, PointOf, Reviewable, Found, InFlow
<1>2. CASE p \in {"callback_settle", "callback_fail_read"}
  BY <1>2 DEF Found
<1>3. CASE p = "query" /\ request[r].status \in InFlow
  BY <1>3 DEF Found
<1>4. CASE p = "retry" /\ request[r].status = "failed"
  BY <1>4 DEF Found
<1> QED BY <1>1, <1>2, <1>3, <1>4 DEF Reason

\* The next statement of a session finds the status the last one found or wrote, and its
\* copy of the retry counter is that of the row.
LEMMA OwnFound ==
  ASSUME TypeOK, NEW s \in Sessions, Step(s) \/ Crash(s), NEW r \in Requests, session[s].req = r,
         \/ At(s, "retry")
         \/ Found(session[s], request[r].status) /\ SameCount(session[s], txn[r].data),
         session'[s] # Idle
  PROVE  Found(session'[s], request'[r].status) /\ SameCount(session'[s], txn'[r].data)
<1> DEFINE x == session[s]
           y == session'[s]
           st == request'[r].status
           Goal == Found(y, st) /\ SameCount(y, txn'[r].data)
<1> SUFFICES Goal
  OBVIOUS
<1>0. /\ x \in Busy /\ session \in [Sessions -> Busy \cup {Idle}]
      /\ request \in [Requests -> [status : ReqStatus, ref : BOOLEAN]]
      /\ txn \in [Requests -> [status : TxnStatus, data : Data]]
      /\ x.at # "retry" => Found(x, request[r].status) /\ SameCount(x, txn[r].data)
  BY StepBusy DEF TypeOK, At
<1>1. Done(s) => y = Idle
  BY <1>0 DEF Done
<1>2. \A p : GoTo(s, p) => y.at = p /\ y.data = x.data
  BY <1>0 DEF GoTo, Busy
<1>3. Abort(s) => y = Idle \/ y.at = "restore"
  BY <1>1, <1>2 DEF Abort
<1>4. y.at \in {"reload", "restore"} => Goal
  BY DEF Found, SameCount, Copied
<1>5. ~ Review(s) /\ ~ Crash(s)
  BY <1>1 DEF Review, ReviewApprove, ReviewReject, ReviewMarkProcessing, ReviewComplete,
              ReviewExecuted, ReviewRefused, Crash
<1>6. CASE Submit(s)
  <2>0. x.at = "call" /\ request' = request /\ txn' = txn
    BY <1>6 DEF Submit, PayoutAccepted, PayoutPaidAtOnce, PayoutRefused, PayoutError, At
  <2>1. x.data.retries = txn[r].data.retries /\ request[r].status = "pending_transfer"
    BY <1>0, <2>0 DEF Found, SameCount, Copied
  <2>2. CASE PayoutError(s)
    BY <1>3, <1>4, <2>2 DEF PayoutError
  <2>3. CASE PayoutRefused(s)
    <3>1. y.at = "fail_read" /\ y.data = [x.data EXCEPT !.submitted = TRUE]
      BY <1>0, <2>3 DEF PayoutRefused, Busy
    <3>2. y.data.retries = x.data.retries
      BY <1>0, <3>1 DEF Busy, Data
    <3> QED BY <2>0, <2>1, <3>1, <3>2 DEF Found, SameCount
  <2>4. CASE PayoutAccepted(s) \/ PayoutPaidAtOnce(s)
    <3>1. y.at = "executed" /\ y.data = x.data
      BY <1>0, <2>4 DEF PayoutAccepted, PayoutPaidAtOnce, Replied, Busy
    <3> QED BY <2>0, <2>1, <3>1 DEF Found, SameCount
  <2> QED BY <1>6, <2>2, <2>3, <2>4 DEF Submit
<1>7. CASE Finish(s)
  <2>0. \A p : session' = [session EXCEPT ![s].at = p, ![s].data = txn[r].data]
                 => y.at = p /\ y.data = txn[r].data
    BY <1>0 DEF Busy
  <2>1. CASE CallbackSettleRead(s)
    <3>1. /\ y.at = "settle" /\ y.data = txn[r].data /\ request' = request /\ txn' = txn
          /\ request[r].status \in InFlow
      BY <1>1, <2>0, <2>1 DEF CallbackSettleRead
    <3> QED BY <3>1 DEF Found, SameCount
  <2>2. CASE SettleRead(s)
    <3>1. /\ y.at = "settle" /\ y.data = x.data /\ request' = request /\ txn' = txn
          /\ request[r].status \in InFlow /\ x.at = "settle_read"
      BY <1>1, <1>2, <2>2 DEF SettleRead, At
    <3> QED BY <1>0, <3>1 DEF Found, SameCount, Copied
  <2>3. CASE FailRead(s)
    <3>1. CASE y.at = "restore"
      BY <1>4, <3>1
    <3>2. CASE y.at # "restore"
      <4>1. /\ y.at = "fail" /\ y.data = x.data /\ request' = request /\ txn' = txn
            /\ request[r].status \in InFlow /\ x.at = "fail_read"
        BY <1>2, <1>3, <2>3, <3>2 DEF FailRead, At
      <4> QED BY <1>0, <4>1 DEF Found, SameCount, Copied
    <3> QED BY <3>1, <3>2
  <2>4. CASE CallbackFailRead(s)
    <3>1. y.at = "callback_fail" /\ y.data = txn[r].data /\ request' = request /\ txn' = txn
      BY <1>1, <2>0, <2>4 DEF CallbackFailRead
    <3> QED BY <3>1 DEF Found, SameCount
  <2>5. CASE Settle(s) \/ Fail(s) \/ CallbackFail(s)
    <3>1. y.at = "restore"
      BY <1>1, <1>3, <2>5 DEF Settle, Fail, CallbackFail, Failed
    <3> QED BY <1>4, <3>1
  <2> QED BY <1>7, <2>1, <2>2, <2>3, <2>4, <2>5 DEF Finish
<1>8. CASE Refresh(s)
  <2>1. CASE RefreshQuery(s)
    <3>1. /\ \E p \in {"settle_read", "fail_read", "progress_record"} : GoTo(s, p)
          /\ x.at = "query" /\ request' = request /\ txn' = txn
      <4>1. Done(s) \/ \E p \in {"settle_read", "fail_read", "progress_record"} : GoTo(s, p)
        BY <2>1, Zenon DEF RefreshQuery
      <4> QED BY <1>1, <2>1, <4>1 DEF RefreshQuery, At
    <3>2. y.at \in {"settle_read", "fail_read", "progress_record"} /\ y.data = x.data
      BY <1>2, <3>1
    <3> QED BY <1>0, <3>1, <3>2 DEF Found, SameCount, Copied
  <2>2. CASE ProgressRecord(s)
    <3>1. y.at = "progress_data" /\ y.data = x.data /\ x.at = "progress_record" /\ txn' = txn
      BY <1>2, <2>2 DEF ProgressRecord, At
    <3>2. st = request[r].status \/ st = "transferring"
      BY <1>0, <2>2 DEF ProgressRecord
    <3> QED BY <1>0, <3>1, <3>2 DEF Found, SameCount, Copied, InFlow
  <2>3. ~ ProgressData(s)
    BY <1>1 DEF ProgressData
  <2> QED BY <1>8, <2>1, <2>2, <2>3 DEF Refresh
<1>9. CASE Retry(s)
  <2>1. CASE RetryReload(s)
    <3> DEFINE p == IF request[r].status = "pending_transfer" THEN "call" ELSE "restore"
    <3>1. y.at = p /\ y.data = txn[r].data /\ request' = request /\ txn' = txn
      BY <1>0, <2>1 DEF RetryReload, Busy
    <3> QED BY <3>1 DEF Found, SameCount, Copied
  <2>2. CASE RetryHold(s) \/ RetryRestore(s)
    <3>1. y.at = "reload"
      BY <1>0, <1>1, <2>2 DEF RetryHold, RetryRestore, Busy
    <3> QED BY <1>4, <3>1
  <2> QED BY <1>9, <2>1, <2>2 DEF Retry
<1> QED BY <1>5, <1>6, <1>7, <1>8, <1>9 DEF Step

\* Only a reply of the gateway takes a session past the call.
LEMMA ExecutedBy ==
  ASSUME TypeOK, NEW s \in Sessions, Step(s) \/ Crash(s), session'[s].at = "executed"
  PROVE  \/ PayoutAccepted(s) /\ session'[s].seen = "transferring"
         \/ PayoutPaidAtOnce(s) /\ session'[s].seen = "success"
<1> DEFINE x == session'[s]
<1>0. session[s] \in Busy /\ session \in [Sessions -> Busy \cup {Idle}] /\ Idle.at # "executed"
  BY StepBusy DEF TypeOK, Idle
<1>1. Done(s) => x = Idle
  BY <1>0 DEF Done
<1>2. \A p : GoTo(s, p) => x.at = p
  BY <1>0 DEF GoTo, Busy
<1>3. Abort(s) => x = Idle \/ x.at = "restore"
  BY <1>1, <1>2 DEF Abort
<1>4. ASSUME NEW p, NEW d, session' = [session EXCEPT ![s].at = p, ![s].data = d]
      PROVE  x.at = p
  BY <1>0, <1>4 DEF Busy
<1>5. ~ Review(s) /\ ~ Crash(s)
  BY <1>0, <1>1 DEF Review, ReviewApprove, ReviewReject, ReviewMarkProcessing, ReviewComplete,
                    ReviewExecuted, ReviewRefused, Crash
<1>6. ~ Finish(s)
  BY <1>0, <1>1, <1>2, <1>3, <1>4
     DEF Finish, CallbackSettleRead, SettleRead, Settle, FailRead, Fail, Failed,
         CallbackFailRead, CallbackFail
<1>7. ~ Refresh(s)
  <2>1. RefreshQuery(s) =>
          Done(s) \/ \E p \in {"settle_read", "fail_read", "progress_record"} : GoTo(s, p)
    BY Zenon DEF RefreshQuery
  <2> QED BY <1>0, <1>1, <1>2, <2>1 DEF Refresh, ProgressRecord, ProgressData
<1>8. ~ Retry(s)
  <2>1. ~ RetryReload(s)
    BY <1>0 DEF RetryReload, Busy
  <2>2. ~ RetryHold(s) /\ ~ RetryRestore(s)
    BY <1>0, <1>1 DEF RetryHold, RetryRestore, Busy
  <2> QED BY <2>1, <2>2 DEF Retry
<1>9. ~ PayoutError(s)
  BY <1>0, <1>3 DEF PayoutError
<1>10. ~ PayoutRefused(s)
  BY <1>0 DEF PayoutRefused, Busy
<1>11. \A st : Replied(s, "executed", st) => x.seen = st
  BY <1>0 DEF Replied, Busy
<1>12. Submit(s)
  BY <1>5, <1>6, <1>7, <1>8 DEF Step
<1> QED BY <1>9, <1>10, <1>11, <1>12 DEF Submit, PayoutAccepted, PayoutPaidAtOnce

\* A row is never taken back to the time before its request.
LEMMA BornStep == TypeOK /\ Born /\ [Next]_vars => Born'
<1> SUFFICES ASSUME TypeOK, Born, [Next]_vars PROVE Born'
  OBVIOUS
<1>0. /\ request \in [Requests -> [status : ReqStatus, ref : BOOLEAN]]
      /\ payout \in [Requests -> PayoutState] /\ notices \subseteq Notice
      /\ session \in [Sessions -> Busy \cup {Idle}]
      /\ DOMAIN batch \subseteq Requests
      /\ \A t \in Sessions : session[t] # Idle => session[t].req \in Requests
  BY CopyType DEF TypeOK, Busy
<1>1. \A r \in Requests : request[r].status # "none" => request'[r].status # "none"
  <2>1. ASSUME NEW s \in Sessions, Step(s) \/ Crash(s), NEW r \in Requests,
               request[r].status # "none"
        PROVE  request'[r].status # "none"
    <3> DEFINE q == session[s].req
    <3>0. session[s] \in Busy /\ q \in Requests
      BY <2>1, StepBusy
    <3>1. \A st : SetRequest(q, st) => request'[r].status = IF q = r THEN st ELSE request[r].status
      BY <1>0, <3>0 DEF SetRequest
    <3>2. \A st, b : request' = [request EXCEPT ![q] = [status |-> st, ref |-> b]]
                       => request'[r].status = IF q = r THEN st ELSE request[r].status
      BY <1>0, <3>0
    <3>3. CASE Review(s)
      <4>1. CASE ReviewExecuted(s)
        BY <2>1, <3>2, <4>1 DEF ReviewExecuted, Born
      <4>2. CASE ReviewMarkProcessing(s)
        BY <1>0, <2>1, <3>0, <4>2 DEF ReviewMarkProcessing
      <4> QED BY <2>1, <3>1, <3>3, <4>1, <4>2
              DEF Review, ReviewApprove, ReviewReject, ReviewComplete, ReviewRefused
    <3>4. CASE Submit(s) \/ Crash(s)
      BY <2>1, <3>4 DEF Submit, PayoutAccepted, PayoutPaidAtOnce, PayoutRefused, PayoutError, Crash
    <3>5. CASE Finish(s)
      BY <2>1, <3>1, <3>2, <3>5
         DEF Finish, CallbackSettleRead, SettleRead, Settle, FailRead, Fail, Failed,
             CallbackFailRead, CallbackFail
    <3>6. CASE Refresh(s)
      <4>1. CASE ProgressRecord(s)
        BY <1>0, <2>1, <3>0, <4>1 DEF ProgressRecord
      <4> QED BY <2>1, <3>6, <4>1 DEF Refresh, RefreshQuery, ProgressData
    <3>7. CASE Retry(s)
      BY <2>1, <3>1, <3>2, <3>7 DEF Retry, RetryHold, RetryReload, RetryRestore
    <3> QED BY <2>1, <3>3, <3>4, <3>5, <3>6, <3>7 DEF Step
  <2>2. ASSUME NEW q \in Requests, Withdraw(q), NEW r \in Requests, request[r].status # "none"
        PROVE  request'[r].status # "none"
    BY <1>0, <2>2 DEF Withdraw, SetRequest
  <2> QED BY <2>1, <2>2, NextParts DEF Spend, GatewayResolve, Started, Run, Die, Quiet
<1>2. ASSUME NEW t \in Sessions, session'[t] # Idle
      PROVE  request'[session'[t].req].status # "none"
  <2>1. CASE UNCHANGED session
    BY <1>0, <1>1, <1>2, <2>1 DEF Born
  <2>2. ASSUME NEW s \in Sessions, NEW r \in Requests, NEW p \in Points, Started(s, r, p)
        PROVE  request'[session'[t].req].status # "none"
    <3>1. request[r].status # "none"
      <4>1. ASSUME NEW action \in AdminActions, request[r].status \in Reviewable(action)
            PROVE  request[r].status # "none"
        BY <4>1 DEF Reviewable, InFlow
      <4> QED BY <2>2, <4>1 DEF Started, Reason
    <3>2. /\ session'[s].req = r /\ \A u \in Sessions : u # s => session'[u] = session[u]
      BY <2>2, StartedSession
    <3> QED BY <1>0, <1>1, <1>2, <3>1, <3>2 DEF Born
  <2>3. ASSUME NEW s \in Sessions, Step(s) \/ Crash(s)
        PROVE  request'[session'[t].req].status # "none"
    <3>1. /\ session[s] # Idle
          /\ session'[t] = session[t] \/ session'[t].req = session[s].req
          /\ t # s => session'[t] = session[t]
      BY <1>2, <2>3, StepBusy, StepOwn DEF OwnSession
    <3> QED BY <1>0, <1>1, <1>2, <2>3, <3>1, StepBusy, StepOwn DEF Born, OwnSession
  <2> QED BY <2>1, <2>2, <2>3, NextParts DEF Withdraw, Spend, GatewayResolve, Run, Die, Quiet
<1>3. \A r \in Requests : payout'[r] # "none" => request'[r].status # "none"
  <2>1. CASE UNCHANGED payout
    BY <1>1, <2>1 DEF Born
  <2>2. ASSUME NEW q \in Requests, NEW result \in {"paid", "failed"}, GatewayResolve(q, result),
               NEW r \in Requests, payout'[r] # "none"
        PROVE  request'[r].status # "none"
    <3>1. payout[q] # "none" /\ (r # q => payout'[r] = payout[r])
      BY <1>0, <2>2 DEF GatewayResolve
    <3> QED BY <1>1, <2>2, <3>1 DEF Born
  <2>3. ASSUME NEW s \in Sessions, Step(s) \/ Crash(s), NEW r \in Requests, payout'[r] # "none"
        PROVE  request'[r].status # "none"
    <3>1. session[s] # Idle /\ OwnRow(session[s].req)
      BY <2>3, StepBusy, StepOwn
    <3> QED BY <1>1, <2>3, <3>1 DEF Born, OwnRow
  <2> QED BY <2>1, <2>2, <2>3, NextParts DEF Withdraw, Spend, Started, Run, Die, Quiet
<1>4. \A n \in notices' : request'[n[1]].status # "none"
  <2>0. \A n \in notices : n[1] \in Requests
    BY <1>0 DEF Notice
  <2>1. CASE UNCHANGED notices
    BY <1>1, <2>0, <2>1 DEF Born
  <2>2. ASSUME NEW q \in Requests, NEW result \in {"paid", "failed"}, GatewayResolve(q, result)
        PROVE  \A n \in notices' : request'[n[1]].status # "none"
    <3>1. payout[q] # "none" /\ notices' = notices \cup {<<q, result>>}
      BY <2>2 DEF GatewayResolve
    <3>2. request[q].status # "none"
      BY <3>1 DEF Born
    <3> QED BY <1>1, <2>0, <3>1, <3>2 DEF Born
  <2>3. ASSUME NEW s \in Sessions, Step(s) \/ Crash(s)
        PROVE  \A n \in notices' : request'[n[1]].status # "none"
    <3>1. session[s] # Idle /\ session[s].req \in Requests
      BY <2>3, StepBusy
    <3>2. request[session[s].req].status # "none"
      BY <3>1 DEF Born
    <3>3. UNCHANGED notices \/ notices' = notices \cup {<<session[s].req, "paid">>}
      <4>1. CASE Submit(s)
        BY <4>1 DEF Submit, PayoutAccepted, PayoutPaidAtOnce, PayoutRefused, PayoutError
      <4>2. CASE Review(s) \/ Crash(s)
        BY <4>2 DEF Review, ReviewApprove, ReviewReject, ReviewMarkProcessing, ReviewComplete,
                    ReviewExecuted, ReviewRefused, Crash
      <4>3. CASE Finish(s) \/ Refresh(s) \/ Retry(s)
        BY <4>3 DEF Finish, CallbackSettleRead, SettleRead, Settle, FailRead, Fail,
                    CallbackFailRead, CallbackFail, Refresh, RefreshQuery, ProgressRecord,
                    ProgressData, Retry, RetryHold, RetryReload, RetryRestore
      <4> QED BY <2>3, <4>1, <4>2, <4>3 DEF Step
    <3> QED BY <1>1, <2>0, <3>1, <3>2, <3>3 DEF Born
  <2> QED BY <2>1, <2>2, <2>3, NextParts DEF Withdraw, Spend, Started, Run, Die, Quiet
<1>5. \A r \in DOMAIN batch' : request'[r].status # "none"
  <2>1. DOMAIN batch' \subseteq DOMAIN batch
          \/ \A r \in DOMAIN batch' : r \in Requests /\ request[r].status # "none"
    <3>1. ASSUME WorkerList
          PROVE  \A r \in DOMAIN batch' : r \in Requests /\ request[r].status # "none"
      BY <3>1 DEF WorkerList, InFlow
    <3>2. ASSUME NEW s \in Sessions, Crash(s) PROVE DOMAIN batch' \subseteq DOMAIN batch
      BY <3>2 DEF Crash
    <3>3. ASSUME NEW r \in Requests, WorkerRefresh(r) PROVE DOMAIN batch' \subseteq DOMAIN batch
      BY <3>3 DEF WorkerRefresh
    <3>4. CASE UNCHANGED batch
      BY <3>4
    <3> QED BY <3>1, <3>2, <3>3, <3>4
            DEF Next, Run, Die, Withdraw, Spend, GatewayResolve, ReviewWithdraw, GatewayCallback,
                WorkerRetry, vars
  <2> QED BY <1>0, <1>1, <2>1 DEF Born
<1>6. \A t \in Sessions : At(t, "executed")' => session'[t].seen \in {"transferring", "success"}
  <2>1. CASE UNCHANGED session
    BY <2>1 DEF Born, At
  <2>2. ASSUME NEW s \in Sessions, NEW r \in Requests, NEW p \in Points, Started(s, r, p),
               NEW t \in Sessions, At(t, "executed")'
        PROVE  session'[t].seen \in {"transferring", "success"}
    <3>1. p # "executed"
      BY <2>2, StartPoints DEF Started
    <3>2. session'[s].at = p /\ \A u \in Sessions : u # s => session'[u] = session[u]
      BY <2>2, StartedSession
    <3> QED BY <2>2, <3>1, <3>2 DEF Born, At
  <2>3. ASSUME NEW s \in Sessions, Step(s) \/ Crash(s), NEW t \in Sessions, At(t, "executed")'
        PROVE  session'[t].seen \in {"transferring", "success"}
    <3>1. t # s => session'[t] = session[t]
      BY <2>3, StepOwn DEF OwnSession
    <3>2. session'[s].at = "executed" => session'[s].seen \in {"transferring", "success"}
      BY <2>3, ExecutedBy
    <3> QED BY <2>3, <3>1, <3>2 DEF Born, At
  <2> QED BY <2>1, <2>2, <2>3, NextParts DEF Withdraw, Spend, GatewayResolve, Run, Die, Quiet
<1> QED BY <1>2, <1>3, <1>4, <1>5, <1>6 DEF Born

\* A session that is not stale finds the row as it read it: any change by another makes it stale.
LEMMA FreshStep ==
  ASSUME TypeOK, Born, FreshInv, [Next]_vars
  PROVE  FreshInv'
<1> SUFFICES ASSUME NEW t \in Sessions \ stale', session'[t] # Idle
             PROVE  /\ Found(session'[t], request'[session'[t].req].status)
                    /\ SameCount(session'[t], txn'[session'[t].req].data)
  BY DEF FreshInv
<1> DEFINE Goal == /\ Found(session'[t], request'[session'[t].req].status)
                   /\ SameCount(session'[t], txn'[session'[t].req].data)
<1>0. /\ session[t] # Idle => session[t].req \in Requests
      /\ session[t] # Idle /\ t \notin stale =>
           /\ Found(session[t], request[session[t].req].status)
           /\ SameCount(session[t], txn[session[t].req].data)
  BY DEF FreshInv, TypeOK, Busy
<1>1. ASSUME NEW s \in Sessions, NEW r \in Requests, NEW p \in Points, Started(s, r, p)
      PROVE  Goal
  <2>1. request' = request /\ txn' = txn /\ Reason(s, r, p) /\ t \notin stale
    BY <1>1 DEF Started
  <2>2. /\ session'[s].req = r /\ session'[s].at = p
        /\ session'[s].data = IF p \in UsesData THEN txn[r].data ELSE NoData
        /\ \A u \in Sessions : u # s => session'[u] = session[u]
    BY <1>1, StartedSession
  <2>3. CASE t = s
    <3>1. Found(session'[s], request[r].status)
      BY <2>1, <2>2, <2>3, FoundWhenStarted
    <3>2. p \in Copied => p \in UsesData
      BY <2>1, StartPoints DEF Copied, UsesData
    <3>3. SameCount(session'[s], txn[r].data)
      BY <2>2, <3>2 DEF SameCount
    <3> QED BY <2>1, <2>2, <2>3, <3>1, <3>3
  <2>4. CASE t # s
    BY <1>0, <2>1, <2>2, <2>4
  <2> QED BY <2>3, <2>4
<1>2. ASSUME NEW s \in Sessions, Run(s) \/ Die(s) PROVE Goal
  <2>0. Step(s) \/ Crash(s)
    BY <1>2 DEF Run, Die
  <2>1. CASE t = s
    <3>1. session[s] # Idle /\ session[s].req \in Requests
      BY <2>0, StepBusy
    <3>2. s \notin stale \/ At(s, "retry")
      BY <1>2, <2>1, OwnKept
    <3>3. \/ At(s, "retry")
          \/ /\ Found(session[s], request[session[s].req].status)
             /\ SameCount(session[s], txn[session[s].req].data)
      BY <1>0, <2>1, <3>1, <3>2
    <3>4. session'[s].req = session[s].req
      BY <2>0, <2>1, StepOwn DEF OwnSession
    <3> QED BY <2>0, <2>1, <3>1, <3>3, <3>4, OwnFound
  <2>2. CASE t # s
    BY <1>0, <1>2, <2>2, OthersKept
  <2> QED BY <2>1, <2>2
<1>3. ASSUME NEW r \in Requests, Withdraw(r) PROVE Goal
  <2>1. session'[t] = session[t] /\ t \notin stale /\ request[r].status = "none"
    BY <1>3 DEF Withdraw, past
  <2>2. session[t].req # r
    BY <2>1 DEF Born
  <2>3. \A q \in Requests : q # r => request'[q] = request[q] /\ txn'[q] = txn[q]
    BY <1>3, OwnRows DEF Withdraw
  <2> QED BY <1>0, <2>1, <2>2, <2>3
<1>4. CASE UNCHANGED <<session, request, txn, stale>>
  BY <1>0, <1>4
<1> QED BY <1>1, <1>2, <1>3, <1>4, NextParts DEF Spend, GatewayResolve, Quiet, past

LEMMA FreshInit == Init => Born /\ FreshInv
  BY DEF Init, Born, FreshInv, Idle, At
-----------------------------------------------------------------------------
\* A request alone on its account is paid at most once.

Frozen(r) == wallet[Owner[r]].frozen
Withdrawn(r) == outflow[Owner[r]].withdrawn
Status(r) == request[r].status

\* The inductive invariant: the frozen balance holds the amount or nothing, and it
\* holds nothing once the amount was released, whatever a stale handler wrote into the
\* status since.
LoneInv ==
  \A r \in Requests : Lone(r) =>
    /\ Frozen(r) \in {0, Amount[r]}
    /\ Withdrawn(r) \in {0, Amount[r]}
    /\ Withdrawn(r) = Amount[r] => Frozen(r) = 0 /\ Status(r) \in InFlow \cup {"success"}
    /\ Status(r) \in {"none", "failed", "rejected"} => Frozen(r) = 0 /\ Withdrawn(r) = 0

\* All that a step can do to the amount and the status of such a request.
Rewritten(r) ==
  /\ Frozen(r)' = Frozen(r) /\ Withdrawn(r)' = Withdrawn(r)
  /\ Status(r)' = Status(r) \/ Status(r)' \in InFlow \cup {"success"}
Held(r) ==
  /\ Status(r) \in {"none", "failed"} /\ Status(r)' \in {"pending_review", "pending_transfer"}
  /\ Frozen(r)' = Frozen(r) + Amount[r] /\ Withdrawn(r)' = Withdrawn(r)
Returned(r) ==
  /\ Frozen(r) >= Amount[r] /\ Status(r)' \in {"rejected", "failed"}
  /\ Frozen(r)' = Frozen(r) - Amount[r] /\ Withdrawn(r)' = Withdrawn(r)
Released(r) ==
  /\ Frozen(r) >= Amount[r] /\ Status(r)' = "success"
  /\ Frozen(r)' = Frozen(r) - Amount[r] /\ Withdrawn(r)' = Withdrawn(r) + Amount[r]
LoneStep(r) == Rewritten(r) \/ Held(r) \/ Returned(r) \/ Released(r)

\* What the movements do to the frozen balance of r, if q is r and if it is another.
LEMMA LoneMoves ==
  ASSUME TypeOK, NEW r \in Requests, Lone(r), NEW q \in Requests
  PROVE  /\ Hold(q) /\ UNCHANGED outflow =>
              /\ Frozen(r)' = IF q = r THEN Frozen(r) + Amount[r] ELSE Frozen(r)
              /\ Withdrawn(r)' = Withdrawn(r)
         /\ HasFrozen(q) /\ Return(q) /\ UNCHANGED outflow =>
              /\ q = r => Frozen(r) >= Amount[r]
              /\ Frozen(r)' = IF q = r THEN Frozen(r) - Amount[r] ELSE Frozen(r)
              /\ Withdrawn(r)' = Withdrawn(r)
         /\ HasFrozen(q) /\ Release(q) =>
              /\ q = r => Frozen(r) >= Amount[r]
              /\ Frozen(r)' = IF q = r THEN Frozen(r) - Amount[r] ELSE Frozen(r)
              /\ Withdrawn(r)' = IF q = r THEN Withdrawn(r) + Amount[r] ELSE Withdrawn(r)
<1>1. q # r => Owner[q] # Owner[r]
  BY DEF Lone
<1>2. Owner[q] \in Accounts /\ Owner[r] \in Accounts
  BY ConstantsOK DEF ConstantsOK
<1> QED BY <1>1, <1>2 DEF TypeOK, Hold, Return, Release, HasFrozen, Frozen, Withdrawn

\* What the writes of the row q do to the status of r.
LEMMA LoneStatus ==
  ASSUME TypeOK, NEW r \in Requests, NEW q \in Requests
  PROVE  /\ \A st \in ReqStatus : SetRequest(q, st) => Status(r)' = IF q = r THEN st ELSE Status(r)
         /\ \A st \in ReqStatus, b \in BOOLEAN :
              request' = [request EXCEPT ![q] = [status |-> st, ref |-> b]]
                => Status(r)' = IF q = r THEN st ELSE Status(r)
         /\ UNCHANGED request => Status(r)' = Status(r)
  BY DEF TypeOK, SetRequest, Status

LEMMA LoneStill ==
  ASSUME NEW r \in Requests, UNCHANGED <<wallet, outflow, request>>
  PROVE  LoneStep(r)
  BY DEF LoneStep, Rewritten, Frozen, Withdrawn, Status

LEMMA LoneReview ==
  ASSUME TypeOK, Born, NEW r \in Requests, Lone(r), NEW s \in Sessions, Review(s)
  PROVE  LoneStep(r)
<1> DEFINE q == session[s].req
<1>0. session[s] \in Busy /\ q \in Requests
  <2>1. \E p \in Points : At(s, p)
    BY DEF Review, ReviewApprove, ReviewReject, ReviewMarkProcessing, ReviewComplete,
           ReviewExecuted, ReviewRefused, Points
  <2> QED BY <2>1, BusySession
<1>1. UNCHANGED <<wallet, outflow>> => Frozen(r)' = Frozen(r) /\ Withdrawn(r)' = Withdrawn(r)
  BY DEF Frozen, Withdrawn
<1>2. CASE ReviewApprove(s)
  BY <1>0, <1>1, <1>2, LoneStatus DEF ReviewApprove, LoneStep, Rewritten, ReqStatus, InFlow
<1>3. CASE ReviewReject(s)
  <2>1. CASE q = r
    BY <1>0, <1>3, <2>1, LoneStatus, LoneMoves DEF ReviewReject, LoneStep, Returned, ReqStatus
  <2>2. CASE q # r
    BY <1>0, <1>3, <2>2, LoneStatus, LoneMoves DEF ReviewReject, LoneStep, Rewritten, ReqStatus
  <2> QED BY <2>1, <2>2
<1>4. CASE ReviewMarkProcessing(s)
  <2>1. Status(r)' = Status(r) \/ Status(r)' = "transferring"
    BY <1>0, <1>4 DEF ReviewMarkProcessing, Status, TypeOK
  <2> QED BY <1>1, <1>4, <2>1 DEF ReviewMarkProcessing, LoneStep, Rewritten, InFlow
<1>5. CASE ReviewComplete(s)
  <2>1. CASE q = r
    BY <1>0, <1>5, <2>1, LoneStatus, LoneMoves DEF ReviewComplete, LoneStep, Released, ReqStatus
  <2>2. CASE q # r
    BY <1>0, <1>5, <2>2, LoneStatus, LoneMoves DEF ReviewComplete, LoneStep, Rewritten, ReqStatus
  <2> QED BY <2>1, <2>2
<1>6. CASE ReviewExecuted(s)
  <2>1. session[s].seen \in {"transferring", "success"}
    BY <1>6 DEF ReviewExecuted, Born
  <2> QED BY <1>0, <1>1, <1>6, <2>1, LoneStatus
          DEF ReviewExecuted, LoneStep, Rewritten, ReqStatus, InFlow
<1>7. CASE ReviewRefused(s)
  BY <1>7, LoneStill DEF ReviewRefused
<1> QED BY <1>2, <1>3, <1>4, <1>5, <1>6, <1>7 DEF Review

LEMMA LoneFinish ==
  ASSUME TypeOK, NEW r \in Requests, Lone(r), NEW s \in Sessions, Finish(s)
  PROVE  LoneStep(r)
<1> DEFINE q == session[s].req
<1>0. session[s] \in Busy /\ q \in Requests
  <2>1. \E p \in Points : At(s, p)
    BY DEF Finish, CallbackSettleRead, SettleRead, Settle, FailRead, Fail, CallbackFailRead,
           CallbackFail, Points
  <2> QED BY <2>1, BusySession
<1>1. ASSUME HasFrozen(q), Release(q),
             request' = [request EXCEPT ![q] = [status |-> "success", ref |-> TRUE]]
      PROVE LoneStep(r)
  <2>1. CASE q = r
    BY <1>0, <1>1, <2>1, LoneStatus, LoneMoves DEF LoneStep, Released, ReqStatus
  <2>2. CASE q # r
    BY <1>0, <1>1, <2>2, LoneStatus, LoneMoves DEF LoneStep, Rewritten, ReqStatus
  <2> QED BY <2>1, <2>2
<1>2. ASSUME Failed(s, q), UNCHANGED outflow PROVE LoneStep(r)
  <2>1. CASE q = r
    BY <1>0, <1>2, <2>1, LoneStatus, LoneMoves DEF Failed, LoneStep, Returned, ReqStatus
  <2>2. CASE q # r
    BY <1>0, <1>2, <2>2, LoneStatus, LoneMoves DEF Failed, LoneStep, Rewritten, ReqStatus
  <2> QED BY <2>1, <2>2
<1>3. CASE Settle(s)
  BY <1>1, <1>3, LoneStill DEF Settle
<1>4. CASE Fail(s)
  BY <1>2, <1>4, LoneStill DEF Fail
<1>5. CASE CallbackFail(s)
  BY <1>2, <1>5, LoneStill DEF CallbackFail
<1>6. CASE CallbackSettleRead(s) \/ SettleRead(s) \/ FailRead(s) \/ CallbackFailRead(s)
  BY <1>6, LoneStill DEF CallbackSettleRead, SettleRead, FailRead, CallbackFailRead
<1> QED BY <1>3, <1>4, <1>5, <1>6 DEF Finish

LEMMA LoneRetry ==
  ASSUME TypeOK, NEW r \in Requests, Lone(r), NEW s \in Sessions, Retry(s) \/ Refresh(s)
  PROVE  LoneStep(r)
<1> DEFINE q == session[s].req
<1>0. session[s] \in Busy /\ q \in Requests
  <2>1. \E p \in Points : At(s, p)
    BY DEF Retry, RetryHold, RetryReload, RetryRestore, Refresh, RefreshQuery, ProgressRecord,
           ProgressData, Points
  <2> QED BY <2>1, BusySession
<1>1. CASE RetryHold(s)
  <2> DEFINE again == /\ request[q].status = "failed" /\ Hold(q)
                      /\ request' = [request EXCEPT ![q] = [status |-> "pending_transfer", ref |-> FALSE]]
  <2>1. CASE again /\ q = r
    <3>1. Status(r) = "failed"
      BY <2>1 DEF Status
    <3> QED BY <1>0, <1>1, <2>1, <3>1, LoneStatus, LoneMoves
            DEF RetryHold, LoneStep, Held, ReqStatus, InFlow
  <2>2. CASE again /\ q # r
    BY <1>0, <1>1, <2>2, LoneStatus, LoneMoves
       DEF RetryHold, LoneStep, Rewritten, ReqStatus, InFlow
  <2>3. CASE UNCHANGED <<wallet, request>>
    BY <1>1, <2>3, LoneStill DEF RetryHold
  <2> QED BY <1>1, <2>1, <2>2, <2>3 DEF RetryHold
<1>2. CASE RetryRestore(s)
  <2> DEFINE undone == HasFrozen(q) /\ Return(q) /\ SetRequest(q, "failed")
  <2>1. CASE undone /\ q = r
    BY <1>0, <1>2, <2>1, LoneStatus, LoneMoves DEF RetryRestore, LoneStep, Returned, ReqStatus
  <2>2. CASE undone /\ q # r
    BY <1>0, <1>2, <2>2, LoneStatus, LoneMoves DEF RetryRestore, LoneStep, Rewritten, ReqStatus
  <2>3. CASE UNCHANGED <<wallet, request>>
    BY <1>2, <2>3, LoneStill DEF RetryRestore
  <2> QED BY <1>2, <2>1, <2>2, <2>3 DEF RetryRestore
<1>3. CASE ProgressRecord(s)
  <2>1. Status(r)' = Status(r) \/ Status(r)' = "transferring"
    BY <1>0, <1>3 DEF ProgressRecord, Status, TypeOK
  <2> QED BY <1>3, <2>1 DEF ProgressRecord, LoneStep, Rewritten, InFlow, Frozen, Withdrawn
<1>4. CASE RetryReload(s) \/ RefreshQuery(s) \/ ProgressData(s)
  BY <1>4, LoneStill DEF RetryReload, RefreshQuery, ProgressData
<1> QED BY <1>1, <1>2, <1>3, <1>4 DEF Retry, Refresh
LEMMA LoneStart ==
  ASSUME TypeOK,
         NEW r \in Requests, Lone(r),
         NEW q \in Requests,
         \/ Withdraw(q) \/ WorkerRefresh(q) \/ WorkerRetry(q)
         \/ \E s \in Handlers :
              \/ \E action \in AdminActions : ReviewWithdraw(s, q, action)
              \/ \E result \in {"paid", "failed"} : GatewayCallback(s, q, result)
         \/ \E result \in {"paid", "failed"} : GatewayResolve(q, result)
  PROVE  LoneStep(r)
<1>1. CASE Withdraw(q)
  <2>1. CASE q = r
    <3>1. Status(r) = "none"
      BY <1>1, <2>1 DEF Withdraw, Status
    <3> QED BY <1>1, <2>1, <3>1, LoneStatus, LoneMoves DEF Withdraw, LoneStep, Held, ReqStatus
  <2>2. CASE q # r
    BY <1>1, <2>2, LoneStatus, LoneMoves DEF Withdraw, LoneStep, Rewritten, ReqStatus
  <2> QED BY <2>1, <2>2
<1>2. CASE UNCHANGED <<wallet, outflow, request>>
  BY <1>2, LoneStill
<1> QED BY <1>1, <1>2
        DEF WorkerRefresh, WorkerRetry, ReviewWithdraw, GatewayCallback, GatewayResolve

\* Every step of the system is one of those steps of every such request.
LEMMA NextLone ==
  ASSUME TypeOK, Born, NEW r \in Requests, Lone(r), [Next]_vars
  PROVE  LoneStep(r)
<1>1. CASE UNCHANGED vars
  BY <1>1, LoneStill DEF vars
<1>2. ASSUME NEW a \in Accounts, NEW n \in SpendAmounts, Spend(a, n) PROVE LoneStep(r)
  <2>1. Frozen(r)' = Frozen(r) /\ Withdrawn(r)' = Withdrawn(r)
    BY <1>2 DEF Spend, Frozen, Withdrawn, TypeOK
  <2>2. Status(r)' = Status(r)
    BY <1>2 DEF Spend, Status
  <2> QED BY <2>1, <2>2 DEF LoneStep, Rewritten
<1>3. ASSUME NEW s \in Sessions, Step(s) \/ Crash(s) PROVE LoneStep(r)
  <2>1. CASE Submit(s) \/ Crash(s)
    BY <2>1, LoneStill
       DEF Submit, PayoutAccepted, PayoutPaidAtOnce, PayoutRefused, PayoutError, Crash
  <2> QED BY <1>3, <2>1, LoneReview, LoneFinish, LoneRetry DEF Step
<1>4. CASE WorkerList
  BY <1>4, LoneStill DEF WorkerList
<1> QED BY <1>1, <1>2, <1>3, <1>4, LoneStart DEF Next, Run, Die

\* The invariant survives each of the four steps: once the amount is released nothing is
\* frozen, so no step that takes it again is possible.
LEMMA LoneInductive == TypeOK /\ Born /\ LoneInv /\ [Next]_vars => LoneInv'
<1> SUFFICES ASSUME TypeOK, Born, LoneInv, [Next]_vars PROVE LoneInv'
  OBVIOUS
<1>1. ASSUME NEW r \in Requests, Lone(r)
      PROVE  /\ Frozen(r)' \in {0, Amount[r]}
             /\ Withdrawn(r)' \in {0, Amount[r]}
             /\ Withdrawn(r)' = Amount[r] => Frozen(r)' = 0 /\ Status(r)' \in InFlow \cup {"success"}
             /\ Status(r)' \in {"none", "failed", "rejected"} => Frozen(r)' = 0 /\ Withdrawn(r)' = 0
  <2>1. LoneStep(r)
    BY <1>1, NextLone
  <2>2. Amount[r] \in Nat /\ Amount[r] # 0
    BY ConstantsOK DEF ConstantsOK
  <2>3. /\ Frozen(r) \in {0, Amount[r]}
        /\ Withdrawn(r) \in {0, Amount[r]}
        /\ Withdrawn(r) = Amount[r] => Frozen(r) = 0 /\ Status(r) \in InFlow \cup {"success"}
        /\ Status(r) \in {"none", "failed", "rejected"} => Frozen(r) = 0 /\ Withdrawn(r) = 0
    BY <1>1 DEF LoneInv
  <2> QED BY <2>1, <2>2, <2>3 DEF LoneStep, Rewritten, Held, Returned, Released, InFlow
<1> QED BY <1>1 DEF LoneInv, Lone

\* However many approvals, completions, failure notices and retries race for a request
\* that is alone on its account, its amount leaves the account at most once
\* (ReviewWithdraw, completeWithdrawByCallbackTx, retryWithdrawPayout).
THEOREM LoneRequestPaysOnce == Spec => []LonePaysOnce
<1>1. Init => LoneInv
  BY ConstantsOK
     DEF ConstantsOK, Init, LoneInv, Frozen, Withdrawn, Status, InFlow
<1>2. LoneInv => LonePaysOnce
  BY DEF LoneInv, LonePaysOnce, Frozen, Withdrawn, Status
<1> QED BY <1>1, <1>2, LoneInductive, FreshInit, BornStep, TypeCorrect, PTL DEF Spec
-----------------------------------------------------------------------------
(* Where the money of a request is, until a statement is overtaken.             *)

\* What becomes of a request in the statement of its handler: its stage and the account
\* stay, or its amount is set aside, given back or paid.
StageStays(r) == StageOf(r)' = StageOf(r) /\ UNCHANGED wallet
StageHeld(r) ==
  StageOf(r) \in {"none", "failed"} /\ StageOf(r)' = "held" /\ CanHold(r) /\ Hold(r)
StageReturned(r) ==
  StageOf(r) = "held" /\ StageOf(r)' \in {"rejected", "failed"} /\ HasFrozen(r) /\ Return(r)
StagePaid(r) ==
  StageOf(r) = "held" /\ StageOf(r)' = "paid" /\ HasFrozen(r) /\ Release(r)
StageStep(r) == StageStays(r) \/ StageHeld(r) \/ StageReturned(r) \/ StagePaid(r)

\* The statuses of a row and its transaction that go together.
TxnPair(st, tx) ==
  <<st, tx>> \in
    {<<"none", "none">>, <<"pending_review", "pending_review">>,
     <<"pending_transfer", "processing">>, <<"transferring", "processing">>,
     <<"rejected", "failed">>, <<"success", "success">>, <<"failed", "failed">>}

\* A statement whose check still holds moves its request from one stage to the next, and
\* writes the transaction accordingly.
LEMMA OwnStage ==
  ASSUME TypeOK, NEW s \in Sessions, Step(s) \/ Crash(s), NEW r \in Requests, session[s].req = r,
         StillHolds(s), At(s, "executed") => session[s].seen = "transferring",
         TxnPair(request[r].status, txn[r].status)
  PROVE  StageStep(r) /\ TxnPair(request'[r].status, txn'[r].status)
<1> DEFINE st == request[r].status
           stp == request'[r].status
           txp == txn'[r].status
<1>0. /\ session[s] \in Busy /\ r \in Requests
      /\ request \in [Requests -> [status : ReqStatus, ref : BOOLEAN]]
      /\ txn \in [Requests -> [status : TxnStatus, data : Data]]
  BY StepBusy DEF TypeOK
<1>1. /\ \A new : SetRequest(r, new) => stp = new
      /\ \A new, b : request' = [request EXCEPT ![r] = [status |-> new, ref |-> b]] => stp = new
      /\ \A new, d : SetTxn(r, new, d) => txp = new
  BY <1>0 DEF SetRequest, SetTxn
<1>2. UNCHANGED <<wallet, request, txn>> => StageStep(r) /\ TxnPair(stp, txp)
  BY <1>0 DEF StageStep, StageStays, StageOf
<1>3. \/ st = "none" /\ StageOf(r) = "none"
      \/ st \in {"pending_review", "pending_transfer", "transferring"} /\ StageOf(r) = "held"
      \/ st = "success" /\ StageOf(r) = "paid"
      \/ st = "rejected" /\ StageOf(r) = "rejected"
      \/ st = "failed" /\ StageOf(r) = "failed"
  BY <1>0 DEF StageOf, Holding, InFlow, ReqStatus
<1>4. /\ stp \in {"pending_review", "pending_transfer", "transferring"} => StageOf(r)' = "held"
      /\ stp = "success" => StageOf(r)' = "paid"
      /\ stp \in {"none", "rejected", "failed"} => StageOf(r)' = stp
  BY DEF StageOf, Holding, InFlow
<1> USE DEF StageStep, TxnPair
<1>5. CASE Review(s)
  <2>1. CASE ReviewApprove(s)
    <3>1. st = "pending_review" /\ stp = "pending_transfer" /\ txp = "processing" /\ UNCHANGED wallet
      BY <1>0, <1>1, <2>1 DEF ReviewApprove, At, StillHolds
    <3> QED BY <1>3, <1>4, <3>1 DEF StageStays
  <2>2. CASE ReviewReject(s)
    <3>1. st = "pending_review" /\ stp = "rejected" /\ txp = "failed" /\ HasFrozen(r) /\ Return(r)
      BY <1>0, <1>1, <2>2 DEF ReviewReject, At, StillHolds
    <3> QED BY <1>3, <1>4, <3>1 DEF StageReturned
  <2>3. CASE ReviewMarkProcessing(s)
    <3>1. st = "pending_transfer" /\ stp = "transferring" /\ txp = "processing" /\ UNCHANGED wallet
      BY <1>0, <1>1, <2>3 DEF ReviewMarkProcessing, At, StillHolds
    <3> QED BY <1>3, <1>4, <3>1 DEF StageStays
  <2>4. CASE ReviewComplete(s)
    <3>1. st \in InFlow /\ stp = "success" /\ txp = "success" /\ HasFrozen(r) /\ Release(r)
      BY <1>0, <1>1, <2>4 DEF ReviewComplete, At, StillHolds
    <3> QED BY <1>3, <1>4, <3>1 DEF StagePaid, InFlow
  <2>5. CASE ReviewExecuted(s)
    <3>1. st = "pending_transfer" /\ stp = "transferring" /\ txp = "processing" /\ UNCHANGED wallet
      BY <1>0, <1>1, <2>5 DEF ReviewExecuted, At, StillHolds
    <3> QED BY <1>3, <1>4, <3>1 DEF StageStays
  <2>6. CASE ReviewRefused(s)
    BY <1>2, <2>6 DEF ReviewRefused
  <2> QED BY <1>5, <2>1, <2>2, <2>3, <2>4, <2>5, <2>6 DEF Review
<1>6. CASE Submit(s) \/ Crash(s)
  BY <1>2, <1>6 DEF Submit, PayoutAccepted, PayoutPaidAtOnce, PayoutRefused, PayoutError, Crash
<1>7. CASE Finish(s)
  <2>1. ASSUME Failed(s, r), st \in InFlow PROVE StageStep(r) /\ TxnPair(stp, txp)
    <3>1. stp = "failed" /\ txp = "failed" /\ HasFrozen(r) /\ Return(r)
      BY <1>1, <2>1 DEF Failed
    <3> QED BY <1>3, <1>4, <2>1, <3>1 DEF StageReturned, InFlow
  <2>2. CASE Settle(s)
    <3>1. CASE HasFrozen(r)
      <4>1. st \in InFlow /\ stp = "success" /\ txp = "success" /\ HasFrozen(r) /\ Release(r)
        BY <1>0, <1>1, <2>2, <3>1 DEF Settle, At, StillHolds
      <4> QED BY <1>3, <1>4, <4>1 DEF StagePaid, InFlow
    <3>2. CASE ~ HasFrozen(r)
      BY <1>2, <2>2, <3>2 DEF Settle
    <3> QED BY <3>1, <3>2
  <2>3. CASE Fail(s)
    <3>1. st \in InFlow
      BY <1>0, <2>3 DEF Fail, At, StillHolds
    <3> QED BY <1>2, <2>1, <2>3, <3>1 DEF Fail
  <2>4. CASE CallbackFail(s)
    BY <1>2, <2>1, <2>4 DEF CallbackFail
  <2>5. CASE CallbackSettleRead(s) \/ SettleRead(s) \/ FailRead(s) \/ CallbackFailRead(s)
    BY <1>2, <2>5 DEF CallbackSettleRead, SettleRead, FailRead, CallbackFailRead
  <2> QED BY <1>7, <2>2, <2>3, <2>4, <2>5 DEF Finish
<1>8. CASE Refresh(s)
  <2>1. CASE ProgressRecord(s)
    <3>1. CASE session[s].seen = "pending_transfer"
      <4>1. st \in InFlow /\ stp = "transferring" /\ UNCHANGED <<wallet, txn>>
        BY <1>0, <1>1, <2>1, <3>1 DEF ProgressRecord, At, StillHolds
      <4> QED BY <1>0, <1>3, <1>4, <4>1 DEF StageStays, InFlow
    <3>2. CASE session[s].seen # "pending_transfer"
      <4>1. stp = st /\ UNCHANGED <<wallet, txn>>
        BY <1>0, <2>1, <3>2 DEF ProgressRecord
      <4> QED BY <1>0, <4>1 DEF StageStays, StageOf
    <3> QED BY <3>1, <3>2
  <2>2. CASE ProgressData(s)
    <3>1. stp = st /\ txp = txn[r].status /\ UNCHANGED wallet
      BY <1>0, <2>2 DEF ProgressData
    <3> QED BY <1>0, <2>2, <3>1 DEF ProgressData, StageStays, StageOf
  <2>3. CASE RefreshQuery(s)
    BY <1>2, <2>3 DEF RefreshQuery
  <2> QED BY <1>8, <2>1, <2>2, <2>3 DEF Refresh
<1>9. CASE Retry(s)
  <2>1. CASE RetryHold(s)
    <3>1. CASE st = "failed" /\ CanHold(r)
      <4>1. stp = "pending_transfer" /\ txp = "processing" /\ Hold(r)
        BY <1>1, <2>1, <3>1 DEF RetryHold
      <4> QED BY <1>3, <1>4, <3>1, <4>1 DEF StageHeld
    <3>2. CASE ~ (st = "failed" /\ CanHold(r))
      BY <1>2, <2>1, <3>2 DEF RetryHold
    <3> QED BY <3>1, <3>2
  <2>2. CASE RetryReload(s)
    BY <1>2, <2>2 DEF RetryReload
  <2>3. CASE RetryRestore(s)
    <3>1. CASE st \in InFlow /\ HasFrozen(r)
      <4>1. stp = "failed" /\ txp = "failed" /\ Return(r)
        BY <1>1, <2>3, <3>1 DEF RetryRestore
      <4> QED BY <1>3, <1>4, <3>1, <4>1 DEF StageReturned, InFlow
    <3>2. CASE ~ (st \in InFlow /\ HasFrozen(r))
      BY <1>2, <2>3, <3>2 DEF RetryRestore
    <3> QED BY <3>1, <3>2
  <2> QED BY <1>9, <2>1, <2>2, <2>3 DEF Retry
<1> QED BY <1>5, <1>6, <1>7, <1>8, <1>9 DEF Step

\* The account of the request is the only one a session touches.
LEMMA OwnAccount ==
  ASSUME TypeOK, NEW s \in Sessions, Step(s) \/ Crash(s), NEW b \in Accounts,
         b # Owner[session[s].req]
  PROVE  wallet'[b] = wallet[b]
<1> DEFINE r == session[s].req
<1>0. wallet \in WalletType
  BY DEF TypeOK, WalletType
<1>1. Hold(r) \/ Return(r) \/ Release(r) \/ UNCHANGED wallet => wallet'[b] = wallet[b]
  BY <1>0 DEF Hold, Return, Release, WalletType
<1>2. CASE Review(s)
  BY <1>1, <1>2 DEF Review, ReviewApprove, ReviewReject, ReviewMarkProcessing, ReviewComplete,
                    ReviewExecuted, ReviewRefused
<1>3. CASE Submit(s) \/ Crash(s)
  BY <1>3 DEF Submit, PayoutAccepted, PayoutPaidAtOnce, PayoutRefused, PayoutError, Crash
<1>4. CASE Finish(s)
  BY <1>1, <1>4 DEF Finish, CallbackSettleRead, SettleRead, Settle, FailRead, Fail, Failed,
                    CallbackFailRead, CallbackFail
<1>5. CASE Refresh(s) \/ Retry(s)
  BY <1>1, <1>5 DEF Refresh, RefreshQuery, ProgressRecord, ProgressData, Retry, RetryHold,
                    RetryReload, RetryRestore
<1> QED BY <1>2, <1>3, <1>4, <1>5 DEF Step

\* The inductive invariant: what a session that is not stale has read is still so, and the
\* two rows of a request that was never overtaken agree.
CleanInv == Born /\ FreshInv /\ TxnFollowsRequest

Clean(r) == <<r, "overtaken">> \notin mishap /\ <<r, "paid_at_once">> \notin mishap

StagesStay == \A q \in Requests : StageOf(q)' = StageOf(q)

\* One request moves, or its account is spoiled and the others stay.
Strays(a) ==
  /\ Spoiled' = Spoiled \cup {a}
  /\ \A b \in Accounts \ {a} : wallet'[b] = wallet[b]
StageNext ==
  \/ StagesStay /\ UNCHANGED wallet /\ Spoiled' = Spoiled
  \/ StagesStay /\ Spoiled' = Spoiled /\ \E a \in Accounts, n \in SpendAmounts : Spend(a, n)
  \/ \E r \in Requests :
       /\ \A q \in Requests : q # r => StageOf(q)' = StageOf(q)
       /\ Strays(Owner[r]) \/ (StageStep(r) /\ Spoiled' = Spoiled)

LEMMA CleanParts ==
  /\ \A r \in Requests : Clean(r) <=> ~ Befell(r, {"overtaken", "paid_at_once"})
  /\ Spoiled = {Owner[r] : r \in {q \in Requests : ~ Clean(q)}}
  /\ TxnFollowsRequest <=> \A r \in Requests : Clean(r) => TxnPair(request[r].status, txn[r].status)
<1>1. \A r \in Requests : Clean(r) <=> ~ Befell(r, {"overtaken", "paid_at_once"})
  BY DEF Clean, Befell
<1>2. Spoiled = {Owner[r] : r \in {q \in Requests : ~ Clean(q)}}
  BY <1>1, Zenon DEF Spoiled
<1>3. TxnFollowsRequest <=> \A r \in Requests : Clean(r) => TxnPair(request[r].status, txn[r].status)
  BY <1>1, Zenon DEF TxnFollowsRequest, TxnPair
<1> QED BY <1>1, <1>2, <1>3

LEMMA CleanPartsNext ==
  /\ Spoiled' = {Owner[r] : r \in {q \in Requests : ~ Clean(q)'}}
  /\ TxnFollowsRequest' <=>
       \A r \in Requests : Clean(r)' => TxnPair(request'[r].status, txn'[r].status)
<1>1. \A r \in Requests : Clean(r)' <=> ~ Befell(r, {"overtaken", "paid_at_once"})'
  BY DEF Clean, Befell
<1>2. Spoiled' = {Owner[r] : r \in {q \in Requests : ~ Clean(q)'}}
  BY <1>1, Zenon DEF Spoiled
<1>3. TxnFollowsRequest' <=>
        \A r \in Requests : Clean(r)' => TxnPair(request'[r].status, txn'[r].status)
  BY <1>1, Zenon DEF TxnFollowsRequest, TxnPair
<1> QED BY <1>2, <1>3

\* Every step of the system, for all requests at once.
LEMMA NextStage ==
  ASSUME TypeOK, CleanInv, [Next]_vars
  PROVE  StageNext /\ TxnFollowsRequest'
<1>0. /\ Born /\ FreshInv
      /\ \A r \in Requests : Clean(r) => TxnPair(request[r].status, txn[r].status)
  BY CleanParts DEF CleanInv
<1>1. ASSUME \A q \in Requests : Clean(q)' <=> Clean(q)
      PROVE  Spoiled' = Spoiled
  BY <1>1, CleanParts, CleanPartsNext, Zenon
<1>2. ASSUME UNCHANGED <<wallet, request, txn>>, \A q \in Requests : Clean(q)' <=> Clean(q)
      PROVE  StageNext /\ TxnFollowsRequest'
  BY <1>0, <1>1, <1>2, CleanPartsNext DEF StageNext, StagesStay, StageOf
<1>3. ASSUME NEW a \in Accounts, NEW n \in SpendAmounts, Spend(a, n)
      PROVE  StageNext /\ TxnFollowsRequest'
  <2>1. UNCHANGED <<request, txn, mishap>>
    BY <1>3 DEF Spend, past
  <2>2. \A q \in Requests : Clean(q)' <=> Clean(q)
    BY <2>1 DEF Clean
  <2>3. StagesStay
    BY <2>1 DEF StagesStay, StageOf
  <2>4. TxnFollowsRequest'
    BY <1>0, <2>1, <2>2, CleanPartsNext
  <2> QED BY <1>1, <1>3, <2>2, <2>3, <2>4 DEF StageNext
<1>4. ASSUME NEW r \in Requests, Withdraw(r)
      PROVE  StageNext /\ TxnFollowsRequest'
  <2>1. /\ request[r].status = "none" /\ request'[r].status = "pending_review"
        /\ txn'[r].status = "pending_review" /\ CanHold(r) /\ Hold(r)
        /\ \A q \in Requests : q # r => request'[q] = request[q] /\ txn'[q] = txn[q]
        /\ mishap' = mishap
    BY <1>4, OwnRows DEF Withdraw, SetRequest, SetTxn, TypeOK, past
  <2>2. StageOf(r) = "none" /\ StageOf(r)' = "held"
    BY <2>1 DEF StageOf, Holding, InFlow
  <2>3. \A q \in Requests : q # r => StageOf(q)' = StageOf(q)
    BY <2>1 DEF StageOf
  <2>4. StageStep(r)
    BY <2>1, <2>2 DEF StageStep, StageHeld
  <2>5. \A q \in Requests : Clean(q)' <=> Clean(q)
    BY <2>1 DEF Clean
  <2>6. TxnPair(request'[r].status, txn'[r].status)
    BY <2>1 DEF TxnPair
  <2>7. TxnFollowsRequest'
    BY <1>0, <2>1, <2>5, <2>6, CleanPartsNext
  <2> QED BY <1>1, <2>3, <2>4, <2>5, <2>7 DEF StageNext
<1>5. ASSUME NEW s \in Sessions, Run(s) \/ Die(s)
      PROVE  StageNext /\ TxnFollowsRequest'
  <2>0. Step(s) \/ Crash(s)
    BY <1>5 DEF Run, Die
  <2>1. PICK r \in Requests : session[s].req = r /\ session[s] # Idle
    BY <2>0, StepBusy
  <2>2. /\ \A q \in Requests : q # r => (Clean(q)' <=> Clean(q))
        /\ Clean(r)' => Clean(r)
    BY <1>5, <2>1, Remembered DEF Clean
  <2>3. \A q \in Requests : q # r => request'[q] = request[q] /\ txn'[q] = txn[q]
    BY <2>0, <2>1, StepOwn DEF OwnRow
  <2>4. \A q \in Requests : q # r => StageOf(q)' = StageOf(q)
    BY <2>3 DEF StageOf
  <2>5. ASSUME Clean(r)'
        PROVE  StageStep(r) /\ TxnPair(request'[r].status, txn'[r].status)
    <3>0. TxnPair(request[r].status, txn[r].status)
      BY <1>0, <2>2, <2>5
    <3>1. CASE Acts
      <4>1. s \notin stale \/ StillHolds(s)
        BY <1>5, <2>1, <2>5, <3>1, Remembered DEF Clean
      <4>2. s \notin stale => Found(session[s], request[r].status)
        BY <1>0, <2>1 DEF FreshInv
      <4>3. StillHolds(s)
        BY <2>1, <4>1, <4>2 DEF StillHolds, Found
      <4>4. At(s, "executed") => session[s].seen = "transferring"
        BY <1>0, <1>5, <2>1, <2>5, <3>1, Remembered DEF Clean, Born
      <4> QED BY <2>0, <2>1, <3>0, <4>3, <4>4, OwnStage
    <3>2. CASE ~ Acts
      BY <3>0, <3>2 DEF Acts, StageStep, StageStays, StageOf
    <3> QED BY <3>1, <3>2
  <2>6. TxnFollowsRequest'
    BY <1>0, <2>2, <2>3, <2>5, CleanPartsNext
  <2>7. CASE Clean(r)' \/ ~ Clean(r)
    <3>1. Spoiled' = Spoiled
      BY <1>1, <2>2, <2>7
    <3>2. CASE Clean(r)'
      BY <2>1, <2>4, <2>5, <2>6, <3>1, <3>2 DEF StageNext
    <3>3. CASE ~ Clean(r)
      <4>1. Owner[r] \in Spoiled
        BY <3>3, CleanParts
      <4>2. Strays(Owner[r])
        BY <2>0, <2>1, <3>1, <4>1, OwnAccount DEF Strays
      <4> QED BY <2>1, <2>4, <2>6, <4>2 DEF StageNext
    <3> QED BY <2>7, <3>2, <3>3
  <2>8. CASE ~ Clean(r)' /\ Clean(r)
    <3>1. \A q \in Requests : ~ Clean(q)' <=> (~ Clean(q) \/ q = r)
      BY <2>2, <2>8
    <3>2. Spoiled' = Spoiled \cup {Owner[r]}
      BY <3>1, CleanParts, CleanPartsNext
    <3>3. Strays(Owner[r])
      BY <2>0, <2>1, <3>2, OwnAccount DEF Strays
    <3> QED BY <2>1, <2>4, <2>6, <3>3 DEF StageNext
  <2> QED BY <2>7, <2>8
<1>6. ASSUME NEW s \in Sessions, NEW r \in Requests, NEW p \in Points, Started(s, r, p)
      PROVE  StageNext /\ TxnFollowsRequest'
  <2>1. \A q \in Requests : Clean(q)' <=> Clean(q)
    BY <1>6 DEF Started, Clean
  <2> QED BY <1>2, <1>6, <2>1 DEF Started
<1>7. ASSUME UNCHANGED <<wallet, request, txn, mishap>>
      PROVE  StageNext /\ TxnFollowsRequest'
  <2>1. \A q \in Requests : Clean(q)' <=> Clean(q)
    BY <1>7 DEF Clean
  <2> QED BY <1>2, <1>7, <2>1
<1> QED BY <1>0, <1>3, <1>4, <1>5, <1>6, <1>7, NextParts DEF GatewayResolve, Quiet, past

LEMMA CleanStep == TypeOK /\ CleanInv /\ [Next]_vars => CleanInv'
  BY BornStep, FreshStep, NextStage DEF CleanInv

LEMMA CleanInit == Init => CleanInv
  BY FreshInit DEF Init, CleanInv, TxnFollowsRequest

\* As long as no statement was overtaken and no payout answered as paid at once, the
\* transaction of a request shows the status that goes with that of its row, although they
\* are written by different statements of racing handlers (ReviewWithdraw,
\* UpdateWalletTransactionStatusTx).
THEOREM TransactionFollows == Spec => []TxnFollowsRequest
<1>1. CleanInv => TxnFollowsRequest
  BY DEF CleanInv
<1> QED BY <1>1, CleanInit, CleanStep, TypeCorrect, PTL DEF Spec

\* Withdrawals implement the escrow: the amount of a request is set aside, then leaves or
\* comes back, once, whatever handlers, notices, refreshes, retries and crashes come in between;
\* a request that is overtaken spoils its account and no other (Withdraw, ReviewWithdraw,
\* the callbacks, the worker).
THEOREM EscrowImplemented == Spec => ImplementsEscrow
<1> DEFINE free == [a \in Accounts |-> wallet[a].balance]
           stage == [r \in Requests |-> StageOf(r)]
<1>1. Init => Escrow!Init
  <2> SUFFICES ASSUME Init PROVE Escrow!Init
    OBVIOUS
  <2>1. free = [a \in Accounts |-> Deposit[a]]
    BY DEF Init
  <2>2. stage = [r \in Requests |-> "none"]
    BY DEF Init, StageOf, Holding, InFlow
  <2>3. Spoiled = {}
    BY DEF Init, Spoiled, Befell
  <2> QED BY <2>1, <2>2, <2>3 DEF Escrow!Init
<1>2. TypeOK /\ CleanInv /\ [Next]_vars => CleanInv'
  BY CleanStep
<1>3. TypeOK /\ CleanInv /\ [Next]_vars => [Escrow!Next]_(Escrow!vars)
  <2> SUFFICES ASSUME TypeOK, StageNext PROVE [Escrow!Next]_(Escrow!vars)
    BY NextStage
  <2>0. wallet \in WalletType /\ \A r \in Requests : Owner[r] \in Accounts /\ Amount[r] \in Nat
    BY ConstantsOK DEF TypeOK, WalletType, ConstantsOK
  <2>1. CASE StagesStay /\ UNCHANGED wallet /\ Spoiled' = Spoiled
    BY <2>1 DEF StagesStay, Escrow!vars
  <2>2. ASSUME StagesStay, Spoiled' = Spoiled, NEW a \in Accounts, NEW n \in SpendAmounts,
               Spend(a, n)
        PROVE  Escrow!Next
    <3>1. stage' = stage
      BY <2>2 DEF StagesStay
    <3>2. free[a] >= n /\ free' = [free EXCEPT ![a] = @ - n]
      BY <2>0, <2>2 DEF Spend, WalletType
    <3> QED BY <2>2, <3>1, <3>2 DEF Escrow!Next, Escrow!Spend
  <2>3. ASSUME NEW r \in Requests, StageStep(r), Spoiled' = Spoiled,
               \A q \in Requests : q # r => StageOf(q)' = StageOf(q)
        PROVE  [Escrow!Next]_(Escrow!vars)
    <3> DEFINE o == Owner[r]
    <3>0. stage' = [stage EXCEPT ![r] = StageOf(r)']
      BY <2>3
    <3>1. CASE StageStays(r)
      <4>1. stage' = stage /\ free' = free
        BY <2>3, <3>1 DEF StageStays
      <4> QED BY <2>3, <4>1 DEF Escrow!vars
    <3>2. CASE StageHeld(r)
      <4>1. free[o] >= Amount[r] /\ free' = [free EXCEPT ![o] = @ - Amount[r]]
        BY <2>0, <3>2 DEF StageHeld, CanHold, Hold, WalletType
      <4>2. Escrow!Place(r)
        BY <2>3, <3>0, <3>2, <4>1 DEF StageHeld, Escrow!Place
      <4> QED BY <4>2 DEF Escrow!Next
    <3>3. CASE StageReturned(r)
      <4>1. free' = [free EXCEPT ![o] = @ + Amount[r]]
        BY <2>0, <3>3 DEF StageReturned, Return, WalletType
      <4>2. Escrow!GiveBack(r)
        BY <2>3, <3>0, <3>3, <4>1 DEF StageReturned, Escrow!GiveBack
      <4> QED BY <4>2 DEF Escrow!Next
    <3>4. CASE StagePaid(r)
      <4>1. free' = free
        BY <2>0, <3>4 DEF StagePaid, Release, WalletType
      <4>2. Escrow!Pay(r)
        BY <2>3, <3>0, <3>4, <4>1 DEF StagePaid, Escrow!Pay
      <4> QED BY <4>2 DEF Escrow!Next
    <3> QED BY <2>3, <3>1, <3>2, <3>3, <3>4 DEF StageStep
  <2>4. ASSUME NEW r \in Requests, Strays(Owner[r]),
               \A q \in Requests : q # r => StageOf(q)' = StageOf(q)
        PROVE  [Escrow!Next]_(Escrow!vars)
    <3>1. \A b \in Accounts \ {Owner[r]} : free'[b] = free[b]
      BY <2>4 DEF Strays
    <3>2. \A q \in Requests : Owner[q] # Owner[r] => stage'[q] = stage[q]
      BY <2>4
    <3>3. Escrow!Stray(Owner[r])
      BY <2>4, <3>1, <3>2 DEF Strays, Escrow!Stray
    <3> QED BY <2>0, <3>3 DEF Escrow!Next
  <2> QED BY <2>1, <2>2, <2>3, <2>4 DEF StageNext
<1> QED BY <1>1, <1>2, <1>3, CleanInit, TypeCorrect, PTL DEF Spec, ImplementsEscrow, Escrow!Spec
-----------------------------------------------------------------------------
(* The frozen balance of an account is the sum of its open requests.            *)

\* The sum is one of finitely many amounts, for any set of requests.
HoldSums ==
  \A a \in Accounts \ Spoiled :
    IsFiniteSet(HoldingOf(a)) /\ wallet[a].frozen = SumOver(Amount, HoldingOf(a))

\* The open requests of an account, by their stage.
LEMMA HeldStage ==
  ASSUME TypeOK, NEW a \in Accounts
  PROVE  HoldingOf(a) = {r \in Requests : Owner[r] = a /\ StageOf(r) = "held"}
  BY DEF TypeOK, HoldingOf, StageOf, ReqStatus, Holding, InFlow

LEMMA HeldStageNext == (TypeOK =>
  \A a \in Accounts : HoldingOf(a) = {r \in Requests : Owner[r] = a /\ StageOf(r) = "held"})'
<1>1. TypeOK =>
        \A a \in Accounts : HoldingOf(a) = {r \in Requests : Owner[r] = a /\ StageOf(r) = "held"}
  BY HeldStage
<1> QED BY <1>1, PTL

\* One request joins or leaves the sum with its amount.
LEMMA HoldsStep ==
  ASSUME TypeOK, TypeOK', StageNext, HoldSums
  PROVE  HoldSums'
<1> SUFFICES ASSUME NEW a \in Accounts \ Spoiled'
             PROVE  IsFiniteSet(HoldingOf(a)') /\ wallet'[a].frozen = SumOver(Amount, HoldingOf(a)')
  BY DEF HoldSums
<1> DEFINE H == HoldingOf(a)
           G == HoldingOf(a)'
<1> SUFFICES IsFiniteSet(G) /\ wallet'[a].frozen = SumOver(Amount, G)
  OBVIOUS
<1> a \notin Spoiled
  BY DEF StageNext, Strays
<1>0. /\ wallet \in WalletType
      /\ IsFiniteSet(H) /\ wallet[a].frozen = SumOver(Amount, H)
      /\ \A r \in Requests : Owner[r] \in Accounts /\ Amount[r] \in Nat
  BY ConstantsOK DEF HoldSums, TypeOK, WalletType, ConstantsOK
<1>1. /\ H = {r \in Requests : Owner[r] = a /\ StageOf(r) = "held"}
      /\ G = {r \in Requests : Owner[r] = a /\ StageOf(r)' = "held"}
  BY HeldStage, HeldStageNext
<1>2. /\ SumOver(Amount, H) \in Nat
      /\ IsFiniteSet(G) => SumOver(Amount, G) \in Nat
  BY <1>0, <1>1, SumType
<1> HIDE DEF H, G
<1>3. CASE StagesStay /\ wallet'[a].frozen = wallet[a].frozen
  <2>1. G = H
    BY <1>1, <1>3 DEF StagesStay
  <2> QED BY <1>0, <1>3, <2>1
<1>4. ASSUME NEW r \in Requests, StageStep(r),
             \A q \in Requests : q # r => StageOf(q)' = StageOf(q)
      PROVE  IsFiniteSet(G) /\ wallet'[a].frozen = SumOver(Amount, G)
  <2>1. CASE StageStays(r)
    <3>1. G = H
      BY <1>1, <1>4, <2>1 DEF StageStays
    <3> QED BY <1>0, <2>1, <3>1 DEF StageStays
  <2>2. CASE Owner[r] # a
    <3>1. G = H
      BY <1>1, <1>4, <2>2
    <3>2. wallet'[a] = wallet[a]
      BY <1>0, <1>4, <2>2
         DEF StageStep, StageStays, StageHeld, StageReturned, StagePaid, Hold, Return, Release, WalletType
    <3> QED BY <1>0, <3>1, <3>2
  <2>3. CASE Owner[r] = a /\ StageHeld(r)
    <3>1. r \notin H /\ G = H \cup {r}
      BY <1>1, <1>4, <2>3 DEF StageHeld
    <3>2. IsFiniteSet(G)
      BY <1>0, <3>1, FS_AddElement
    <3>3. SumOver(Amount, G) = Amount[r] + SumOver(Amount, H)
      <4>1. \A q \in H \cup {r} : Amount[q] \in Nat
        BY <1>0, <1>1
      <4> QED BY <1>0, <3>1, <4>1, SumAdd
    <3>4. wallet'[a].frozen = wallet[a].frozen + Amount[r]
      BY <1>0, <2>3 DEF StageHeld, Hold, WalletType
    <3>5. SumOver(Amount, H) \in Nat
      BY <1>2
    <3> QED BY <1>0, <3>2, <3>3, <3>4, <3>5
  <2>4. CASE Owner[r] = a /\ (StageReturned(r) \/ StagePaid(r))
    <3>1. r \in H /\ G = H \ {r}
      BY <1>1, <1>4, <2>4 DEF StageReturned, StagePaid
    <3>2. IsFiniteSet(G)
      BY <1>0, <3>1, FS_RemoveElement
    <3>3. SumOver(Amount, H) = Amount[r] + SumOver(Amount, G)
      <4>1. \A q \in H : Amount[q] \in Nat
        BY <1>0, <1>1
      <4> QED BY <1>0, <3>1, <4>1, SumRemove
    <3>4. wallet'[a].frozen = wallet[a].frozen - Amount[r]
      BY <1>0, <2>4 DEF StageReturned, StagePaid, Return, Release, WalletType
    <3>5. SumOver(Amount, G) \in Nat
      BY <1>2, <3>2
    <3> QED BY <1>0, <3>2, <3>3, <3>4, <3>5
  <2> QED BY <1>4, <2>1, <2>2, <2>3, <2>4 DEF StageStep
<1>5. ASSUME NEW b \in Accounts, NEW n \in SpendAmounts, Spend(b, n)
      PROVE  wallet'[a].frozen = wallet[a].frozen
  BY <1>0, <1>5 DEF Spend, WalletType
<1>6. ASSUME NEW r \in Requests, Strays(Owner[r]),
             \A q \in Requests : q # r => StageOf(q)' = StageOf(q)
      PROVE  IsFiniteSet(G) /\ wallet'[a].frozen = SumOver(Amount, G)
  <2>1. Owner[r] # a /\ wallet'[a] = wallet[a]
    BY <1>6 DEF Strays
  <2>2. G = H
    BY <1>1, <1>6, <2>1
  <2> QED BY <1>0, <2>1, <2>2
<1> QED BY <1>3, <1>4, <1>5, <1>6 DEF StageNext

\* The frozen balance of every account that is not spoiled is the sum of the amounts of its
\* open requests, however many there are and however their handlers race
\* (wallet_accounts.frozen_balance, which no statement compares with withdraw_requests).
THEOREM HoldsAddUp == Spec => []HoldMatchesStatus
<1>1. Init => HoldSums
  <2> SUFFICES ASSUME Init, NEW a \in Accounts \ Spoiled
               PROVE  IsFiniteSet(HoldingOf(a)) /\ wallet[a].frozen = SumOver(Amount, HoldingOf(a))
    BY DEF HoldSums
  <2>1. HoldingOf(a) = {}
    BY DEF Init, HoldingOf, Holding, InFlow
  <2> QED BY <2>1, SumEmpty, FS_EmptySet DEF Init
<1>2. TypeOK /\ TypeOK' /\ CleanInv /\ HoldSums /\ [Next]_vars => CleanInv' /\ HoldSums'
  BY CleanStep, NextStage, HoldsStep
<1>3. HoldSums => HoldMatchesStatus
  BY Zenon DEF HoldSums, HoldMatchesStatus, SumOver
<1> QED BY <1>1, <1>2, <1>3, CleanInit, TypeCorrect, PTL DEF Spec
-----------------------------------------------------------------------------
(* Between the user and the gateway.                                            *)

\* What a handler knows of the payout at its statement, and what a row says of it.
PayFound(x, pay) ==
  /\ x.at # "complete"
  /\ x.at \in {"settle_read", "settle", "callback_settle"} => pay = "paid"
  /\ x.at \in {"fail_read", "fail", "callback_fail_read", "callback_fail"} => pay = "failed"
  /\ x.at = "executed" => x.seen = "transferring" \/ (x.seen = "success" /\ pay = "paid")
  /\ x.at \in {"reload", "restore"} \/ (x.at = "call" /\ x.again) => pay \in {"none", "failed"}
PayRow(st, pay) ==
  /\ st \in {"none", "pending_review", "rejected"} => pay = "none"
  /\ st = "success" => pay = "paid"
  /\ st = "failed" => pay \in {"none", "failed"}

\* A request that nobody misled, ended by hand or changed behind another's back.
Unharmed(r) == \A k \in {"misled", "by_hand", "stale_write"} : <<r, k>> \notin mishap
PayInv ==
  \A r \in Requests : Unharmed(r) =>
    /\ PayRow(request[r].status, payout[r])
    /\ \A s \in Sessions \ stale :
         session[s] # Idle /\ session[s].req = r => PayFound(session[s], payout[r])

\* A handler starts with what its notice or its operator knows of the payout.
LEMMA StartedPay ==
  ASSUME NEW s \in Sessions, NEW r \in Requests, NEW p \in Points, Reason(s, r, p), Unharmed(r)',
         NEW x, x.at = p, x.again = FALSE
  PROVE  PayFound(x, payout[r])
<1>1. ASSUME NEW action \in AdminActions, p = PointOf(action), action \notin ByHand
      PROVE  PayFound(x, payout[r])
  <2>1. action \in AllActions \ ByHand
    BY <1>1, ConstantsOK DEF ConstantsOK
  <2>2. p \in {"approve", "reject", "call", "mark_processing", "query", "retry"}
    BY <1>1, <2>1 DEF AllActions, ByHand, PointOf
  <2> QED BY <2>2 DEF PayFound
<1>2. ASSUME NEW result \in {"paid", "failed"}, payout[r] = result,
             p = IF result = "paid" THEN "callback_settle" ELSE "callback_fail_read"
      PROVE  PayFound(x, payout[r])
  BY <1>2 DEF PayFound
<1>3. CASE p \in {"query", "retry"}
  BY <1>3 DEF PayFound
<1> QED BY <1>1, <1>2, <1>3 DEF Reason, Unharmed

\* The statement of a session that knows the row keeps its row and itself true of the payout.
LEMMA OwnPay ==
  ASSUME TypeOK, NEW s \in Sessions, Step(s) \/ Crash(s), NEW r \in Requests, session[s].req = r,
         PayRow(request[r].status, payout[r]),
         \/ At(s, "retry")
         \/ Found(session[s], request[r].status) /\ PayFound(session[s], payout[r]),
         payout'[r] = payout[r] \/ ~ (At(s, "call") /\ session'[s].at \in {"idle", "restore"})
  PROVE  /\ PayRow(request'[r].status, payout'[r])
         /\ session'[s] # Idle => PayFound(session'[s], payout'[r])
<1> DEFINE st == request[r].status
           stp == request'[r].status
           pay == payout[r]
           payp == payout'[r]
           x == session[s]
           y == session'[s]
           Kept == PayRow(stp, payp) /\ (y # Idle => PayFound(y, payp))
<1> SUFFICES Kept
  OBVIOUS
<1>0. /\ x \in Busy /\ x # Idle
      /\ session \in [Sessions -> Busy \cup {Idle}]
      /\ request \in [Requests -> [status : ReqStatus, ref : BOOLEAN]]
      /\ payout \in [Requests -> PayoutState]
      /\ PayRow(st, pay) /\ (x.at # "retry" => Found(x, st) /\ PayFound(x, pay))
  BY StepBusy DEF TypeOK, At
<1>1. /\ \A new : SetRequest(r, new) => stp = new
      /\ \A new, b : request' = [request EXCEPT ![r] = [status |-> new, ref |-> b]] => stp = new
  BY <1>0 DEF SetRequest
<1>2. Done(s) => y = Idle
  BY <1>0 DEF Done
<1>3. \A p : GoTo(s, p) => y = [x EXCEPT !.at = p] /\ y.at = p /\ y.again = x.again
  BY <1>0 DEF GoTo, Busy
<1>4. Abort(s) => y = Idle \/ (y.at = "restore" /\ x.again)
  BY <1>2, <1>3 DEF Abort
<1>5. CASE Review(s)
  <2>0. y = Idle /\ payp = pay
    BY <1>2, <1>5 DEF Review, ReviewApprove, ReviewReject, ReviewMarkProcessing, ReviewComplete,
                      ReviewExecuted, ReviewRefused
  <2>1. CASE ReviewApprove(s) \/ ReviewMarkProcessing(s)
    <3>1. stp \in {"pending_transfer", "transferring"}
      BY <1>0, <1>1, <2>1 DEF ReviewApprove, ReviewMarkProcessing
    <3> QED BY <2>0, <3>1 DEF PayRow
  <2>2. CASE ReviewReject(s)
    <3>1. st = "pending_review" /\ stp = "rejected"
      BY <1>0, <1>1, <2>2 DEF ReviewReject, At, Found
    <3> QED BY <1>0, <2>0, <3>1 DEF PayRow
  <2>3. ~ ReviewComplete(s)
    BY <1>0 DEF ReviewComplete, At, PayFound
  <2>4. CASE ReviewExecuted(s)
    <3>1. stp = x.seen /\ x.at = "executed"
      BY <1>1, <2>4 DEF ReviewExecuted, At
    <3> QED BY <1>0, <2>0, <3>1 DEF PayRow, PayFound
  <2>5. CASE ReviewRefused(s)
    BY <1>0, <2>0, <2>5 DEF ReviewRefused
  <2> QED BY <1>5, <2>1, <2>2, <2>3, <2>4, <2>5 DEF Review
<1>6. CASE Submit(s)
  <2>1. x.at = "call" /\ st = "pending_transfer" /\ stp = st
    BY <1>0, <1>6 DEF Submit, PayoutAccepted, PayoutPaidAtOnce, PayoutRefused, PayoutError, At, Found
  <2>2. PayRow(stp, payp)
    BY <2>1 DEF PayRow
  <2>3. CASE PayoutAccepted(s)
    <3>1. y.at = "executed" /\ y.seen = "transferring"
      BY <1>0, <2>3 DEF PayoutAccepted, Replied, Busy
    <3> QED BY <2>2, <3>1 DEF PayFound
  <2>4. CASE PayoutPaidAtOnce(s)
    <3>1. y.at = "executed" /\ y.seen = "success" /\ payp = "paid"
      BY <1>0, <2>4 DEF PayoutPaidAtOnce, Replied, Busy
    <3> QED BY <2>2, <3>1 DEF PayFound
  <2>5. CASE PayoutRefused(s)
    <3>1. y.at = "fail_read" /\ payp = "failed"
      BY <1>0, <2>5 DEF PayoutRefused, Busy
    <3> QED BY <2>2, <3>1 DEF PayFound
  <2>6. CASE PayoutError(s)
    <3>1. y = Idle \/ (y.at = "restore" /\ x.again)
      BY <1>4, <2>6 DEF PayoutError
    <3>2. payp = pay
      BY <2>1, <3>1 DEF At, Idle
    <3> QED BY <1>0, <2>1, <2>2, <3>1, <3>2 DEF PayFound
  <2> QED BY <1>6, <2>3, <2>4, <2>5, <2>6 DEF Submit
<1>7. CASE Finish(s)
  <2>0. payp = pay
    BY <1>7 DEF Finish, CallbackSettleRead, SettleRead, Settle, FailRead, Fail, CallbackFailRead,
                CallbackFail
  <2>1. ASSUME NEW p, NEW d, session' = [session EXCEPT ![s].at = p, ![s].data = d]
        PROVE  y.at = p
    BY <1>0, <2>1 DEF Busy
  <2>2. CASE CallbackSettleRead(s)
    <3>1. stp = st /\ x.at = "callback_settle" /\ (y = Idle \/ y.at = "settle")
      BY <1>2, <2>1, <2>2 DEF CallbackSettleRead, At
    <3> QED BY <1>0, <2>0, <3>1 DEF PayFound
  <2>3. CASE SettleRead(s)
    <3>1. stp = st /\ x.at = "settle_read" /\ (y = Idle \/ y.at = "settle")
      BY <1>2, <1>3, <2>3 DEF SettleRead, At
    <3> QED BY <1>0, <2>0, <3>1 DEF PayFound
  <2>4. CASE Settle(s)
    <3>1. (stp = st \/ stp = "success") /\ x.at = "settle" /\ y = Idle
      BY <1>1, <1>2, <2>4 DEF Settle, At
    <3> QED BY <1>0, <2>0, <3>1 DEF PayFound, PayRow
  <2>5. CASE FailRead(s)
    <3>1. stp = st /\ x.at = "fail_read" /\ (y = Idle \/ y.at \in {"fail", "restore"})
      BY <1>3, <1>4, <2>5 DEF FailRead, At
    <3> QED BY <1>0, <2>0, <3>1 DEF PayFound
  <2>6. CASE Fail(s)
    <3>1. (stp = st \/ stp = "failed") /\ x.at = "fail" /\ (y = Idle \/ y.at = "restore")
      BY <1>1, <1>2, <1>4, <2>6 DEF Fail, Failed, At
    <3> QED BY <1>0, <2>0, <3>1 DEF PayFound, PayRow
  <2>7. CASE CallbackFailRead(s)
    <3>1. stp = st /\ x.at = "callback_fail_read" /\ (y = Idle \/ y.at = "callback_fail")
      BY <1>2, <2>1, <2>7 DEF CallbackFailRead, At
    <3> QED BY <1>0, <2>0, <3>1 DEF PayFound
  <2>8. CASE CallbackFail(s)
    <3>1. (stp = st \/ stp = "failed") /\ x.at = "callback_fail" /\ y = Idle
      BY <1>1, <1>2, <2>8 DEF CallbackFail, Failed, At
    <3> QED BY <1>0, <2>0, <3>1 DEF PayFound, PayRow
  <2> QED BY <1>7, <2>2, <2>3, <2>4, <2>5, <2>6, <2>7, <2>8 DEF Finish
<1>8. CASE Refresh(s)
  <2>1. CASE RefreshQuery(s)
    <3>1. stp = st /\ payp = pay
      BY <2>1 DEF RefreshQuery
    <3>2. \/ y = Idle
          \/ y.at = "settle_read" /\ pay = "paid"
          \/ y.at = "fail_read" /\ pay = "failed"
          \/ y.at = "progress_record"
      <4>1. \/ Done(s)
            \/ GoTo(s, "settle_read") /\ pay = "paid"
            \/ GoTo(s, "fail_read") /\ pay = "failed"
            \/ GoTo(s, "progress_record")
        BY <2>1, Zenon DEF RefreshQuery
      <4> QED BY <1>2, <1>3, <4>1
    <3> QED BY <1>0, <3>1, <3>2 DEF PayFound
  <2>2. CASE ProgressRecord(s)
    <3>1. /\ st \in InFlow /\ (stp = st \/ stp = "transferring") /\ payp = pay
          /\ y.at = "progress_data"
      BY <1>0, <1>1, <1>3, <2>2 DEF ProgressRecord, At, Found
    <3> QED BY <3>1 DEF PayFound, PayRow, InFlow
  <2>3. CASE ProgressData(s)
    <3>1. stp = st /\ payp = pay /\ y = Idle
      BY <1>2, <2>3 DEF ProgressData
    <3> QED BY <1>0, <3>1
  <2> QED BY <1>8, <2>1, <2>2, <2>3 DEF Refresh
<1>9. CASE Retry(s)
  <2>0. payp = pay
    BY <1>9 DEF Retry, RetryHold, RetryReload, RetryRestore
  <2>1. CASE RetryHold(s)
    <3>1. CASE st = "failed" /\ CanHold(r)
      <4>1. stp = "pending_transfer" /\ y.at = "reload"
        BY <1>0, <1>1, <2>1, <3>1 DEF RetryHold, Busy
      <4> QED BY <1>0, <2>0, <3>1, <4>1 DEF PayRow, PayFound
    <3>2. CASE ~ (st = "failed" /\ CanHold(r))
      BY <1>0, <1>2, <2>0, <2>1, <3>2 DEF RetryHold
    <3> QED BY <3>1, <3>2
  <2>2. CASE RetryReload(s)
    <3>1. stp = st /\ y.at \in {"call", "restore"} /\ x.at = "reload"
      BY <1>0, <2>2 DEF RetryReload, Busy, At
    <3> QED BY <1>0, <2>0, <3>1 DEF PayFound
  <2>3. CASE RetryRestore(s)
    <3>1. (stp = st \/ stp = "failed") /\ x.at = "restore" /\ y = Idle
      BY <1>1, <1>2, <2>3 DEF RetryRestore, At
    <3> QED BY <1>0, <2>0, <3>1 DEF PayFound, PayRow
  <2> QED BY <1>9, <2>1, <2>2, <2>3 DEF Retry
<1>10. CASE Crash(s)
  BY <1>0, <1>2, <1>10 DEF Crash
<1> QED BY <1>5, <1>6, <1>7, <1>8, <1>9, <1>10 DEF Step

\* The gateway itself only ends what it accepted, and no row and no handler relies on that.
LEMMA PayStep ==
  ASSUME TypeOK, Born, FreshInv, PayInv, [Next]_vars
  PROVE  PayInv'
<1> SUFFICES ASSUME NEW q \in Requests, Unharmed(q)'
             PROVE  /\ PayRow(request'[q].status, payout'[q])
                    /\ \A t \in Sessions \ stale' :
                         session'[t] # Idle /\ session'[t].req = q => PayFound(session'[t], payout'[q])
  BY DEF PayInv
<1> DEFINE Goal == /\ PayRow(request'[q].status, payout'[q])
                   /\ \A t \in Sessions \ stale' :
                        session'[t] # Idle /\ session'[t].req = q => PayFound(session'[t], payout'[q])
<1>0. Unharmed(q) =>
        /\ PayRow(request[q].status, payout[q])
        /\ \A t \in Sessions \ stale :
             session[t] # Idle /\ session[t].req = q => PayFound(session[t], payout[q])
  BY DEF PayInv
<1>1. ASSUME NEW s \in Sessions, NEW r \in Requests, NEW p \in Points, Started(s, r, p)
      PROVE  Goal
  <2>1. /\ request' = request /\ payout' = payout /\ Reason(s, r, p)
        /\ stale \subseteq stale' /\ Unharmed(q)
    BY <1>1 DEF Started, Unharmed
  <2>2. /\ session'[s].req = r /\ session'[s].at = p /\ session'[s].again = FALSE
        /\ \A t \in Sessions : t # s => session'[t] = session[t]
    BY <1>1, StartedSession
  <2>3. r = q => PayFound(session'[s], payout[q])
    BY <2>1, <2>2, StartedPay
  <2> QED BY <1>0, <2>1, <2>2, <2>3
<1>2. ASSUME NEW s \in Sessions, Run(s) \/ Die(s) PROVE Goal
  <2>0. Step(s) \/ Crash(s)
    BY <1>2 DEF Run, Die
  <2>1. PICK r \in Requests : session[s].req = r /\ session[s] # Idle
    BY <2>0, StepBusy
  <2>2. Unharmed(q)
    BY <1>2, <2>1, Remembered DEF Unharmed
  <2>3. ASSUME NEW t \in Sessions \ stale', t # s, session'[t] # Idle, session'[t].req = q
        PROVE  PayFound(session'[t], payout'[q])
    BY <1>0, <1>2, <2>2, <2>3, OthersKept
  <2>4. CASE q # r
    <3>1. request'[q] = request[q] /\ payout'[q] = payout[q]
      BY <2>0, <2>1, <2>4, StepOwn DEF OwnRow
    <3>2. session'[s] = Idle \/ session'[s].req = r
      BY <2>0, <2>1, StepOwn DEF OwnSession
    <3> QED BY <1>0, <2>2, <2>3, <2>4, <3>1, <3>2
  <2>5. CASE q = r /\ s \in stale /\ ~ At(s, "retry")
    <3>1. ~ Acts
      BY <1>2, <2>1, <2>5, Remembered DEF Unharmed
    <3>2. request' = request /\ payout' = payout
      BY <3>1 DEF Acts
    <3>3. session'[s] = Idle \/ s \in stale'
      BY <1>2, <2>5, OwnKept
    <3> QED BY <1>0, <2>2, <2>3, <3>2, <3>3
  <2>6. CASE q = r /\ (s \notin stale \/ At(s, "retry"))
    <3>1. \/ At(s, "retry")
          \/ Found(session[s], request[r].status) /\ PayFound(session[s], payout[r])
      BY <1>0, <2>1, <2>2, <2>6 DEF FreshInv
    <3>2. payout'[r] = payout[r] \/ ~ (At(s, "call") /\ session'[s].at \in {"idle", "restore"})
      <4>1. CASE Acts
        BY <1>2, <2>1, <2>6, <4>1, Remembered DEF Unharmed
      <4>2. CASE ~ Acts
        BY <4>2 DEF Acts
      <4> QED BY <4>1, <4>2
    <3>3. /\ PayRow(request'[r].status, payout'[r])
          /\ session'[s] # Idle => PayFound(session'[s], payout'[r])
      BY <1>0, <2>0, <2>1, <2>2, <2>6, <3>1, <3>2, OwnPay
    <3> QED BY <2>3, <2>6, <3>3
  <2> QED BY <2>4, <2>5, <2>6
<1>3. ASSUME NEW r \in Requests, Withdraw(r) PROVE Goal
  <2>1. /\ request[r].status = "none" /\ request'[r].status = "pending_review"
        /\ r # q => request'[q] = request[q]
        /\ payout' = payout /\ session' = session /\ stale' = stale /\ Unharmed(q)
    BY <1>3, OwnRows DEF Withdraw, SetRequest, TypeOK, Unharmed, past
  <2>2. PayRow("none", payout[q]) => PayRow("pending_review", payout[q])
    BY DEF PayRow
  <2> QED BY <1>0, <2>1, <2>2
<1>4. ASSUME NEW r \in Requests, NEW result \in {"paid", "failed"}, GatewayResolve(r, result)
      PROVE  Goal
  <2>1. /\ payout[r] = "accepted" /\ payout'[r] = result
        /\ r # q => payout'[q] = payout[q]
        /\ request' = request /\ session' = session /\ stale' = stale /\ Unharmed(q)
    BY <1>4 DEF GatewayResolve, TypeOK, Unharmed, past
  <2>2. \A st : PayRow(st, "accepted") => PayRow(st, result)
    BY DEF PayRow
  <2>3. \A x : PayFound(x, "accepted") => PayFound(x, result)
    BY DEF PayFound
  <2> QED BY <1>0, <2>1, <2>2, <2>3
<1>5. CASE UNCHANGED <<session, request, payout, past>>
  <2>1. Unharmed(q) /\ stale' = stale
    BY <1>5 DEF Unharmed, past
  <2> QED BY <1>0, <1>5, <2>1
<1> QED BY <1>1, <1>2, <1>3, <1>4, <1>5, NextParts DEF Spend, Quiet

\* The platform keeps the money of a payout that was made and gives back that of one that was
\* not, through every crash, retry and race, as long as nobody is misled about the payout,
\* ends it by hand or writes on a request that changed under him (executeWithdrawPayout,
\* refreshWithdrawGatewayStatus, retryWithdrawPayout).
THEOREM PaidOrReturned == Spec => []PaidXorReturned
<1>1. Init => PayInv
  BY DEF Init, PayInv, PayRow, Idle
<1>2. TypeOK /\ CleanInv /\ PayInv /\ [Next]_vars => PayInv'
  BY PayStep DEF CleanInv
<1>3. PayInv => PaidXorReturned
  BY DEF PayInv, PayRow, PaidXorReturned, Befell, Unharmed
<1> QED BY <1>1, <1>2, <1>3, CleanInit, CleanStep, TypeCorrect, PTL DEF Spec
-----------------------------------------------------------------------------
(* The budget of automatic retries.                                             *)

\* A payout that is due for another try is still within the budget.
WithinBudget(d) == d.retries <= MaxRetry /\ (d.due => d.retries < MaxRetry)

\* A request that no operator sent again or reset, and that no stale write changed.
Uncounted(r) == \A k \in {"reset", "stale_write"} : <<r, k>> \notin mishap

\* How often a request was tried again, by its status and the counter in response_data.
TriesRow(st, n, d) ==
  /\ n <= MaxRetry
  /\ st \in {"none", "pending_review", "rejected"} => n = 0
  /\ st \in InFlow \cup {"failed"} => n <= d.retries
\* Only the worker is at a retry, and it found one due.
RetrySession(s, r) ==
  s = Worker /\ request[r].status = "failed" /\ AutoRetry(r) /\ txn[r].data.due
BudgetInv ==
  \A r \in Requests : Uncounted(r) =>
    /\ WithinBudget(txn[r].data) /\ TriesRow(request[r].status, tries[r], txn[r].data)
    /\ \A s \in Sessions : session[s] # Idle /\ session[s].req = r =>
         /\ session[s].at # "mark_processing"
         /\ session[s].at = "retry" => RetrySession(s, r)
         /\ s \notin stale \/ session[s].at = "retry" => WithinBudget(session[s].data)

\* The builders of response_data keep the budget.
LEMMA BudgetData ==
  /\ WithinBudget(NoData)
  /\ \A r \in Requests, d \in Data : WithinBudget(d) =>
       /\ WithinBudget(FailureData(r, d))
       /\ WithinBudget(ExecutionData(r, d))
       /\ WithinBudget([d EXCEPT !.submitted = TRUE])
       /\ d.due => WithinBudget(SubmittedData(r, d))
<1>1. WithinBudget(NoData)
  BY ConstantsOK DEF ConstantsOK, WithinBudget, NoData
<1>2. ASSUME NEW r \in Requests, NEW d \in Data, WithinBudget(d)
      PROVE  /\ WithinBudget(FailureData(r, d))
             /\ WithinBudget(ExecutionData(r, d))
             /\ WithinBudget([d EXCEPT !.submitted = TRUE])
             /\ d.due => WithinBudget(SubmittedData(r, d))
  <2>0. MaxRetry \in Nat /\ d.retries \in Nat /\ d.due \in BOOLEAN
    BY ConstantsOK DEF ConstantsOK, Data
  <2>1. WithinBudget(FailureData(r, d))
    BY <1>2, <2>0 DEF WithinBudget, FailureData, Data
  <2>2. WithinBudget(ExecutionData(r, d))
    BY <1>2, <2>0 DEF WithinBudget, ExecutionData, Data
  <2>3. WithinBudget([d EXCEPT !.submitted = TRUE])
    BY <1>2, <2>0 DEF WithinBudget, Data
  <2>4. d.due => WithinBudget(SubmittedData(r, d))
    BY <1>2, <2>0 DEF WithinBudget, SubmittedData, Data
  <2> QED BY <2>1, <2>2, <2>3, <2>4
<1> QED BY <1>1, <1>2

\* What the builders do to the counter.
LEMMA DataCounts ==
  ASSUME NEW r \in Requests, NEW d \in Data
  PROVE  /\ NoData.retries = 0
         /\ FailureData(r, d).retries = d.retries /\ ExecutionData(r, d).retries = d.retries
         /\ [d EXCEPT !.submitted = TRUE].retries = d.retries
         /\ AutoRetry(r) => SubmittedData(r, d).retries = d.retries + 1
  BY DEF Data, NoData, FailureData, ExecutionData, SubmittedData

\* No statement leads to the first statement of a retry or of mark_processing.
LEMMA PointAfter ==
  ASSUME TypeOK, NEW s \in Sessions, Step(s) \/ Crash(s), session'[s] # Idle
  PROVE  session'[s].at \notin {"retry", "mark_processing"}
<1> DEFINE y == session'[s]
<1>0. session[s] \in Busy /\ session \in [Sessions -> Busy \cup {Idle}]
  BY StepBusy DEF TypeOK
<1>1. /\ Done(s) => y = Idle
      /\ \A p : GoTo(s, p) => y.at = p
      /\ Abort(s) => y = Idle \/ y.at = "restore"
      /\ \A p, st : Replied(s, p, st) => y.at = p
      /\ \A p, d : session' = [session EXCEPT ![s].at = p, ![s].data = d] => y.at = p
  BY <1>0 DEF Done, GoTo, Abort, Replied, Busy
<1>2. CASE Review(s) \/ Crash(s)
  BY <1>1, <1>2 DEF Review, ReviewApprove, ReviewReject, ReviewMarkProcessing, ReviewComplete,
                    ReviewExecuted, ReviewRefused, Crash
<1>3. CASE Submit(s)
  <2>1. PayoutRefused(s) => y.at = "fail_read"
    BY <1>0 DEF PayoutRefused, Busy
  <2> QED BY <1>1, <1>3, <2>1 DEF Submit, PayoutAccepted, PayoutPaidAtOnce, PayoutError
<1>4. CASE Finish(s)
  BY <1>1, <1>4 DEF Finish, CallbackSettleRead, SettleRead, Settle, FailRead, Fail, Failed,
                    CallbackFailRead, CallbackFail
<1>5. CASE Refresh(s)
  <2>1. RefreshQuery(s) =>
          Done(s) \/ \E p \in {"settle_read", "fail_read", "progress_record"} : GoTo(s, p)
    BY Zenon DEF RefreshQuery
  <2> QED BY <1>1, <1>5, <2>1 DEF Refresh, ProgressRecord, ProgressData
<1>6. CASE Retry(s)
  <2>1. RetryReload(s) => y.at \in {"call", "restore"}
    BY <1>0 DEF RetryReload, Busy
  <2>2. RetryHold(s) => y = Idle \/ y.at = "reload"
    BY <1>0, <1>1 DEF RetryHold, Busy
  <2> QED BY <1>1, <1>6, <2>1, <2>2 DEF Retry, RetryRestore
<1> QED BY <1>2, <1>3, <1>4, <1>5, <1>6 DEF Step

\* The statement of a session that knows the row keeps the budget; only one that found a retry
\* due counts up.
LEMMA OwnBudget ==
  ASSUME TypeOK, Born, NEW s \in Sessions, Step(s) \/ Crash(s), NEW r \in Requests,
         session[s].req = r,
         WithinBudget(txn[r].data), TriesRow(request[r].status, tries[r], txn[r].data),
         session[s].at # "mark_processing",
         At(s, "retry") => RetrySession(s, r),
         ~ At(s, "retry") => /\ Found(session[s], request[r].status)
                             /\ SameCount(session[s], txn[r].data),
         WithinBudget(session[s].data),
         tries'[r] = IF At(s, "retry") /\ Acts THEN tries[r] + 1 ELSE tries[r]
  PROVE  /\ WithinBudget(txn'[r].data) /\ TriesRow(request'[r].status, tries'[r], txn'[r].data)
         /\ session'[s] # Idle =>
              session'[s].at \notin {"retry", "mark_processing"} /\ WithinBudget(session'[s].data)
<1> DEFINE x == session[s]
           y == session'[s]
           d == txn[r].data
           dp == txn'[r].data
           st == request[r].status
           stp == request'[r].status
           n == tries[r]
           np == tries'[r]
           Written == WithinBudget(dp) /\ TriesRow(stp, np, dp)
           Moved == y # Idle => y.at \notin {"retry", "mark_processing"} /\ WithinBudget(y.data)
<1> SUFFICES Written /\ Moved
  OBVIOUS
<1>0. /\ x \in Busy /\ x # Idle /\ x.data \in Data /\ d \in Data /\ n \in Nat
      /\ session \in [Sessions -> Busy \cup {Idle}]
      /\ request \in [Requests -> [status : ReqStatus, ref : BOOLEAN]]
      /\ txn \in [Requests -> [status : TxnStatus, data : Data]]
      /\ x.at # "retry" => Found(x, st) /\ SameCount(x, d) /\ np = n
      /\ d.retries \in Nat /\ x.data.retries \in Nat
  BY StepBusy DEF TypeOK, Busy, At, Data
<1>1. /\ \A new : SetRequest(r, new) => stp = new
      /\ \A new, b : request' = [request EXCEPT ![r] = [status |-> new, ref |-> b]] => stp = new
      /\ \A new, e : SetTxn(r, new, e) => dp = e
  BY <1>0 DEF SetRequest, SetTxn
<1>2. Done(s) => y = Idle
  BY <1>0 DEF Done
<1>3. \A p : GoTo(s, p) => y.at = p /\ y.data = x.data
  BY <1>0 DEF GoTo, Busy
<1>4. Abort(s) => y = Idle \/ (y.at = "restore" /\ y.data = x.data)
  BY <1>2, <1>3 DEF Abort
<1>5. /\ WithinBudget(NoData) /\ WithinBudget(FailureData(r, x.data))
      /\ WithinBudget(FailureData(r, d)) /\ WithinBudget(ExecutionData(r, x.data))
      /\ WithinBudget([x.data EXCEPT !.submitted = TRUE])
      /\ d.due => WithinBudget(SubmittedData(r, d))
  BY <1>0, BudgetData
<1>6. /\ NoData.retries = 0 /\ FailureData(r, x.data).retries = x.data.retries
      /\ FailureData(r, d).retries = d.retries /\ ExecutionData(r, x.data).retries = x.data.retries
      /\ [x.data EXCEPT !.submitted = TRUE].retries = x.data.retries
      /\ AutoRetry(r) => SubmittedData(r, d).retries = d.retries + 1
  BY <1>0, DataCounts
<1>7. UNCHANGED <<request, txn>> /\ x.at # "retry" => Written
  BY <1>0
<1>8. ASSUME x.at # "retry", st \in InFlow \cup {"failed"},
             stp \in InFlow \cup {"failed", "success"}, dp.retries = d.retries
      PROVE  TriesRow(stp, np, dp)
  BY <1>0, <1>8 DEF TriesRow, InFlow
<1>9. ASSUME x.at # "retry", st = "pending_review", dp.retries \in Nat
      PROVE  TriesRow(stp, np, dp)
  BY <1>0, <1>9, ConstantsOK DEF TriesRow, ConstantsOK
<1>10. ASSUME x.at # "retry", stp = "success" PROVE TriesRow(stp, np, dp)
  BY <1>0, <1>10 DEF TriesRow, InFlow
<1>11. CASE Review(s)
  <2>1. y = Idle
    BY <1>2, <1>11 DEF Review, ReviewApprove, ReviewReject, ReviewMarkProcessing, ReviewComplete,
                       ReviewExecuted, ReviewRefused
  <2>2. CASE ReviewApprove(s) \/ ReviewReject(s)
    <3>1. x.at \in {"approve", "reject"} /\ dp = NoData
      BY <1>1, <2>2 DEF ReviewApprove, ReviewReject, At
    <3>2. st = "pending_review"
      BY <1>0, <3>1 DEF Found
    <3> QED BY <1>5, <1>6, <1>9, <2>1, <3>1, <3>2
  <2>3. ~ ReviewMarkProcessing(s)
    BY DEF ReviewMarkProcessing, At
  <2>4. CASE ReviewComplete(s)
    <3>1. x.at = "complete" /\ dp = NoData /\ stp = "success"
      BY <1>1, <2>4 DEF ReviewComplete, At
    <3> QED BY <1>5, <1>10, <2>1, <3>1
  <2>5. CASE ReviewExecuted(s)
    <3>1. /\ x.at = "executed" /\ dp = ExecutionData(r, x.data) /\ stp = x.seen
          /\ x.seen \in {"transferring", "success"}
      BY <1>1, <2>5 DEF ReviewExecuted, At, Born
    <3>2. st = "pending_transfer" /\ x.data.retries = d.retries
      BY <1>0, <3>1 DEF Found, SameCount, Copied
    <3>3. TriesRow(stp, np, dp)
      BY <1>6, <1>8, <3>1, <3>2 DEF InFlow
    <3> QED BY <1>5, <2>1, <3>1, <3>3
  <2>6. CASE ReviewRefused(s)
    BY <1>7, <2>1, <2>6 DEF ReviewRefused, At
  <2> QED BY <1>11, <2>2, <2>3, <2>4, <2>5, <2>6 DEF Review
<1>12. CASE Submit(s)
  <2>0. Written
    BY <1>7, <1>12 DEF Submit, PayoutAccepted, PayoutPaidAtOnce, PayoutRefused, PayoutError, At
  <2>1. CASE PayoutAccepted(s) \/ PayoutPaidAtOnce(s)
    <3>1. y.at = "executed" /\ y.data = x.data
      BY <1>0, <2>1 DEF PayoutAccepted, PayoutPaidAtOnce, Replied, Busy
    <3> QED BY <2>0, <3>1
  <2>2. CASE PayoutRefused(s)
    <3>1. y.at = "fail_read" /\ y.data = [x.data EXCEPT !.submitted = TRUE]
      BY <1>0, <2>2 DEF PayoutRefused, Busy
    <3> QED BY <1>5, <2>0, <3>1
  <2>3. CASE PayoutError(s)
    BY <1>4, <2>0, <2>3 DEF PayoutError
  <2> QED BY <1>12, <2>1, <2>2, <2>3 DEF Submit
<1>13. CASE Finish(s)
  <2>1. ASSUME NEW p, session' = [session EXCEPT ![s].at = p, ![s].data = d]
        PROVE  y.at = p /\ y.data = d
    BY <1>0, <2>1 DEF Busy
  <2>2. CASE CallbackSettleRead(s)
    <3>1. y = Idle \/ (y.at = "settle" /\ y.data = d)
      BY <1>2, <2>1, <2>2 DEF CallbackSettleRead
    <3> QED BY <1>7, <2>2, <3>1 DEF CallbackSettleRead, At
  <2>3. CASE SettleRead(s)
    <3>1. y = Idle \/ (y.at = "settle" /\ y.data = x.data)
      BY <1>2, <1>3, <2>3 DEF SettleRead
    <3> QED BY <1>7, <2>3, <3>1 DEF SettleRead, At
  <2>4. CASE Settle(s)
    <3>1. CASE HasFrozen(r)
      <4>1. stp = "success" /\ dp = x.data /\ y = Idle /\ x.at = "settle"
        BY <1>1, <1>2, <2>4, <3>1 DEF Settle, At
      <4> QED BY <1>10, <4>1
    <3>2. CASE ~ HasFrozen(r)
      BY <1>2, <1>7, <2>4, <3>2 DEF Settle, At
    <3> QED BY <3>1, <3>2
  <2>5. CASE FailRead(s)
    <3>1. y = Idle \/ (y.at \in {"fail", "restore"} /\ y.data = x.data)
      BY <1>3, <1>4, <2>5 DEF FailRead
    <3> QED BY <1>7, <2>5, <3>1 DEF FailRead, At
  <2>6. ASSUME Failed(s, r), st \in InFlow, x.at \in {"fail", "callback_fail"}
        PROVE  Written /\ y = Idle
    <3>1. stp = "failed" /\ dp = FailureData(r, x.data) /\ y = Idle
      BY <1>1, <1>2, <2>6 DEF Failed
    <3>2. x.data.retries = d.retries
      BY <1>0, <2>6 DEF SameCount, Copied
    <3>3. TriesRow(stp, np, dp)
      BY <1>6, <1>8, <2>6, <3>1, <3>2
    <3> QED BY <1>5, <3>1, <3>3
  <2>7. CASE Fail(s)
    <3>1. x.at = "fail" /\ st \in InFlow
      BY <1>0, <2>7 DEF Fail, At, Found
    <3>2. CASE Failed(s, r)
      BY <2>6, <3>1, <3>2
    <3>3. CASE ~ Failed(s, r)
      BY <1>4, <1>7, <2>7, <3>1, <3>3 DEF Fail
    <3> QED BY <3>2, <3>3
  <2>8. CASE CallbackFailRead(s)
    <3>1. y = Idle \/ (y.at = "callback_fail" /\ y.data = d)
      BY <1>2, <2>1, <2>8 DEF CallbackFailRead
    <3> QED BY <1>7, <2>8, <3>1 DEF CallbackFailRead, At
  <2>9. CASE CallbackFail(s)
    <3>1. x.at = "callback_fail"
      BY <2>9 DEF CallbackFail, At
    <3>2. CASE st \in InFlow /\ Failed(s, r)
      BY <2>6, <3>1, <3>2
    <3>3. CASE ~ (st \in InFlow /\ Failed(s, r))
      BY <1>2, <1>7, <2>9, <3>1, <3>3 DEF CallbackFail
    <3> QED BY <3>2, <3>3
  <2> QED BY <1>13, <2>2, <2>3, <2>4, <2>5, <2>7, <2>8, <2>9 DEF Finish
<1>14. CASE Refresh(s)
  <2>1. CASE RefreshQuery(s)
    <3>1. Done(s) \/ \E p \in {"settle_read", "fail_read", "progress_record"} : GoTo(s, p)
      BY <2>1, Zenon DEF RefreshQuery
    <3>2. Written
      BY <1>7, <2>1 DEF RefreshQuery, At
    <3> QED BY <1>2, <1>3, <3>1, <3>2
  <2>2. CASE ProgressRecord(s)
    <3>1. dp = d /\ y.at = "progress_data" /\ y.data = x.data /\ x.at = "progress_record"
      BY <1>3, <2>2 DEF ProgressRecord, At
    <3>2. st \in InFlow /\ (stp = st \/ stp = "transferring")
      BY <1>0, <2>2, <3>1 DEF ProgressRecord, Found
    <3>3. TriesRow(stp, np, dp)
      BY <1>8, <3>1, <3>2 DEF InFlow
    <3> QED BY <3>1, <3>3
  <2>3. CASE ProgressData(s)
    <3>1. /\ dp = [x.data EXCEPT !.submitted = TRUE] /\ y = Idle /\ stp = st
          /\ x.at = "progress_data"
      BY <1>0, <1>2, <2>3 DEF ProgressData, At
    <3>2. st \in InFlow /\ x.data.retries = d.retries
      BY <1>0, <3>1 DEF Found, SameCount, Copied
    <3>3. TriesRow(stp, np, dp)
      BY <1>6, <1>8, <3>1, <3>2
    <3> QED BY <1>5, <3>1, <3>3
  <2> QED BY <1>14, <2>1, <2>2, <2>3 DEF Refresh
<1>15. CASE Retry(s)
  <2>1. CASE RetryHold(s)
    <3>0. x.at = "retry" /\ RetrySession(s, r)
      BY <2>1 DEF RetryHold, At
    <3>1. CASE st = "failed" /\ CanHold(r)
      <4>1. dp = SubmittedData(r, d) /\ y.at = "reload" /\ y.data = x.data /\ stp = "pending_transfer"
        BY <1>0, <1>1, <2>1, <3>1 DEF RetryHold, Busy
      <4>2. dp.retries = d.retries + 1 /\ WithinBudget(dp)
        BY <1>5, <1>6, <3>0, <4>1 DEF RetrySession
      <4>3. n <= d.retries /\ np \in {n, n + 1} /\ n <= MaxRetry
        BY <3>1 DEF TriesRow
      <4>4. d.retries + 1 <= MaxRetry /\ MaxRetry \in Nat
        BY <4>2, ConstantsOK DEF WithinBudget, ConstantsOK
      <4>5. np <= d.retries + 1 /\ np <= MaxRetry
        BY <1>0, <4>3, <4>4
      <4>6. TriesRow(stp, np, dp)
        BY <4>1, <4>2, <4>5 DEF TriesRow, InFlow
      <4> QED BY <4>1, <4>2, <4>6
    <3>2. CASE ~ (st = "failed" /\ CanHold(r))
      <4>1. y = Idle /\ UNCHANGED <<wallet, request, txn, payout>>
        BY <1>2, <2>1, <3>2 DEF RetryHold
      <4>2. np = n
        BY <4>1 DEF Acts
      <4> QED BY <4>1, <4>2
    <3> QED BY <3>1, <3>2
  <2>2. CASE RetryReload(s)
    <3>1. y.at \in {"call", "restore"} /\ y.data = d
      BY <1>0, <2>2 DEF RetryReload, Busy
    <3>2. Written
      BY <1>7, <2>2 DEF RetryReload, At
    <3> QED BY <3>1, <3>2
  <2>3. CASE RetryRestore(s)
    <3>0. x.at = "restore" /\ y = Idle
      BY <1>2, <2>3 DEF RetryRestore, At
    <3>1. CASE st \in InFlow /\ HasFrozen(r)
      <4>1. stp = "failed" /\ dp = FailureData(r, d)
        BY <1>1, <2>3, <3>1 DEF RetryRestore
      <4>2. TriesRow(stp, np, dp)
        BY <1>6, <1>8, <3>0, <3>1, <4>1
      <4> QED BY <1>5, <3>0, <4>1, <4>2
    <3>2. CASE ~ (st \in InFlow /\ HasFrozen(r))
      BY <1>7, <2>3, <3>0, <3>2 DEF RetryRestore
    <3> QED BY <3>1, <3>2
  <2> QED BY <1>15, <2>1, <2>2, <2>3 DEF Retry
<1>16. CASE Crash(s)
  <2>1. y = Idle /\ UNCHANGED <<wallet, request, txn, payout>>
    BY <1>2, <1>16 DEF Crash
  <2>2. np = n
    BY <2>1 DEF Acts
  <2> QED BY <2>1, <2>2
<1> QED BY <1>11, <1>12, <1>13, <1>14, <1>15, <1>16 DEF Step

\* A session that knows the row does not write a failed one, unless it tries it again.
LEMMA FailedStays ==
  ASSUME TypeOK, NEW s \in Sessions, Step(s) \/ Crash(s), NEW r \in Requests, session[s].req = r,
         ~ At(s, "retry"), Found(session[s], request[r].status), request[r].status = "failed"
  PROVE  request'[r] = request[r] /\ txn'[r] = txn[r]
<1> DEFINE x == session[s]
<1>0. x.at \in Free
  BY StepBusy DEF Found, InFlow, Free, At, Busy, Points
<1>1. CASE Review(s) \/ Refresh(s)
  BY <1>0, <1>1 DEF Review, ReviewApprove, ReviewReject, ReviewMarkProcessing, ReviewComplete,
                    ReviewExecuted, ReviewRefused, Refresh, RefreshQuery, ProgressRecord,
                    ProgressData, At, Free
<1>2. CASE Submit(s) \/ Crash(s)
  BY <1>2 DEF Submit, PayoutAccepted, PayoutPaidAtOnce, PayoutRefused, PayoutError, Crash
<1>3. CASE Finish(s)
  BY <1>0, <1>3 DEF Finish, CallbackSettleRead, SettleRead, Settle, FailRead, Fail,
                    CallbackFailRead, CallbackFail, At, Free, InFlow
<1>4. CASE Retry(s)
  BY <1>4 DEF Retry, RetryHold, RetryReload, RetryRestore, InFlow
<1> QED BY <1>1, <1>2, <1>3, <1>4 DEF Step

LEMMA BudgetStep ==
  ASSUME TypeOK, Born, FreshInv, BudgetInv, [Next]_vars
  PROVE  BudgetInv'
<1> SUFFICES ASSUME NEW q \in Requests, Uncounted(q)'
             PROVE  /\ WithinBudget(txn'[q].data)
                    /\ TriesRow(request'[q].status, tries'[q], txn'[q].data)
                    /\ \A t \in Sessions : session'[t] # Idle /\ session'[t].req = q =>
                         /\ session'[t].at # "mark_processing"
                         /\ session'[t].at = "retry" => RetrySession(t, q)'
                         /\ t \notin stale' \/ session'[t].at = "retry" =>
                              WithinBudget(session'[t].data)
  BY DEF BudgetInv
<1> DEFINE Row2 == WithinBudget(txn'[q].data) /\ TriesRow(request'[q].status, tries'[q], txn'[q].data)
           Others2(t) == session'[t] # Idle /\ session'[t].req = q =>
                           /\ session'[t].at # "mark_processing"
                           /\ session'[t].at = "retry" => RetrySession(t, q)'
                           /\ t \notin stale' \/ session'[t].at = "retry" =>
                                WithinBudget(session'[t].data)
           Goal == Row2 /\ \A t \in Sessions : Others2(t)
<1>0. Uncounted(q) =>
        /\ WithinBudget(txn[q].data) /\ TriesRow(request[q].status, tries[q], txn[q].data)
        /\ \A t \in Sessions : session[t] # Idle /\ session[t].req = q =>
             /\ session[t].at # "mark_processing"
             /\ session[t].at = "retry" => RetrySession(t, q)
             /\ t \notin stale \/ session[t].at = "retry" => WithinBudget(session[t].data)
  BY DEF BudgetInv
<1>1. ASSUME NEW s \in Sessions, NEW r \in Requests, NEW p \in Points, Started(s, r, p)
      PROVE  Goal
  <2>1. /\ UNCHANGED <<request, txn, tries>> /\ Reason(s, r, p)
        /\ stale \subseteq stale' /\ Uncounted(q)
    BY <1>1 DEF Started, Uncounted
  <2>2. /\ session'[s].req = r /\ session'[s].at = p
        /\ session'[s].data = txn[r].data \/ session'[s].data = NoData
        /\ \A t \in Sessions : t # s => session'[t] = session[t]
    BY <1>1, StartedSession
  <2>3. ASSUME r = q PROVE p # "mark_processing" /\ (p = "retry" => RetrySession(s, r))
    <3>1. ASSUME NEW action \in AdminActions, PointOf(action) \in {"retry", "mark_processing"}
          PROVE  action \in Resets
      BY <3>1, ConstantsOK DEF ConstantsOK, AllActions, PointOf, Resets
    <3>2. <<r, "reset">> \notin mishap'
      BY <2>3 DEF Uncounted
    <3>3. ASSUME p \in {"retry", "mark_processing"} PROVE p = "retry" /\ RetrySession(s, r)
      <4>1. ~ \E action \in AdminActions :
                /\ p = PointOf(action) /\ request[r].status \in Reviewable(action)
                /\ action \in ByHand => <<r, "by_hand">> \in mishap'
                /\ action \in Resets => <<r, "reset">> \in mishap'
        BY <3>1, <3>2, <3>3, Zenon
      <4> QED BY <2>1, <3>3, <4>1 DEF Reason, RetrySession
    <3> QED BY <3>3
  <2>4. r = q => WithinBudget(session'[s].data)
    BY <1>0, <2>1, <2>2, BudgetData
  <2>5. \A t \in Sessions : RetrySession(t, q) => RetrySession(t, q)'
    BY <2>1 DEF RetrySession, AutoRetry
  <2>6. Row2
    BY <1>0, <2>1
  <2>7. \A t \in Sessions : Others2(t)
    BY <1>0, <2>1, <2>2, <2>3, <2>4, <2>5
  <2> QED BY <2>6, <2>7
<1>2. ASSUME NEW s \in Sessions, Run(s) \/ Die(s) PROVE Goal
  <2>0. Step(s) \/ Crash(s)
    BY <1>2 DEF Run, Die
  <2>1. PICK r \in Requests : session[s].req = r /\ session[s] # Idle
    BY <2>0, StepBusy
  <2>2. Uncounted(q)
    BY <1>2, <2>1, Remembered DEF Uncounted
  <2>3. /\ \A t \in Sessions : t # s => session'[t] = session[t]
        /\ session'[s] = Idle \/ session'[s].req = r
        /\ q # r => request'[q] = request[q] /\ txn'[q] = txn[q]
    BY <2>0, <2>1, StepOwn DEF OwnSession, OwnRow
  <2>4. tries' = IF At(s, "retry") /\ Acts THEN [tries EXCEPT ![r] = @ + 1] ELSE tries
    BY <1>2, <2>1 DEF Run, Die, Remember
  <2>5. /\ tries'[r] = IF At(s, "retry") /\ Acts THEN tries[r] + 1 ELSE tries[r]
        /\ q # r => tries'[q] = tries[q]
    BY <2>4 DEF TypeOK
  <2>6. CASE q # r
    <3>1. Row2
      BY <1>0, <2>2, <2>3, <2>5, <2>6
    <3>2. \A t \in Sessions : RetrySession(t, q) => RetrySession(t, q)'
      BY <2>3, <2>6 DEF RetrySession, AutoRetry
    <3>3. ASSUME NEW t \in Sessions PROVE Others2(t)
      <4>1. session'[t] # Idle /\ t # s /\ t \notin stale' => t \notin stale
        BY <1>2, OthersKept
      <4> QED BY <1>0, <2>2, <2>3, <2>6, <3>2, <4>1
    <3> QED BY <3>1, <3>3
  <2>7. CASE q = r /\ s \in stale /\ ~ At(s, "retry")
    <3>1. ~ Acts
      BY <1>2, <2>1, <2>7, Remembered DEF Uncounted
    <3>2. request' = request /\ txn' = txn /\ tries'[r] = tries[r]
      BY <2>5, <3>1 DEF Acts
    <3>3. Row2
      BY <1>0, <2>2, <2>7, <3>2
    <3>4. \A t \in Sessions : RetrySession(t, q) => RetrySession(t, q)'
      BY <3>2 DEF RetrySession, AutoRetry
    <3>5. ASSUME NEW t \in Sessions, t # s PROVE Others2(t)
      <4>1. session'[t] # Idle /\ t \notin stale' => t \notin stale
        BY <1>2, <3>5, OthersKept
      <4> QED BY <1>0, <2>2, <2>3, <3>4, <3>5, <4>1
    <3>6. Others2(s)
      <4>1. session'[s] # Idle => s \in stale'
        BY <1>2, <2>7, OwnKept
      <4>2. session'[s] # Idle => session'[s].at \notin {"retry", "mark_processing"}
        BY <2>0, <2>1, PointAfter
      <4> QED BY <4>1, <4>2
    <3> QED BY <3>3, <3>5, <3>6
  <2>8. CASE q = r /\ (s \notin stale \/ At(s, "retry"))
    <3>1. /\ WithinBudget(session[s].data) /\ session[s].at # "mark_processing"
          /\ At(s, "retry") => RetrySession(s, r)
      BY <1>0, <2>1, <2>2, <2>8 DEF At
    <3>2. ~ At(s, "retry") =>
            Found(session[s], request[r].status) /\ SameCount(session[s], txn[r].data)
      BY <2>1, <2>8 DEF FreshInv
    <3>3. /\ Row2
          /\ session'[s] # Idle =>
               session'[s].at \notin {"retry", "mark_processing"} /\ WithinBudget(session'[s].data)
      BY <1>0, <2>0, <2>1, <2>2, <2>5, <2>8, <3>1, <3>2, OwnBudget
    <3>4. ASSUME NEW t \in Sessions, t # s, session'[t] # Idle, session'[t].req = q
          PROVE  Others2(t)
      <4>1. t \notin stale' => t \notin stale
        BY <1>2, <3>4, OthersKept
      <4>2. session'[t] = session[t]
        BY <2>3, <3>4
      <4>3. session[t].at = "retry" => RetrySession(t, q)'
        <5> SUFFICES ASSUME session[t].at = "retry" PROVE RetrySession(t, q)'
          OBVIOUS
        <5>1. RetrySession(t, q)
          BY <1>0, <2>2, <3>4, <4>2
        <5>2. ~ At(s, "retry")
          BY <2>8, <3>1, <3>4, <5>1 DEF RetrySession
        <5>3. request'[q] = request[q] /\ txn'[q] = txn[q]
          BY <2>0, <2>1, <2>8, <3>2, <5>1, <5>2, FailedStays DEF RetrySession
        <5> QED BY <5>1, <5>3 DEF RetrySession, AutoRetry
      <4> QED BY <1>0, <2>2, <3>4, <4>1, <4>2, <4>3
    <3> QED BY <3>3, <3>4
  <2> QED BY <2>6, <2>7, <2>8
<1>3. ASSUME NEW r \in Requests, Withdraw(r) PROVE Goal
  <2>1. /\ request[r].status = "none" /\ request'[r].status = "pending_review"
        /\ txn'[r].data = NoData
        /\ r # q => request'[q] = request[q] /\ txn'[q] = txn[q]
        /\ session' = session /\ stale' = stale /\ tries' = tries /\ Uncounted(q)
    BY <1>3, OwnRows DEF Withdraw, SetRequest, SetTxn, TypeOK, Uncounted, past
  <2>2. \A t \in Sessions : session[t] # Idle => session[t].req # r
    BY <2>1 DEF Born
  <2>3. Row2
    <3>1. CASE r = q
      <4>1. tries[q] = 0
        BY <1>0, <2>1, <3>1 DEF TriesRow
      <4> QED BY <2>1, <3>1, <4>1, BudgetData, ConstantsOK DEF TriesRow, InFlow, ConstantsOK
    <3>2. CASE r # q
      BY <1>0, <2>1, <3>2
    <3> QED BY <3>1, <3>2
  <2>4. \A t \in Sessions : r # q /\ RetrySession(t, q) => RetrySession(t, q)'
    BY <2>1 DEF RetrySession, AutoRetry
  <2> QED BY <1>0, <2>1, <2>2, <2>3, <2>4
<1>4. CASE UNCHANGED <<session, request, txn, past>>
  <2>1. Uncounted(q) /\ stale' = stale /\ tries' = tries
    BY <1>4 DEF Uncounted, past
  <2>2. \A t \in Sessions : RetrySession(t, q) => RetrySession(t, q)'
    BY <1>4 DEF RetrySession, AutoRetry
  <2> QED BY <1>0, <1>4, <2>1, <2>2
<1> QED BY <1>1, <1>2, <1>3, <1>4, NextParts DEF Spend, GatewayResolve, Quiet

\* No request is ever tried again more often than the budget, whatever the gateway answers,
\* crashes and handlers race, unless an operator sent it again or reset its data or a stale
\* write lost the count (buildWithdrawRetryFailurePayload).
THEOREM RetriesWithinBudget == Spec => []AutoRetryBudget
<1>1. Init => BudgetInv
  BY BudgetData, ConstantsOK DEF Init, BudgetInv, TriesRow, Idle, ConstantsOK, InFlow
<1>2. TypeOK /\ CleanInv /\ BudgetInv /\ [Next]_vars => BudgetInv'
  BY BudgetStep DEF CleanInv
<1>3. BudgetInv => AutoRetryBudget
  BY DEF BudgetInv, TriesRow, AutoRetryBudget, Befell, Uncounted
<1> QED BY <1>1, <1>2, <1>3, CleanInit, CleanStep, TypeCorrect, PTL DEF Spec
=============================================================================
