---------------------------- MODULE RiderDeposit ----------------------------
(***************************************************************************)
(* The deposit a rider must hold to accept orders: it is paid through a     *)
(* gateway, locked while the rider works, withdrawable after a rest, and    *)
(* paid back by a withdraw request of its own.  One rider.                  *)
(*                                                                         *)
(* Granularity.  refreshRiderDepositState reads the record of the deposit,  *)
(* counts the active orders and writes the record by its id with no         *)
(* condition on its status: three steps, and whatever called it acts on the *)
(* record it returns.  A callback reads its transaction without a lock and  *)
(* settles in a second step.  The steps of the withdraw request are those   *)
(* of WalletWithdraw, each taken as one step here.                          *)
(***************************************************************************)
EXTENDS Integers, FiniteSets, FiniteSetsExt

CONSTANTS
  Last,      \* bound: the deposits 1..Last, in the order they are created
  Requests,  \* identities of the withdraw requests that may be created
  Orders,    \* the orders the rider may work on
  Handlers,  \* HTTP handlers that may run at the same time
  Amount,    \* the amount of a deposit, from the policy
  Fee        \* the income of the rider for an order

Deposits == 1..Last

ASSUME ConstantsOK ==
  /\ Last \in Nat /\ Amount \in Nat \ {0}
  /\ Fee \in [Orders -> Nat \ {0}]
  /\ "none" \notin Requests

VARIABLES
  deposit,  \* rider_deposit_records: status, withdraw request, accepted since, rest is over
  payment,  \* the wallet transaction (and recharge order) that pays a deposit
  request,  \* withdraw_requests of type rider_deposit_withdraw
  wallet,   \* the rider's wallet: balance and frozen balance
  order,    \* the orders, as far as the rider is concerned, and his income
  session,  \* what each running handler has read and does next
  reopened  \* history: deposits put back to Held while on their way back or refunded

vars == <<deposit, payment, request, wallet, order, session, reopened>>

Held == {"paid_locked", "withdrawable"}
DepositRow ==
  [status : {"none", "unpaid", "withdrawing", "refunded"} \cup Held,
   request : Requests \cup {"none"}, accepted : BOOLEAN, due : BOOLEAN]
RequestRow ==
  [status : {"none", "pending_transfer", "transferring", "success", "failed"}, deposit : 0..Last]
OrderRow == [status : {"pending", "active", "completed"}, income : {"none", "pending", "success"}]
Purposes == {"status", "accept", "pay", "withdraw"}
Idle == [at |-> "idle"]
\* late is history: an order of the rider became active after this handler's count.
Session ==
  {Idle}
    \cup [at : {"count", "write"}, for : Purposes, deposit : Deposits, status : Held,
          due : BOOLEAN, late : BOOLEAN]
    \cup [at : {"accept", "mark", "pay"}] \cup [at : {"notice"}, deposit : Deposits]
    \cup [at : {"withdraw"}, deposit : Deposits, late : BOOLEAN]

InTransfer == {"pending_transfer", "transferring"}

Init ==
  /\ deposit = [d \in Deposits |->
       [status |-> "none", request |-> "none", accepted |-> FALSE, due |-> FALSE]]
  /\ payment = [d \in Deposits |-> "none"]
  /\ request = [w \in Requests |-> [status |-> "none", deposit |-> 0]]
  /\ wallet = [balance |-> 0, frozen |-> 0]
  /\ order = [o \in Orders |-> [status |-> "pending", income |-> "none"]]
  /\ session = [h \in Handlers |-> Idle]
  /\ reopened = {}

Step(h, s) == session' = [session EXCEPT ![h] = s]
SetStatus(d, status) == deposit' = [deposit EXCEPT ![d].status = status]
\* The write of a handler that does not look at the status it overwrites.
Overwrite(d, row) ==
  /\ deposit' = [deposit EXCEPT ![d] = row]
  /\ reopened' = reopened \cup IF deposit[d].status \in {"withdrawing", "refunded"} THEN {d} ELSE {}
\* What the sessions become when an order becomes active.
Overtaken(sessions) ==
  [h \in Handlers |-> IF sessions[h].at \in {"write", "withdraw"}
                     THEN [sessions[h] EXCEPT !.late = TRUE] ELSE sessions[h]]

Created == {d \in Deposits : deposit[d].status # "none"}
Active == \E o \in Orders : order[o].status = "active"

-----------------------------------------------------------------------------
(* refreshRiderDepositState, and what its callers do with the record.      *)

\* The caller goes on with the deposit and the status that refresh returned.
Resume(h, purpose, d, status, late) ==
  Step(h, CASE purpose = "accept" /\ status \in Held -> [at |-> "accept"]
            [] purpose = "pay" /\ status \notin Held \cup {"withdrawing"} -> [at |-> "pay"]
            [] purpose = "withdraw" /\ status = "withdrawable" 
                 -> [at |-> "withdraw", deposit |-> d, late |-> late]
            [] OTHER -> Idle)

\* Only the latest deposit of the rider is looked at.
RefreshRead(h, purpose) ==
  /\ session[h] = Idle
  /\ IF Created = {}
     THEN purpose = "pay" /\ Step(h, [at |-> "pay"])
     ELSE LET d == Max(Created) IN
          IF deposit[d].status \in Held
          THEN Step(h, [at |-> "count", for |-> purpose, deposit |-> d,
                        status |-> deposit[d].status, due |-> deposit[d].due, late |-> FALSE])
          ELSE Resume(h, purpose, d, deposit[d].status, FALSE)
  /\ UNCHANGED <<deposit, payment, request, wallet, order, reopened>>

\* Mutant: the active orders are ignored.
RestIsEnough(s) == IF s.due THEN "withdrawable" ELSE "none"
\* The status to write, if any: locked while the rider works, withdrawable after
\* the rest.
NewStatus(s) ==
  IF Active THEN (IF s.status = "paid_locked" THEN "none" ELSE "paid_locked")
  ELSE IF s.due THEN "withdrawable" ELSE "none"

RefreshCount(h) ==
  LET s == session[h] IN
  /\ s.at = "count"
  /\ IF NewStatus(s) = "none" THEN Resume(h, s.for, s.deposit, s.status, FALSE)
                              ELSE Step(h, [s EXCEPT !.at = "write", !.status = NewStatus(s)])
  /\ UNCHANGED <<deposit, payment, request, wallet, order, reopened>>

RefreshWrite(h) ==
  LET s == session[h] IN
  /\ s.at = "write"
  /\ Overwrite(s.deposit, [deposit[s.deposit] EXCEPT !.status = s.status])
  /\ Resume(h, s.for, s.deposit, s.status, s.late)
  /\ UNCHANGED <<payment, request, wallet, order>>

\* The order goes to the rider if it is still free.
AcceptOrder(h) ==
  /\ session[h].at = "accept"
  /\ \/ \E o \in Orders :
          /\ order[o].status = "pending"
          /\ order' = [order EXCEPT ![o].status = "active"]
          /\ session' = Overtaken([session EXCEPT ![h] = [at |-> "mark"]])
     \/ Step(h, Idle) /\ UNCHANGED order
  /\ UNCHANGED <<deposit, payment, request, wallet, reopened>>

\* Then the deposit is locked: whichever is the latest by now, whatever its status.
MarkRiderAccepted(h) ==
  /\ session[h].at = "mark"
  /\ LET d == Max(Created) IN
     Overwrite(d, [deposit[d] EXCEPT !.status = "paid_locked", !.accepted = TRUE, !.due = FALSE])
  /\ Step(h, Idle)
  /\ UNCHANGED <<payment, request, wallet, order>>

\* The gateway may refuse the payment intent.
CreatePayIntent(h) ==
  /\ session[h].at = "pay"
  /\ Step(h, Idle)
  /\ \/ LET d == Cardinality(Created) + 1 IN
        d <= Last /\ SetStatus(d, "unpaid") /\ payment' = [payment EXCEPT ![d] = "pending"]
     \/ UNCHANGED <<deposit, payment>>
  /\ UNCHANGED <<request, wallet, order, reopened>>

\* The request is created and nothing is frozen for it.
WithdrawRiderDeposit(h) ==
  LET d == session[h].deposit IN
  /\ session[h].at = "withdraw"
  /\ \E w \in Requests :
       /\ request[w].status = "none"
       /\ request' = [request EXCEPT ![w] = [status |-> "pending_transfer", deposit |-> d]]
       /\ deposit' = [deposit EXCEPT ![d] = [@ EXCEPT !.status = "withdrawing", !.request = w]]
  /\ reopened' = reopened \ {d}
  /\ Step(h, Idle)
  /\ UNCHANGED <<payment, wallet, order>>

-----------------------------------------------------------------------------
(* The notices of the gateway about the payment of a deposit.              *)

NoticeRead(h, d) ==
  /\ session[h] = Idle /\ payment[d] = "pending"
  /\ Step(h, [at |-> "notice", deposit |-> d])
  /\ UNCHANGED <<deposit, payment, request, wallet, order, reopened>>

LockUnpaid(d) == payment' = payment  \* Mutant: the transaction stays pending.
BookPayment(d) == payment' = [payment EXCEPT ![d] = "success"]

\* The rest of a rider starts again with the payment, unless he accepted an order since.
PaymentSucceeds(h) ==
  LET d == session[h].deposit IN
  /\ session[h].at = "notice"
  /\ BookPayment(d)
  /\ Overwrite(d, [deposit[d] EXCEPT !.status = "paid_locked",
                                     !.due = deposit[d].due /\ deposit[d].accepted])
  /\ Step(h, Idle)
  /\ UNCHANGED <<request, wallet, order>>

PaymentFails(d) ==
  /\ payment[d] = "pending"
  /\ payment' = [payment EXCEPT ![d] = "failed"]
  /\ UNCHANGED <<deposit, request, wallet, order, session, reopened>>

-----------------------------------------------------------------------------
(* The withdraw request: each change of it moves the deposit that names it. *)

Linked(w, status) ==
  /\ deposit' = [d \in Deposits |->
       IF deposit[d].request = w THEN [deposit[d] EXCEPT !.status = status] ELSE deposit[d]]
  /\ reopened' = {d \in reopened : deposit[d].request # w}
SetRequest(w, status) == request' = [request EXCEPT ![w].status = status]

UncheckedFrozen(amount) == TRUE  \* Mutant: nobody looks at the frozen balance.
HasFrozen(amount) == wallet.frozen >= amount

\* The payout is submitted (execute, mark_processing); the alipay sidecar may answer
\* that it is paid already, which frees nothing.
Submit(w) ==
  /\ request[w].status = "pending_transfer"
  /\ \/ SetRequest(w, "transferring") /\ Linked(w, "withdrawing")
     \/ SetRequest(w, "success") /\ Linked(w, "refunded")
  /\ UNCHANGED <<payment, wallet, order, session>>

Complete(w) ==
  /\ request[w].status \in InTransfer
  /\ HasFrozen(Amount)
  /\ wallet' = [wallet EXCEPT !.frozen = @ - Amount]
  /\ SetRequest(w, "success") /\ Linked(w, "refunded")
  /\ UNCHANGED <<payment, order, session>>

StaysWithdrawing(w) == Linked(w, "withdrawing")  \* Mutant: the failure does not reach the deposit.
Reopen(w) == Linked(w, "withdrawable")

Fail(w) ==
  /\ request[w].status \in InTransfer
  /\ HasFrozen(Amount)
  /\ wallet' = [balance |-> wallet.balance + Amount, frozen |-> wallet.frozen - Amount]
  /\ SetRequest(w, "failed") /\ Reopen(w)
  /\ UNCHANGED <<payment, order, session>>

\* An administrator or the worker tries a failed request again.
Retry(w) ==
  /\ request[w].status = "failed"
  /\ wallet.balance >= Amount
  /\ wallet' = [balance |-> wallet.balance - Amount, frozen |-> wallet.frozen + Amount]
  /\ SetRequest(w, "pending_transfer") /\ Linked(w, "withdrawing")
  /\ UNCHANGED <<payment, order, session>>

-----------------------------------------------------------------------------
(* The rider's work, and time.                                             *)

\* An operator gives the rider an order; nobody looks at his deposit.
Dispatch(o) ==
  /\ order[o].status = "pending"
  /\ order' = [order EXCEPT ![o].status = "active"]
  /\ session' = Overtaken(session)
  /\ UNCHANGED <<deposit, payment, request, wallet, reopened>>

Deliver(o) ==
  /\ order[o].status = "active"
  /\ order' = [order EXCEPT ![o] = [status |-> "completed", income |-> "pending"]]
  /\ wallet' = [wallet EXCEPT !.frozen = @ + Fee[o]]
  /\ UNCHANGED <<deposit, payment, request, session, reopened>>

SettleRiderIncome(o) ==
  /\ order[o].income = "pending" /\ HasFrozen(Fee[o])
  /\ order' = [order EXCEPT ![o].income = "success"]
  /\ wallet' = [balance |-> wallet.balance + Fee[o], frozen |-> wallet.frozen - Fee[o]]
  /\ UNCHANGED <<deposit, payment, request, session, reopened>>

\* The days of rest pass.
Rest(d) ==
  /\ deposit[d].status # "none" /\ ~deposit[d].due
  /\ deposit' = [deposit EXCEPT ![d].due = TRUE]
  /\ UNCHANGED <<payment, request, wallet, order, session, reopened>>

Crash(h) ==
  /\ session[h] # Idle
  /\ Step(h, Idle)
  /\ UNCHANGED <<deposit, payment, request, wallet, order, reopened>>

Next ==
  \/ \E h \in Handlers :
       \/ \E purpose \in Purposes : RefreshRead(h, purpose)
       \/ \E d \in Deposits : NoticeRead(h, d)
       \/ RefreshCount(h) \/ RefreshWrite(h) \/ AcceptOrder(h) \/ MarkRiderAccepted(h)
       \/ CreatePayIntent(h) \/ WithdrawRiderDeposit(h) \/ PaymentSucceeds(h) \/ Crash(h)
  \/ \E d \in Deposits : PaymentFails(d) \/ Rest(d)
  \/ \E w \in Requests : Submit(w) \/ Complete(w) \/ Fail(w) \/ Retry(w)
  \/ \E o \in Orders : Dispatch(o) \/ Deliver(o) \/ SettleRiderIncome(o)

Spec == Init /\ [][Next]_vars

-----------------------------------------------------------------------------
(* Properties.                                                             *)

\* Type invariant: the wallet never becomes negative (ReviewWithdraw,
\* failWithdrawByCallbackTxWithPayload, retryWithdrawPayout).
TypeOK ==
  /\ deposit \in [Deposits -> DepositRow]
  /\ payment \in [Deposits -> {"none", "pending", "success", "failed"}]
  /\ request \in [Requests -> RequestRow]
  /\ wallet \in [balance : Nat, frozen : Nat]
  /\ order \in [Orders -> OrderRow]
  /\ session \in [Handlers -> Session]
  /\ reopened \subseteq Deposits

\* Whatever the handlers, notices and payouts do at once, a deposit that lets the rider accept
\* orders, or that is paid back, was paid, or an order locked it that was accepted on an
\* earlier deposit, and that one was paid (CanRiderAcceptOrders, MarkRiderAccepted,
\* completeRiderDepositCallbackTx).
HeldWasPaid ==
  \A d \in Deposits :
    deposit[d].status \notin {"none", "unpaid"} =>
      /\ payment[d] = "success" \/ deposit[d].accepted
      /\ \E e \in 1..d : payment[e] = "success"

\* A deposit is on its way back exactly while the request it names is, and it is refunded
\* exactly when that request succeeded (updateRiderDepositWithdrawStateTx); only the three
\* writes that do not look at the status they overwrite (refreshRiderDepositState,
\* MarkRiderAccepted, the notice of a payment) put it back, until the request moves again.
DepositFollowsRequest ==
  \A d \in Deposits \ reopened :
    LET w == deposit[d].request
        stage == IF w = "none" THEN "none" ELSE request[w].status
    IN /\ deposit[d].status = "withdrawing" <=> stage \in InTransfer
       /\ deposit[d].status = "refunded" <=> stage = "success"

\* A withdrawal starts while the rider has an order to deliver only if the order became
\* active between the count of its handler and now (refreshRiderDepositState,
\* WithdrawRiderDeposit); an acceptance that died before the lock does not let it start.
StartsAtRest ==
  [][\A w \in Requests :
       request[w].status = "none" /\ request'[w].status # "none" =>
         \/ ~Active
         \/ \E h \in Handlers : session[h].at = "withdraw" /\ session[h].late /\ session'[h] = Idle]_vars
=============================================================================
