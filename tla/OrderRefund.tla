---------------------------- MODULE OrderRefund ----------------------------
(***************************************************************************)
(* The money of an order: the buyer pays it from the wallet or through a   *)
(* gateway, a rider delivers it, its price is split between the platform,  *)
(* the school, the merchant and the rider (the settlement ledger), and an  *)
(* after-sales claim may give part or all of it back, which takes the      *)
(* split back.                                                             *)
(*                                                                         *)
(* Granularity.  A delivery, a payment and the end of a refund each update *)
(* the row of the order inside one database transaction, so from that      *)
(* update on they exclude each other and are one step.  What they read     *)
(* before it is not protected: a session keeps the claim as UpdateStatus   *)
(* read it and the order as RefundOrder, or a notice, read it.             *)
(***************************************************************************)
EXTENDS Integers, FiniteSets, FiniteSetsExt

CONSTANTS
  Orders, Payments, Refunds, Claims,  \* identities of the rows that may be created
  Handlers,      \* HTTP handlers that may run at the same time
  Users, Buyer,  \* the buyer of an order
  PaysFor,       \* the order of a payment
  Method,        \* its method: "ifpay" (the wallet) or "gateway"
  Key,           \* the idempotency key the client sent with it
  UnifiedKeys,   \* the keys that have the form of a unified id
  Concerns,      \* the order of an after-sales claim
  Price,         \* the price of an order
  Share,         \* the settlement plan of its price
  Fee,           \* the delivery fee the rider earns
  Deposit,       \* what a buyer's wallet holds at the start
  RefundAmounts, \* the amounts an administrator may give back
  MaxCrashes,    \* bound: handlers that die half way
  ReplyLoss      \* TRUE: the gateway may accept a refund and its reply be lost

Subjects == {"platform", "school", "merchant", "rider"}
Columns == {"platform", "merchant", "rider"}  \* those with a column in orders
Nothing == [s \in Subjects |-> 0]
NoIncome == [s \in Columns |-> 0]
Total(f) == f["platform"] + f["school"] + f["merchant"] + f["rider"]

ASSUME ConstantsOK ==
  /\ Buyer \in [Orders -> Users]
  /\ PaysFor \in [Payments -> Orders]
  /\ Method \in [Payments -> {"ifpay", "gateway"}]
  /\ DOMAIN Key = Payments
  /\ Concerns \in [Claims -> Orders]
  /\ Price \in [Orders -> Nat \ {0}]
  /\ Share \in [Orders -> [Subjects -> Nat]]
  /\ \A o \in Orders : Total(Share[o]) <= Price[o]
  /\ Fee \in [Orders -> Nat \ {0}]
  /\ Deposit \in [Users -> Nat]
  /\ RefundAmounts \subseteq Nat \ {0}
  /\ MaxCrashes \in Nat
  /\ ReplyLoss \in BOOLEAN
  /\ "none" \notin Refunds

VARIABLES
  order,     \* orders: progress, payment status and method, refund, income columns
  payment,   \* wallet_transactions of type payment: their status
  refund,    \* wallet_transactions of type refund
  balance,   \* the wallet of each buyer
  snapshot,  \* order_settlement_snapshots: the status of an order's settlement
  ledger,    \* settlement_ledger_entries: what was credited and what was reversed
  rider,     \* the rider's wallet, and the income transaction of each order
  claim,     \* after_sales_requests
  gateway,   \* the refunds as the payment gateway knows them
  session,   \* what each running handler has read and does next
  crashes,   \* number of handlers that died half way
  disturbed, \* history: claims of which a refund was made or ended unseen by their handler
  zeroed     \* history: orders whose columns were last cut down from a copy without the split

vars == <<order, payment, refund, balance, snapshot, ledger, rider, claim,
          gateway, session, crashes, disturbed, zeroed>>

RefundId == Refunds \cup {"none"}
Entity == [status : {"none", "pending", "approved", "rejected"},
           txn : RefundId, refundedAt : BOOLEAN]
\* The statuses an administrator may choose; "rejected" stands for "pending" too,
\* which allows no refund either.
Decisions == {"approved", "rejected"}
Points == {"refund_order", "call", "commit", "write"}
Idle == [at |-> "idle"]
\* whole is history: the columns of the order were its split when the handler read them.
Working == [at : Points, claim : Claims, status : Decisions, amount : Nat,
            txn : RefundId, method : {"ifpay", "gateway"}, income : [Columns -> Nat],
            done : BOOLEAN, whole : BOOLEAN]
Noticed == [at : {"notice"}, txn : Refunds, income : [Columns -> Nat], whole : BOOLEAN]

OrderOf(x) == Concerns[refund[x].claim]

Decides(h, c) == session[h].at \in Points /\ session[h].claim = c
\* A claim is decided or its refund ends while a handler decides it on what it has read.
Overtaken(c) == disturbed \cup {d \in {c} : \E h \in Handlers : Decides(h, d)}
Whole(o) == ledger[o].settled # Nothing /\ o \notin zeroed

-----------------------------------------------------------------------------
Init ==
  /\ order = [o \in Orders |-> [status |-> "pending", pay |-> "unpaid", method |-> "none",
                                txn |-> "none", income |-> NoIncome]]
  /\ payment = [p \in Payments |-> "none"]
  /\ refund = [x \in Refunds |-> [status |-> "none"]]
  /\ balance = Deposit
  /\ snapshot = [o \in Orders |-> "none"]
  /\ ledger = [o \in Orders |-> [settled |-> Nothing, reversed |-> Nothing]]
  /\ rider = [balance |-> 0, frozen |-> 0, income |-> [o \in Orders |-> "none"]]
  /\ claim = [c \in Claims |-> [status |-> "none", txn |-> "none", refundedAt |-> FALSE]]
  /\ gateway = [x \in Refunds |-> [state |-> "none"]]
  /\ session = [h \in Handlers |-> Idle]
  /\ crashes = 0 /\ disturbed = {} /\ zeroed = {}

-----------------------------------------------------------------------------
(* The settlement of an order.                                             *)

\* A snapshot is created once; a later call only refreshes its text.
PrepareSettlement(o) ==
  IF snapshot[o] = "none" THEN "pending_settlement" ELSE snapshot[o]

\* The share of one entry that a refund of amount takes back, rounded half up.
PartOf(entry, amount, price) ==
  IF amount >= price THEN entry ELSE (2 * entry * amount + price) \div (2 * price)

\* Mutant: a column is allowed to become negative.
Difference(a, b) == a - b
Less(a, b) == IF a > b THEN a - b ELSE 0

\* A refunded order takes its settlement back, once.  Nothing is taken back from
\* an order that was not settled yet: its snapshot is closed.
ReversedAgain(o) == snapshot[o] \notin {"none", "reversed"}  \* Mutant: at every refund.
ReversalDue(o) ==
  snapshot[o] \notin {"none", "reversed"} /\ ledger[o].reversed = Nothing
TakenBack(o, amount) ==
  [s \in Subjects |-> PartOf(ledger[o].settled[s], amount, Price[o])]

ReversedLedger(o, amount) ==
  IF ReversalDue(o)
  THEN [settled |-> ledger[o].settled,
        reversed |-> [s \in Subjects |-> ledger[o].reversed[s] + TakenBack(o, amount)[s]]]
  ELSE ledger[o]
ReversedSnapshot(o, amount) ==
  IF ReversalDue(o) /\ (ledger[o].settled = Nothing \/ amount >= Price[o])
  THEN "reversed" ELSE snapshot[o]
\* Mutant: the columns of the order keep the split.
IncomeKept(o, amount, seen) == order[o].income
\* The columns are computed from the order as the handler read it.
ReversedIncome(o, amount, seen) ==
  IF ReversalDue(o) /\ ledger[o].settled # Nothing
  THEN [s \in Columns |-> Less(seen[s], TakenBack(o, amount)[s])]
  ELSE order[o].income

\* The end of refund x of order o, by a handler that has seen the income.
EndRefund(o, x, amount, seen) ==
  /\ order' = [order EXCEPT ![o] =
       [order[o] EXCEPT !.pay = "refunded", !.txn = x, !.income = ReversedIncome(o, amount, seen)]]
  /\ ledger' = [ledger EXCEPT ![o] = ReversedLedger(o, amount)]
  /\ snapshot' = [snapshot EXCEPT ![o] = ReversedSnapshot(o, amount)]

\* History: whether the columns it cut down were the split of the order.
Remember(o, whole) ==
  zeroed' = IF ReversalDue(o) /\ ledger[o].settled # Nothing
            THEN IF whole THEN zeroed \ {o} ELSE zeroed \cup {o}
            ELSE zeroed

-----------------------------------------------------------------------------
(* Payment and delivery.                                                   *)

\* A payment is a duplicate when its key is found among the stored ones.  A key
\* that is not a unified id is replaced by a fresh one first, and is not found.
Duplicate(p) ==
  /\ Key[p] \in UnifiedKeys
  /\ \E q \in Payments \ {p} : Key[q] = Key[p] /\ payment[q] # "none"

Paid(o, method) ==
  /\ order' = [order EXCEPT ![o] = [order[o] EXCEPT !.pay = "paid", !.method = method]]
  /\ snapshot' = [snapshot EXCEPT ![o] = PrepareSettlement(o)]

\* PayOrder does not look at the payment status of the order.
PayOrder(p) ==
  LET o == PaysFor[p] IN
  /\ payment[p] = "none" /\ ~Duplicate(p)
  /\ IF Method[p] = "ifpay"
     THEN /\ balance[Buyer[o]] >= Price[o]
          /\ balance' = [balance EXCEPT ![Buyer[o]] = @ - Price[o]]
          /\ payment' = [payment EXCEPT ![p] = "success"]
          /\ Paid(o, "ifpay")
     ELSE /\ payment' = [payment EXCEPT ![p] = "pending"]
          /\ UNCHANGED <<balance, order, snapshot>>
  /\ UNCHANGED <<refund, ledger, rider, claim, gateway, session, crashes, disturbed, zeroed>>

\* The notice of the gateway that a pending payment succeeded or failed.
PaymentNotice(p) ==
  /\ payment[p] = "pending"
  /\ \/ /\ payment' = [payment EXCEPT ![p] = "success"]
        /\ Paid(PaysFor[p], "gateway")
     \/ /\ payment' = [payment EXCEPT ![p] = "failed"]
        /\ UNCHANGED <<order, snapshot>>
  /\ UNCHANGED <<refund, balance, ledger, rider, claim, gateway, session, crashes, disturbed, zeroed>>

Progress(o, from, to) ==
  /\ order[o].status = from
  /\ order' = [order EXCEPT ![o] = [order[o] EXCEPT !.status = to]]
  /\ UNCHANGED <<payment, refund, balance, snapshot, ledger, rider, claim, gateway,
                 session, crashes, disturbed, zeroed>>

\* A rider accepts a paid order; an operator may dispatch any; then it is picked up.
Accept(o) == order[o].pay = "paid" /\ Progress(o, "pending", "accepted")
Dispatch(o) == Progress(o, "pending", "accepted")
Pickup(o) == Progress(o, "accepted", "delivering")

\* A settled order is not settled again, and one closed by a refund not at all.
DueUnlessSettled(o) == PrepareSettlement(o) # "settled"  \* Mutant: a closed one is.
SettlementDue(o) == PrepareSettlement(o) = "pending_settlement"

\* The delivery freezes the fee in the rider's wallet and writes it to the rider
\* column; the settlement, unless the order is settled or closed already, then
\* overwrites the columns with the shares.
Deliver(o) ==
  LET settles == SettlementDue(o) IN
  /\ order[o].status = "delivering"
  /\ order' = [order EXCEPT ![o] = [order[o] EXCEPT !.status = "completed",
       !.income = IF settles THEN [s \in Columns |-> Share[o][s]]
                  ELSE [order[o].income EXCEPT !["rider"] = Fee[o]]]]
  /\ rider' = [balance |-> rider.balance, frozen |-> rider.frozen + Fee[o],
               income |-> [rider.income EXCEPT ![o] = "pending"]]
  /\ snapshot' = [snapshot EXCEPT ![o] = IF settles THEN "settled" ELSE @]
  /\ ledger' = [ledger EXCEPT ![o] =
       IF settles THEN [settled |-> [s \in Subjects |-> ledger[o].settled[s] + Share[o][s]],
                        reversed |-> ledger[o].reversed]
                  ELSE ledger[o]]
  /\ UNCHANGED <<payment, refund, balance, claim, gateway, session, crashes, disturbed, zeroed>>

\* Mutant: the last income stays frozen.
IncomeDueBelow(o) == rider.income[o] = "pending" /\ rider.frozen > Fee[o]
IncomeDue(o) == rider.income[o] = "pending" /\ rider.frozen >= Fee[o]

\* A day later the income moves to the balance of the rider.
SettleRiderIncome(o) ==
  /\ IncomeDue(o)
  /\ rider' = [balance |-> rider.balance + Fee[o], frozen |-> rider.frozen - Fee[o],
               income |-> [rider.income EXCEPT ![o] = "success"]]
  /\ UNCHANGED <<order, payment, refund, balance, snapshot, ledger, claim, gateway,
                 session, crashes, disturbed, zeroed>>

-----------------------------------------------------------------------------
(* After-sales claims and refunds.                                         *)

Step(h, s) == session' = [session EXCEPT ![h] = s]

CreateClaim(c) ==
  /\ claim[c].status = "none"
  /\ claim' = [claim EXCEPT ![c].status = "pending"]
  /\ UNCHANGED <<order, payment, refund, balance, snapshot, ledger, rider, gateway,
                 session, crashes, disturbed, zeroed>>

\* The id of a new transaction; that there are Refunds of them is a bound.
Unused(x) ==
  /\ x \in Refunds
  /\ refund[x].status = "none" /\ gateway[x].state = "none"
  /\ \A h \in Handlers : session[h] # Idle => session[h].txn # x

AlwaysRefunds(c, refunds) == refunds  \* Mutant: a claim that names a refund gets another.
NeedsRefund(c, refunds) == refunds /\ claim[c].txn = "none"

\* UpdateStatus reads the claim and decides.  A refund is made only when the claim
\* names none yet; a claim that names one cannot be decided without a refund.
Decided(c, status, refunds, amount, x) ==
  LET new == NeedsRefund(c, refunds) IN
  [at |-> IF new THEN "refund_order" ELSE "write", claim |-> c, status |-> status,
   amount |-> IF new THEN amount ELSE 0, txn |-> x, method |-> "ifpay", income |-> NoIncome,
   whole |-> FALSE, done |-> refunds /\ claim[c].refundedAt]

UpdateStatus(h, c) ==
  /\ session[h] = Idle /\ claim[c].status # "none"
  /\ \E status \in Decisions, refunds \in BOOLEAN, amount \in RefundAmounts, x \in RefundId :
       /\ refunds => status = "approved" /\ amount <= Price[Concerns[c]]
       /\ ~refunds => claim[c].txn = "none"
       /\ IF NeedsRefund(c, refunds) THEN Unused(x) ELSE x = claim[c].txn
       /\ Step(h, Decided(c, status, refunds, amount, x))
  /\ disturbed' = Overtaken(c)
  /\ UNCHANGED <<order, payment, refund, balance, snapshot, ledger, rider, claim, gateway,
                 crashes, zeroed>>

\* RefundOrder reads the order.  An order that was not paid from the wallet needs
\* a successful payment.  Its idempotency key, after_sales_refund_<claim>, is not
\* a unified id: the look-up never finds an earlier refund of the claim.
RefundOrder(h) ==
  LET s == session[h]
      o == Concerns[s.claim]
      method == IF order[o].method = "ifpay" THEN "ifpay" ELSE "gateway"
      payable == method = "ifpay"
                   \/ \E p \in Payments : PaysFor[p] = o /\ payment[p] = "success"
  IN
  /\ s.at = "refund_order"
  /\ IF payable
     THEN Step(h, [s EXCEPT !.at = IF method = "ifpay" THEN "commit" ELSE "call",
                            !.method = method, !.income = order[o].income, !.whole = Whole(o)])
     ELSE Step(h, Idle)
  /\ UNCHANGED <<order, payment, refund, balance, snapshot, ledger, rider, claim, gateway,
                 crashes, disturbed, zeroed>>

\* The gateway is asked before anything is stored; it may refuse, and its answer
\* may be lost.
CallGateway(h) ==
  LET s == session[h] IN
  /\ s.at = "call"
  /\ \/ /\ gateway' = [gateway EXCEPT ![s.txn] =
                         [state |-> "accepted", claim |-> s.claim, amount |-> s.amount]]
        /\ \/ Step(h, [s EXCEPT !.at = "commit"]) /\ UNCHANGED disturbed
           \/ ReplyLoss /\ Step(h, Idle) /\ disturbed' = disturbed \cup {s.claim}
     \/ gateway' = gateway /\ Step(h, Idle) /\ UNCHANGED disturbed
  /\ UNCHANGED <<order, payment, refund, balance, snapshot, ledger, rider, claim, crashes, zeroed>>

\* Mutant: every refund is booked at the price of the order.
StorePrice(s, status) ==
  refund' = [refund EXCEPT ![s.txn] = [status |-> status, claim |-> s.claim,
               amount |-> Price[Concerns[s.claim]], method |-> s.method]]
StoreRefund(s, status) ==
  refund' = [refund EXCEPT ![s.txn] =
    [status |-> status, claim |-> s.claim, amount |-> s.amount, method |-> s.method]]

\* A refund to the wallet is complete at once; one through the gateway waits for
\* its notice.
CommitRefund(h) ==
  LET s == session[h]
      o == Concerns[s.claim]
  IN
  /\ s.at = "commit"
  /\ IF s.method = "ifpay"
     THEN /\ balance' = [balance EXCEPT ![Buyer[o]] = @ + s.amount]
          /\ StoreRefund(s, "success")
          /\ EndRefund(o, s.txn, s.amount, s.income) /\ Remember(o, s.whole)
          /\ Step(h, [s EXCEPT !.at = "write", !.amount = 0, !.income = NoIncome,
                               !.whole = FALSE, !.done = TRUE])
     ELSE /\ StoreRefund(s, "refund_pending")
          /\ order' = [order EXCEPT ![o] = [order[o] EXCEPT !.pay = "refunding", !.txn = s.txn]]
          /\ Step(h, [s EXCEPT !.at = "write", !.amount = 0, !.income = NoIncome, !.whole = FALSE])
          /\ UNCHANGED <<balance, snapshot, ledger, zeroed>>
  /\ UNCHANGED <<payment, rider, claim, gateway, crashes, disturbed>>

\* UpdateStatus stores the decision over whatever the claim holds by now.
WriteClaim(h) ==
  LET s == session[h] IN
  /\ s.at = "write"
  /\ claim' = [claim EXCEPT ![s.claim] =
                 [status |-> s.status, txn |-> s.txn, refundedAt |-> s.done]]
  /\ Step(h, Idle)
  /\ UNCHANGED <<order, payment, refund, balance, snapshot, ledger, rider, gateway, crashes, disturbed, zeroed>>

-----------------------------------------------------------------------------
(* The gateway ends a refund and announces it; it may announce it again.   *)

GatewayEnds(x) ==
  /\ gateway[x].state = "accepted"
  /\ \E end \in {"done", "failed"} : gateway' = [gateway EXCEPT ![x].state = end]
  /\ UNCHANGED <<order, payment, refund, balance, snapshot, ledger, rider, claim, session,
                 crashes, disturbed, zeroed>>

\* A refund that is settled already ignores the notice.
Announced(x, state) == gateway[x].state = state /\ refund[x].status = "refund_pending"

\* Success: the transaction and the order are read, then the rest is one step.
SuccessNotice(h, x) ==
  /\ session[h] = Idle /\ Announced(x, "done")
  /\ Step(h, [at |-> "notice", txn |-> x, income |-> order[OrderOf(x)].income,
              whole |-> Whole(OrderOf(x))])
  /\ UNCHANGED <<order, payment, refund, balance, snapshot, ledger, rider, claim, gateway,
                 crashes, disturbed, zeroed>>

CompleteRefund(h) ==
  LET s == session[h]
      o == OrderOf(s.txn)
  IN
  /\ s.at = "notice"
  /\ refund' = [refund EXCEPT ![s.txn].status = "success"]
  /\ EndRefund(o, s.txn, refund[s.txn].amount, s.income) /\ Remember(o, s.whole)
  /\ claim' = [c \in Claims |-> IF claim[c].txn = s.txn
                                THEN [claim[c] EXCEPT !.refundedAt = TRUE] ELSE claim[c]]
  /\ Step(h, Idle)
  /\ disturbed' = Overtaken(refund[s.txn].claim)
  /\ UNCHANGED <<payment, balance, rider, gateway, crashes>>

\* Mutant: the order stays in refunding.
StillRefunding(o) == [order[o] EXCEPT !.txn = "none"]
PaidAgain(o) == [order[o] EXCEPT !.pay = "paid", !.txn = "none"]

\* Mutant: the claim keeps the failed refund.
StillNamed(x) ==
  [c \in Claims |-> IF claim[c].txn = x THEN [claim[c] EXCEPT !.refundedAt = FALSE] ELSE claim[c]]
Released(x) ==
  [c \in Claims |-> IF claim[c].txn = x
                    THEN [claim[c] EXCEPT !.txn = "none", !.refundedAt = FALSE] ELSE claim[c]]

\* Failure: the order is paid again, and the claim may be refunded anew.
FailureNotice(x) ==
  LET o == OrderOf(x) IN
  /\ Announced(x, "failed")
  /\ refund' = [refund EXCEPT ![x].status = "failed"]
  /\ order' = [order EXCEPT ![o] = PaidAgain(o)]
  /\ claim' = Released(x)
  /\ disturbed' = Overtaken(refund[x].claim)
  /\ UNCHANGED <<payment, balance, snapshot, ledger, rider, gateway, session, crashes, zeroed>>

\* The gateway or the database has said yes and the claim does not know.
Unwritten(s) == s.at = "write" \/ (s.at = "commit" /\ s.method = "gateway")

Crash(h) ==
  /\ session[h] # Idle /\ crashes < MaxCrashes
  /\ Step(h, Idle) /\ crashes' = crashes + 1
  /\ disturbed' = IF Unwritten(session[h]) THEN disturbed \cup {session[h].claim} ELSE disturbed
  /\ UNCHANGED <<order, payment, refund, balance, snapshot, ledger, rider, claim, gateway, zeroed>>

-----------------------------------------------------------------------------
Next ==
  \/ \E p \in Payments : PayOrder(p) \/ PaymentNotice(p)
  \/ \E o \in Orders :
       Accept(o) \/ Dispatch(o) \/ Pickup(o) \/ Deliver(o) \/ SettleRiderIncome(o)
  \/ \E c \in Claims : CreateClaim(c)
  \/ \E h \in Handlers :
       \/ \E c \in Claims : UpdateStatus(h, c)
       \/ \E x \in Refunds : SuccessNotice(h, x)
       \/ RefundOrder(h) \/ CallGateway(h) \/ CommitRefund(h) \/ WriteClaim(h) \/ CompleteRefund(h) \/ Crash(h)
  \/ \E x \in Refunds : GatewayEnds(x) \/ FailureNotice(x)

Spec == Init /\ [][Next]_vars

\* The worker that settles the riders' incomes runs every minute.  The gateway
\* works on what it accepted and repeats its notices until one is answered; strong
\* fairness, because the number of handlers is a bound of the model only.
FairSpec ==
  /\ Spec
  /\ \A o \in Orders : WF_vars(SettleRiderIncome(o))
  /\ \A x \in Refunds : WF_vars(GatewayEnds(x)) /\ SF_vars(FailureNotice(x))
                         /\ SF_vars(\E h \in Handlers : SuccessNotice(h, x))
  /\ \A h \in Handlers : WF_vars(RefundOrder(h)) /\ WF_vars(CallGateway(h))
       /\ WF_vars(CommitRefund(h)) /\ WF_vars(WriteClaim(h)) /\ WF_vars(CompleteRefund(h))

-----------------------------------------------------------------------------
(* Properties.                                                             *)

OrderRow ==
  [status : {"pending", "accepted", "delivering", "completed"},
   pay : {"unpaid", "paid", "refunding", "refunded"}, method : {"none", "ifpay", "gateway"},
   txn : RefundId, income : [Columns -> Nat]]
Stages == {"none", "pending_settlement", "settled", "reversed"}
LedgerRow == [settled : [Subjects -> Nat], reversed : [Subjects -> Nat]]
RefundRow ==
  [status : {"none"}]
    \cup [status : {"refund_pending", "success", "failed"}, claim : Claims, amount : Nat,
          method : {"ifpay", "gateway"}]
GatewayRow ==
  [state : {"none"}] \cup [state : {"accepted", "done", "failed"}, claim : Claims, amount : Nat]

\* Type invariant: no wallet and no income column is ever negative
\* (payment_service.go PayOrder, settlement_runtime.go settlementMaxInt64).
TypeOK ==
  /\ order \in [Orders -> OrderRow]
  /\ payment \in [Payments -> {"none", "pending", "success", "failed"}]
  /\ refund \in [Refunds -> RefundRow]
  /\ balance \in [Users -> Nat]
  /\ snapshot \in [Orders -> Stages]
  /\ ledger \in [Orders -> LedgerRow]
  /\ rider \in [balance : Nat, frozen : Nat,
                income : [Orders -> {"none", "pending", "success"}]]
  /\ claim \in [Claims -> Entity]
  /\ gateway \in [Refunds -> GatewayRow]
  /\ session \in [Handlers -> {Idle} \cup Working \cup Noticed]
  /\ crashes \in 0..MaxCrashes
  /\ disturbed \subseteq Claims /\ zeroed \subseteq Orders

GivenBack(o) == {x \in Refunds : refund[x].status = "success" /\ OrderOf(x) = o}

\* The wallet of a buyer and that of the rider hold exactly what their
\* transactions say, however payments, refunds and deliveries interleave
\* (PayOrder, RefundOrder, createRiderIncomeFreezeTransaction).
WalletsMatchJournal ==
  /\ \A u \in Users :
       LET spent == {p \in Payments : /\ payment[p] = "success" /\ Method[p] = "ifpay"
                                      /\ Buyer[PaysFor[p]] = u}
           returned == {x \in Refunds : /\ refund[x].status = "success"
                                        /\ refund[x].method = "ifpay"
                                        /\ Buyer[OrderOf(x)] = u}
       IN balance[u] + MapThenSumSet(LAMBDA p : Price[PaysFor[p]], spent)
            = Deposit[u] + MapThenSumSet(LAMBDA x : refund[x].amount, returned)
  /\ LET earned(state) == {o \in Orders : rider.income[o] = state}
     IN /\ rider.frozen = MapThenSumSet(LAMBDA o : Fee[o], earned("pending"))
        /\ rider.balance = MapThenSumSet(LAMBDA o : Fee[o], earned("success"))

\* An order is split at most once and its split is taken back at most once, never
\* beyond what was credited; the status of the snapshot says which of it happened
\* (SettleCompletedOrderTx, ReverseOrderSettlementTx).
LedgerMatchesSnapshot ==
  \A o \in Orders :
    /\ ledger[o].settled \in {Nothing, Share[o]}
    /\ \A s \in Subjects : ledger[o].reversed[s] <= ledger[o].settled[s]
    /\ snapshot[o] \in {"none", "pending_settlement"} => ledger[o].settled = Nothing
    /\ snapshot[o] = "settled" => ledger[o].settled = Share[o]
    /\ snapshot[o] = "reversed" => ledger[o].reversed = ledger[o].settled

\* Whether the refund or the delivery comes first, a refunded order keeps no more
\* of its split than the refund left of it: it was never split, or the part of
\* one of its refunds was taken back (RefundOrder, completeRefundCallbackTx).
RefundTakesSplitBack ==
  \A o \in Orders :
    GivenBack(o) # {} /\ ledger[o].settled # Nothing =>
      \E x \in GivenBack(o) : ledger[o].reversed = TakenBack(o, refund[x].amount)

\* The order follows the refund it names: it is "refunding" only while that refund
\* waits for the gateway, and "refunded" only after it succeeded.  A late notice of
\* another refund does not leave it behind (resetOrderRefundPendingTx).
OrderFollowsRefund ==
  \A o \in Orders :
    /\ order[o].pay = "refunding" =>
         order[o].txn \in Refunds /\ refund[order[o].txn].status = "refund_pending"
    /\ order[o].pay = "refunded" => order[o].txn \in GivenBack(o)

\* The income columns of a split order are its split less what was taken back of it.  A
\* reversal computes them from the order its handler read before; if that was before the
\* delivery they are all zero: a stale copy only understates (ReverseOrderSettlementTx).
IncomeMatchesLedger ==
  \A o \in Orders : ledger[o].settled # Nothing =>
    IF o \in zeroed
    THEN order[o].income = NoIncome
    ELSE \A s \in Columns : order[o].income[s] = ledger[o].settled[s] - ledger[o].reversed[s]

\* A claim names no refund but a stored one of its own, and says that it succeeded only when
\* it did.  Unless its handler died or was overtaken between the refund and the claim, it
\* names every refund made for it as soon as nobody decides it, says when that succeeded, and
\* is released by its failure, whatever else goes on in the order (UpdateStatus,
\* markThirdPartyCallbackFailed).
ClaimKnowsRefund ==
  \A c \in Claims :
    LET made == {x \in Refunds : refund[x].status \in {"refund_pending", "success"}
                                  /\ refund[x].claim = c}
    IN /\ claim[c].txn # "none" => refund[claim[c].txn].status # "none"
                                   /\ refund[claim[c].txn].claim = c
       /\ claim[c].refundedAt => claim[c].txn \in made /\ refund[claim[c].txn].status = "success"
       /\ c \notin disturbed /\ (\A h \in Handlers : ~Decides(h, c)) =>
            /\ made = {claim[c].txn} \ {"none"}
            /\ \A x \in made : refund[x].status = "success" => claim[c].refundedAt

\* The money of a claim is given back once, be it to the wallet or by the gateway, unless two
\* handlers decided the claim at once, one died or a reply was lost between the refund and the
\* claim, or a notice crossed the decision (RefundOrder with the idempotency key
\* after_sales_refund_<claim>, which finds nothing).
RefundedOnce ==
  \A c \in Claims \ disturbed :
    Cardinality({x \in Refunds :
      \/ refund[x].status \in {"refund_pending", "success"} /\ refund[x].claim = c
      \/ gateway[x].state \in {"accepted", "done"} /\ gateway[x].claim = c}) <= 1

\* Every income of the rider is paid out of the frozen balance in the end, and
\* every refund the gateway took on ends (settleDueRiderIncomeTransactions,
\* RecordCallback).
IncomeAndRefundsEnd ==
  /\ \A o \in Orders : rider.income[o] = "pending" ~> rider.income[o] = "success"
  /\ \A x \in Refunds :
       refund[x].status = "refund_pending" ~> refund[x].status \in {"success", "failed"}
=============================================================================
