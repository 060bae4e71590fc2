------------------------- MODULE OrderRefundProofs -------------------------
(***************************************************************************)
(* Theorems about OrderRefund for every set of orders, payments, refunds,  *)
(* claims and handlers, every price, split, fee and amount.                *)
(***************************************************************************)
EXTENDS OrderRefund, SetSums, TLAPS

\* A handler that is about to store a refund holds its id, and one that handles a
\* notice handles it for a stored refund.
Holds ==
  \A h \in Handlers :
    /\ session[h].at \in {"refund_order", "call", "commit"} => session[h].txn \in Refunds
    /\ session[h].at = "notice" => refund[session[h].txn].status # "none"

Typed == TypeOK /\ Holds

-----------------------------------------------------------------------------
(* What the operators return.                                              *)

\* A part of an entry is a natural number that does not exceed the entry.
LEMMA PartBound ==
  ASSUME NEW e \in Nat, NEW a \in Nat, NEW p \in Nat \ {0}
  PROVE  PartOf(e, a, p) \in Nat /\ PartOf(e, a, p) <= e
<1>1. CASE a >= p
  BY <1>1 DEF PartOf
<1>2. CASE a < p
  <2> DEFINE n == 2 * e * a + p
             q == n \div (2 * p)
  <2>1. e * a \in Nat /\ e * p \in Nat /\ e * a <= e * p
    BY <1>2, SMTT(30)
  <2>2. n = 2 * (e * a) + p
    BY SMTT(30)
  <2>3. n \in Nat /\ n < 2 * (e * p) + 2 * p
    BY <2>1, <2>2
  <2>4. (2 * p) * (e + 1) = 2 * (e * p) + 2 * p
    BY SMTT(30)
  <2>5. q \in Int /\ (2 * p) * q <= n /\ n < (2 * p) * (q + 1)
    BY <2>3, SMTT(30)
  <2> HIDE DEF n, q
  <2>6. q >= 0
    <3>1. SUFFICES ASSUME q <= -1 PROVE FALSE
      BY <2>5
    <3>2. (2 * p) * (q + 1) <= 0
      BY <3>1, <2>5, SMTT(30)
    <3> QED BY <3>2, <2>3, <2>5
  <2>7. q <= e
    <3>1. SUFFICES ASSUME q >= e + 1 PROVE FALSE
      BY <2>5
    <3>2. (2 * p) * q >= (2 * p) * (e + 1)
      BY <3>1, <2>5, SMTT(30)
    <3> QED BY <3>2, <2>3, <2>4, <2>5
  <2>8. PartOf(e, a, p) = q
    BY <1>2 DEF PartOf, n, q
  <2> QED BY <2>5, <2>6, <2>7, <2>8
<1> QED BY <1>1, <1>2

\* The rows of stored refunds and the sessions at work.
LEMMA StoredRefund ==
  ASSUME TypeOK, NEW x \in Refunds, refund[x].status # "none"
  PROVE  /\ refund[x].status \in {"refund_pending", "success", "failed"}
         /\ refund[x].claim \in Claims /\ refund[x].amount \in Nat
         /\ refund[x].method \in {"ifpay", "gateway"}
         /\ OrderOf(x) \in Orders
  BY ConstantsOK DEF TypeOK, RefundRow, OrderOf

LEMMA SessionAt ==
  ASSUME TypeOK, NEW h \in Handlers
  PROVE  /\ session[h].at \in Points =>
              session[h] \in Working /\ Concerns[session[h].claim] \in Orders
         /\ session[h].at = "notice" => session[h] \in Noticed
         /\ session[h] # Idle => session[h].txn \in RefundId
  BY ConstantsOK DEF TypeOK, Points, Working, Noticed, Idle, RefundId

\* The rows of an order and of its ledger.
LEMMA OrderRows ==
  ASSUME TypeOK, NEW o \in Orders
  PROVE  /\ order[o] \in OrderRow /\ ledger[o] \in LedgerRow /\ snapshot[o] \in Stages
         /\ Price[o] \in Nat \ {0} /\ Fee[o] \in Nat /\ Buyer[o] \in Users
         /\ Share[o] \in [Subjects -> Nat]
         /\ ledger[o].settled \in [Subjects -> Nat] /\ ledger[o].reversed \in [Subjects -> Nat]
         /\ order[o].income \in [Columns -> Nat]
<1>1. order[o] \in OrderRow /\ ledger[o] \in LedgerRow /\ snapshot[o] \in Stages
  BY DEF TypeOK
<1>2. /\ Price[o] \in Nat \ {0} /\ Fee[o] \in Nat /\ Buyer[o] \in Users
      /\ Share[o] \in [Subjects -> Nat]
  BY ConstantsOK
<1> QED BY <1>1, <1>2 DEF OrderRow, LedgerRow

LEMMA TakenBackType ==
  ASSUME TypeOK, NEW o \in Orders, NEW n \in Nat
  PROVE  /\ TakenBack(o, n) \in [Subjects -> Nat]
         /\ \A s \in Subjects : TakenBack(o, n)[s] <= ledger[o].settled[s]
<1>1. ASSUME NEW s \in Subjects
      PROVE  /\ PartOf(ledger[o].settled[s], n, Price[o]) \in Nat
             /\ PartOf(ledger[o].settled[s], n, Price[o]) <= ledger[o].settled[s]
  <2>1. ledger[o].settled[s] \in Nat /\ Price[o] \in Nat \ {0}
    BY OrderRows
  <2> QED BY <2>1, PartBound
<1> QED BY <1>1 DEF TakenBack

\* The row of a refunded order, its ledger and its snapshot keep their types.
LEMMA RefundedRows ==
  ASSUME TypeOK, NEW o \in Orders, NEW x \in Refunds, NEW n \in Nat,
         NEW seen \in [Columns -> Nat], EndRefund(o, x, n, seen)
  PROVE  /\ order' \in [Orders -> OrderRow]
         /\ ledger' \in [Orders -> LedgerRow]
         /\ snapshot' \in [Orders -> Stages]
<1>1. ReversedIncome(o, n, seen) \in [Columns -> Nat]
  <2>1. order[o].income \in [Columns -> Nat]
    BY OrderRows
  <2>2. ASSUME NEW s \in Columns PROVE Less(seen[s], TakenBack(o, n)[s]) \in Nat
    <3>1. seen[s] \in Nat /\ TakenBack(o, n)[s] \in Nat
      BY TakenBackType DEF Columns, Subjects
    <3> QED BY <3>1 DEF Less
  <2> QED BY <2>1, <2>2 DEF ReversedIncome
<1>2. [order[o] EXCEPT !.pay = "refunded", !.txn = x, !.income = ReversedIncome(o, n, seen)]
        \in OrderRow
  BY <1>1, OrderRows DEF OrderRow, RefundId
<1>3. ReversedLedger(o, n) \in LedgerRow
  <2>1. [s \in Subjects |-> ledger[o].reversed[s] + TakenBack(o, n)[s]] \in [Subjects -> Nat]
    BY TakenBackType, OrderRows
  <2> QED BY <2>1, OrderRows DEF ReversedLedger, LedgerRow
<1>4. ReversedSnapshot(o, n) \in Stages
  BY OrderRows DEF ReversedSnapshot, Stages
<1>5. order \in [Orders -> OrderRow] /\ ledger \in [Orders -> LedgerRow]
      /\ snapshot \in [Orders -> Stages]
  BY DEF TypeOK
<1> QED BY <1>2, <1>3, <1>4, <1>5 DEF EndRefund

-----------------------------------------------------------------------------
(* Type correctness.                                                       *)

LEMMA TypedInit == Init => Typed
<1> SUFFICES ASSUME Init PROVE Typed OBVIOUS
<1>1. TypeOK
  BY ConstantsOK DEF Init, TypeOK, OrderRow, Stages, LedgerRow, RefundRow, GatewayRow, RefundId,
                     Entity, NoIncome, Nothing
<1>2. Holds
  BY DEF Init, Holds, Idle
<1> QED BY <1>1, <1>2 DEF Typed

\* A payment: the wallet is debited by no more than it holds.
LEMMA PaymentTyped ==
  ASSUME Typed, NEW p \in Payments, PayOrder(p) \/ PaymentNotice(p)
  PROVE  Typed'
<1> DEFINE o == PaysFor[p]
<1>1. o \in Orders /\ Buyer[o] \in Users /\ Price[o] \in Nat /\ balance[Buyer[o]] \in Nat
  BY ConstantsOK DEF Typed, TypeOK
<1>2. ASSUME NEW method \in {"ifpay", "gateway"}, Paid(o, method)
      PROVE  order' \in [Orders -> OrderRow] /\ snapshot' \in [Orders -> Stages]
  <2>1. [order[o] EXCEPT !.pay = "paid", !.method = method] \in OrderRow
    <3>1. order[o] \in OrderRow
      BY <1>1, OrderRows DEF Typed
    <3> QED BY <3>1 DEF OrderRow
  <2>2. PrepareSettlement(o) \in Stages
    BY <1>1, OrderRows DEF Typed, PrepareSettlement, Stages
  <2> QED BY <1>1, <1>2, <2>1, <2>2 DEF Paid, Typed, TypeOK
<1>3. CASE PayOrder(p)
  <2>1. CASE Method[p] = "ifpay"
    <3>1. balance' \in [Users -> Nat]
      <4>1. balance \in [Users -> Nat] /\ balance[Buyer[o]] - Price[o] \in Nat
        BY <1>1, <1>3, <2>1 DEF PayOrder, Typed, TypeOK
      <4> QED BY <1>3, <2>1, <4>1 DEF PayOrder
    <3>2. Paid(o, "ifpay")
      BY <1>3, <2>1 DEF PayOrder
    <3> QED BY <1>2, <1>3, <2>1, <3>1, <3>2 DEF PayOrder, Typed, TypeOK, Holds
  <2>2. CASE Method[p] # "ifpay"
    BY <1>3, <2>2 DEF PayOrder, Typed, TypeOK, Holds
  <2> QED BY <2>1, <2>2
<1>4. CASE PaymentNotice(p)
  <2>1. CASE Paid(o, "gateway")
    BY <1>2, <1>4, <2>1 DEF PaymentNotice, Typed, TypeOK, Holds
  <2>2. CASE ~Paid(o, "gateway")
    BY <1>4, <2>2 DEF PaymentNotice, Typed, TypeOK, Holds
  <2> QED BY <2>1, <2>2
<1> QED BY <1>3, <1>4

\* The progress of an order, and the income of its rider.
LEMMA DeliveryTyped ==
  ASSUME Typed, NEW o \in Orders,
         Accept(o) \/ Dispatch(o) \/ Pickup(o) \/ Deliver(o) \/ SettleRiderIncome(o)
  PROVE  Typed'
<1>1. /\ order[o] \in OrderRow /\ ledger[o] \in LedgerRow /\ snapshot[o] \in Stages
      /\ Fee[o] \in Nat /\ Share[o] \in [Subjects -> Nat]
      /\ ledger[o].settled \in [Subjects -> Nat] /\ ledger[o].reversed \in [Subjects -> Nat]
      /\ order[o].income \in [Columns -> Nat]
  BY OrderRows DEF Typed
<1>2. ASSUME NEW from, NEW to \in {"accepted", "delivering"}, Progress(o, from, to)
      PROVE  Typed'
  <2>1. [order[o] EXCEPT !.status = to] \in OrderRow
    BY <1>1 DEF OrderRow
  <2>2. order' \in [Orders -> OrderRow]
    BY <1>2, <2>1 DEF Progress, Typed, TypeOK
  <2> QED BY <1>2, <2>2 DEF Progress, Typed, TypeOK, Holds
<1>3. CASE Accept(o) \/ Dispatch(o) \/ Pickup(o)
  BY <1>2, <1>3 DEF Accept, Dispatch, Pickup
<1>4. CASE Deliver(o)
  <2> DEFINE income == IF SettlementDue(o) THEN [s \in Columns |-> Share[o][s]]
                       ELSE [order[o].income EXCEPT !["rider"] = Fee[o]]
  <2>1. income \in [Columns -> Nat]
    BY <1>1 DEF Columns, Subjects
  <2>2. [order[o] EXCEPT !.status = "completed", !.income = income] \in OrderRow
    BY <1>1, <2>1 DEF OrderRow
  <2>3. order' \in [Orders -> OrderRow]
    BY <1>4, <2>2 DEF Deliver, Typed, TypeOK
  <2>4. rider' \in [balance : Nat, frozen : Nat,
                   income : [Orders -> {"none", "pending", "success"}]]
    BY <1>1, <1>4 DEF Deliver, Typed, TypeOK
  <2>5. [settled |-> [s \in Subjects |-> ledger[o].settled[s] + Share[o][s]],
         reversed |-> ledger[o].reversed] \in LedgerRow
    BY <1>1 DEF LedgerRow
  <2>6. ledger' \in [Orders -> LedgerRow]
    BY <1>1, <1>4, <2>5 DEF Deliver, Typed, TypeOK
  <2>7. snapshot' \in [Orders -> Stages]
    BY <1>1, <1>4 DEF Deliver, Typed, TypeOK, Stages
  <2> QED BY <1>4, <2>3, <2>4, <2>6, <2>7 DEF Deliver, Typed, TypeOK, Holds
<1>5. CASE SettleRiderIncome(o)
  <2>1. rider' \in [balance : Nat, frozen : Nat,
                   income : [Orders -> {"none", "pending", "success"}]]
    BY <1>1, <1>5 DEF SettleRiderIncome, IncomeDue, Typed, TypeOK
  <2> QED BY <1>5, <2>1 DEF SettleRiderIncome, Typed, TypeOK, Holds
<1> QED BY <1>3, <1>4, <1>5

\* A step of a handler that only changes its own session.
LEMMA SessionTyped ==
  ASSUME Typed, NEW h \in Handlers, NEW s \in {Idle} \cup Working \cup Noticed, Step(h, s),
         s.at \in {"refund_order", "call", "commit"} => s.txn \in Refunds,
         s.at = "notice" => refund'[s.txn].status # "none",
         \A x \in Refunds : refund[x].status # "none" => refund'[x].status # "none"
  PROVE  session' \in [Handlers -> {Idle} \cup Working \cup Noticed] /\ Holds'
<1>1. session' = [session EXCEPT ![h] = s]
  BY DEF Step
<1>2. session' \in [Handlers -> {Idle} \cup Working \cup Noticed]
  BY <1>1 DEF Typed, TypeOK
<1>3. ASSUME NEW g \in Handlers
      PROVE  /\ session'[g].at \in {"refund_order", "call", "commit"} => session'[g].txn \in Refunds
             /\ session'[g].at = "notice" => refund'[session'[g].txn].status # "none"
  <2>1. CASE g = h
    <3>1. session'[g] = s
      BY <1>1, <2>1 DEF Typed, TypeOK
    <3> QED BY <3>1
  <2>2. CASE g # h
    <3>1. session'[g] = session[g]
      BY <1>1, <2>2 DEF Typed, TypeOK
    <3>2. session[g].at = "notice" => session[g].txn \in Refunds
      BY SessionAt DEF Typed, Noticed
    <3> QED BY <3>1, <3>2 DEF Typed, Holds
  <2> QED BY <2>1, <2>2
<1> QED BY <1>2, <1>3 DEF Holds

\* What the history variables remember.
LEMMA OvertakenType == ASSUME TypeOK, NEW c \in Claims PROVE Overtaken(c) \subseteq Claims
BY DEF TypeOK, Overtaken

LEMMA RememberType ==
  ASSUME TypeOK, NEW o \in Orders, NEW whole, Remember(o, whole)
  PROVE  zeroed' \subseteq Orders
BY DEF TypeOK, Remember

\* The steps of a refund.
LEMMA RefundTyped ==
  ASSUME Typed, NEW h \in Handlers,
         \/ \E c \in Claims : UpdateStatus(h, c)
         \/ RefundOrder(h) \/ CallGateway(h) \/ CommitRefund(h) \/ WriteClaim(h)
  PROVE  Typed'
<1> DEFINE s == session[h]
           o == Concerns[s.claim]
<1> USE DEF Typed
<1>0. /\ Idle \in {Idle} \cup Working \cup Noticed
      /\ Idle.at \notin Points \cup {"notice"}
  BY DEF Idle, Points
<1>1. CASE \E c \in Claims : UpdateStatus(h, c)
  <2>0. PICK c \in Claims : UpdateStatus(h, c)
    BY <1>1
  <2>1. PICK status \in Decisions, refunds \in BOOLEAN, n \in RefundAmounts,
             x \in RefundId :
          /\ IF NeedsRefund(c, refunds) THEN Unused(x) ELSE x = claim[c].txn
          /\ Step(h, Decided(c, status, refunds, n, x))
          /\ UNCHANGED <<order, payment, refund, balance, snapshot, ledger, rider, claim,
                         gateway, crashes, zeroed>>
    BY <2>0, SMT DEF UpdateStatus
  <2> DEFINE new == NeedsRefund(c, refunds)
             t == [at |-> IF new THEN "refund_order" ELSE "write", claim |-> c,
                   status |-> status, amount |-> IF new THEN n ELSE 0, txn |-> x,
                   method |-> "ifpay", income |-> NoIncome, whole |-> FALSE,
                   done |-> refunds /\ claim[c].refundedAt]
  <2>2. (refunds /\ claim[c].refundedAt) \in BOOLEAN
    BY DEF TypeOK, Entity
  <2>3. NoIncome \in [Columns -> Nat] /\ (IF new THEN n ELSE 0) \in Nat
    BY ConstantsOK DEF NoIncome
  <2>4. t \in Working
    BY <2>2, <2>3 DEF Working, Points
  <2>5. t.at = "refund_order" => t.txn \in Refunds
    BY <2>1 DEF Unused
  <2>6. t.at \in {"refund_order", "write"}
    OBVIOUS
  <2>7. Step(h, t)
    BY <2>1 DEF Decided
  <2> HIDE DEF t
  <2>8. session' \in [Handlers -> {Idle} \cup Working \cup Noticed] /\ Holds'
    BY <2>1, <2>4, <2>5, <2>6, <2>7, SessionTyped
  <2>9. disturbed' \subseteq Claims
    BY <2>0, OvertakenType DEF UpdateStatus
  <2> QED BY <2>1, <2>8, <2>9 DEF TypeOK
<1>2. CASE RefundOrder(h)
  <2>1. s \in Working /\ s.txn \in Refunds /\ o \in Orders
    BY <1>2, SessionAt DEF RefundOrder, Points, Holds
  <2>2. order[o] \in OrderRow /\ order[o].income \in [Columns -> Nat]
    BY <2>1, OrderRows
  <2>3. CASE Step(h, Idle)
    BY <1>0, <1>2, <2>3, SessionTyped DEF RefundOrder, TypeOK, Points
  <2>4. CASE ~Step(h, Idle)
    <3> DEFINE method == IF order[o].method = "ifpay" THEN "ifpay" ELSE "gateway"
               t == [s EXCEPT !.at = IF method = "ifpay" THEN "commit" ELSE "call",
                              !.method = method, !.income = order[o].income, !.whole = Whole(o)]
    <3>1. Step(h, t)
      BY <1>2, <2>4 DEF RefundOrder
    <3>2. Whole(o) \in BOOLEAN
      BY DEF Whole
    <3>3. t \in Working /\ t.txn \in Refunds /\ t.at \in {"commit", "call"}
      BY <2>1, <2>2, <3>2 DEF Working, Points
    <3> HIDE DEF t
    <3>4. session' \in [Handlers -> {Idle} \cup Working \cup Noticed] /\ Holds'
      BY <1>2, <3>1, <3>3, SessionTyped DEF RefundOrder
    <3> QED BY <1>2, <3>4 DEF RefundOrder, TypeOK
  <2> QED BY <2>3, <2>4
<1>3. CASE CallGateway(h)
  <2>1. s \in Working /\ s.txn \in Refunds
    BY <1>3, SessionAt DEF CallGateway, Points, Holds
  <2>2. gateway' \in [Refunds -> GatewayRow]
    <3>1. [state |-> "accepted", claim |-> s.claim, amount |-> s.amount] \in GatewayRow
      BY <2>1 DEF Working, GatewayRow
    <3> QED BY <1>3, <3>1 DEF CallGateway, TypeOK
  <2>3. CASE Step(h, Idle)
    <3>1. s.claim \in Claims
      BY <2>1 DEF Working
    <3>2. disturbed' \subseteq Claims
      BY <1>3, <3>1 DEF CallGateway, TypeOK
    <3> QED BY <1>0, <1>3, <2>2, <2>3, <3>2, SessionTyped DEF CallGateway, TypeOK, Points
  <2>4. CASE Step(h, [s EXCEPT !.at = "commit"])
    <3> DEFINE t == [s EXCEPT !.at = "commit"]
    <3>1. t \in Working /\ t.txn \in Refunds /\ t.at = "commit"
      BY <2>1 DEF Working, Points
    <3> HIDE DEF t
    <3>2. session' \in [Handlers -> {Idle} \cup Working \cup Noticed] /\ Holds'
      BY <1>3, <2>4, <3>1, SessionTyped DEF CallGateway, t
    <3>3. s.claim \in Claims
      BY <2>1 DEF Working
    <3>4. disturbed' \subseteq Claims
      BY <1>3, <3>3 DEF CallGateway, TypeOK
    <3> QED BY <1>3, <2>2, <3>2, <3>4 DEF CallGateway, TypeOK
  <2> QED BY <1>3, <2>3, <2>4 DEF CallGateway
<1>4. CASE CommitRefund(h)
  <2>1. s \in Working /\ s.txn \in Refunds /\ o \in Orders
    BY <1>4, SessionAt DEF CommitRefund, Points, Holds
  <2>2. /\ s.amount \in Nat /\ s.income \in [Columns -> Nat] /\ s.claim \in Claims
        /\ s.method \in {"ifpay", "gateway"} /\ order[o] \in OrderRow /\ Buyer[o] \in Users
    BY <2>1, OrderRows DEF Working
  <2>3. ASSUME NEW status \in {"success", "refund_pending"}, StoreRefund(s, status)
        PROVE  /\ refund' \in [Refunds -> RefundRow]
               /\ \A x \in Refunds : refund[x].status # "none" => refund'[x].status # "none"
    <3> DEFINE row == [status |-> status, claim |-> s.claim, amount |-> s.amount,
                       method |-> s.method]
    <3>1. row \in RefundRow /\ row.status # "none"
      BY <2>2 DEF RefundRow
    <3>2. refund' = [refund EXCEPT ![s.txn] = row]
      BY <2>3 DEF StoreRefund
    <3> HIDE DEF row
    <3> QED BY <2>1, <3>1, <3>2 DEF TypeOK
  <2>4. ASSUME NEW t \in Working, t.at = "write", Step(h, t),
               \A x \in Refunds : refund[x].status # "none" => refund'[x].status # "none"
        PROVE  session' \in [Handlers -> {Idle} \cup Working \cup Noticed] /\ Holds'
    BY <2>4, SessionTyped
  <2>5. CASE s.method = "ifpay"
    <3> DEFINE t == [s EXCEPT !.at = "write", !.amount = 0, !.income = NoIncome, !.whole = FALSE,
                      !.done = TRUE]
    <3>1. t \in Working /\ t.at = "write"
      BY <2>1 DEF Working, Points, NoIncome
    <3>2. /\ EndRefund(o, s.txn, s.amount, s.income) /\ Remember(o, s.whole)
          /\ StoreRefund(s, "success") /\ Step(h, t)
      BY <1>4, <2>5 DEF CommitRefund
    <3> HIDE DEF t
    <3>3. balance' \in [Users -> Nat]
      <4>1. balance[Buyer[o]] + s.amount \in Nat
        BY <2>2 DEF TypeOK
      <4> QED BY <1>4, <2>5, <4>1 DEF CommitRefund, TypeOK
    <3>4. /\ order' \in [Orders -> OrderRow] /\ ledger' \in [Orders -> LedgerRow]
          /\ snapshot' \in [Orders -> Stages]
      BY <2>1, <2>2, <3>2, RefundedRows
    <3>5. refund' \in [Refunds -> RefundRow] /\ Holds'
          /\ session' \in [Handlers -> {Idle} \cup Working \cup Noticed]
      BY <2>3, <2>4, <3>1, <3>2
    <3>6. zeroed' \subseteq Orders
      BY <2>1, <3>2, RememberType
    <3> QED BY <1>4, <3>3, <3>4, <3>5, <3>6 DEF CommitRefund, TypeOK
  <2>6. CASE s.method # "ifpay"
    <3> DEFINE t == [s EXCEPT !.at = "write", !.amount = 0, !.income = NoIncome, !.whole = FALSE]
    <3>1. t \in Working /\ t.at = "write"
      BY <2>1 DEF Working, Points, NoIncome
    <3>2. StoreRefund(s, "refund_pending") /\ Step(h, t)
      BY <1>4, <2>6 DEF CommitRefund
    <3> HIDE DEF t
    <3>3. [order[o] EXCEPT !.pay = "refunding", !.txn = s.txn] \in OrderRow
      BY <2>1, <2>2 DEF OrderRow, RefundId
    <3>4. order' \in [Orders -> OrderRow]
      BY <1>4, <2>6, <3>3 DEF CommitRefund, TypeOK
    <3>5. refund' \in [Refunds -> RefundRow] /\ Holds'
          /\ session' \in [Handlers -> {Idle} \cup Working \cup Noticed]
      BY <2>3, <2>4, <3>1, <3>2
    <3> QED BY <1>4, <2>6, <3>4, <3>5 DEF CommitRefund, TypeOK
  <2> QED BY <2>5, <2>6
<1>5. CASE WriteClaim(h)
  <2>1. s \in Working
    BY <1>5, SessionAt DEF WriteClaim, Points
  <2>2. [status |-> s.status, txn |-> s.txn, refundedAt |-> s.done] \in Entity
    BY <2>1 DEF Working, Entity, Decisions
  <2>3. claim' \in [Claims -> Entity]
    BY <1>5, <2>2 DEF WriteClaim, TypeOK
  <2>4. session' \in [Handlers -> {Idle} \cup Working \cup Noticed] /\ Holds'
    BY <1>0, <1>5, SessionTyped DEF WriteClaim, Points
  <2> QED BY <1>5, <2>3, <2>4 DEF WriteClaim, TypeOK
<1> QED BY <1>1, <1>2, <1>3, <1>4, <1>5

\* A stored refund that ends stays stored.
LEMMA EndedRefund ==
  ASSUME TypeOK, NEW y \in Refunds, NEW status \in {"success", "failed"},
         refund[y].status # "none", refund' = [refund EXCEPT ![y].status = status]
  PROVE  /\ refund' \in [Refunds -> RefundRow]
         /\ \A z \in Refunds : refund[z].status # "none" => refund'[z].status # "none"
<1>1. [refund[y] EXCEPT !.status = status] \in RefundRow
  BY DEF TypeOK, RefundRow
<1>2. [refund[y] EXCEPT !.status = status].status # "none"
  BY StoredRefund DEF TypeOK, RefundRow
<1> QED BY <1>1, <1>2 DEF TypeOK

\* The end of a refund at the gateway, and the notice that it failed.
LEMMA GatewayTyped ==
  ASSUME Typed, NEW x \in Refunds, GatewayEnds(x) \/ FailureNotice(x)
  PROVE  Typed'
<1> USE DEF Typed
<1>1. CASE GatewayEnds(x)
  <2>1. PICK end \in {"done", "failed"} : gateway' = [gateway EXCEPT ![x].state = end]
    BY <1>1 DEF GatewayEnds
  <2>2. [gateway[x] EXCEPT !.state = end] \in GatewayRow
    BY <1>1 DEF GatewayEnds, TypeOK, GatewayRow
  <2>3. gateway' \in [Refunds -> GatewayRow]
    BY <2>1, <2>2 DEF TypeOK
  <2> QED BY <1>1, <2>3 DEF GatewayEnds, TypeOK, Holds
<1>3. CASE FailureNotice(x)
  <2> DEFINE o == OrderOf(x)
  <2>1. refund[x].status # "none" /\ o \in Orders
    BY <1>3, StoredRefund DEF FailureNotice, Announced
  <2>2. /\ refund' \in [Refunds -> RefundRow]
        /\ \A z \in Refunds : refund[z].status # "none" => refund'[z].status # "none"
    BY EndedRefund, <1>3, <2>1 DEF FailureNotice
  <2>3. PaidAgain(o) \in OrderRow
    BY <2>1, OrderRows DEF PaidAgain, OrderRow, RefundId
  <2>4. order' \in [Orders -> OrderRow]
    BY <1>3, <2>3 DEF FailureNotice, TypeOK
  <2>5. Released(x) \in [Claims -> Entity]
    <3>1. ASSUME NEW c \in Claims PROVE claim[c] \in Entity
      BY DEF TypeOK
    <3>2. ASSUME NEW e \in Entity
          PROVE  [e EXCEPT !.txn = "none", !.refundedAt = FALSE] \in Entity
      BY DEF Entity, RefundId
    <3> QED BY <3>1, <3>2 DEF Released
  <2>6. \A g \in Handlers : session[g].at = "notice" => session[g].txn \in Refunds
    BY SessionAt DEF Noticed
  <2>7. disturbed' \subseteq Claims
    BY <1>3, <2>1, StoredRefund, OvertakenType DEF FailureNotice
  <2> QED BY <1>3, <2>2, <2>4, <2>5, <2>6, <2>7 DEF FailureNotice, TypeOK, Holds
<1> QED BY <1>1, <1>3

\* The notice that a refund succeeded.
LEMMA NoticeTyped ==
  ASSUME Typed, NEW h \in Handlers,
         CompleteRefund(h) \/ \E x \in Refunds : SuccessNotice(h, x)
  PROVE  Typed'
<1> USE DEF Typed
<1> DEFINE s == session[h]
<1>4. ASSUME NEW x \in Refunds, SuccessNotice(h, x) PROVE Typed'
  <2> DEFINE t == [at |-> "notice", txn |-> x, income |-> order[OrderOf(x)].income,
         whole |-> Whole(OrderOf(x))]
  <2>1. refund[x].status # "none" /\ order[OrderOf(x)].income \in [Columns -> Nat]
    BY <1>4, StoredRefund, OrderRows DEF SuccessNotice, Announced
  <2>2. t \in Noticed /\ t.at = "notice" /\ t.txn = x
    <3>1. Whole(OrderOf(x)) \in BOOLEAN
      BY DEF Whole
    <3> QED BY <2>1, <3>1 DEF Noticed
  <2>3. Step(h, t) /\ refund' = refund
    BY <1>4 DEF SuccessNotice
  <2> HIDE DEF t
  <2>4. session' \in [Handlers -> {Idle} \cup Working \cup Noticed] /\ Holds'
    BY <2>1, <2>2, <2>3, SessionTyped
  <2> QED BY <1>4, <2>4 DEF SuccessNotice, TypeOK
<1>5. CASE CompleteRefund(h)
  <2> DEFINE o == OrderOf(s.txn)
  <2>1. s \in Noticed /\ s.txn \in Refunds /\ refund[s.txn].status # "none"
    BY <1>5, SessionAt DEF CompleteRefund, Noticed, Holds
  <2>2. o \in Orders /\ refund[s.txn].amount \in Nat /\ s.income \in [Columns -> Nat]
    BY <2>1, StoredRefund DEF Noticed
  <2>3. /\ refund' \in [Refunds -> RefundRow]
        /\ \A z \in Refunds : refund[z].status # "none" => refund'[z].status # "none"
    BY EndedRefund, <1>5, <2>1 DEF CompleteRefund
  <2>4. /\ order' \in [Orders -> OrderRow] /\ ledger' \in [Orders -> LedgerRow]
        /\ snapshot' \in [Orders -> Stages]
    BY <1>5, <2>1, <2>2, RefundedRows DEF CompleteRefund
  <2>5. claim' \in [Claims -> Entity]
    <3>1. claim \in [Claims -> Entity]
      BY DEF TypeOK
    <3>2. ASSUME NEW c \in Claims PROVE [claim[c] EXCEPT !.refundedAt = TRUE] \in Entity
      BY <3>1 DEF Entity
    <3> QED BY <1>5, <3>1, <3>2 DEF CompleteRefund
  <2>6. session' \in [Handlers -> {Idle} \cup Working \cup Noticed] /\ Holds'
    BY <1>5, <2>3, SessionTyped DEF CompleteRefund, Idle
  <2>7. disturbed' \subseteq Claims /\ zeroed' \subseteq Orders
    BY <1>5, <2>1, <2>2, StoredRefund, OvertakenType, RememberType DEF CompleteRefund
  <2> QED BY <1>5, <2>3, <2>4, <2>5, <2>6, <2>7 DEF CompleteRefund, TypeOK
<1> QED BY <1>4, <1>5

LEMMA TypedStep == Typed /\ [Next]_vars => Typed'
<1> SUFFICES ASSUME Typed, [Next]_vars PROVE Typed' OBVIOUS
<1>1. CASE UNCHANGED vars
  BY <1>1 DEF vars, Typed, TypeOK, Holds
<1>2. ASSUME NEW c \in Claims, CreateClaim(c) PROVE Typed'
  <2>1. claim' \in [Claims -> Entity]
    BY <1>2 DEF CreateClaim, Typed, TypeOK, Entity
  <2> QED BY <1>2, <2>1 DEF CreateClaim, Typed, TypeOK, Holds
<1>3. ASSUME NEW h \in Handlers, Crash(h) PROVE Typed'
  <2>1. session' \in [Handlers -> {Idle} \cup Working \cup Noticed] /\ Holds'
    BY <1>3, SessionTyped DEF Crash, Idle
  <2>2. crashes' \in 0..MaxCrashes
    BY <1>3, ConstantsOK DEF Crash, Typed, TypeOK
  <2>3. disturbed' \subseteq Claims
    <3>1. Unwritten(session[h]) => session[h].claim \in Claims
      BY SessionAt DEF Unwritten, Points, Working, Typed
    <3> QED BY <1>3, <3>1 DEF Crash, Typed, TypeOK
  <2> QED BY <1>3, <2>1, <2>2, <2>3 DEF Crash, Typed, TypeOK
<1>4. ASSUME NEW o \in Orders,
             Accept(o) \/ Dispatch(o) \/ Pickup(o) \/ Deliver(o) \/ SettleRiderIncome(o)
      PROVE  Typed'
  BY <1>4, DeliveryTyped
<1>5. ASSUME NEW h \in Handlers,
             \/ \E c \in Claims : UpdateStatus(h, c)
             \/ RefundOrder(h) \/ CallGateway(h) \/ CommitRefund(h) \/ WriteClaim(h)
             \/ CompleteRefund(h) \/ \E x \in Refunds : SuccessNotice(h, x)
      PROVE  Typed'
  BY <1>5, RefundTyped, NoticeTyped
<1> QED BY <1>1, <1>2, <1>3, <1>4, <1>5, PaymentTyped, GatewayTyped DEF Next

\* Type correctness: no wallet, no column of an order and no entry of the ledger is
\* ever negative (PayOrder, ReverseOrderSettlementTx, settleRiderIncomeTransactionTx).
THEOREM TypeCorrect == Spec => []TypeOK
<1>1. Typed => TypeOK
  BY DEF Typed
<1> QED BY <1>1, TypedInit, TypedStep, PTL DEF Spec
-----------------------------------------------------------------------------
(* The ledger.                                                             *)

LEMMA LedgerInit == Init => LedgerMatchesSnapshot
  BY DEF Init, LedgerMatchesSnapshot, Nothing

\* An entry of which nothing is left was never settled; a refund of the price takes
\* back the whole of an entry.
LEMMA TakenBackBounds ==
  ASSUME TypeOK, NEW o \in Orders, NEW n \in Nat
  PROVE  /\ ledger[o].settled = Nothing => TakenBack(o, n) = Nothing
         /\ n >= Price[o] => TakenBack(o, n) = ledger[o].settled
<1>1. /\ ledger[o].settled \in [Subjects -> Nat] /\ TakenBack(o, n) \in [Subjects -> Nat]
      /\ \A s \in Subjects : TakenBack(o, n)[s] <= ledger[o].settled[s]
  BY OrderRows, TakenBackType
<1>2. ASSUME ledger[o].settled = Nothing PROVE TakenBack(o, n) = Nothing
  <2>1. ASSUME NEW s \in Subjects PROVE TakenBack(o, n)[s] = 0
    BY <1>1, <1>2 DEF Nothing
  <2> QED BY <1>1, <2>1 DEF Nothing
<1>3. ASSUME n >= Price[o] PROVE TakenBack(o, n) = ledger[o].settled
  BY <1>1, <1>3 DEF TakenBack, PartOf
<1> QED BY <1>2, <1>3

\* Only what an order had not given back before is added to its reversals.
LEMMA ReversedOnce ==
  ASSUME TypeOK, NEW o \in Orders, NEW n \in Nat, ReversalDue(o)
  PROVE  /\ ReversedLedger(o, n).settled = ledger[o].settled
         /\ ReversedLedger(o, n).reversed = TakenBack(o, n)
<1>1. TakenBack(o, n) \in [Subjects -> Nat]
  BY TakenBackType
<1>2. [s \in Subjects |-> ledger[o].reversed[s] + TakenBack(o, n)[s]] = TakenBack(o, n)
  BY <1>1 DEF ReversalDue, Nothing
<1> QED BY <1>2 DEF ReversedLedger

\* The rows of an order, as LedgerMatchesSnapshot relates them.
Matches(l, stage, share) ==
  /\ l.settled \in {Nothing, share}
  /\ \A s \in Subjects : l.reversed[s] <= l.settled[s]
  /\ stage \in {"none", "pending_settlement"} => l.settled = Nothing
  /\ stage = "settled" => l.settled = share
  /\ stage = "reversed" => l.reversed = l.settled

LEMMA RefundMatches ==
  ASSUME TypeOK, NEW o \in Orders, NEW n \in Nat, Matches(ledger[o], snapshot[o], Share[o])
  PROVE  Matches(ReversedLedger(o, n), ReversedSnapshot(o, n), Share[o])
<1>1. CASE ~ReversalDue(o)
  BY <1>1 DEF ReversedLedger, ReversedSnapshot
<1>2. CASE ReversalDue(o)
  <2> DEFINE l == ReversedLedger(o, n)
  <2>1. l.settled = ledger[o].settled /\ l.reversed = TakenBack(o, n)
    BY <1>2, ReversedOnce
  <2>2. \A s \in Subjects : l.reversed[s] <= l.settled[s]
    BY <2>1, TakenBackType
  <2>3. ReversedSnapshot(o, n) = "reversed" => l.reversed = l.settled
    BY <1>2, <2>1, TakenBackBounds DEF ReversedSnapshot, ReversalDue
  <2>4. ReversedSnapshot(o, n) # "reversed" => snapshot[o] = "settled" /\ ReversedSnapshot(o, n) = "settled"
    BY <1>2, OrderRows DEF ReversedSnapshot, ReversalDue, Matches, Stages
  <2> HIDE DEF l
  <2> QED BY <2>1, <2>2, <2>3, <2>4 DEF Matches, l
<1> QED BY <1>1, <1>2

\* The steps that touch the ledger and the snapshots.
LEMMA LedgerMoves ==
  ASSUME Typed, Next
  PROVE  \/ UNCHANGED <<ledger, snapshot>>
         \/ \E o \in Orders, x \in Refunds, n \in Nat, seen \in [Columns -> Nat] :
              EndRefund(o, x, n, seen)
         \/ UNCHANGED ledger /\ \E o \in Orders, method \in {"ifpay", "gateway"} : Paid(o, method)
         \/ \E o \in Orders : Deliver(o)
<1>1. ASSUME NEW p \in Payments, PayOrder(p) \/ PaymentNotice(p)
      PROVE  \/ UNCHANGED <<ledger, snapshot>>
             \/ /\ UNCHANGED ledger
                /\ \E o \in Orders, method \in {"ifpay", "gateway"} : Paid(o, method)
  <2>1. PaysFor[p] \in Orders
    BY ConstantsOK
  <2> QED BY <1>1, <2>1 DEF PayOrder, PaymentNotice
<1>2. ASSUME NEW o \in Orders, Accept(o) \/ Dispatch(o) \/ Pickup(o) \/ SettleRiderIncome(o)
      PROVE  UNCHANGED <<ledger, snapshot>>
  BY <1>2 DEF Accept, Dispatch, Pickup, Progress, SettleRiderIncome
<1>3. ASSUME NEW h \in Handlers,
             \/ \E c \in Claims : UpdateStatus(h, c)
             \/ \E x \in Refunds : SuccessNotice(h, x)
             \/ RefundOrder(h) \/ CallGateway(h) \/ WriteClaim(h) \/ Crash(h)
      PROVE  UNCHANGED <<ledger, snapshot>>
  BY <1>3 DEF UpdateStatus, SuccessNotice, RefundOrder, CallGateway, WriteClaim, Crash
<1>4. ASSUME NEW h \in Handlers, CommitRefund(h) \/ CompleteRefund(h)
      PROVE  \/ UNCHANGED <<ledger, snapshot>>
             \/ \E o \in Orders, x \in Refunds, n \in Nat, seen \in [Columns -> Nat] :
                  EndRefund(o, x, n, seen)
  <2>1. CASE CommitRefund(h)
    <3>1. session[h] \in Working /\ session[h].txn \in Refunds
          /\ Concerns[session[h].claim] \in Orders
      BY <2>1, SessionAt DEF CommitRefund, Points, Typed, Holds
    <3> QED BY <2>1, <3>1 DEF CommitRefund, Working
  <2>2. CASE CompleteRefund(h)
    <3>1. session[h] \in Noticed /\ session[h].txn \in Refunds
          /\ refund[session[h].txn].status # "none"
      BY <2>2, SessionAt DEF CompleteRefund, Noticed, Typed, Holds
    <3>2. OrderOf(session[h].txn) \in Orders /\ refund[session[h].txn].amount \in Nat
      BY <3>1, StoredRefund DEF Typed
    <3> QED BY <2>2, <3>1, <3>2 DEF CompleteRefund, Noticed
  <2> QED BY <1>4, <2>1, <2>2
<1>5. ASSUME NEW c \in Claims, CreateClaim(c) PROVE UNCHANGED <<ledger, snapshot>>
  BY <1>5 DEF CreateClaim
<1>6. ASSUME NEW x \in Refunds, GatewayEnds(x) \/ FailureNotice(x)
      PROVE  UNCHANGED <<ledger, snapshot>>
  BY <1>6 DEF GatewayEnds, FailureNotice
<1> QED BY <1>1, <1>2, <1>3, <1>4, <1>5, <1>6 DEF Next

LEMMA LedgerStep == Typed /\ LedgerMatchesSnapshot /\ [Next]_vars => LedgerMatchesSnapshot'
<1> SUFFICES ASSUME Typed, LedgerMatchesSnapshot, [Next]_vars PROVE LedgerMatchesSnapshot' OBVIOUS
<1>1. \A o \in Orders : Matches(ledger[o], snapshot[o], Share[o])
  BY DEF LedgerMatchesSnapshot, Matches
<1>2. ASSUME \A o \in Orders : Matches(ledger'[o], snapshot'[o], Share[o])
      PROVE  LedgerMatchesSnapshot'
  BY <1>2 DEF LedgerMatchesSnapshot, Matches
<1>3. CASE UNCHANGED <<ledger, snapshot>>
  BY <1>1, <1>2, <1>3
<1>4. ASSUME NEW o \in Orders, NEW x \in Refunds, NEW n \in Nat, NEW seen, EndRefund(o, x, n, seen)
      PROVE  LedgerMatchesSnapshot'
  <2>1. /\ ledger' = [ledger EXCEPT ![o] = ReversedLedger(o, n)]
        /\ snapshot' = [snapshot EXCEPT ![o] = ReversedSnapshot(o, n)]
    BY <1>4 DEF EndRefund
  <2>2. Matches(ReversedLedger(o, n), ReversedSnapshot(o, n), Share[o])
    BY <1>1, RefundMatches DEF Typed
  <2>3. ASSUME NEW q \in Orders PROVE Matches(ledger'[q], snapshot'[q], Share[q])
    BY <1>1, <2>1, <2>2, <2>3 DEF Typed, TypeOK
  <2> QED BY <1>2, <2>3
<1>5. ASSUME NEW o \in Orders, NEW method, Paid(o, method), UNCHANGED ledger
      PROVE  LedgerMatchesSnapshot'
  <2>1. ASSUME NEW q \in Orders PROVE Matches(ledger'[q], snapshot'[q], Share[q])
    BY <1>1, <1>5 DEF Paid, PrepareSettlement, Typed, TypeOK, Matches
  <2> QED BY <1>2, <2>1
<1>6. ASSUME NEW o \in Orders, Deliver(o) PROVE LedgerMatchesSnapshot'
  <2>1. /\ ledger[o].settled \in [Subjects -> Nat] /\ ledger[o].reversed \in [Subjects -> Nat]
        /\ Share[o] \in [Subjects -> Nat]
    BY OrderRows DEF Typed
  <2>2. ASSUME SettlementDue(o)
        PROVE  Matches([settled |-> [s \in Subjects |-> ledger[o].settled[s] + Share[o][s]],
                        reversed |-> ledger[o].reversed], "settled", Share[o])
    <3>1. ledger[o].settled = Nothing
      BY <1>1, <2>2 DEF Matches, SettlementDue, PrepareSettlement
    <3>2. [s \in Subjects |-> ledger[o].settled[s] + Share[o][s]] = Share[o]
      BY <2>1, <3>1 DEF Nothing
    <3>3. \A s \in Subjects : ledger[o].reversed[s] <= Share[o][s]
      BY <1>1, <2>1, <3>1 DEF Matches, Nothing
    <3> QED BY <3>2, <3>3 DEF Matches
  <2>3. ASSUME NEW q \in Orders PROVE Matches(ledger'[q], snapshot'[q], Share[q])
    <3>1. CASE q = o /\ SettlementDue(o)
      BY <1>6, <2>2, <3>1 DEF Deliver, Typed, TypeOK
    <3>2. CASE ~(q = o /\ SettlementDue(o))
      BY <1>1, <1>6, <3>2 DEF Deliver, Typed, TypeOK
    <3> QED BY <3>1, <3>2
  <2> QED BY <1>2, <2>3
<1> QED BY <1>3, <1>4, <1>5, <1>6, LedgerMoves DEF vars

\* An order is split at most once, its split is taken back at most once and never beyond
\* what was credited, in every order of payments, deliveries, refunds and notices
\* (SettleCompletedOrderTx, ReverseOrderSettlementTx).
THEOREM LedgerSound == Spec => []LedgerMatchesSnapshot
BY TypedInit, TypedStep, LedgerInit, LedgerStep, PTL DEF Spec

-----------------------------------------------------------------------------
(* The refunds of an order.                                                *)

Early == {"refund_order", "call", "commit"}

\* The id a handler is about to store a refund under is not stored yet, and no
\* other handler is about to store one under it.
Fresh ==
  \A h \in Handlers : session[h].at \in Early =>
    /\ refund[session[h].txn].status = "none"
    /\ \A g \in Handlers \ {h} : session[g].at \in Early => session[g].txn # session[h].txn

\* A step of handler h that does not reserve an id.
LEMMA FreshKept ==
  ASSUME Typed, Fresh, NEW h \in Handlers, NEW t, Step(h, t),
         t.at \in Early => session[h].at \in Early /\ t.txn = session[h].txn /\ refund' = refund,
         \A g \in Handlers \ {h} :
           session[g].at \in Early => refund'[session[g].txn] = refund[session[g].txn]
  PROVE  Fresh'
<1>1. session'[h] = t /\ \A g \in Handlers \ {h} : session'[g] = session[g]
  BY DEF Step, Typed, TypeOK
<1>2. ASSUME NEW g \in Handlers, session'[g].at \in Early
      PROVE  /\ refund'[session'[g].txn].status = "none"
             /\ session[g].at \in Early /\ session'[g].txn = session[g].txn
  BY <1>1, <1>2 DEF Fresh
<1>3. ASSUME NEW g \in Handlers, NEW k \in Handlers \ {g}, session'[g].at \in Early,
             session'[k].at \in Early
      PROVE  session'[k].txn # session'[g].txn
  BY <1>2, <1>3 DEF Fresh
<1> QED BY <1>2, <1>3 DEF Fresh

LEMMA FreshStep == Typed /\ Fresh /\ [Next]_vars => Fresh'
<1> SUFFICES ASSUME Typed, Fresh, [Next]_vars PROVE Fresh' OBVIOUS
<1>1. CASE UNCHANGED <<refund, session>>
  BY <1>1 DEF Fresh
<1>2. ASSUME NEW h \in Handlers, NEW c \in Claims, UpdateStatus(h, c) PROVE Fresh'
  <2>1. PICK t : /\ Step(h, t)
                 /\ t.at \in Early => Unused(t.txn)
    <3>1. PICK status \in Decisions, refunds \in BOOLEAN, n \in RefundAmounts, x \in RefundId :
            /\ IF NeedsRefund(c, refunds) THEN Unused(x) ELSE x = claim[c].txn
            /\ Step(h, Decided(c, status, refunds, n, x))
      BY <1>2, SMT DEF UpdateStatus
    <3> QED BY <3>1 DEF Early, Decided
  <2>2. session'[h] = t /\ \A g \in Handlers \ {h} : session'[g] = session[g]
    BY <2>1 DEF Step, Typed, TypeOK
  <2>3. refund' = refund
    BY <1>2 DEF UpdateStatus
  <2>4. ASSUME NEW g \in Handlers, session[g].at \in Early, t.at \in Early
        PROVE  session[g].txn # t.txn
    BY <2>1, <2>4 DEF Unused, Idle, Early
  <2>5. t.at \in Early => refund[t.txn].status = "none"
    BY <2>1 DEF Unused
  <2> QED BY <2>2, <2>3, <2>4, <2>5 DEF Fresh
<1>3. ASSUME NEW h \in Handlers, RefundOrder(h) \/ CallGateway(h) PROVE Fresh'
  <2>1. refund' = refund /\ session[h].at \in Early /\ session[h] \in Working
    BY <1>3, SessionAt DEF RefundOrder, CallGateway, Early, Points, Typed
  <2>2. PICK t : Step(h, t) /\ (t.at \in Early => t.txn = session[h].txn)
    <3>1. CASE Step(h, Idle)
      BY <3>1 DEF Idle, Early
    <3>2. CASE CallGateway(h) /\ ~Step(h, Idle)
      BY <2>1, <3>2 DEF CallGateway, Working
    <3>3. CASE RefundOrder(h) /\ ~Step(h, Idle)
      <4> DEFINE s == session[h]
                 o == Concerns[s.claim]
                 method == IF order[o].method = "ifpay" THEN "ifpay" ELSE "gateway"
                 u == [s EXCEPT !.at = IF method = "ifpay" THEN "commit" ELSE "call",
                                !.method = method, !.income = order[o].income, !.whole = Whole(o)]
      <4>1. Step(h, u)
        BY <3>3 DEF RefundOrder
      <4>2. u.txn = s.txn
        BY <2>1 DEF Working
      <4> HIDE DEF u
      <4> QED BY <4>1, <4>2
    <3> QED BY <1>3, <3>1, <3>2, <3>3
  <2> QED BY <2>1, <2>2, FreshKept
<1>4. ASSUME NEW h \in Handlers, CommitRefund(h) PROVE Fresh'
  <2>1. session[h].at \in Early /\ session[h] \in Working
    BY <1>4, SessionAt DEF CommitRefund, Early, Points, Typed
  <2>2. \E status : StoreRefund(session[h], status)
    BY <1>4 DEF CommitRefund
  <2>3. PICK t : Step(h, t) /\ t.at = "write"
    <3> DEFINE s == session[h]
               u == [s EXCEPT !.at = "write", !.amount = 0, !.income = NoIncome, !.whole = FALSE,
                      !.done = TRUE]
               v == [s EXCEPT !.at = "write", !.amount = 0, !.income = NoIncome, !.whole = FALSE]
    <3>1. Step(h, u) \/ Step(h, v)
      BY <1>4 DEF CommitRefund
    <3>2. u.at = "write" /\ v.at = "write"
      BY <2>1 DEF Working
    <3> HIDE DEF u, v
    <3> QED BY <3>1, <3>2
  <2>4. ASSUME NEW g \in Handlers \ {h}, session[g].at \in Early
        PROVE  refund'[session[g].txn] = refund[session[g].txn]
    BY <2>1, <2>2, <2>4 DEF StoreRefund, Fresh, Typed, TypeOK, Holds, Early
  <2> QED BY <2>3, <2>4, FreshKept DEF Early
<1>5. ASSUME NEW h \in Handlers, WriteClaim(h) \/ Crash(h) PROVE Fresh'
  BY <1>5, FreshKept DEF WriteClaim, Crash, Idle, Early
<1>6. ASSUME NEW h \in Handlers, NEW x \in Refunds, SuccessNotice(h, x) PROVE Fresh'
  BY <1>6, FreshKept DEF SuccessNotice, Early
<1>7. ASSUME NEW h \in Handlers, CompleteRefund(h) PROVE Fresh'
  <2>1. session[h].txn \in Refunds /\ refund[session[h].txn].status # "none"
    BY <1>7, SessionAt DEF CompleteRefund, Noticed, Typed, Holds
  <2>2. ASSUME NEW g \in Handlers, session[g].at \in Early
        PROVE  refund'[session[g].txn] = refund[session[g].txn]
    BY <1>7, <2>1, <2>2 DEF CompleteRefund, Fresh, Typed, TypeOK, Holds, Early
  <2> QED BY <1>7, <2>2, FreshKept DEF CompleteRefund, Idle, Early
<1>8. ASSUME NEW x \in Refunds, FailureNotice(x) PROVE Fresh'
  <2>1. refund[x].status # "none" /\ session' = session
    BY <1>8 DEF FailureNotice, Announced
  <2>2. ASSUME NEW g \in Handlers, session[g].at \in Early
        PROVE  refund'[session[g].txn] = refund[session[g].txn]
    BY <1>8, <2>1, <2>2 DEF FailureNotice, Fresh, Typed, TypeOK, Holds, Early
  <2> QED BY <2>1, <2>2 DEF Fresh
<1>9. ASSUME NEW p \in Payments, PayOrder(p) \/ PaymentNotice(p) PROVE Fresh'
  BY <1>1, <1>9 DEF PayOrder, PaymentNotice
<1>10. ASSUME NEW o \in Orders,
              Accept(o) \/ Dispatch(o) \/ Pickup(o) \/ Deliver(o) \/ SettleRiderIncome(o)
       PROVE  Fresh'
  BY <1>1, <1>10 DEF Accept, Dispatch, Pickup, Progress, Deliver, SettleRiderIncome
<1>11. ASSUME NEW c \in Claims, CreateClaim(c) PROVE Fresh'
  BY <1>1, <1>11 DEF CreateClaim
<1>12. ASSUME NEW x \in Refunds, GatewayEnds(x) PROVE Fresh'
  BY <1>1, <1>12 DEF GatewayEnds
<1> QED
  BY <1>1, <1>2, <1>3, <1>4, <1>5, <1>6, <1>7, <1>8, <1>9, <1>10, <1>11, <1>12 DEF Next, vars

\* The rows a step writes in refund: none, or one it stores or ends.
LEMMA RefundMoves ==
  ASSUME Typed, Fresh, Next
  PROVE  \/ refund' = refund
         \/ \E h \in Handlers : CommitRefund(h)
         \/ \E h \in Handlers : CompleteRefund(h)
         \/ \E x \in Refunds : FailureNotice(x)
<1>1. ASSUME NEW p \in Payments, PayOrder(p) \/ PaymentNotice(p) PROVE refund' = refund
  BY <1>1 DEF PayOrder, PaymentNotice
<1>2. ASSUME NEW o \in Orders,
             Accept(o) \/ Dispatch(o) \/ Pickup(o) \/ Deliver(o) \/ SettleRiderIncome(o)
      PROVE  refund' = refund
  BY <1>2 DEF Accept, Dispatch, Pickup, Progress, Deliver, SettleRiderIncome
<1>3. ASSUME NEW h \in Handlers,
             \/ \E c \in Claims : UpdateStatus(h, c)
             \/ \E x \in Refunds : SuccessNotice(h, x)
             \/ RefundOrder(h) \/ CallGateway(h) \/ WriteClaim(h) \/ Crash(h)
      PROVE  refund' = refund
  BY <1>3 DEF UpdateStatus, SuccessNotice, RefundOrder, CallGateway, WriteClaim, Crash
<1>4. ASSUME NEW c \in Claims, CreateClaim(c) PROVE refund' = refund
  BY <1>4 DEF CreateClaim
<1>5. ASSUME NEW x \in Refunds, GatewayEnds(x) PROVE refund' = refund
  BY <1>5 DEF GatewayEnds
<1> QED BY <1>1, <1>2, <1>3, <1>4, <1>5 DEF Next

\* What CommitRefund stores.
LEMMA CommittedRow ==
  ASSUME Typed, Fresh, NEW h \in Handlers, CommitRefund(h)
  PROVE  LET s == session[h] IN
         /\ s \in Working /\ s.txn \in Refunds /\ refund[s.txn].status = "none"
         /\ Concerns[s.claim] \in Orders
         /\ refund' = [refund EXCEPT ![s.txn] =
              [status |-> IF s.method = "ifpay" THEN "success" ELSE "refund_pending",
               claim |-> s.claim, amount |-> s.amount, method |-> s.method]]
<1>1. session[h].at = "commit"
  BY DEF CommitRefund
<1>2. session[h] \in Working /\ Concerns[session[h].claim] \in Orders
  BY <1>1, SessionAt DEF Points, Typed
<1>3. session[h].txn \in Refunds /\ refund[session[h].txn].status = "none"
  BY <1>1 DEF Fresh, Early, Typed, Holds
<1>4. CASE session[h].method = "ifpay"
  BY <1>2, <1>3, <1>4 DEF CommitRefund, StoreRefund
<1>5. CASE session[h].method # "ifpay"
  BY <1>2, <1>3, <1>5 DEF CommitRefund, StoreRefund
<1> QED BY <1>4, <1>5

\* A stored refund keeps its claim, amount and method, and a successful one its status.
LEMMA StableRefund ==
  ASSUME Typed, Fresh, [Next]_vars, NEW y \in Refunds, refund[y].status # "none"
  PROVE  /\ refund'[y].status # "none" /\ refund'[y].claim = refund[y].claim
         /\ refund'[y].amount = refund[y].amount /\ refund'[y].method = refund[y].method
         /\ refund[y].status = "success" => refund'[y].status = "success"
<1>1. CASE refund' = refund
  BY <1>1
<1>2. ASSUME NEW h \in Handlers, CommitRefund(h)
      PROVE  refund'[y] = refund[y]
  BY <1>2, CommittedRow DEF Typed, TypeOK
<1>3. refund[y] \in RefundRow /\ refund[y].status \in {"refund_pending", "success", "failed"}
  BY StoredRefund DEF Typed, TypeOK
<1>4. ASSUME NEW x \in Refunds, NEW status \in {"success", "failed"},
             refund' = [refund EXCEPT ![x].status = status],
             x = y => status = "success" \/ refund[y].status # "success"
      PROVE  /\ refund'[y].status # "none" /\ refund'[y].claim = refund[y].claim
             /\ refund'[y].amount = refund[y].amount /\ refund'[y].method = refund[y].method
             /\ refund[y].status = "success" => refund'[y].status = "success"
  <2>1. CASE x # y
    BY <1>4, <2>1 DEF Typed, TypeOK
  <2>2. CASE x = y
    <3>1. refund'[y] = [refund[y] EXCEPT !.status = status]
      BY <1>4, <2>2 DEF Typed, TypeOK
    <3> QED BY <1>3, <1>4, <2>2, <3>1 DEF RefundRow
  <2> QED BY <2>1, <2>2
<1>5. ASSUME NEW h \in Handlers, CompleteRefund(h)
      PROVE  session[h].txn \in Refunds
             /\ refund' = [refund EXCEPT ![session[h].txn].status = "success"]
  BY <1>5, SessionAt DEF CompleteRefund, Noticed, Typed
<1>6. ASSUME NEW x \in Refunds, FailureNotice(x)
      PROVE  refund' = [refund EXCEPT ![x].status = "failed"] /\ refund[x].status = "refund_pending"
  BY <1>6 DEF FailureNotice, Announced
<1>7. CASE \E h \in Handlers : CommitRefund(h)
  BY <1>2, <1>7
<1>8. CASE \E h \in Handlers : CompleteRefund(h)
  BY <1>4, <1>5, <1>8
<1>9. CASE \E x \in Refunds : FailureNotice(x)
  <2>1. PICK x \in Refunds : FailureNotice(x)
    BY <1>9
  <2> QED BY <1>4, <1>6, <2>1
<1>10. CASE UNCHANGED vars
  BY <1>1, <1>10 DEF vars
<1>11. CASE Next
  <2>1. \/ refund' = refund
        \/ \E h \in Handlers : CommitRefund(h)
        \/ \E h \in Handlers : CompleteRefund(h)
        \/ \E x \in Refunds : FailureNotice(x)
    BY <1>11, RefundMoves
  <2> QED BY <1>1, <1>7, <1>8, <1>9, <2>1
<1> QED BY <1>10, <1>11

\* A refund that succeeds is added to those of its order.
LEMMA GivenBackAdds ==
  ASSUME Typed, Fresh, [Next]_vars, NEW x \in Refunds, NEW o \in Orders,
         refund'[x].status = "success", Concerns[refund'[x].claim] = o,
         \A y \in Refunds \ {x} : refund'[y] = refund[y]
  PROVE  \A q \in Orders : GivenBack(q)' = IF q = o THEN GivenBack(q) \cup {x} ELSE GivenBack(q)
<1>1. ASSUME NEW q \in Orders, x \in GivenBack(q) PROVE q = o
  <2>1. refund[x].status = "success" /\ Concerns[refund[x].claim] = q
    BY <1>1 DEF GivenBack, OrderOf
  <2> QED BY <2>1, StableRefund
<1>2. ASSUME NEW q \in Orders, NEW y \in Refunds, y # x
      PROVE  y \in GivenBack(q)' <=> y \in GivenBack(q)
  BY <1>2 DEF GivenBack, OrderOf
<1>3. ASSUME NEW q \in Orders PROVE x \in GivenBack(q)' <=> q = o
  BY DEF GivenBack, OrderOf
<1>4. \A q \in Orders : GivenBack(q) \subseteq Refunds /\ GivenBack(q)' \subseteq Refunds
  BY DEF GivenBack
<1> QED
  <2> SUFFICES ASSUME NEW q \in Orders
               PROVE  GivenBack(q)' = IF q = o THEN GivenBack(q) \cup {x} ELSE GivenBack(q)
    OBVIOUS
  <2>1. ASSUME NEW y \in Refunds, y # x
        PROVE  y \in GivenBack(q)' <=> y \in GivenBack(q)
    BY <2>1, <1>2
  <2>2. x \in GivenBack(q)' <=> q = o
    BY <1>3
  <2>3. x \in GivenBack(q) => q = o
    BY <1>1
  <2>4. GivenBack(q) \subseteq Refunds /\ GivenBack(q)' \subseteq Refunds
    BY <1>4
  <2>5. CASE q = o
    BY <2>1, <2>2, <2>4, <2>5
  <2>6. CASE q # o
    BY <2>1, <2>2, <2>3, <2>4, <2>6
  <2> QED BY <2>5, <2>6
-----------------------------------------------------------------------------
(* The order and the refund it names.                                      *)

\* The refund an order in refunding or refunded names is one of that order, in the
\* status that goes with it.  That it is one of that order is what makes the
\* invariant inductive: no other order's notice moves it.
Follows ==
  \A o \in Orders : order[o].pay \in {"refunding", "refunded"} =>
    /\ order[o].txn \in Refunds
    /\ refund[order[o].txn].status =
         IF order[o].pay = "refunding" THEN "refund_pending" ELSE "success"
    /\ Concerns[refund[order[o].txn].claim] = o

\* One row of an order changes, and the refunds the other orders name do not.
LEMMA FollowsKept ==
  ASSUME Typed, Follows, NEW o \in Orders, NEW row, order' = [order EXCEPT ![o] = row],
         row.pay \in {"refunding", "refunded"} =>
           /\ row.txn \in Refunds
           /\ refund'[row.txn].status =
                IF row.pay = "refunding" THEN "refund_pending" ELSE "success"
           /\ Concerns[refund'[row.txn].claim] = o,
         \A q \in Orders \ {o} : order[q].pay \in {"refunding", "refunded"} =>
           refund'[order[q].txn] = refund[order[q].txn]
  PROVE  Follows'
<1>1. order'[o] = row /\ \A q \in Orders \ {o} : order'[q] = order[q]
  BY DEF Typed, TypeOK
<1> QED BY <1>1 DEF Follows

\* A step that ends or stores refund x of order o leaves the other orders alone.
LEMMA OthersKept ==
  ASSUME Typed, Follows, NEW x \in Refunds, NEW o \in Orders, NEW row,
         refund' = [refund EXCEPT ![x] = row],
         refund[x].status = "none" \/ Concerns[refund[x].claim] = o
  PROVE  \A q \in Orders \ {o} : order[q].pay \in {"refunding", "refunded"} =>
           refund'[order[q].txn] = refund[order[q].txn]
BY DEF Follows, Typed, TypeOK

LEMMA FollowsStep == Typed /\ Fresh /\ Follows /\ [Next]_vars => Follows'
<1> SUFFICES ASSUME Typed, Fresh, Follows, [Next]_vars PROVE Follows' OBVIOUS
<1>1. CASE UNCHANGED <<order, refund>>
  BY <1>1 DEF Follows
<1>2. ASSUME NEW o \in Orders, NEW method, Paid(o, method), refund' = refund PROVE Follows'
  <2> DEFINE row == [order[o] EXCEPT !.pay = "paid", !.method = method]
  <2>1. order' = [order EXCEPT ![o] = row]
    BY <1>2 DEF Paid
  <2>2. row.pay = "paid"
    BY OrderRows DEF Typed, OrderRow
  <2> HIDE DEF row
  <2> QED BY <1>2, <2>1, <2>2, FollowsKept
<1>3. ASSUME NEW p \in Payments, PayOrder(p) \/ PaymentNotice(p) PROVE Follows'
  <2>1. refund' = refund /\ PaysFor[p] \in Orders
    BY <1>3, ConstantsOK DEF PayOrder, PaymentNotice
  <2>2. order' = order \/ \E method : Paid(PaysFor[p], method)
    BY <1>3 DEF PayOrder, PaymentNotice
  <2> QED BY <1>1, <1>2, <2>1, <2>2
<1>4. ASSUME NEW o \in Orders, NEW from, NEW to, Progress(o, from, to) PROVE Follows'
  <2> DEFINE row == [order[o] EXCEPT !.status = to]
  <2>1. order' = [order EXCEPT ![o] = row] /\ refund' = refund
    BY <1>4 DEF Progress
  <2>2. row.pay = order[o].pay /\ row.txn = order[o].txn
    BY OrderRows DEF Typed, OrderRow
  <2> HIDE DEF row
  <2> QED BY <2>1, <2>2, FollowsKept DEF Follows
<1>5. ASSUME NEW o \in Orders, Deliver(o) PROVE Follows'
  <2>1. PICK income : order' = [order EXCEPT ![o] =
                        [order[o] EXCEPT !.status = "completed", !.income = income]]
    BY <1>5 DEF Deliver
  <2> DEFINE row == [order[o] EXCEPT !.status = "completed", !.income = income]
  <2>2. order' = [order EXCEPT ![o] = row] /\ refund' = refund
    BY <1>5, <2>1 DEF Deliver
  <2>3. row.pay = order[o].pay /\ row.txn = order[o].txn
    BY OrderRows DEF Typed, OrderRow
  <2> HIDE DEF row
  <2> QED BY <2>2, <2>3, FollowsKept DEF Follows
<1>6. ASSUME NEW h \in Handlers, CommitRefund(h) PROVE Follows'
  <2> DEFINE s == session[h]
             o == Concerns[s.claim]
             status == IF s.method = "ifpay" THEN "success" ELSE "refund_pending"
             stored == [status |-> status, claim |-> s.claim, amount |-> s.amount,
                        method |-> s.method]
  <2>1. /\ s.txn \in Refunds /\ refund[s.txn].status = "none" /\ o \in Orders
        /\ refund' = [refund EXCEPT ![s.txn] = stored]
    BY <1>6, CommittedRow
  <2>2. refund'[s.txn] = stored
    BY <2>1 DEF Typed, TypeOK
  <2>3. PICK row : /\ order' = [order EXCEPT ![o] = row] /\ row.txn = s.txn
                   /\ row.pay = IF s.method = "ifpay" THEN "refunded" ELSE "refunding"
    <3>1. CASE s.method = "ifpay"
      <4> DEFINE r == [order[o] EXCEPT !.pay = "refunded", !.txn = s.txn,
                                       !.income = ReversedIncome(o, s.amount, s.income)]
      <4>1. order' = [order EXCEPT ![o] = r]
        BY <1>6, <3>1 DEF CommitRefund, EndRefund
      <4>2. r.pay = "refunded" /\ r.txn = s.txn
        BY <2>1, OrderRows DEF Typed, OrderRow
      <4> HIDE DEF r
      <4> QED BY <3>1, <4>1, <4>2
    <3>2. CASE s.method # "ifpay"
      <4> DEFINE r == [order[o] EXCEPT !.pay = "refunding", !.txn = s.txn]
      <4>1. order' = [order EXCEPT ![o] = r]
        BY <1>6, <3>2 DEF CommitRefund
      <4>2. r.pay = "refunding" /\ r.txn = s.txn
        BY <2>1, OrderRows DEF Typed, OrderRow
      <4> HIDE DEF r
      <4> QED BY <3>2, <4>1, <4>2
    <3> QED BY <3>1, <3>2
  <2>4. \A q \in Orders \ {o} : order[q].pay \in {"refunding", "refunded"} =>
          refund'[order[q].txn] = refund[order[q].txn]
    BY <2>1, OthersKept
  <2>5. refund'[s.txn].status = status /\ refund'[s.txn].claim = s.claim
    BY <2>2
  <2> HIDE DEF stored
  <2> QED BY <2>1, <2>3, <2>4, <2>5, FollowsKept
<1>7. ASSUME NEW x \in Refunds, refund[x].status # "none", NEW status,
             refund' = [refund EXCEPT ![x].status = status]
      PROVE  /\ OrderOf(x) \in Orders
             /\ refund'[x].status = status /\ Concerns[refund'[x].claim] = OrderOf(x)
             /\ \A q \in Orders \ {OrderOf(x)} : order[q].pay \in {"refunding", "refunded"} =>
                  refund'[order[q].txn] = refund[order[q].txn]
  <2> DEFINE row == [refund[x] EXCEPT !.status = status]
  <2>1. OrderOf(x) \in Orders /\ refund[x] \in RefundRow
    BY <1>7, StoredRefund DEF Typed, TypeOK
  <2>2. refund' = [refund EXCEPT ![x] = row] /\ refund'[x] = row
    BY <1>7 DEF Typed, TypeOK
  <2>3. row.status = status /\ row.claim = refund[x].claim
    BY <1>7, <2>1 DEF RefundRow
  <2> HIDE DEF row
  <2>4. Concerns[refund[x].claim] = OrderOf(x)
    BY DEF OrderOf
  <2> QED BY <2>1, <2>2, <2>3, <2>4, OthersKept
<1>8. ASSUME NEW h \in Handlers, CompleteRefund(h) PROVE Follows'
  <2> DEFINE x == session[h].txn
             o == OrderOf(x)
             row == [order[o] EXCEPT !.pay = "refunded", !.txn = x,
                        !.income = ReversedIncome(o, refund[x].amount, session[h].income)]
  <2>1. x \in Refunds /\ refund[x].status # "none"
        /\ refund' = [refund EXCEPT ![x].status = "success"]
        /\ order' = [order EXCEPT ![o] = row]
    BY <1>8, SessionAt DEF CompleteRefund, EndRefund, Noticed, Typed, Holds
  <2>2. o \in Orders /\ refund'[x].status = "success" /\ Concerns[refund'[x].claim] = o
        /\ \A q \in Orders \ {o} : order[q].pay \in {"refunding", "refunded"} =>
             refund'[order[q].txn] = refund[order[q].txn]
    BY <1>7, <2>1
  <2>3. row.pay = "refunded" /\ row.txn = x
    BY <2>2, OrderRows DEF Typed, OrderRow
  <2> HIDE DEF row, o, x
  <2> QED BY <2>1, <2>2, <2>3, FollowsKept
<1>9. ASSUME NEW x \in Refunds, FailureNotice(x) PROVE Follows'
  <2> DEFINE o == OrderOf(x)
             row == PaidAgain(o)
  <2>1. refund[x].status # "none" /\ refund' = [refund EXCEPT ![x].status = "failed"]
        /\ order' = [order EXCEPT ![o] = row]
    BY <1>9 DEF FailureNotice, Announced
  <2>2. o \in Orders /\ \A q \in Orders \ {o} : order[q].pay \in {"refunding", "refunded"} =>
             refund'[order[q].txn] = refund[order[q].txn]
    BY <1>7, <2>1
  <2>3. row.pay = "paid"
    BY <2>2, OrderRows DEF Typed, OrderRow, PaidAgain
  <2> HIDE DEF row, o
  <2> QED BY <2>1, <2>2, <2>3, FollowsKept
<1>10. ASSUME NEW h \in Handlers,
              \/ \E c \in Claims : UpdateStatus(h, c)
              \/ \E x \in Refunds : SuccessNotice(h, x)
              \/ RefundOrder(h) \/ CallGateway(h) \/ WriteClaim(h) \/ Crash(h)
       PROVE  Follows'
  BY <1>1, <1>10 DEF UpdateStatus, SuccessNotice, RefundOrder, CallGateway, WriteClaim, Crash
<1>11. ASSUME NEW o \in Orders, Accept(o) \/ Dispatch(o) \/ Pickup(o) PROVE Follows'
  BY <1>4, <1>11 DEF Accept, Dispatch, Pickup
<1>12. ASSUME NEW o \in Orders, SettleRiderIncome(o) PROVE Follows'
  BY <1>1, <1>12 DEF SettleRiderIncome
<1>13. ASSUME NEW c \in Claims, CreateClaim(c) PROVE Follows'
  BY <1>1, <1>13 DEF CreateClaim
<1>14. ASSUME NEW x \in Refunds, GatewayEnds(x) PROVE Follows'
  BY <1>1, <1>14 DEF GatewayEnds
<1>15. CASE UNCHANGED vars
  BY <1>1, <1>15 DEF vars
<1>16. CASE Next
  BY <1>3, <1>5, <1>6, <1>8, <1>9, <1>10, <1>11, <1>12, <1>13, <1>14, <1>16 DEF Next
<1> QED BY <1>15, <1>16

LEMMA FreshInit == Init => Fresh
BY DEF Init, Fresh, Early, Idle

LEMMA FollowsInit == Init => Follows
BY DEF Init, Follows

\* The order follows the refund it names, whatever notices of other refunds arrive,
\* for any number of orders, refunds and handlers (resetOrderRefundPendingTx,
\* completeRefundCallbackTx).
THEOREM OrderFollows == Spec => []OrderFollowsRefund
<1>1. Typed /\ Fresh /\ Follows => OrderFollowsRefund
  BY DEF Follows, OrderFollowsRefund, GivenBack, OrderOf
<1> QED BY <1>1, TypedInit, TypedStep, FreshInit, FreshStep, FollowsInit, FollowsStep, PTL DEF Spec
-----------------------------------------------------------------------------
(* The refunds of an order and its split.                                  *)

\* A settlement was prepared for every order that was paid, so for every order a
\* refund is on the way of, and a prepared settlement stays so.
Prepared ==
  /\ \A p \in Payments : payment[p] = "success" => snapshot[PaysFor[p]] # "none"
  /\ \A o \in Orders : order[o].method = "ifpay" => snapshot[o] # "none"
  /\ \A h \in Handlers : session[h].at \in {"call", "commit"} =>
       snapshot[Concerns[session[h].claim]] # "none"
  /\ \A x \in Refunds : refund[x].status # "none" => snapshot[OrderOf(x)] # "none"

LEMMA SnapshotKept ==
  ASSUME Typed, [Next]_vars, NEW o \in Orders, snapshot[o] # "none"
  PROVE  snapshot'[o] # "none"
<1>1. CASE UNCHANGED <<ledger, snapshot>>
  BY <1>1
<1>2. ASSUME NEW q \in Orders, NEW x, NEW n, NEW seen, EndRefund(q, x, n, seen)
      PROVE  snapshot'[o] # "none"
  BY <1>2 DEF EndRefund, ReversedSnapshot, Typed, TypeOK
<1>3. ASSUME NEW q \in Orders, NEW method, Paid(q, method) PROVE snapshot'[o] # "none"
  BY <1>3 DEF Paid, PrepareSettlement, Typed, TypeOK
<1>4. ASSUME NEW q \in Orders, Deliver(q) PROVE snapshot'[o] # "none"
  BY <1>4 DEF Deliver, Typed, TypeOK
<1> QED BY <1>1, <1>2, <1>3, <1>4, LedgerMoves DEF vars

\* A payment method that appears in the row of an order was written by a payment.
LEMMA MethodKept ==
  ASSUME Typed, Next, NEW o \in Orders, order'[o].method = "ifpay"
  PROVE  order[o].method = "ifpay" \/ \E method : Paid(o, method)
<1>1. ASSUME NEW q \in Orders, NEW row, order' = [order EXCEPT ![q] = row],
             row.method = order[q].method
      PROVE  order[o].method = "ifpay"
  BY <1>1 DEF Typed, TypeOK
<1>2. CASE order' = order
  BY <1>2
<1>3. ASSUME NEW q \in Orders, NEW method, Paid(q, method)
      PROVE  order[o].method = "ifpay" \/ \E m : Paid(o, m)
  BY <1>3 DEF Paid, Typed, TypeOK
<1>4. ASSUME NEW p \in Payments, PayOrder(p) \/ PaymentNotice(p)
      PROVE  order' = order \/ \E q \in Orders : \E method : Paid(q, method)
  BY <1>4, ConstantsOK DEF PayOrder, PaymentNotice
<1>5. ASSUME NEW q \in Orders, Accept(q) \/ Dispatch(q) \/ Pickup(q)
      PROVE  order[o].method = "ifpay"
  <2>1. PICK to : order' = [order EXCEPT ![q] = [order[q] EXCEPT !.status = to]]
    BY <1>5 DEF Accept, Dispatch, Pickup, Progress
  <2>2. [order[q] EXCEPT !.status = to].method = order[q].method
    BY OrderRows DEF Typed, OrderRow
  <2> QED BY <1>1, <2>1, <2>2
<1>6. ASSUME NEW q \in Orders, Deliver(q) PROVE order[o].method = "ifpay"
  <2>1. PICK income : order' = [order EXCEPT ![q] =
                        [order[q] EXCEPT !.status = "completed", !.income = income]]
    BY <1>6 DEF Deliver
  <2>2. [order[q] EXCEPT !.status = "completed", !.income = income].method = order[q].method
    BY OrderRows DEF Typed, OrderRow
  <2> QED BY <1>1, <2>1, <2>2
<1>7. ASSUME NEW q \in Orders, NEW x, NEW n, NEW seen, EndRefund(q, x, n, seen)
      PROVE  order[o].method = "ifpay"
  <2> DEFINE row == [order[q] EXCEPT !.pay = "refunded", !.txn = x,
                                     !.income = ReversedIncome(q, n, seen)]
  <2>1. order' = [order EXCEPT ![q] = row]
    BY <1>7 DEF EndRefund
  <2>2. row.method = order[q].method
    BY OrderRows DEF Typed, OrderRow
  <2> HIDE DEF row
  <2> QED BY <1>1, <2>1, <2>2
<1>8. ASSUME NEW h \in Handlers, CommitRefund(h) PROVE order[o].method = "ifpay"
  <2> DEFINE q == Concerns[session[h].claim]
             row == [order[q] EXCEPT !.pay = "refunding", !.txn = session[h].txn]
  <2>1. q \in Orders
    BY <1>8, SessionAt DEF CommitRefund, Points, Typed
  <2>2. \/ EndRefund(q, session[h].txn, session[h].amount, session[h].income)
        \/ order' = [order EXCEPT ![q] = row]
    BY <1>8 DEF CommitRefund
  <2>3. row.method = order[q].method
    BY <2>1, OrderRows DEF Typed, OrderRow
  <2> HIDE DEF row, q
  <2> QED BY <1>1, <1>7, <2>1, <2>2, <2>3
<1>9. ASSUME NEW h \in Handlers, CompleteRefund(h) PROVE order[o].method = "ifpay"
  <2>1. OrderOf(session[h].txn) \in Orders
    BY <1>9, SessionAt, StoredRefund DEF CompleteRefund, Noticed, Typed, Holds
  <2> QED BY <1>7, <1>9, <2>1 DEF CompleteRefund
<1>10. ASSUME NEW x \in Refunds, FailureNotice(x) PROVE order[o].method = "ifpay"
  <2> DEFINE q == OrderOf(x)
             row == PaidAgain(q)
  <2>1. q \in Orders /\ order' = [order EXCEPT ![q] = row]
    BY <1>10, StoredRefund DEF FailureNotice, Announced, Typed
  <2>2. row.method = order[q].method
    BY <2>1, OrderRows DEF Typed, OrderRow, PaidAgain
  <2> HIDE DEF row, q
  <2> QED BY <1>1, <2>1, <2>2
<1>11. ASSUME NEW h \in Handlers,
              \/ \E c \in Claims : UpdateStatus(h, c)
              \/ \E x \in Refunds : SuccessNotice(h, x)
              \/ RefundOrder(h) \/ CallGateway(h) \/ WriteClaim(h) \/ Crash(h)
       PROVE  order' = order
  BY <1>11 DEF UpdateStatus, SuccessNotice, RefundOrder, CallGateway, WriteClaim, Crash
<1>12. ASSUME NEW q \in Orders, SettleRiderIncome(q) PROVE order' = order
  BY <1>12 DEF SettleRiderIncome
<1>13. ASSUME NEW c \in Claims, CreateClaim(c) PROVE order' = order
  BY <1>13 DEF CreateClaim
<1>14. ASSUME NEW x \in Refunds, GatewayEnds(x) PROVE order' = order
  BY <1>14 DEF GatewayEnds
<1> QED
  BY <1>2, <1>3, <1>4, <1>5, <1>6, <1>8, <1>9, <1>10, <1>11, <1>12, <1>13, <1>14 DEF Next

\* A handler that is about to ask the gateway or to store a refund was so before, or
\* it has just read the order.
LEMMA SessionMoves ==
  ASSUME Typed, Next, NEW h \in Handlers, session'[h].at \in {"call", "commit"}
  PROVE  /\ session[h].at \in {"call", "commit"} \/ RefundOrder(h)
         /\ session'[h].claim = session[h].claim
<1> DEFINE Goal == /\ session[h].at \in {"call", "commit"} \/ RefundOrder(h)
                   /\ session'[h].claim = session[h].claim
<1>1. CASE session' = session
  BY <1>1
<1>2. ASSUME NEW g \in Handlers, NEW t, Step(g, t), g # h \/ t.at \notin {"call", "commit"}
      PROVE  Goal
  BY <1>2 DEF Step, Typed, TypeOK
<1>3. Idle.at \notin {"call", "commit"}
  BY DEF Idle
<1>4. ASSUME NEW g \in Handlers, NEW c \in Claims, UpdateStatus(g, c) PROVE Goal
  <2>1. PICK t : Step(g, t) /\ t.at \in {"refund_order", "write"}
    <3>1. PICK status \in Decisions, refunds \in BOOLEAN, n \in RefundAmounts, x \in RefundId :
            Step(g, Decided(c, status, refunds, n, x))
      BY <1>4, SMT DEF UpdateStatus
    <3> QED BY <3>1 DEF Decided
  <2> QED BY <1>2, <2>1
<1>5. ASSUME NEW g \in Handlers, NEW x \in Refunds, SuccessNotice(g, x) PROVE Goal
  BY <1>2, <1>5 DEF SuccessNotice
<1>6. ASSUME NEW g \in Handlers, RefundOrder(g) PROVE Goal
  <2> DEFINE s == session[g]
             o == Concerns[s.claim]
             method == IF order[o].method = "ifpay" THEN "ifpay" ELSE "gateway"
             u == [s EXCEPT !.at = IF method = "ifpay" THEN "commit" ELSE "call",
                            !.method = method, !.income = order[o].income, !.whole = Whole(o)]
  <2>1. Step(g, u) \/ Step(g, Idle)
    BY <1>6 DEF RefundOrder
  <2>2. s \in Working
    BY <1>6, SessionAt DEF RefundOrder, Points, Typed
  <2>3. u.claim = s.claim
    BY <2>2 DEF Working
  <2> HIDE DEF u
  <2>4. CASE g = h /\ Step(g, u)
    BY <1>6, <2>3, <2>4 DEF Step, Typed, TypeOK
  <2> QED BY <1>2, <1>3, <2>1, <2>4
<1>7. ASSUME NEW g \in Handlers, CallGateway(g) PROVE Goal
  <2> DEFINE s == session[g]
             u == [s EXCEPT !.at = "commit"]
  <2>1. s.at = "call" /\ (Step(g, u) \/ Step(g, Idle))
    BY <1>7 DEF CallGateway
  <2>2. s \in Working
    BY <2>1, SessionAt DEF Points, Typed
  <2>3. u.claim = s.claim
    BY <2>2 DEF Working
  <2> HIDE DEF u
  <2>4. CASE g = h /\ Step(g, u)
    BY <2>1, <2>3, <2>4 DEF Step, Typed, TypeOK
  <2> QED BY <1>2, <1>3, <2>1, <2>4
<1>8. ASSUME NEW g \in Handlers, CommitRefund(g) PROVE Goal
  <2> DEFINE s == session[g]
             u == [s EXCEPT !.at = "write", !.amount = 0, !.income = NoIncome, !.whole = FALSE,
                      !.done = TRUE]
             v == [s EXCEPT !.at = "write", !.amount = 0, !.income = NoIncome, !.whole = FALSE]
  <2>1. Step(g, u) \/ Step(g, v)
    BY <1>8 DEF CommitRefund
  <2>2. s \in Working
    BY <1>8, SessionAt DEF CommitRefund, Points, Typed
  <2>3. u.at = "write" /\ v.at = "write"
    BY <2>2 DEF Working
  <2> HIDE DEF u, v
  <2> QED BY <1>2, <2>1, <2>3
<1>9. ASSUME NEW g \in Handlers, WriteClaim(g) \/ CompleteRefund(g) \/ Crash(g) PROVE Goal
  BY <1>2, <1>3, <1>9 DEF WriteClaim, CompleteRefund, Crash
<1>10. ASSUME NEW p \in Payments, PayOrder(p) \/ PaymentNotice(p) PROVE session' = session
  BY <1>10 DEF PayOrder, PaymentNotice
<1>11. ASSUME NEW o \in Orders,
              Accept(o) \/ Dispatch(o) \/ Pickup(o) \/ Deliver(o) \/ SettleRiderIncome(o)
       PROVE  session' = session
  BY <1>11 DEF Accept, Dispatch, Pickup, Progress, Deliver, SettleRiderIncome
<1>12. ASSUME NEW c \in Claims, CreateClaim(c) PROVE session' = session
  BY <1>12 DEF CreateClaim
<1>13. ASSUME NEW x \in Refunds, GatewayEnds(x) \/ FailureNotice(x) PROVE session' = session
  BY <1>13 DEF GatewayEnds, FailureNotice
<1> QED
  BY <1>1, <1>4, <1>5, <1>6, <1>7, <1>8, <1>9, <1>10, <1>11, <1>12, <1>13 DEF Next

LEMMA PaidPrepares ==
  ASSUME Typed, NEW o \in Orders, NEW method, Paid(o, method)
  PROVE  snapshot'[o] # "none"
BY DEF Paid, PrepareSettlement, Typed, TypeOK

LEMMA PreparedInit == Init => Prepared
BY DEF Init, Prepared, Idle

LEMMA PreparedStep == Typed /\ Fresh /\ Prepared /\ [Next]_vars => Prepared'
<1> SUFFICES ASSUME Typed, Fresh, Prepared, [Next]_vars PROVE Prepared' OBVIOUS
<1>1. CASE UNCHANGED vars
  BY <1>1 DEF vars, Prepared, OrderOf
<1>2. CASE Next
  <2>1. ASSUME NEW p \in Payments, payment'[p] = "success" PROVE snapshot'[PaysFor[p]] # "none"
    <3>1. PaysFor[p] \in Orders
      BY ConstantsOK
    <3>2. CASE payment[p] = "success"
      BY <3>1, <3>2, SnapshotKept DEF Prepared
    <3>3. payment' = payment \/ \E q \in Payments : PayOrder(q) \/ PaymentNotice(q)
      BY <1>2 DEF Next, Accept, Dispatch, Pickup, Progress, Deliver, SettleRiderIncome,
                  CreateClaim, UpdateStatus, SuccessNotice, RefundOrder, CallGateway,
                  CommitRefund, WriteClaim, CompleteRefund, Crash, GatewayEnds, FailureNotice
    <3>4. ASSUME NEW q \in Payments, PayOrder(q) \/ PaymentNotice(q), payment[p] # "success"
          PROVE  \E method : Paid(PaysFor[p], method)
      BY <2>1, <3>4 DEF PayOrder, PaymentNotice, Typed, TypeOK
    <3> QED BY <2>1, <3>1, <3>2, <3>3, <3>4, PaidPrepares
  <2>2. ASSUME NEW o \in Orders, order'[o].method = "ifpay" PROVE snapshot'[o] # "none"
    BY <1>2, <2>2, MethodKept, PaidPrepares, SnapshotKept DEF Prepared
  <2>3. ASSUME NEW h \in Handlers, session'[h].at \in {"call", "commit"}
        PROVE  snapshot'[Concerns[session'[h].claim]] # "none"
    <3> DEFINE o == Concerns[session[h].claim]
    <3>1. session'[h].claim = session[h].claim
          /\ (session[h].at \in {"call", "commit"} \/ RefundOrder(h))
      BY <1>2, <2>3, SessionMoves
    <3>2. o \in Orders
      BY <3>1, SessionAt DEF RefundOrder, Points, Typed
    <3>3. CASE RefundOrder(h)
      <4>1. session'[h] # Idle /\ session'[h] \in {session'[h]}
        BY <2>3 DEF Idle
      <4>2. \/ order[o].method = "ifpay"
            \/ \E p \in Payments : PaysFor[p] = o /\ payment[p] = "success"
        BY <3>3, <4>1 DEF RefundOrder, Step, Typed, TypeOK
      <4>3. snapshot[o] # "none"
        BY <3>2, <4>2 DEF Prepared
      <4> QED BY <3>1, <3>2, <4>3, SnapshotKept
    <3>4. CASE session[h].at \in {"call", "commit"}
      BY <3>1, <3>2, <3>4, SnapshotKept DEF Prepared
    <3> QED BY <3>1, <3>3, <3>4
  <2>4. ASSUME NEW x \in Refunds, refund'[x].status # "none"
        PROVE  snapshot'[Concerns[refund'[x].claim]] # "none"
    <3>1. CASE refund[x].status # "none"
      <4>1. refund'[x].claim = refund[x].claim /\ OrderOf(x) \in Orders
        BY <3>1, StableRefund, StoredRefund DEF Typed
      <4> QED BY <3>1, <4>1, SnapshotKept DEF Prepared, OrderOf
    <3>2. ASSUME NEW h \in Handlers, CommitRefund(h), refund[x].status = "none"
          PROVE  snapshot'[Concerns[refund'[x].claim]] # "none"
      <4> DEFINE s == session[h]
                 row == [status |-> IF s.method = "ifpay" THEN "success" ELSE "refund_pending",
                         claim |-> s.claim, amount |-> s.amount, method |-> s.method]
      <4>1. /\ s.txn \in Refunds /\ Concerns[s.claim] \in Orders
            /\ refund' = [refund EXCEPT ![s.txn] = row]
        BY <3>2, CommittedRow
      <4>2. row.claim = s.claim
        OBVIOUS
      <4> HIDE DEF row
      <4>3. x = s.txn /\ refund'[x] = row
        BY <2>4, <3>2, <4>1 DEF Typed, TypeOK
      <4>4. snapshot[Concerns[s.claim]] # "none"
        BY <3>2 DEF CommitRefund, Prepared
      <4> QED BY <4>1, <4>2, <4>3, <4>4, SnapshotKept
    <3>3. ASSUME NEW y \in Refunds, NEW status, refund' = [refund EXCEPT ![y].status = status],
                 refund[y].status # "none"
          PROVE  refund[x].status # "none"
      BY <2>4, <3>3 DEF Typed, TypeOK
    <3>4. ASSUME NEW h \in Handlers, CompleteRefund(h) PROVE refund[x].status # "none"
      BY <3>3, <3>4, SessionAt DEF CompleteRefund, Noticed, Typed, Holds
    <3>5. ASSUME NEW y \in Refunds, FailureNotice(y) PROVE refund[x].status # "none"
      BY <3>3, <3>5 DEF FailureNotice, Announced
    <3>6. \/ refund' = refund
          \/ \E h \in Handlers : CommitRefund(h)
          \/ \E h \in Handlers : CompleteRefund(h)
          \/ \E y \in Refunds : FailureNotice(y)
      BY <1>2, RefundMoves
    <3> QED BY <2>4, <3>1, <3>2, <3>4, <3>5, <3>6
  <2> QED BY <2>1, <2>2, <2>3, <2>4 DEF Prepared, OrderOf
<1> QED BY <1>1, <1>2

\* An order that is still to be settled has given nothing back, and what was taken
\* back was taken back for a refund.
Closed ==
  \A o \in Orders :
    /\ snapshot[o] \in {"none", "pending_settlement"} => GivenBack(o) = {}
    /\ ledger[o].reversed # Nothing => GivenBack(o) # {}

\* The end of a refund, as far as the split is concerned.
EndsRefund(o, x) ==
  /\ snapshot[o] # "none"
  /\ \E seen : EndRefund(o, x, refund'[x].amount, seen)
  /\ refund'[x].amount \in Nat
  /\ \A q \in Orders : GivenBack(q)' = IF q = o THEN GivenBack(q) \cup {x} ELSE GivenBack(q)

SameRefunds == \A q \in Orders : GivenBack(q)' = GivenBack(q)

LEMMA SameWhenUnsuccessful ==
  ASSUME NEW x \in Refunds, refund[x].status # "success", refund'[x].status # "success",
         \A y \in Refunds \ {x} : refund'[y] = refund[y]
  PROVE  SameRefunds
<1> SUFFICES ASSUME NEW q \in Orders PROVE GivenBack(q)' = GivenBack(q)
  BY DEF SameRefunds
<1>1. ASSUME NEW y \in Refunds PROVE y \in GivenBack(q)' <=> y \in GivenBack(q)
  BY DEF GivenBack, OrderOf
<1>2. GivenBack(q) \subseteq Refunds /\ GivenBack(q)' \subseteq Refunds
  BY DEF GivenBack
<1> QED BY <1>1, <1>2

\* Every step ends a refund, or leaves the refunds of every order as they are and
\* moves the settlement by a payment or a delivery only.
LEMMA SplitMoves ==
  ASSUME Typed, Fresh, Prepared, [Next]_vars
  PROVE  \/ SameRefunds /\ UNCHANGED <<ledger, snapshot>>
         \/ SameRefunds /\ UNCHANGED ledger /\ \E o \in Orders : \E method : Paid(o, method)
         \/ SameRefunds /\ \E o \in Orders : Deliver(o)
         \/ \E o \in Orders, x \in Refunds : EndsRefund(o, x)
<1>1. ASSUME refund' = refund PROVE SameRefunds
  BY <1>1 DEF SameRefunds, GivenBack, OrderOf
<1>2. ASSUME NEW h \in Handlers, CommitRefund(h)
      PROVE  \/ SameRefunds /\ UNCHANGED <<ledger, snapshot>>
             \/ \E o \in Orders, x \in Refunds : EndsRefund(o, x)
  <2> DEFINE s == session[h]
             o == Concerns[s.claim]
             status == IF s.method = "ifpay" THEN "success" ELSE "refund_pending"
             stored == [status |-> status, claim |-> s.claim, amount |-> s.amount,
                        method |-> s.method]
  <2>1. /\ s \in Working /\ s.txn \in Refunds /\ refund[s.txn].status = "none" /\ o \in Orders
        /\ refund' = [refund EXCEPT ![s.txn] = stored]
    BY <1>2, CommittedRow
  <2>2. refund'[s.txn] = stored /\ \A y \in Refunds \ {s.txn} : refund'[y] = refund[y]
    BY <2>1 DEF Typed, TypeOK
  <2>3. refund'[s.txn].status = status /\ refund'[s.txn].claim = s.claim
        /\ refund'[s.txn].amount = s.amount /\ s.amount \in Nat
    BY <2>1, <2>2 DEF Working
  <2> HIDE DEF stored
  <2>4. CASE s.method = "ifpay"
    <3>1. EndRefund(o, s.txn, s.amount, s.income)
      BY <1>2, <2>4 DEF CommitRefund
    <3>2. snapshot[o] # "none"
      BY <1>2 DEF CommitRefund, Prepared
    <3>3. \A q \in Orders : GivenBack(q)' =
            IF q = o THEN GivenBack(q) \cup {s.txn} ELSE GivenBack(q)
      BY <2>1, <2>2, <2>3, <2>4, GivenBackAdds
    <3>4. EndsRefund(o, s.txn)
      BY <2>3, <3>1, <3>2, <3>3 DEF EndsRefund
    <3> QED BY <2>1, <3>4
  <2>5. CASE s.method # "ifpay"
    <3>1. SameRefunds
      BY <2>1, <2>2, <2>3, <2>5, SameWhenUnsuccessful
    <3> QED BY <1>2, <2>5, <3>1 DEF CommitRefund
  <2> QED BY <2>4, <2>5
<1>3. ASSUME NEW h \in Handlers, CompleteRefund(h)
      PROVE  \E o \in Orders, x \in Refunds : EndsRefund(o, x)
  <2> DEFINE x == session[h].txn
             o == OrderOf(x)
  <2>1. x \in Refunds /\ refund[x].status # "none"
    BY <1>3, SessionAt DEF CompleteRefund, Noticed, Typed, Holds
  <2>2. o \in Orders /\ refund[x].amount \in Nat /\ refund[x] \in RefundRow
    BY <2>1, StoredRefund DEF Typed, TypeOK
  <2>3. refund'[x] = [refund[x] EXCEPT !.status = "success"]
        /\ \A y \in Refunds \ {x} : refund'[y] = refund[y]
    BY <1>3, <2>1 DEF CompleteRefund, Typed, TypeOK
  <2>4. refund'[x].status = "success" /\ refund'[x].claim = refund[x].claim
        /\ refund'[x].amount = refund[x].amount
    BY <2>1, <2>2, <2>3 DEF RefundRow
  <2>5. \A q \in Orders : GivenBack(q)' =
          IF q = o THEN GivenBack(q) \cup {x} ELSE GivenBack(q)
    <3>1. Concerns[refund'[x].claim] = o
      BY <2>4 DEF OrderOf
    <3> QED BY <2>1, <2>2, <2>3, <2>4, <3>1, GivenBackAdds
  <2>6. snapshot[o] # "none"
    BY <2>1 DEF Prepared
  <2>7. EndRefund(o, x, refund[x].amount, session[h].income)
    BY <1>3 DEF CompleteRefund
  <2> HIDE DEF x, o
  <2>8. EndsRefund(o, x)
    BY <2>2, <2>4, <2>5, <2>6, <2>7 DEF EndsRefund
  <2> QED BY <2>1, <2>2, <2>8
<1>4. ASSUME NEW x \in Refunds, FailureNotice(x)
      PROVE  SameRefunds /\ UNCHANGED <<ledger, snapshot>>
  <2>1. refund[x].status = "refund_pending" /\ refund[x] \in RefundRow
    BY <1>4 DEF FailureNotice, Announced, Typed, TypeOK
  <2>2. refund'[x] = [refund[x] EXCEPT !.status = "failed"]
        /\ \A y \in Refunds \ {x} : refund'[y] = refund[y]
    BY <1>4 DEF FailureNotice, Typed, TypeOK
  <2>3. refund'[x].status = "failed"
    BY <2>1, <2>2 DEF RefundRow
  <2> QED BY <1>4, <2>1, <2>2, <2>3, SameWhenUnsuccessful DEF FailureNotice
<1>5. ASSUME NEW p \in Payments, PayOrder(p) \/ PaymentNotice(p)
      PROVE  \/ SameRefunds /\ UNCHANGED <<ledger, snapshot>>
             \/ SameRefunds /\ UNCHANGED ledger /\ \E o \in Orders : \E method : Paid(o, method)
  BY <1>1, <1>5, ConstantsOK DEF PayOrder, PaymentNotice
<1>6. ASSUME NEW o \in Orders, Deliver(o) PROVE SameRefunds
  BY <1>1, <1>6 DEF Deliver
<1>7. ASSUME NEW o \in Orders, Accept(o) \/ Dispatch(o) \/ Pickup(o) \/ SettleRiderIncome(o)
      PROVE  SameRefunds /\ UNCHANGED <<ledger, snapshot>>
  BY <1>1, <1>7 DEF Accept, Dispatch, Pickup, Progress, SettleRiderIncome
<1>8. ASSUME NEW h \in Handlers,
             \/ \E c \in Claims : UpdateStatus(h, c)
             \/ \E x \in Refunds : SuccessNotice(h, x)
             \/ RefundOrder(h) \/ CallGateway(h) \/ WriteClaim(h) \/ Crash(h)
      PROVE  SameRefunds /\ UNCHANGED <<ledger, snapshot>>
  BY <1>1, <1>8 DEF UpdateStatus, SuccessNotice, RefundOrder, CallGateway, WriteClaim, Crash
<1>9. ASSUME NEW c \in Claims, CreateClaim(c)
      PROVE  SameRefunds /\ UNCHANGED <<ledger, snapshot>>
  BY <1>1, <1>9 DEF CreateClaim
<1>10. ASSUME NEW x \in Refunds, GatewayEnds(x)
       PROVE  SameRefunds /\ UNCHANGED <<ledger, snapshot>>
  BY <1>1, <1>10 DEF GatewayEnds
<1>11. CASE UNCHANGED vars
  BY <1>1, <1>11 DEF vars
<1>12. CASE Next
  BY <1>2, <1>3, <1>4, <1>5, <1>6, <1>7, <1>8, <1>9, <1>10, <1>12 DEF Next
<1> QED BY <1>11, <1>12

\* RefundTakesSplitBack for one order.
Explained(o) ==
  GivenBack(o) # {} /\ ledger[o].settled # Nothing =>
    \E x \in GivenBack(o) : ledger[o].reversed = TakenBack(o, refund[x].amount)

\* An order whose ledger row does not change stays explained when its refunds only grow.
LEMMA ExplainedKept ==
  ASSUME Typed, Fresh, [Next]_vars, NEW o \in Orders, Explained(o), ledger'[o] = ledger[o],
         GivenBack(o) \subseteq GivenBack(o)', GivenBack(o) = {} => GivenBack(o)' = {}
  PROVE  Explained(o)'
<1> SUFFICES ASSUME GivenBack(o)' # {}, ledger[o].settled # Nothing PROVE Explained(o)'
  BY DEF Explained
<1>1. PICK x \in GivenBack(o) : ledger[o].reversed = TakenBack(o, refund[x].amount)
  BY DEF Explained
<1>2. refund'[x].amount = refund[x].amount
  BY <1>1, StableRefund DEF GivenBack
<1>3. TakenBack(o, refund[x].amount)' = TakenBack(o, refund[x].amount)
  BY <1>2 DEF TakenBack
<1> QED BY <1>1, <1>3 DEF Explained

Split == Closed /\ \A o \in Orders : Explained(o)

LEMMA SplitInit == Init => Split
BY DEF Init, Split, Closed, Explained, GivenBack, Nothing

LEMMA SplitStep ==
  Typed /\ Fresh /\ Prepared /\ LedgerMatchesSnapshot /\ Split /\ [Next]_vars => Split'
<1> SUFFICES ASSUME Typed, Fresh, Prepared, LedgerMatchesSnapshot, Split, [Next]_vars
             PROVE  Split'
  OBVIOUS
<1>1. ASSUME SameRefunds,
             \A o \in Orders : snapshot'[o] \in {"none", "pending_settlement"} =>
               snapshot[o] \in {"none", "pending_settlement"},
             \A o \in Orders : ledger'[o].reversed = ledger[o].reversed,
             \A o \in Orders : ledger'[o] = ledger[o] \/ GivenBack(o) = {}
      PROVE  Split'
  <2>1. Closed'
    BY <1>1 DEF Split, Closed, SameRefunds
  <2>2. ASSUME NEW o \in Orders PROVE Explained(o)'
    <3>1. CASE GivenBack(o) = {}
      BY <1>1, <3>1 DEF SameRefunds, Explained
    <3>2. CASE ledger'[o] = ledger[o]
      BY <1>1, <3>2, ExplainedKept DEF SameRefunds, Split
    <3> QED BY <1>1, <3>1, <3>2
  <2> QED BY <2>1, <2>2 DEF Split
<1>2. CASE SameRefunds /\ UNCHANGED <<ledger, snapshot>>
  BY <1>1, <1>2
<1>3. ASSUME NEW o \in Orders, NEW method, Paid(o, method), SameRefunds, UNCHANGED ledger
      PROVE  Split'
  <2>1. \A q \in Orders : snapshot'[q] \in {"none", "pending_settlement"} =>
               snapshot[q] \in {"none", "pending_settlement"}
    BY <1>3 DEF Paid, PrepareSettlement, Typed, TypeOK
  <2> QED BY <1>1, <1>3, <2>1
<1>4. ASSUME NEW o \in Orders, Deliver(o), SameRefunds PROVE Split'
  <2>1. \A q \in Orders : snapshot'[q] \in {"none", "pending_settlement"} =>
               snapshot[q] \in {"none", "pending_settlement"}
    BY <1>4 DEF Deliver, Typed, TypeOK
  <2>2. \A q \in Orders : ledger'[q].reversed = ledger[q].reversed
    BY <1>4 DEF Deliver, Typed, TypeOK
  <2>3. SettlementDue(o) => snapshot[o] \in {"none", "pending_settlement"}
    BY DEF SettlementDue, PrepareSettlement
  <2>4. \A q \in Orders : ledger'[q] = ledger[q] \/ GivenBack(q) = {}
    BY <1>4, <2>3 DEF Deliver, Typed, TypeOK, Split, Closed
  <2> QED BY <1>1, <1>4, <2>1, <2>2, <2>4
<1>5. ASSUME NEW o \in Orders, NEW x \in Refunds, EndsRefund(o, x) PROVE Split'
  <2> DEFINE n == refund'[x].amount
  <2>1. /\ ledger' = [ledger EXCEPT ![o] = ReversedLedger(o, n)]
        /\ snapshot' = [snapshot EXCEPT ![o] = ReversedSnapshot(o, n)]
        /\ n \in Nat /\ snapshot[o] # "none"
    BY <1>5 DEF EndsRefund, EndRefund
  <2>2. /\ GivenBack(o)' = GivenBack(o) \cup {x}
        /\ \A q \in Orders \ {o} : GivenBack(q)' = GivenBack(q)
    BY <1>5 DEF EndsRefund
  <2>3. /\ ledger'[o] = ReversedLedger(o, n) /\ snapshot'[o] = ReversedSnapshot(o, n)
        /\ \A q \in Orders \ {o} : ledger'[q] = ledger[q] /\ snapshot'[q] = snapshot[q]
    BY <2>1 DEF Typed, TypeOK
  <2> HIDE DEF n
  <2>4. ASSUME NEW q \in Orders, q # o
        PROVE  /\ snapshot'[q] \in {"none", "pending_settlement"} => GivenBack(q)' = {}
               /\ ledger'[q].reversed # Nothing => GivenBack(q)' # {}
               /\ Explained(q)'
    BY <2>2, <2>3, <2>4, ExplainedKept DEF Split, Closed
  <2>5. snapshot'[o] \notin {"none", "pending_settlement"}
    <3>1. CASE snapshot[o] = "pending_settlement"
      <4>1. ledger[o].settled = Nothing
        BY <3>1 DEF LedgerMatchesSnapshot
      <4>2. ledger[o].reversed = Nothing
        BY <3>1 DEF Split, Closed
      <4> QED BY <2>3, <3>1, <4>1, <4>2 DEF ReversedSnapshot, ReversalDue
    <3>2. CASE snapshot[o] # "pending_settlement"
      BY <2>1, <2>3, <3>2 DEF ReversedSnapshot
    <3> QED BY <3>1, <3>2
  <2>6. Explained(o)'
    <3>1. CASE ReversalDue(o)
      <4>1. ledger'[o].settled = ledger[o].settled /\ ledger'[o].reversed = TakenBack(o, n)
        BY <2>1, <2>3, <3>1, ReversedOnce DEF Typed
      <4>2. TakenBack(o, refund[x].amount)' = TakenBack(o, n)
        BY <4>1 DEF TakenBack, n
      <4> QED BY <2>2, <4>1, <4>2 DEF Explained
    <3>2. CASE ~ReversalDue(o)
      <4>1. ledger'[o] = ledger[o]
        BY <2>3, <3>2 DEF ReversedLedger
      <4>2. ledger[o].settled # Nothing => ledger[o].reversed # Nothing
        BY <2>1, <3>2 DEF ReversalDue, LedgerMatchesSnapshot
      <4>3. ledger[o].settled # Nothing => GivenBack(o) # {}
        BY <4>2 DEF Split, Closed
      <4>4. CASE GivenBack(o) = {}
        BY <4>1, <4>3, <4>4 DEF Explained
      <4>5. CASE GivenBack(o) # {}
        BY <2>2, <4>1, <4>5, ExplainedKept DEF Split
      <4> QED BY <4>4, <4>5
    <3> QED BY <3>1, <3>2
  <2>7. Closed'
    BY <2>2, <2>4, <2>5 DEF Closed
  <2> QED BY <2>4, <2>6, <2>7 DEF Split
<1> QED BY <1>2, <1>3, <1>4, <1>5, SplitMoves

\* Whether the refund or the delivery comes first, a refunded order keeps no more of its
\* split than the refund left of it, for every price, split and amount (RefundOrder,
\* completeRefundCallbackTx, SettleCompletedOrderTx).
THEOREM RefundTakesBack == Spec => []RefundTakesSplitBack
<1>1. Split => RefundTakesSplitBack
  BY DEF Split, Explained, RefundTakesSplitBack
<1> QED
  BY <1>1, TypedInit, TypedStep, FreshInit, FreshStep, PreparedInit, PreparedStep, LedgerInit,
     LedgerStep, SplitInit, SplitStep, PTL DEF Spec
-----------------------------------------------------------------------------
(* The wallets and their transactions.                                     *)

\* What makes each sum take a transaction once: a payment that waits for a notice and a
\* refund that waits for one are not the wallet's, and a rider's income is frozen at the
\* delivery, which an order has once.
Sources ==
  /\ \A p \in Payments : payment[p] = "pending" => Method[p] = "gateway"
  /\ \A o \in Orders : rider.income[o] # "none" => order[o].status = "completed"
  /\ \A x \in Refunds : refund[x].status = "refund_pending" => refund[x].method = "gateway"
  /\ \A h \in Handlers : session[h].at = "notice" => refund[session[h].txn].method = "gateway"

Prices == [p \in Payments |-> Price[PaysFor[p]]]
Amounts == [x \in Refunds |-> refund[x].amount]
Spent(u) ==
  {p \in Payments : payment[p] = "success" /\ Method[p] = "ifpay" /\ Buyer[PaysFor[p]] = u}
Returned(u) ==
  {x \in Refunds : /\ refund[x].status = "success" /\ refund[x].method = "ifpay"
                   /\ Buyer[OrderOf(x)] = u}
Earned(state) == {o \in Orders : rider.income[o] = state}

\* WalletsMatchJournal, with the finite sets its sums range over.
BuyerSums ==
  \A u \in Users :
    /\ IsFiniteSet(Spent(u)) /\ IsFiniteSet(Returned(u))
    /\ balance[u] + SumOver(Prices, Spent(u)) = Deposit[u] + SumOver(Amounts, Returned(u))
RiderSums ==
  /\ \A state \in {"pending", "success"} : IsFiniteSet(Earned(state))
  /\ rider.frozen = SumOver(Fee, Earned("pending"))
  /\ rider.balance = SumOver(Fee, Earned("success"))

LEMMA JournalInit == Init => Sources /\ BuyerSums /\ RiderSums
<1> SUFFICES ASSUME Init PROVE Sources /\ BuyerSums /\ RiderSums
  OBVIOUS
<1>1. Sources
  BY DEF Init, Sources, Idle
<1>2. \A u : Spent(u) = {} /\ Returned(u) = {}
  BY DEF Init, Spent, Returned
<1>3. Earned("pending") = {} /\ Earned("success") = {}
  BY DEF Init, Earned
<1>4. BuyerSums
  <2> SUFFICES ASSUME NEW u \in Users
               PROVE  /\ IsFiniteSet(Spent(u)) /\ IsFiniteSet(Returned(u))
                      /\ balance[u] + SumOver(Prices, Spent(u))
                           = Deposit[u] + SumOver(Amounts, Returned(u))
    BY DEF BuyerSums
  <2>1. SumOver(Prices, Spent(u)) = 0 /\ SumOver(Amounts, Returned(u)) = 0
    BY <1>2, SumEmpty
  <2>2. IsFiniteSet(Spent(u)) /\ IsFiniteSet(Returned(u))
    BY <1>2, FS_EmptySet
  <2>3. balance[u] = Deposit[u] /\ Deposit[u] \in Nat
    BY ConstantsOK DEF Init
  <2> QED BY <2>1, <2>2, <2>3
<1>5. RiderSums
  <2>1. SumOver(Fee, Earned("pending")) = 0 /\ SumOver(Fee, Earned("success")) = 0
    BY <1>3, SumEmpty
  <2>2. rider.frozen = 0 /\ rider.balance = 0
    BY DEF Init
  <2> QED BY <1>3, <2>1, <2>2, FS_EmptySet DEF RiderSums
<1> QED BY <1>1, <1>4, <1>5

\* The sums of the property are the ones above.
LEMMA JournalSums == Typed /\ BuyerSums /\ RiderSums => WalletsMatchJournal
<1> SUFFICES ASSUME Typed, BuyerSums, RiderSums PROVE WalletsMatchJournal
  OBVIOUS
<1>1. ASSUME NEW u \in Users
      PROVE  balance[u] + MapThenSumSet(LAMBDA p : Price[PaysFor[p]], Spent(u))
               = Deposit[u] + MapThenSumSet(LAMBDA x : refund[x].amount, Returned(u))
  <2>1. \A p \in Payments : Price[PaysFor[p]] \in Nat
    BY ConstantsOK
  <2>2. \A x \in Returned(u) : refund[x].amount \in Nat
    BY StoredRefund DEF Typed, Returned
  <2>3. IsFiniteSet(Spent(u)) /\ IsFiniteSet(Returned(u))
    BY DEF BuyerSums
  <2>4. MapThenSumSet(LAMBDA p : Price[PaysFor[p]], Spent(u)) = SumOver(Prices, Spent(u))
    <3>1. MapThenSumSet(LAMBDA p : Price[PaysFor[p]], Spent(u))
            = SumOver([p \in Spent(u) |-> Price[PaysFor[p]]], Spent(u))
      BY <2>1, <2>3, IndexedSum DEF Spent
    <3>2. SumOver([p \in Spent(u) |-> Price[PaysFor[p]]], Spent(u)) = SumOver(Prices, Spent(u))
      <4>1. \A p \in Spent(u) : Prices[p] \in Nat
                                /\ [q \in Spent(u) |-> Price[PaysFor[q]]][p] = Prices[p]
        BY <2>1 DEF Prices, Spent
      <4> QED BY <2>3, <4>1, SumSame
    <3> QED BY <3>1, <3>2
  <2>5. MapThenSumSet(LAMBDA x : refund[x].amount, Returned(u)) = SumOver(Amounts, Returned(u))
    <3>1. MapThenSumSet(LAMBDA x : refund[x].amount, Returned(u))
            = SumOver([x \in Returned(u) |-> refund[x].amount], Returned(u))
      BY <2>2, <2>3, ColumnSum
    <3>2. SumOver([x \in Returned(u) |-> refund[x].amount], Returned(u))
            = SumOver(Amounts, Returned(u))
      <4>1. \A x \in Returned(u) : Amounts[x] \in Nat
                                   /\ [y \in Returned(u) |-> refund[y].amount][x] = Amounts[x]
        BY <2>2 DEF Amounts, Returned
      <4> QED BY <2>3, <4>1, SumSame
    <3> QED BY <3>1, <3>2
  <2> QED BY <2>4, <2>5 DEF BuyerSums
<1>2. /\ rider.frozen = MapThenSumSet(LAMBDA o : Fee[o], Earned("pending"))
      /\ rider.balance = MapThenSumSet(LAMBDA o : Fee[o], Earned("success"))
  BY DEF RiderSums, SumOver
<1> QED BY <1>1, <1>2, Zenon DEF WalletsMatchJournal, Spent, Returned, Earned
-----------------------------------------------------------------------------
(* What a step does to one session.                                        *)

\* The steps of a handler.
Acts(h) ==
  \/ \E c \in Claims : UpdateStatus(h, c)
  \/ \E x \in Refunds : SuccessNotice(h, x)
  \/ RefundOrder(h) \/ CallGateway(h) \/ CommitRefund(h) \/ WriteClaim(h) \/ CompleteRefund(h)
  \/ Crash(h)

\* The session UpdateStatus begins.
LEMMA NewDecision ==
  ASSUME Typed, NEW h \in Handlers, NEW c \in Claims, UpdateStatus(h, c)
  PROVE  /\ session[h] = Idle /\ claim[c].status # "none"
         /\ session'[h].claim = c /\ session'[h].income = NoIncome
         /\ \/ /\ session'[h].at = "refund_order" /\ session'[h].txn \in Refunds
               /\ claim[c].txn = "none" /\ session'[h].done = claim[c].refundedAt
            \/ /\ session'[h].at = "write" /\ session'[h].txn = claim[c].txn
               /\ \/ session'[h].done = claim[c].refundedAt
                  \/ session'[h].done = FALSE /\ claim[c].txn = "none"
<1>1. PICK status \in Decisions, refunds \in BOOLEAN, n \in RefundAmounts, x \in RefundId :
        /\ ~refunds => claim[c].txn = "none"
        /\ IF NeedsRefund(c, refunds) THEN Unused(x) ELSE x = claim[c].txn
        /\ Step(h, Decided(c, status, refunds, n, x))
  BY SMT DEF UpdateStatus
<1> DEFINE new == NeedsRefund(c, refunds)
           t == [at |-> IF new THEN "refund_order" ELSE "write", claim |-> c,
                 status |-> status, amount |-> IF new THEN n ELSE 0, txn |-> x,
                 method |-> "ifpay", income |-> NoIncome, whole |-> FALSE,
                 done |-> refunds /\ claim[c].refundedAt]
<1>2. session'[h] = t
  BY <1>1 DEF Decided, Step, Typed, TypeOK
<1>3. claim[c].refundedAt \in BOOLEAN
  BY DEF Typed, TypeOK, Entity
<1>4. session[h] = Idle /\ claim[c].status # "none"
  BY DEF UpdateStatus
<1>5. t.claim = c /\ t.income = NoIncome /\ t.txn = x
      /\ t.at = (IF new THEN "refund_order" ELSE "write")
      /\ t.done = (refunds /\ claim[c].refundedAt)
  OBVIOUS
<1> HIDE DEF t
<1>6. CASE new
  <2>1. session'[h].at = "refund_order" /\ session'[h].txn \in Refunds /\ claim[c].txn = "none"
    BY <1>1, <1>2, <1>5, <1>6 DEF Unused, NeedsRefund
  <2>2. session'[h].done = claim[c].refundedAt
    BY <1>2, <1>3, <1>5, <1>6 DEF NeedsRefund
  <2>3. session'[h].claim = c /\ session'[h].income = NoIncome
    BY <1>2, <1>5
  <2> QED BY <1>4, <2>1, <2>2, <2>3, Zenon
<1>7. CASE ~new
  <2>1. session'[h].at = "write" /\ session'[h].txn = claim[c].txn
    BY <1>1, <1>2, <1>5, <1>7
  <2>2. \/ session'[h].done = claim[c].refundedAt
        \/ session'[h].done = FALSE /\ claim[c].txn = "none"
    <3>1. CASE refunds
      <4>1. session'[h].done = claim[c].refundedAt
        BY <1>2, <1>3, <1>5, <3>1
      <4> QED BY <4>1, Zenon
    <3>2. CASE ~refunds
      <4>1. session'[h].done = FALSE
        BY <1>2, <1>5, <3>2
      <4> QED BY <1>1, <3>2, <4>1, Zenon
    <3> QED BY <3>1, <3>2
  <2>3. session'[h].claim = c /\ session'[h].income = NoIncome
    BY <1>2, <1>5
  <2> QED BY <1>4, <2>1, <2>2, <2>3, Zenon
<1> QED BY <1>6, <1>7

\* The session after the other steps of a refund.
LEMMA NextPoint ==
  ASSUME Typed, NEW h \in Handlers
  PROVE  /\ RefundOrder(h) => \/ session'[h] = Idle
              \/ /\ session[h].at = "refund_order" /\ session'[h].at \in {"call", "commit"}
                 /\ session'[h].claim = session[h].claim /\ session'[h].txn = session[h].txn
                 /\ session'[h].income = order[Concerns[session[h].claim]].income
                 /\ session'[h].whole = Whole(Concerns[session[h].claim])
                 /\ session'[h].done = session[h].done
                 /\ session'[h].at = "call" => session'[h].method = "gateway"
         /\ CallGateway(h) => \/ session'[h] = Idle
              \/ /\ session[h].at = "call" /\ session'[h].at = "commit"
                 /\ session'[h].claim = session[h].claim /\ session'[h].txn = session[h].txn
                 /\ session'[h].income = session[h].income /\ session'[h].done = session[h].done
                 /\ session'[h].whole = session[h].whole
                 /\ session'[h].method = session[h].method
         /\ CommitRefund(h) =>
              /\ session[h].at = "commit" /\ session'[h].at = "write"
              /\ session'[h].claim = session[h].claim /\ session'[h].txn = session[h].txn
              /\ session'[h].done = IF session[h].method = "ifpay" THEN TRUE ELSE session[h].done
         /\ \A x \in Refunds : SuccessNotice(h, x) =>
              /\ session[h] = Idle
              /\ session'[h].at = "notice" /\ session'[h].txn = x
              /\ session'[h].income = order[OrderOf(x)].income
              /\ session'[h].whole = Whole(OrderOf(x))
         /\ WriteClaim(h) \/ CompleteRefund(h) \/ Crash(h) => session'[h] = Idle
<1> DEFINE s == session[h]
<1>0. session \in [Handlers -> {Idle} \cup Working \cup Noticed]
  BY DEF Typed, TypeOK
<1>1. \A t : Step(h, t) => session'[h] = t
  BY <1>0 DEF Step
<1>2. ASSUME RefundOrder(h), session'[h] # Idle
      PROVE  /\ s.at = "refund_order" /\ session'[h].at \in {"call", "commit"}
             /\ session'[h].claim = s.claim /\ session'[h].txn = s.txn
             /\ session'[h].income = order[Concerns[s.claim]].income
             /\ session'[h].whole = Whole(Concerns[s.claim])
             /\ session'[h].done = s.done
             /\ session'[h].at = "call" => session'[h].method = "gateway"
  <2>1. s \in Working /\ s.at = "refund_order"
    BY <1>2, SessionAt DEF RefundOrder, Points, Typed
  <2>2. PICK p \in {"call", "commit"}, m \in {"ifpay", "gateway"} :
          /\ p = "call" => m = "gateway"
          /\ Step(h, [s EXCEPT !.at = p, !.method = m, !.income = order[Concerns[s.claim]].income,
                             !.whole = Whole(Concerns[s.claim])])
    BY <1>1, <1>2 DEF RefundOrder
  <2>3. session'[h] = [s EXCEPT !.at = p, !.method = m, !.income = order[Concerns[s.claim]].income,
                              !.whole = Whole(Concerns[s.claim])]
    BY <1>1, <2>2
  <2> QED BY <2>1, <2>2, <2>3 DEF Working
<1>3. ASSUME CallGateway(h), session'[h] # Idle
      PROVE  /\ s.at = "call" /\ session'[h].at = "commit"
             /\ session'[h].claim = s.claim /\ session'[h].txn = s.txn
             /\ session'[h].income = s.income /\ session'[h].done = s.done
             /\ session'[h].whole = s.whole /\ session'[h].method = s.method
  <2>1. s \in Working /\ s.at = "call"
    BY <1>3, SessionAt DEF CallGateway, Points, Typed
  <2>2. session'[h] = [s EXCEPT !.at = "commit"]
    BY <1>1, <1>3 DEF CallGateway
  <2> QED BY <2>1, <2>2 DEF Working
<1>4. ASSUME CommitRefund(h)
      PROVE  /\ s.at = "commit" /\ session'[h].at = "write"
             /\ session'[h].claim = s.claim /\ session'[h].txn = s.txn
             /\ session'[h].done = IF s.method = "ifpay" THEN TRUE ELSE s.done
  <2>1. s \in Working /\ s.at = "commit"
    BY <1>4, SessionAt DEF CommitRefund, Points, Typed
  <2>2. CASE s.method = "ifpay"
    <3>1. session'[h] =
            [s EXCEPT !.at = "write", !.amount = 0, !.income = NoIncome, !.whole = FALSE,
                      !.done = TRUE]
      BY <1>1, <1>4, <2>2 DEF CommitRefund
    <3> QED BY <2>1, <2>2, <3>1 DEF Working
  <2>3. CASE s.method # "ifpay"
    <3>1. session'[h] = [s EXCEPT !.at = "write", !.amount = 0, !.income = NoIncome, !.whole = FALSE]
      BY <1>1, <1>4, <2>3 DEF CommitRefund
    <3> QED BY <2>1, <2>3, <3>1 DEF Working
  <2> QED BY <2>2, <2>3
<1>5. ASSUME NEW x \in Refunds, SuccessNotice(h, x)
      PROVE  /\ session[h] = Idle
             /\ session'[h].at = "notice" /\ session'[h].txn = x
             /\ session'[h].income = order[OrderOf(x)].income
             /\ session'[h].whole = Whole(OrderOf(x))
  <2>1. session'[h] = [at |-> "notice", txn |-> x, income |-> order[OrderOf(x)].income,
         whole |-> Whole(OrderOf(x))]
    BY <1>1, <1>5 DEF SuccessNotice
  <2> QED BY <1>5, <2>1 DEF SuccessNotice
<1>6. ASSUME WriteClaim(h) \/ CompleteRefund(h) \/ Crash(h) PROVE session'[h] = Idle
  BY <1>1, <1>6 DEF WriteClaim, CompleteRefund, Crash
<1> QED BY <1>2, <1>3, <1>4, <1>5, <1>6

\* A step is one of a handler, which leaves the other sessions alone, or leaves them all.
LEMMA SessionOf ==
  ASSUME Typed, [Next]_vars
  PROVE  \/ session' = session
         \/ \E h \in Handlers : Acts(h) /\ \A g \in Handlers \ {h} : session'[g] = session[g]
<1>1. ASSUME NEW h \in Handlers, NEW t, Step(h, t), NEW g \in Handlers \ {h}
      PROVE  session'[g] = session[g]
  BY <1>1 DEF Step, Typed, TypeOK
<1>2. ASSUME NEW h \in Handlers, Acts(h), NEW g \in Handlers \ {h}
      PROVE  session'[g] = session[g]
  <2>1. \E t : Step(h, t)
    <3>1. ASSUME NEW c \in Claims, UpdateStatus(h, c) PROVE \E t : Step(h, t)
      BY <3>1, SMT DEF UpdateStatus
    <3> QED
      BY <1>2, <3>1 DEF Acts, SuccessNotice, RefundOrder, CallGateway, CommitRefund, WriteClaim,
                        CompleteRefund, Crash
  <2> QED BY <1>1, <1>2, <2>1
<1>3. ASSUME NEW p \in Payments, PayOrder(p) \/ PaymentNotice(p) PROVE session' = session
  BY <1>3 DEF PayOrder, PaymentNotice
<1>4. ASSUME NEW o \in Orders,
             Accept(o) \/ Dispatch(o) \/ Pickup(o) \/ Deliver(o) \/ SettleRiderIncome(o)
      PROVE  session' = session
  BY <1>4 DEF Accept, Dispatch, Pickup, Progress, Deliver, SettleRiderIncome
<1>5. ASSUME NEW c \in Claims, CreateClaim(c) PROVE session' = session
  BY <1>5 DEF CreateClaim
<1>6. ASSUME NEW x \in Refunds, GatewayEnds(x) \/ FailureNotice(x) PROVE session' = session
  BY <1>6 DEF GatewayEnds, FailureNotice
<1>7. Next => session' = session \/ \E h \in Handlers : Acts(h)
  BY <1>3, <1>4, <1>5, <1>6 DEF Next, Acts
<1> QED BY <1>2, <1>7 DEF vars

\* The row of an order a step writes.
LEMMA OrderMoves ==
  ASSUME Typed, Next
  PROVE  \/ order' = order
         \/ \E q \in Orders : \E method : Paid(q, method)
         \/ \E q \in Orders : Accept(q) \/ Dispatch(q) \/ Pickup(q)
         \/ \E q \in Orders : Deliver(q)
         \/ \E q \in Orders : \E x, n, seen : EndRefund(q, x, n, seen)
         \/ \E q \in Orders : \E x :
              order' = [order EXCEPT ![q] = [order[q] EXCEPT !.pay = "refunding", !.txn = x]]
         \/ \E q \in Orders : order' = [order EXCEPT ![q] = PaidAgain(q)]
<1>1. ASSUME NEW p \in Payments, PayOrder(p) \/ PaymentNotice(p)
      PROVE  order' = order \/ \E q \in Orders : \E method : Paid(q, method)
  BY <1>1, ConstantsOK DEF PayOrder, PaymentNotice
<1>2. ASSUME NEW h \in Handlers, CommitRefund(h)
      PROVE  \/ \E q \in Orders : \E x, n, seen : EndRefund(q, x, n, seen)
             \/ \E q \in Orders : \E x :
                  order' = [order EXCEPT ![q] = [order[q] EXCEPT !.pay = "refunding", !.txn = x]]
  <2>1. Concerns[session[h].claim] \in Orders
    BY <1>2, SessionAt DEF CommitRefund, Points, Typed
  <2> QED BY <1>2, <2>1 DEF CommitRefund
<1>3. ASSUME NEW h \in Handlers, CompleteRefund(h)
      PROVE  \E q \in Orders : \E x, n, seen : EndRefund(q, x, n, seen)
  <2>1. OrderOf(session[h].txn) \in Orders
    BY <1>3, SessionAt, StoredRefund DEF CompleteRefund, Noticed, Typed, Holds
  <2> QED BY <1>3, <2>1 DEF CompleteRefund
<1>4. ASSUME NEW x \in Refunds, FailureNotice(x)
      PROVE  \E q \in Orders : order' = [order EXCEPT ![q] = PaidAgain(q)]
  <2>1. OrderOf(x) \in Orders
    BY <1>4, StoredRefund DEF FailureNotice, Announced, Typed
  <2> QED BY <1>4, <2>1 DEF FailureNotice
<1>5. ASSUME NEW h \in Handlers,
             \/ \E c \in Claims : UpdateStatus(h, c)
             \/ \E x \in Refunds : SuccessNotice(h, x)
             \/ RefundOrder(h) \/ CallGateway(h) \/ WriteClaim(h) \/ Crash(h)
      PROVE  order' = order
  BY <1>5 DEF UpdateStatus, SuccessNotice, RefundOrder, CallGateway, WriteClaim, Crash
<1>6. ASSUME NEW q \in Orders, SettleRiderIncome(q) PROVE order' = order
  BY <1>6 DEF SettleRiderIncome
<1>7. ASSUME NEW c \in Claims, CreateClaim(c) PROVE order' = order
  BY <1>7 DEF CreateClaim
<1>8. ASSUME NEW x \in Refunds, GatewayEnds(x) PROVE order' = order
  BY <1>8 DEF GatewayEnds
<1> QED BY <1>1, <1>2, <1>3, <1>4, <1>5, <1>6, <1>7, <1>8 DEF Next

\* A delivered order stays so.
LEMMA CompletedKept ==
  ASSUME Typed, [Next]_vars, NEW o \in Orders, order[o].status = "completed"
  PROVE  order'[o].status = "completed"
<1>1. ASSUME NEW q \in Orders, NEW row, order' = [order EXCEPT ![q] = row],
             row.status \in {order[q].status, "completed"}
      PROVE  order'[o].status = "completed"
  BY <1>1 DEF Typed, TypeOK
<1>2. \A q \in Orders : order[q] \in OrderRow
  BY OrderRows DEF Typed
<1>3. ASSUME NEW q \in Orders, NEW method, Paid(q, method) PROVE order'[o].status = "completed"
  <2>1. [order[q] EXCEPT !.pay = "paid", !.method = method].status = order[q].status
    BY <1>2 DEF OrderRow
  <2> QED BY <1>1, <1>3, <2>1 DEF Paid
<1>4. ASSUME NEW q \in Orders, Accept(q) \/ Dispatch(q) \/ Pickup(q)
      PROVE  order'[o].status = "completed"
  <2>1. PICK from \in {"pending", "accepted"}, to \in {"accepted", "delivering"} : Progress(q, from, to)
    BY <1>4 DEF Accept, Dispatch, Pickup
  <2>2. q # o
    BY <2>1 DEF Progress
  <2> QED BY <2>1, <2>2 DEF Progress, Typed, TypeOK
<1>5. ASSUME NEW q \in Orders, Deliver(q) PROVE order'[o].status = "completed"
  <2>1. PICK income : order' = [order EXCEPT ![q] =
                        [order[q] EXCEPT !.status = "completed", !.income = income]]
    BY <1>5 DEF Deliver
  <2>2. [order[q] EXCEPT !.status = "completed", !.income = income].status = "completed"
    BY <1>2 DEF OrderRow
  <2> QED BY <1>1, <2>1, <2>2
<1>6. ASSUME NEW q \in Orders, NEW x, NEW n, NEW seen, EndRefund(q, x, n, seen)
      PROVE  order'[o].status = "completed"
  <2> DEFINE row == [order[q] EXCEPT !.pay = "refunded", !.txn = x,
                                     !.income = ReversedIncome(q, n, seen)]
  <2>1. order' = [order EXCEPT ![q] = row]
    BY <1>6 DEF EndRefund
  <2>2. row.status = order[q].status
    BY <1>2 DEF OrderRow
  <2> HIDE DEF row
  <2> QED BY <1>1, <2>1, <2>2
<1>7. ASSUME NEW q \in Orders, NEW x,
             order' = [order EXCEPT ![q] = [order[q] EXCEPT !.pay = "refunding", !.txn = x]]
      PROVE  order'[o].status = "completed"
  <2>1. [order[q] EXCEPT !.pay = "refunding", !.txn = x].status = order[q].status
    BY <1>2 DEF OrderRow
  <2> QED BY <1>1, <1>7, <2>1
<1>8. ASSUME NEW q \in Orders, order' = [order EXCEPT ![q] = PaidAgain(q)]
      PROVE  order'[o].status = "completed"
  <2>1. PaidAgain(q).status = order[q].status
    BY <1>2 DEF OrderRow, PaidAgain
  <2> QED BY <1>1, <1>8, <2>1
<1> QED BY <1>3, <1>4, <1>5, <1>6, <1>7, <1>8, OrderMoves DEF vars

\* The steps that touch the payments or the rider's wallet.
LEMMA MoneyMoves ==
  ASSUME [Next]_vars
  PROVE  /\ \/ payment' = payment
            \/ \E p \in Payments : PayOrder(p) \/ PaymentNotice(p)
         /\ \/ rider' = rider
            \/ \E o \in Orders : Deliver(o) \/ SettleRiderIncome(o)
<1>1. ASSUME NEW p \in Payments, PayOrder(p) \/ PaymentNotice(p) PROVE rider' = rider
  BY <1>1 DEF PayOrder, PaymentNotice
<1>2. ASSUME NEW o \in Orders, Accept(o) \/ Dispatch(o) \/ Pickup(o)
      PROVE  payment' = payment /\ rider' = rider
  BY <1>2 DEF Accept, Dispatch, Pickup, Progress
<1>3. ASSUME NEW o \in Orders, Deliver(o) \/ SettleRiderIncome(o) PROVE payment' = payment
  BY <1>3 DEF Deliver, SettleRiderIncome
<1>4. ASSUME NEW h \in Handlers, Acts(h) PROVE payment' = payment /\ rider' = rider
  BY <1>4 DEF Acts, UpdateStatus, SuccessNotice, RefundOrder, CallGateway, CommitRefund,
              WriteClaim, CompleteRefund, Crash
<1>5. ASSUME NEW c \in Claims, CreateClaim(c) PROVE payment' = payment /\ rider' = rider
  BY <1>5 DEF CreateClaim
<1>6. ASSUME NEW x \in Refunds, GatewayEnds(x) \/ FailureNotice(x)
      PROVE  payment' = payment /\ rider' = rider
  BY <1>6 DEF GatewayEnds, FailureNotice
<1>7. CASE UNCHANGED vars
  BY <1>7 DEF vars
<1>8. CASE Next
  BY <1>1, <1>2, <1>3, <1>4, <1>5, <1>6, <1>8 DEF Next, Acts
<1> QED BY <1>7, <1>8

\* A handler at the notice of a refund was there before, or has just begun it.
LEMMA NoticeMoves ==
  ASSUME Typed, [Next]_vars, NEW h \in Handlers, session'[h].at = "notice"
  PROVE  \/ session'[h] = session[h]
         \/ \E x \in Refunds : SuccessNotice(h, x) /\ session'[h].txn = x
<1>1. CASE session' = session
  BY <1>1
<1>2. ASSUME NEW g \in Handlers, Acts(g), \A k \in Handlers \ {g} : session'[k] = session[k]
      PROVE  \/ session'[h] = session[h]
             \/ \E x \in Refunds : SuccessNotice(h, x) /\ session'[h].txn = x
  <2>1. CASE g # h
    BY <1>2, <2>1
  <2>2. CASE g = h
    <3>1. Idle.at # "notice"
      BY DEF Idle
    <3>2. ~ \E c \in Claims : UpdateStatus(h, c)
      BY NewDecision
    <3>3. ~ (RefundOrder(h) \/ CallGateway(h) \/ CommitRefund(h) \/ WriteClaim(h)
             \/ CompleteRefund(h) \/ Crash(h))
      BY <3>1, NextPoint
    <3> QED BY <1>2, <2>2, <3>2, <3>3, NextPoint DEF Acts
  <2> QED BY <2>1, <2>2
<1> QED BY <1>1, <1>2, SessionOf

LEMMA SourcesStep == Typed /\ Fresh /\ Sources /\ [Next]_vars => Sources'
<1> SUFFICES ASSUME Typed, Fresh, Sources, [Next]_vars PROVE Sources' OBVIOUS
<1>1. ASSUME NEW p \in Payments, payment'[p] = "pending" PROVE Method[p] = "gateway"
  <2>1. CASE payment' = payment
    BY <1>1, <2>1 DEF Sources
  <2>2. ASSUME NEW q \in Payments, PayOrder(q) PROVE Method[p] = "gateway"
    <3>1. Method[p] \in {"ifpay", "gateway"}
      BY ConstantsOK
    <3> QED BY <1>1, <2>2, <3>1 DEF PayOrder, Sources, Typed, TypeOK
  <2>3. ASSUME NEW q \in Payments, PaymentNotice(q) PROVE Method[p] = "gateway"
    BY <1>1, <2>3 DEF PaymentNotice, Sources, Typed, TypeOK
  <2> QED BY <2>1, <2>2, <2>3, MoneyMoves
<1>2. ASSUME NEW o \in Orders, rider'.income[o] # "none" PROVE order'[o].status = "completed"
  <2>1. CASE rider.income[o] # "none"
    BY <2>1, CompletedKept DEF Sources
  <2>2. ASSUME NEW q \in Orders, Deliver(q), rider.income[o] = "none"
        PROVE  order'[o].status = "completed"
    <3>1. q = o
      BY <1>2, <2>2 DEF Deliver, Typed, TypeOK
    <3>2. PICK income : order' = [order EXCEPT ![o] =
                          [order[o] EXCEPT !.status = "completed", !.income = income]]
      BY <2>2, <3>1 DEF Deliver
    <3>3. [order[o] EXCEPT !.status = "completed", !.income = income].status = "completed"
      BY OrderRows DEF Typed, OrderRow
    <3> QED BY <3>2, <3>3 DEF Typed, TypeOK
  <2>3. ASSUME NEW q \in Orders, SettleRiderIncome(q) PROVE rider.income[o] # "none"
    BY <1>2, <2>3 DEF SettleRiderIncome, IncomeDue, Typed, TypeOK
  <2> QED BY <1>2, <2>1, <2>2, <2>3, MoneyMoves
<1>3. ASSUME NEW x \in Refunds, refund'[x].status = "refund_pending"
      PROVE  refund'[x].method = "gateway"
  <2>1. CASE refund[x].status # "none"
    <3>1. refund'[x].method = refund[x].method
      BY <2>1, StableRefund
    <3>2. refund[x].status = "refund_pending"
      <4>1. CASE refund'[x] = refund[x]
        BY <1>3, <4>1
      <4>2. ASSUME NEW h \in Handlers, CommitRefund(h) PROVE refund'[x] = refund[x]
        BY <2>1, <4>2, CommittedRow DEF Typed, TypeOK
      <4>3. ASSUME NEW y \in Refunds, NEW status \in {"success", "failed"},
                   refund' = [refund EXCEPT ![y].status = status]
            PROVE  refund'[x] = refund[x]
        <5>1. x = y => refund'[x] = [refund[x] EXCEPT !.status = status]
          BY <4>3 DEF Typed, TypeOK
        <5>2. [refund[x] EXCEPT !.status = status].status = status
          BY DEF Typed, TypeOK, RefundRow
        <5> QED BY <1>3, <4>3, <5>1, <5>2 DEF Typed, TypeOK
      <4>4. ASSUME NEW h \in Handlers, CompleteRefund(h) PROVE refund'[x] = refund[x]
        BY <4>3, <4>4, SessionAt DEF CompleteRefund, Noticed, Typed
      <4>5. ASSUME NEW y \in Refunds, FailureNotice(y) PROVE refund'[x] = refund[x]
        BY <4>3, <4>5 DEF FailureNotice
      <4>6. refund' = refund => refund'[x] = refund[x]
        OBVIOUS
      <4> QED BY <4>1, <4>2, <4>4, <4>5, <4>6, RefundMoves DEF vars
    <3> QED BY <3>1, <3>2 DEF Sources
  <2>2. ASSUME NEW h \in Handlers, CommitRefund(h), refund[x].status = "none"
        PROVE  refund'[x].method = "gateway"
    <3>1. x = session[h].txn
      BY <1>3, <2>2, CommittedRow DEF Typed, TypeOK
    <3>2. /\ refund'[x].method = session[h].method
          /\ refund'[x].status =
               IF session[h].method = "ifpay" THEN "success" ELSE "refund_pending"
      <4> DEFINE row == [status |-> IF session[h].method = "ifpay" THEN "success"
                                    ELSE "refund_pending",
                         claim |-> session[h].claim, amount |-> session[h].amount,
                         method |-> session[h].method]
      <4>1. refund' = [refund EXCEPT ![x] = row]
        BY <2>2, <3>1, CommittedRow
      <4>2. refund'[x] = row
        BY <4>1 DEF Typed, TypeOK
      <4> QED BY <4>2
    <3>3. session[h].method \in {"ifpay", "gateway"}
      BY <2>2, CommittedRow DEF Working
    <3> QED BY <1>3, <3>2, <3>3
  <2>3. CASE refund' = refund
    BY <1>3, <2>3 DEF Sources
  <2>4. ASSUME NEW y \in Refunds, NEW status, refund' = [refund EXCEPT ![y].status = status],
               refund[y].status # "none"
        PROVE  refund[x].status # "none"
    BY <1>3, <2>4 DEF Typed, TypeOK
  <2>5. ASSUME NEW h \in Handlers, CompleteRefund(h) PROVE refund[x].status # "none"
    BY <2>4, <2>5, SessionAt DEF CompleteRefund, Noticed, Typed, Holds
  <2>6. ASSUME NEW y \in Refunds, FailureNotice(y) PROVE refund[x].status # "none"
    BY <2>4, <2>6 DEF FailureNotice, Announced
  <2> QED BY <2>1, <2>2, <2>3, <2>5, <2>6, RefundMoves DEF vars
<1>4. ASSUME NEW h \in Handlers, session'[h].at = "notice"
      PROVE  refund'[session'[h].txn].method = "gateway"
  <2>1. CASE session'[h] = session[h]
    <3>1. session[h].txn \in Refunds /\ refund[session[h].txn].status # "none"
          /\ refund[session[h].txn].method = "gateway"
      BY <1>4, <2>1, SessionAt DEF Noticed, Typed, Holds, Sources
    <3> QED BY <2>1, <3>1, StableRefund
  <2>2. ASSUME NEW x \in Refunds, SuccessNotice(h, x), session'[h].txn = x
        PROVE  refund'[session'[h].txn].method = "gateway"
    BY <2>2 DEF SuccessNotice, Announced, Sources
  <2> QED BY <1>4, <2>1, <2>2, NoticeMoves
<1> QED BY <1>1, <1>2, <1>3, <1>4 DEF Sources

\* Payment p is taken from the wallet of buyer b.
Debits(p, b) ==
  /\ payment[p] # "success" /\ Method[p] = "ifpay" /\ Buyer[PaysFor[p]] = b
  /\ balance[b] >= Prices[p] /\ balance' = [balance EXCEPT ![b] = @ - Prices[p]]
  /\ payment' = [payment EXCEPT ![p] = "success"] /\ refund' = refund
\* Refund x is given back to the wallet of buyer b.
Credits(x, b) ==
  /\ refund[x].status = "none" /\ Amounts'[x] \in Nat
  /\ balance' = [balance EXCEPT ![b] = @ + Amounts'[x]]
  /\ refund'[x].status = "success" /\ refund'[x].method = "ifpay"
  /\ Buyer[Concerns[refund'[x].claim]] = b
  /\ \A y \in Refunds \ {x} : refund'[y] = refund[y]
  /\ payment' = payment
SamePurse ==
  /\ balance' = balance
  /\ \A p \in Payments : Method[p] = "ifpay" =>
       (payment'[p] = "success" <=> payment[p] = "success")
  /\ \A x \in Refunds :
       (refund'[x].status = "success" /\ refund'[x].method = "ifpay")
         <=> (refund[x].status = "success" /\ refund[x].method = "ifpay")

\* A step moves money of one wallet by one transaction, or moves none.
LEMMA PurseMoves ==
  ASSUME Typed, Fresh, Sources, [Next]_vars
  PROVE  \/ SamePurse
         \/ \E p \in Payments, b \in Users : Debits(p, b)
         \/ \E x \in Refunds, b \in Users : Credits(x, b)
<1>1. ASSUME UNCHANGED <<balance, payment, refund>> PROVE SamePurse
  BY <1>1 DEF SamePurse
<1>2. ASSUME NEW p \in Payments, PayOrder(p)
      PROVE  SamePurse \/ \E b \in Users : Debits(p, b)
  <2>1. PaysFor[p] \in Orders /\ Buyer[PaysFor[p]] \in Users /\ Prices[p] = Price[PaysFor[p]]
    BY ConstantsOK DEF Prices
  <2>2. CASE Method[p] = "ifpay"
    BY <1>2, <2>1, <2>2 DEF PayOrder, Debits
  <2>3. CASE Method[p] # "ifpay"
    BY <1>2, <2>3 DEF PayOrder, SamePurse, Typed, TypeOK
  <2> QED BY <2>2, <2>3
<1>3. ASSUME NEW p \in Payments, PaymentNotice(p) PROVE SamePurse
  <2>1. Method[p] = "gateway"
    BY <1>3 DEF PaymentNotice, Sources
  <2> QED BY <1>3, <2>1 DEF PaymentNotice, SamePurse, Typed, TypeOK
<1>4. ASSUME NEW o \in Orders,
             Accept(o) \/ Dispatch(o) \/ Pickup(o) \/ Deliver(o) \/ SettleRiderIncome(o)
      PROVE  SamePurse
  BY <1>1, <1>4 DEF Accept, Dispatch, Pickup, Progress, Deliver, SettleRiderIncome
<1>5. ASSUME NEW h \in Handlers,
             \/ \E c \in Claims : UpdateStatus(h, c)
             \/ \E x \in Refunds : SuccessNotice(h, x)
             \/ RefundOrder(h) \/ CallGateway(h) \/ WriteClaim(h) \/ Crash(h)
      PROVE  SamePurse
  BY <1>1, <1>5 DEF UpdateStatus, SuccessNotice, RefundOrder, CallGateway, WriteClaim, Crash
<1>6. ASSUME NEW c \in Claims, CreateClaim(c) PROVE SamePurse
  BY <1>1, <1>6 DEF CreateClaim
<1>7. ASSUME NEW x \in Refunds, GatewayEnds(x) PROVE SamePurse
  BY <1>1, <1>7 DEF GatewayEnds
<1>8. ASSUME NEW x \in Refunds, refund[x].method = "gateway", refund[x].status # "none",
             NEW status, refund' = [refund EXCEPT ![x].status = status], balance' = balance,
             payment' = payment
      PROVE  SamePurse
  <2>1. refund'[x].method = "gateway" /\ \A y \in Refunds \ {x} : refund'[y] = refund[y]
    <3>1. refund'[x] = [refund[x] EXCEPT !.status = status]
      BY <1>8 DEF Typed, TypeOK
    <3>2. [refund[x] EXCEPT !.status = status].method = refund[x].method
      BY <1>8 DEF Typed, TypeOK, RefundRow
    <3> QED BY <1>8, <3>1, <3>2 DEF Typed, TypeOK
  <2> QED BY <1>8, <2>1 DEF SamePurse
<1>9. ASSUME NEW x \in Refunds, FailureNotice(x) PROVE SamePurse
  BY <1>8, <1>9 DEF FailureNotice, Announced, Sources
<1>10. ASSUME NEW h \in Handlers, CompleteRefund(h) PROVE SamePurse
  <2>1. session[h].txn \in Refunds /\ refund[session[h].txn].status # "none"
        /\ refund[session[h].txn].method = "gateway"
    BY <1>10, SessionAt DEF CompleteRefund, Noticed, Typed, Holds, Sources
  <2> QED BY <1>8, <1>10, <2>1 DEF CompleteRefund
<1>11. ASSUME NEW h \in Handlers, CommitRefund(h)
       PROVE  SamePurse \/ \E x \in Refunds, b \in Users : Credits(x, b)
  <2> DEFINE s == session[h]
             o == Concerns[s.claim]
             row == [status |-> IF s.method = "ifpay" THEN "success" ELSE "refund_pending",
                     claim |-> s.claim, amount |-> s.amount, method |-> s.method]
  <2>1. /\ s \in Working /\ s.txn \in Refunds /\ refund[s.txn].status = "none" /\ o \in Orders
        /\ refund' = [refund EXCEPT ![s.txn] = row]
    BY <1>11, CommittedRow
  <2>2. refund'[s.txn] = row /\ \A y \in Refunds \ {s.txn} : refund'[y] = refund[y]
    BY <2>1 DEF Typed, TypeOK
  <2>3. /\ row.status = (IF s.method = "ifpay" THEN "success" ELSE "refund_pending")
        /\ row.claim = s.claim /\ row.amount = s.amount /\ row.method = s.method
        /\ s.amount \in Nat /\ Buyer[o] \in Users
    BY <2>1, ConstantsOK DEF Working
  <2>4. payment' = payment
    BY <1>11 DEF CommitRefund
  <2> HIDE DEF row
  <2>5. CASE s.method = "ifpay"
    <3>1. balance' = [balance EXCEPT ![Buyer[o]] = @ + s.amount]
      BY <1>11, <2>5 DEF CommitRefund
    <3>2. Amounts'[s.txn] = s.amount
      BY <2>1, <2>2, <2>3 DEF Amounts
    <3>3. Credits(s.txn, Buyer[o])
      BY <2>1, <2>2, <2>3, <2>4, <2>5, <3>1, <3>2 DEF Credits
    <3> QED BY <2>1, <2>3, <3>3
  <2>6. CASE s.method # "ifpay"
    <3>1. balance' = balance
      BY <1>11, <2>6 DEF CommitRefund
    <3> QED BY <2>1, <2>2, <2>3, <2>4, <2>6, <3>1 DEF SamePurse
  <2> QED BY <2>5, <2>6
<1>12. CASE UNCHANGED vars
  BY <1>1, <1>12 DEF vars
<1>13. CASE Next
  BY <1>2, <1>3, <1>4, <1>5, <1>6, <1>7, <1>9, <1>10, <1>11, <1>13 DEF Next
<1> QED BY <1>12, <1>13

\* What is said of the wallet of buyer u, with its numbers in a step.
LEMMA BuyerStep == Typed /\ Fresh /\ Sources /\ BuyerSums /\ [Next]_vars => BuyerSums'
<1> SUFFICES ASSUME Typed, Fresh, Sources, BuyerSums, [Next]_vars PROVE BuyerSums'
  OBVIOUS
<1> SUFFICES ASSUME NEW u \in Users
             PROVE  /\ IsFiniteSet(Spent(u)') /\ IsFiniteSet(Returned(u)')
                    /\ balance'[u] + SumOver(Prices, Spent(u)')
                         = Deposit[u] + SumOver(Amounts', Returned(u)')
  BY DEF BuyerSums, Prices
<1>1. /\ IsFiniteSet(Spent(u)) /\ IsFiniteSet(Returned(u))
      /\ balance[u] + SumOver(Prices, Spent(u)) = Deposit[u] + SumOver(Amounts, Returned(u))
  BY DEF BuyerSums
<1>2. Spent(u) \subseteq Payments /\ Returned(u) \subseteq Refunds
  BY DEF Spent, Returned
<1>3. \A p \in Payments : Prices[p] \in Nat
  BY ConstantsOK DEF Prices
<1>4. \A x \in Returned(u) : Amounts[x] \in Nat /\ Amounts'[x] = Amounts[x]
  BY StoredRefund, StableRefund DEF Amounts, Returned, Typed
<1>5. SumOver(Amounts', Returned(u)) = SumOver(Amounts, Returned(u))
  BY <1>1, <1>4, SumSame
<1>6. /\ SumOver(Prices, Spent(u)) \in Nat /\ SumOver(Amounts, Returned(u)) \in Nat
      /\ Deposit[u] \in Nat
  BY <1>1, <1>2, <1>3, <1>4, SumType, ConstantsOK
<1>7. balance \in [Users -> Nat]
  BY DEF Typed, TypeOK
<1>8. \A y \in Refunds : refund[y].status # "none" => refund'[y].claim = refund[y].claim
  BY StableRefund
<1>9. CASE SamePurse
  <2>1. Spent(u)' = Spent(u)
    BY <1>9 DEF SamePurse, Spent
  <2>2. Returned(u)' = Returned(u)
    BY <1>8, <1>9 DEF SamePurse, Returned, OrderOf
  <2>3. balance' = balance
    BY <1>9 DEF SamePurse
  <2> QED BY <1>1, <1>5, <2>1, <2>2, <2>3
<1>10. ASSUME NEW p \in Payments, NEW b \in Users, Debits(p, b)
       PROVE  /\ IsFiniteSet(Spent(u)') /\ IsFiniteSet(Returned(u)')
              /\ balance'[u] + SumOver(Prices, Spent(u)')
                   = Deposit[u] + SumOver(Amounts', Returned(u)')
  <2>1. Returned(u)' = Returned(u)
    BY <1>10 DEF Debits, Returned, OrderOf
  <2>2. p \notin Spent(u) /\ Spent(u)' = IF u = b THEN Spent(u) \cup {p} ELSE Spent(u)
    BY <1>10 DEF Debits, Spent, Typed, TypeOK
  <2>3. CASE u = b
    <3>1. SumOver(Prices, Spent(u)') = Prices[p] + SumOver(Prices, Spent(u))
      BY <1>1, <1>2, <1>3, <2>2, <2>3, SumAdd
    <3>2. balance'[u] = balance[u] - Prices[p] /\ balance[u] \in Nat
      BY <1>7, <1>10, <2>3 DEF Debits
    <3>3. IsFiniteSet(Spent(u)')
      BY <1>1, <2>2, <2>3, FS_AddElement
    <3> QED BY <1>1, <1>3, <1>5, <1>6, <2>1, <3>1, <3>2, <3>3
  <2>4. CASE u # b
    <3>1. balance'[u] = balance[u]
      BY <1>7, <1>10, <2>4 DEF Debits
    <3> QED BY <1>1, <1>5, <2>1, <2>2, <2>4, <3>1
  <2> QED BY <2>3, <2>4
<1>11. ASSUME NEW x \in Refunds, NEW b \in Users, Credits(x, b)
       PROVE  /\ IsFiniteSet(Spent(u)') /\ IsFiniteSet(Returned(u)')
              /\ balance'[u] + SumOver(Prices, Spent(u)')
                   = Deposit[u] + SumOver(Amounts', Returned(u)')
  <2>1. Spent(u)' = Spent(u)
    BY <1>11 DEF Credits, Spent
  <2>2. x \notin Returned(u)
    BY <1>11 DEF Credits, Returned
  <2>3. Returned(u)' = IF u = b THEN Returned(u) \cup {x} ELSE Returned(u)
    <3>1. ASSUME NEW y \in Refunds, y # x PROVE y \in Returned(u)' <=> y \in Returned(u)
      BY <1>11, <3>1 DEF Credits, Returned, OrderOf
    <3>2. x \in Returned(u)' <=> u = b
      BY <1>11 DEF Credits, Returned, OrderOf
    <3>3. Returned(u)' \subseteq Refunds
      BY DEF Returned
    <3> QED BY <1>2, <2>2, <3>1, <3>2, <3>3
  <2>4. CASE u = b
    <3>1. \A y \in Returned(u) \cup {x} : Amounts'[y] \in Nat
      BY <1>4, <1>11 DEF Credits
    <3>2. SumOver(Amounts', Returned(u)') = Amounts'[x] + SumOver(Amounts', Returned(u))
      BY <1>1, <2>2, <2>3, <2>4, <3>1, SumAdd
    <3>3. balance'[u] = balance[u] + Amounts'[x] /\ balance[u] \in Nat /\ Amounts'[x] \in Nat
      BY <1>7, <1>11, <2>4 DEF Credits
    <3>4. IsFiniteSet(Returned(u)')
      BY <1>1, <2>3, <2>4, FS_AddElement
    <3> QED BY <1>1, <1>5, <1>6, <2>1, <3>2, <3>3, <3>4
  <2>5. CASE u # b
    <3>1. balance'[u] = balance[u]
      BY <1>7, <1>11, <2>5 DEF Credits
    <3> QED BY <1>1, <1>5, <2>1, <2>3, <2>5, <3>1
  <2> QED BY <2>4, <2>5
<1> QED BY <1>9, <1>10, <1>11, PurseMoves

LEMMA RiderStep == Typed /\ Sources /\ RiderSums /\ [Next]_vars => RiderSums'
<1> SUFFICES ASSUME Typed, Sources, RiderSums, [Next]_vars PROVE RiderSums'
  OBVIOUS
<1> DEFINE P == Earned("pending")
           S == Earned("success")
<1>1. /\ IsFiniteSet(P) /\ IsFiniteSet(S)
      /\ rider.frozen = SumOver(Fee, P) /\ rider.balance = SumOver(Fee, S)
  BY DEF RiderSums
<1>2. P \subseteq Orders /\ S \subseteq Orders /\ \A o \in Orders : Fee[o] \in Nat
  BY ConstantsOK DEF Earned
<1>3. SumOver(Fee, P) \in Nat /\ SumOver(Fee, S) \in Nat
  BY <1>1, <1>2, SumType
<1>4. rider.income \in [Orders -> {"none", "pending", "success"}]
  BY DEF Typed, TypeOK
<1>5. ASSUME IsFiniteSet(P'), IsFiniteSet(S'),
             rider'.frozen = SumOver(Fee, P'), rider'.balance = SumOver(Fee, S')
      PROVE  RiderSums'
  BY <1>5 DEF RiderSums
<1>6. CASE rider' = rider
  BY <1>1, <1>5, <1>6 DEF Earned
<1>7. ASSUME NEW o \in Orders, Deliver(o) PROVE RiderSums'
  <2>1. rider.income[o] = "none"
    BY <1>4, <1>7 DEF Deliver, Sources
  <2>2. /\ rider'.income = [rider.income EXCEPT ![o] = "pending"]
        /\ rider'.frozen = rider.frozen + Fee[o] /\ rider'.balance = rider.balance
    BY <1>7 DEF Deliver
  <2>3. o \notin P /\ P' = P \cup {o} /\ S' = S
    BY <1>4, <2>1, <2>2 DEF Earned
  <2>4. SumOver(Fee, P') = Fee[o] + SumOver(Fee, P)
    BY <1>1, <1>2, <2>3, SumAdd
  <2>5. IsFiniteSet(P')
    BY <1>1, <2>3, FS_AddElement
  <2>6. rider'.frozen = SumOver(Fee, P')
    BY <1>1, <1>2, <1>3, <2>2, <2>4
  <2> HIDE DEF P, S
  <2> QED BY <1>1, <1>5, <2>2, <2>3, <2>5, <2>6
<1>8. ASSUME NEW o \in Orders, SettleRiderIncome(o) PROVE RiderSums'
  <2>1. rider.income[o] = "pending"
    BY <1>8 DEF SettleRiderIncome, IncomeDue
  <2>2. /\ rider'.income = [rider.income EXCEPT ![o] = "success"]
        /\ rider'.frozen = rider.frozen - Fee[o] /\ rider'.balance = rider.balance + Fee[o]
    BY <1>8 DEF SettleRiderIncome
  <2>3. o \in P /\ o \notin S /\ P' = P \ {o} /\ S' = S \cup {o}
    BY <1>4, <2>1, <2>2 DEF Earned
  <2>4. SumOver(Fee, P) = Fee[o] + SumOver(Fee, P')
    BY <1>1, <1>2, <2>3, SumRemove
  <2>5. SumOver(Fee, S') = Fee[o] + SumOver(Fee, S)
    BY <1>1, <1>2, <2>3, SumAdd
  <2>6. IsFiniteSet(P') /\ IsFiniteSet(S')
    BY <1>1, <2>3, FS_AddElement, FS_RemoveElement
  <2>7. SumOver(Fee, P') \in Nat
    BY <1>2, <2>3, <2>6, SumType
  <2>8. rider'.frozen = SumOver(Fee, P') /\ rider'.balance = SumOver(Fee, S')
    BY <1>1, <1>2, <1>3, <2>2, <2>4, <2>5, <2>7
  <2> HIDE DEF P, S
  <2> QED BY <1>5, <2>6, <2>8
<1> QED BY <1>6, <1>7, <1>8, MoneyMoves

\* However payments, refunds, deliveries and settlements of income interleave, the wallet
\* of every buyer and that of the rider hold what their transactions say (PayOrder,
\* RefundOrder, createRiderIncomeFreezeTransaction, settleDueRiderIncomeTransactions).
THEOREM WalletsAddUp == Spec => []WalletsMatchJournal
BY TypedInit, TypedStep, FreshInit, FreshStep, JournalInit, SourcesStep, BuyerStep, RiderStep,
   JournalSums, PTL DEF Spec
-----------------------------------------------------------------------------
(* The income columns.                                                     *)

\* The order a session will end a refund of, and has read.
Treats(s, o) ==
  \/ s.at \in {"call", "commit"} /\ Concerns[s.claim] = o
  \/ s.at = "notice" /\ OrderOf(s.txn) = o

\* Only a delivered order has income or was split, and the columns of a split order are
\* what IncomeMatchesLedger says.
Columned(o) ==
  /\ order[o].status # "completed" => ledger[o].settled = Nothing /\ order[o].income = NoIncome
  /\ o \in zeroed => ledger[o].settled # Nothing
  /\ ledger[o].settled # Nothing =>
       IF o \in zeroed
       THEN order[o].income = NoIncome
       ELSE \A s \in Columns :
              order[o].income[s] = ledger[o].settled[s] - ledger[o].reversed[s]

\* A copy read with the split in its columns holds the whole split as long as nothing was
\* taken back; any other copy has no income, or is that of an order never to be split.
Recalls(s, o) ==
  IF s.whole
  THEN /\ ledger[o].settled # Nothing
       /\ ledger[o].reversed = Nothing =>
            \A k \in Columns : s.income[k] = ledger[o].settled[k]
  ELSE \/ s.income = NoIncome
       \/ order[o].status = "completed" /\ ledger[o].settled = Nothing

Remembered ==
  \A h \in Handlers, o \in Orders : Treats(session[h], o) => Recalls(session[h], o)
AllColumned == \A o \in Orders : Columned(o)

\* Handler h ends a refund of order o, from the income it read.
Reverses(h, o) ==
  /\ Treats(session[h], o) /\ session[h].at \in {"commit", "notice"}
  /\ \E x : \E n \in Nat : EndRefund(o, x, n, session[h].income)
  /\ Remember(o, session[h].whole)

SameIncome(o) ==
  /\ order'[o].income = order[o].income /\ ledger'[o] = ledger[o]
  /\ o \in zeroed' <=> o \in zeroed

\* The steps that change the income or the ledger of an order.
LEMMA IncomeMoves ==
  ASSUME Typed, [Next]_vars, NEW o \in Orders
  PROVE  SameIncome(o) \/ Deliver(o) \/ \E h \in Handlers : Reverses(h, o)
<1> DEFINE Same == SameIncome(o)
<1>1. \A q \in Orders : order[q] \in OrderRow
  BY OrderRows DEF Typed
<1>2. ASSUME NEW q \in Orders, NEW row, order' = [order EXCEPT ![q] = row],
             row.income = order[q].income, ledger' = ledger, zeroed' = zeroed
      PROVE  Same
  BY <1>2 DEF SameIncome, Typed, TypeOK
<1>3. ASSUME NEW p \in Payments, PayOrder(p) \/ PaymentNotice(p) PROVE Same
  <2>0. ledger' = ledger /\ zeroed' = zeroed
    BY <1>3 DEF PayOrder, PaymentNotice
  <2>1. CASE order' = order
    BY <2>0, <2>1 DEF SameIncome
  <2>2. ASSUME NEW method, Paid(PaysFor[p], method) PROVE Same
    <3> DEFINE row == [order[PaysFor[p]] EXCEPT !.pay = "paid", !.method = method]
    <3>1. PaysFor[p] \in Orders
      BY ConstantsOK
    <3>2. order' = [order EXCEPT ![PaysFor[p]] = row]
      BY <2>2 DEF Paid
    <3>3. row.income = order[PaysFor[p]].income
      BY <1>1, <3>1 DEF OrderRow
    <3> HIDE DEF row
    <3> QED BY <1>2, <2>0, <3>1, <3>2, <3>3
  <2> QED BY <1>3, <2>1, <2>2 DEF PayOrder, PaymentNotice
<1>4. ASSUME NEW q \in Orders, Accept(q) \/ Dispatch(q) \/ Pickup(q) PROVE Same
  <2>1. PICK to : /\ order' = [order EXCEPT ![q] = [order[q] EXCEPT !.status = to]]
                  /\ ledger' = ledger /\ zeroed' = zeroed
    BY <1>4 DEF Accept, Dispatch, Pickup, Progress
  <2>2. [order[q] EXCEPT !.status = to].income = order[q].income
    BY <1>1 DEF OrderRow
  <2> QED BY <1>2, <2>1, <2>2
<1>5. ASSUME NEW q \in Orders, Deliver(q) PROVE Same \/ Deliver(o)
  BY <1>5 DEF SameIncome, Deliver, Typed, TypeOK
<1>6. ASSUME NEW q \in Orders, NEW x, NEW n, NEW seen, EndRefund(q, x, n, seen),
             NEW whole, Remember(q, whole), q # o
      PROVE  Same
  BY <1>6 DEF SameIncome, EndRefund, Remember, Typed, TypeOK
<1>7. ASSUME NEW h \in Handlers, CommitRefund(h) PROVE Same \/ Reverses(h, o)
  <2> DEFINE s == session[h]
             q == Concerns[s.claim]
  <2>1. s \in Working /\ q \in Orders /\ s.at = "commit"
    BY <1>7, SessionAt DEF CommitRefund, Points, Typed
  <2>3. CASE s.method = "ifpay"
    <3>1. EndRefund(q, s.txn, s.amount, s.income) /\ Remember(q, s.whole) /\ s.amount \in Nat
      BY <1>7, <2>1, <2>3 DEF CommitRefund, Working
    <3>2. CASE q = o
      BY <2>1, <3>1, <3>2 DEF Reverses, Treats
    <3> HIDE DEF q
    <3> QED BY <1>6, <2>1, <3>1, <3>2
  <2>4. CASE s.method # "ifpay"
    <3> DEFINE row == [order[q] EXCEPT !.pay = "refunding", !.txn = s.txn]
    <3>1. order' = [order EXCEPT ![q] = row] /\ ledger' = ledger /\ zeroed' = zeroed
      BY <1>7, <2>4 DEF CommitRefund
    <3>2. row.income = order[q].income
      BY <1>1, <2>1 DEF OrderRow
    <3> HIDE DEF row, q
    <3> QED BY <1>2, <2>1, <3>1, <3>2
  <2> QED BY <2>3, <2>4
<1>8. ASSUME NEW h \in Handlers, CompleteRefund(h) PROVE Same \/ Reverses(h, o)
  <2> DEFINE s == session[h]
             q == OrderOf(s.txn)
  <2>0. s.at = "notice" /\ s.txn \in Refunds /\ refund[s.txn].status # "none"
    BY <1>8, SessionAt DEF CompleteRefund, Noticed, Typed, Holds
  <2>1. q \in Orders /\ refund[s.txn].amount \in Nat
    BY <2>0, StoredRefund DEF Typed
  <2>3. EndRefund(q, s.txn, refund[s.txn].amount, s.income) /\ Remember(q, s.whole)
    BY <1>8 DEF CompleteRefund
  <2>4. CASE q = o
    BY <2>0, <2>1, <2>3, <2>4 DEF Reverses, Treats
  <2> HIDE DEF q
  <2> QED BY <1>6, <2>1, <2>3, <2>4
<1>9. ASSUME NEW x \in Refunds, FailureNotice(x) PROVE Same
  <2> DEFINE q == OrderOf(x)
             row == PaidAgain(q)
  <2>1. q \in Orders
    BY <1>9, StoredRefund DEF FailureNotice, Announced, Typed
  <2>2. row.income = order[q].income
    BY <1>1, <2>1 DEF OrderRow, PaidAgain
  <2>3. order' = [order EXCEPT ![q] = row] /\ ledger' = ledger /\ zeroed' = zeroed
    BY <1>9 DEF FailureNotice
  <2> HIDE DEF q, row
  <2> QED BY <1>2, <2>1, <2>2, <2>3
<1>10. ASSUME NEW h \in Handlers,
              \/ \E c \in Claims : UpdateStatus(h, c)
              \/ \E x \in Refunds : SuccessNotice(h, x)
              \/ RefundOrder(h) \/ CallGateway(h) \/ WriteClaim(h) \/ Crash(h)
       PROVE  Same
  BY <1>10 DEF SameIncome, UpdateStatus, SuccessNotice, RefundOrder, CallGateway, WriteClaim, Crash
<1>11. ASSUME NEW q \in Orders, SettleRiderIncome(q) PROVE Same
  BY <1>11 DEF SameIncome, SettleRiderIncome
<1>12. ASSUME NEW c \in Claims, CreateClaim(c) PROVE Same
  BY <1>12 DEF SameIncome, CreateClaim
<1>13. ASSUME NEW x \in Refunds, GatewayEnds(x) PROVE Same
  BY <1>13 DEF SameIncome, GatewayEnds
<1>14. CASE UNCHANGED vars
  BY <1>14 DEF SameIncome, vars
<1>15. CASE Next
  <2> HIDE DEF Same
  <2>1. Same \/ Deliver(o) \/ \E h \in Handlers : Reverses(h, o)
    BY <1>3, <1>4, <1>5, <1>7, <1>8, <1>9, <1>10, <1>11, <1>12, <1>13, <1>15 DEF Next
  <2> QED BY <2>1 DEF Same
<1> QED BY <1>14, <1>15

LEMMA ColumnsInit == Init => AllColumned /\ Remembered
BY DEF Init, AllColumned, Columned, Remembered, Treats, Idle

\* A delivery finds an order without income.
LEMMA DeliveredColumns ==
  ASSUME Typed, LedgerMatchesSnapshot, NEW o \in Orders, Columned(o), Deliver(o)
  PROVE  Columned(o)'
<1> DEFINE income == IF SettlementDue(o) THEN [s \in Columns |-> Share[o][s]]
                     ELSE [order[o].income EXCEPT !["rider"] = Fee[o]]
<1>1. /\ order'[o].status = "completed" /\ order'[o].income = income /\ zeroed' = zeroed
  <2>1. [order[o] EXCEPT !.status = "completed", !.income = income].status = "completed"
        /\ [order[o] EXCEPT !.status = "completed", !.income = income].income = income
    BY OrderRows DEF Typed, OrderRow
  <2> QED BY <2>1 DEF Deliver, Typed, TypeOK
<1>2. /\ ledger[o].settled = Nothing /\ o \notin zeroed
      /\ \A s \in Subjects : ledger[o].reversed[s] = 0
  <2>1. ledger[o].settled = Nothing /\ o \notin zeroed
    BY DEF Deliver, Columned
  <2>2. \A s \in Subjects : ledger[o].reversed[s] \in Nat /\ ledger[o].reversed[s] <= ledger[o].settled[s]
    BY OrderRows DEF Typed, LedgerMatchesSnapshot
  <2> QED BY <2>1, <2>2 DEF Nothing
<1>3. Share[o] \in [Subjects -> Nat] /\ Columns \subseteq Subjects
  BY OrderRows DEF Typed, Columns, Subjects
<1>4. CASE SettlementDue(o)
  <2>1. ledger'[o] = [settled |-> [s \in Subjects |-> ledger[o].settled[s] + Share[o][s]],
                      reversed |-> ledger[o].reversed]
    BY <1>4 DEF Deliver, Typed, TypeOK
  <2>2. \A s \in Subjects : ledger'[o].settled[s] = Share[o][s] /\ ledger'[o].reversed[s] = 0
    BY <1>2, <1>3, <2>1 DEF Nothing
  <2>3. \A s \in Columns : order'[o].income[s] = Share[o][s]
    BY <1>1, <1>4
  <2>4. \A s \in Columns : order'[o].income[s] = ledger'[o].settled[s] - ledger'[o].reversed[s]
    BY <1>3, <2>2, <2>3
  <2> HIDE DEF income
  <2> QED BY <1>1, <1>2, <2>4 DEF Columned
<1>5. CASE ~SettlementDue(o)
  <2>1. ledger'[o] = ledger[o]
    BY <1>5 DEF Deliver, Typed, TypeOK
  <2> HIDE DEF income
  <2> QED BY <1>1, <1>2, <2>1 DEF Columned
<1> QED BY <1>4, <1>5

\* The end of a refund computes the columns from a copy of the order.
LEMMA ReversedColumns ==
  ASSUME Typed, LedgerMatchesSnapshot, [Next]_vars, NEW o \in Orders, Columned(o),
         NEW h \in Handlers, Recalls(session[h], o), Reverses(h, o)
  PROVE  Columned(o)'
<1> DEFINE s == session[h]
<1>0. PICK x : \E n \in Nat : EndRefund(o, x, n, s.income)
  BY DEF Reverses
<1>1. PICK n \in Nat : EndRefund(o, x, n, s.income)
  BY <1>0
<1>2. order'[o].income = ReversedIncome(o, n, s.income) /\ order'[o].status = order[o].status
  <2> DEFINE row == [order[o] EXCEPT !.pay = "refunded", !.txn = x,
                                     !.income = ReversedIncome(o, n, s.income)]
  <2>1. order'[o] = row
    BY <1>1 DEF EndRefund, Typed, TypeOK
  <2>2. row.income = ReversedIncome(o, n, s.income) /\ row.status = order[o].status
    BY OrderRows DEF Typed, OrderRow
  <2> HIDE DEF row
  <2> QED BY <2>1, <2>2
<1>3. ledger'[o] = ReversedLedger(o, n) /\ ledger'[o].settled = ledger[o].settled
  BY <1>1 DEF EndRefund, ReversedLedger, Typed, TypeOK
<1>4. Remember(o, s.whole) /\ zeroed \subseteq Orders
  BY DEF Reverses, Typed, TypeOK
<1>5. CASE ~(ReversalDue(o) /\ ledger[o].settled # Nothing)
  <2>1. zeroed' = zeroed /\ order'[o].income = order[o].income
    BY <1>2, <1>4, <1>5 DEF Remember, ReversedIncome
  <2>2. CASE ledger[o].settled # Nothing
    <3>1. ledger'[o] = ledger[o]
      BY <1>3, <1>5, <2>2 DEF ReversedLedger
    <3> QED BY <1>2, <2>1, <3>1 DEF Columned
  <2>3. CASE ledger[o].settled = Nothing
    <3>1. ledger'[o].settled = Nothing /\ o \notin zeroed' /\ order'[o].status = order[o].status
      <4>1. o \notin zeroed
        BY <2>3, Zenon DEF Columned
      <4> QED BY <1>2, <1>3, <2>1, <2>3, <4>1, Zenon
    <3>2. order[o].status # "completed" => order[o].income = NoIncome
      BY Zenon DEF Columned
    <3> QED BY <2>1, <3>1, <3>2, Zenon DEF Columned
  <2> QED BY <2>2, <2>3
<1>6. CASE ReversalDue(o) /\ ledger[o].settled # Nothing
  <2>1. ledger'[o].reversed = TakenBack(o, n)
    BY <1>3, <1>6, ReversedOnce DEF Typed
  <2>2. order'[o].income = [k \in Columns |-> Less(s.income[k], TakenBack(o, n)[k])]
    BY <1>2, <1>6 DEF ReversedIncome
  <2>3. \A k \in Columns : /\ TakenBack(o, n)[k] \in Nat /\ ledger[o].settled[k] \in Nat
                           /\ TakenBack(o, n)[k] <= ledger[o].settled[k]
    <3>1. /\ TakenBack(o, n) \in [Subjects -> Nat] /\ ledger[o].settled \in [Subjects -> Nat]
          /\ \A k \in Subjects : TakenBack(o, n)[k] <= ledger[o].settled[k]
      BY TakenBackType, OrderRows DEF Typed
    <3>2. Columns \subseteq Subjects
      BY DEF Columns, Subjects
    <3> QED BY <3>1, <3>2
  <2>4. order[o].status = "completed"
    BY <1>6 DEF Columned
  <2>5. CASE s.whole
    <3>1. zeroed' = zeroed \ {o}
      BY <1>4, <1>6, <2>5 DEF Remember
    <3>2. \A k \in Columns : s.income[k] = ledger[o].settled[k]
      BY <1>6, <2>5 DEF Recalls, ReversalDue
    <3>3. \A k \in Columns : order'[o].income[k] = ledger[o].settled[k] - TakenBack(o, n)[k]
      BY <2>2, <2>3, <3>2 DEF Less
    <3> QED BY <1>2, <1>3, <2>1, <2>4, <3>1, <3>3 DEF Columned
  <2>6. CASE ~s.whole
    <3>1. zeroed' = zeroed \cup {o}
      BY <1>4, <1>6, <2>6 DEF Remember
    <3>2. s.income = NoIncome
      BY <1>6, <2>6 DEF Recalls
    <3>3. \A k \in Columns : Less(s.income[k], TakenBack(o, n)[k]) = 0
      BY <2>3, <3>2 DEF Less, NoIncome
    <3>4. order'[o].income = NoIncome
      BY <2>2, <3>3 DEF NoIncome
    <3> QED BY <1>2, <1>3, <1>6, <2>4, <3>1, <3>4 DEF Columned
  <2> QED BY <2>5, <2>6
<1> QED BY <1>5, <1>6

LEMMA ColumnsStep ==
  Typed /\ LedgerMatchesSnapshot /\ AllColumned /\ Remembered /\ [Next]_vars => AllColumned'
<1> SUFFICES ASSUME Typed, LedgerMatchesSnapshot, AllColumned, Remembered, [Next]_vars,
                    NEW o \in Orders
             PROVE  Columned(o)'
  BY DEF AllColumned
<1>0. Columned(o)
  BY DEF AllColumned
<1>1. CASE SameIncome(o)
  BY <1>0, <1>1, CompletedKept DEF SameIncome, Columned
<1>2. CASE Deliver(o)
  BY <1>0, <1>2, DeliveredColumns
<1>3. ASSUME NEW h \in Handlers, Reverses(h, o) PROVE Columned(o)'
  BY <1>0, <1>3, ReversedColumns DEF Reverses, Remembered
<1> QED BY <1>1, <1>2, <1>3, IncomeMoves

\* Once read, the order may be delivered or refunded by others: what the copy says holds on.
LEMMA RecallsKept ==
  ASSUME Typed, LedgerMatchesSnapshot, AllColumned, [Next]_vars, NEW o \in Orders, NEW s, Recalls(s, o)
  PROVE  IF s.whole
         THEN /\ ledger'[o].settled # Nothing
              /\ ledger'[o].reversed = Nothing =>
                   \A k \in Columns : s.income[k] = ledger'[o].settled[k]
         ELSE \/ s.income = NoIncome
              \/ order'[o].status = "completed" /\ ledger'[o].settled = Nothing
<1>1. Columned(o)
  BY DEF AllColumned
<1>2. CASE SameIncome(o)
  BY <1>2, CompletedKept DEF SameIncome, Recalls
<1>3. CASE Deliver(o)
  <2>1. ledger[o].settled = Nothing /\ order[o].status # "completed"
    BY <1>1, <1>3 DEF Deliver, Columned
  <2> QED BY <2>1 DEF Recalls
<1>4. ASSUME NEW h \in Handlers, Reverses(h, o)
      PROVE  /\ ledger'[o].settled = ledger[o].settled
             /\ ledger'[o].reversed = Nothing => ledger[o].reversed = Nothing
  <2>1. PICK n \in Nat : ledger'[o] = ReversedLedger(o, n)
    BY <1>4 DEF Reverses, EndRefund, Typed, TypeOK
  <2> QED BY <2>1 DEF ReversedLedger, ReversalDue
<1>5. CASE \E h \in Handlers : Reverses(h, o)
  BY <1>4, <1>5, CompletedKept DEF Recalls
<1> QED BY <1>2, <1>3, <1>5, IncomeMoves

\* What a handler reads of an order.
LEMMA ReadColumns ==
  ASSUME Typed, LedgerMatchesSnapshot, NEW o \in Orders, Columned(o), NEW s, s.income = order[o].income,
         s.whole = Whole(o)
  PROVE  Recalls(s, o)
<1>1. CASE Whole(o)
  <2>1. ledger[o].settled # Nothing /\ o \notin zeroed
    BY <1>1 DEF Whole
  <2>2. ASSUME ledger[o].reversed = Nothing, NEW k \in Columns
        PROVE  order[o].income[k] = ledger[o].settled[k]
    <3>1. order[o].income[k] = ledger[o].settled[k] - ledger[o].reversed[k]
      BY <2>1 DEF Columned
    <3>2. ledger[o].settled[k] \in Nat /\ ledger[o].reversed[k] = 0
      BY <2>2, OrderRows DEF Typed, Columns, Subjects, Nothing
    <3> QED BY <3>1, <3>2
  <2> QED BY <1>1, <2>1, <2>2 DEF Recalls
<1>2. CASE ~Whole(o)
  <2>1. \/ order[o].income = NoIncome
        \/ order[o].status = "completed" /\ ledger[o].settled = Nothing
    BY <1>2 DEF Whole, Columned
  <2> QED BY <1>2, <2>1 DEF Recalls
<1> QED BY <1>1, <1>2

LEMMA RememberedStep ==
  Typed /\ Fresh /\ LedgerMatchesSnapshot /\ AllColumned /\ Remembered /\ [Next]_vars => Remembered'
<1> SUFFICES ASSUME Typed, Fresh, LedgerMatchesSnapshot, AllColumned, Remembered, [Next]_vars,
                    NEW h \in Handlers, NEW o \in Orders, Treats(session[h], o)'
             PROVE  Recalls(session[h], o)'
  BY DEF Remembered
<1> DEFINE s == session[h]
<1>1. ASSUME Recalls(s, o), session'[h].income = s.income, session'[h].whole = s.whole
      PROVE  Recalls(session[h], o)'
  BY <1>1, RecallsKept DEF Recalls
<1>2. CASE session'[h] = s
  <2>1. CASE s.at \in {"call", "commit"}
    BY <1>1, <1>2, <2>1 DEF Treats, Remembered
  <2>2. CASE s.at = "notice"
    <3>1. s.txn \in Refunds /\ refund[s.txn].status # "none"
      BY <2>2, SessionAt DEF Noticed, Typed, Holds
    <3>2. refund'[s.txn].claim = refund[s.txn].claim
      BY <3>1, StableRefund
    <3>3. Treats(s, o)
      BY <1>2, <2>2, <3>2 DEF Treats, OrderOf
    <3> QED BY <1>1, <1>2, <3>3 DEF Remembered
  <2> QED BY <1>2, <2>1, <2>2 DEF Treats
<1>3. CASE RefundOrder(h)
  <2>1. session'[h] # Idle
    BY DEF Treats, Idle
  <2>2. /\ session'[h].at \in {"call", "commit"} /\ session'[h].claim = s.claim
        /\ session'[h].income = order[Concerns[s.claim]].income
        /\ session'[h].whole = Whole(Concerns[s.claim])
    BY <1>3, <2>1, NextPoint
  <2>3. Concerns[s.claim] = o
    BY <2>2 DEF Treats
  <2>4. order' = order /\ ledger' = ledger
    BY <1>3 DEF RefundOrder
  <2>5. Recalls(session'[h], o)
    BY <2>2, <2>3, ReadColumns DEF AllColumned
  <2> QED BY <2>4, <2>5 DEF Recalls
<1>4. CASE CallGateway(h)
  <2>1. session'[h] # Idle
    BY DEF Treats, Idle
  <2>2. /\ s.at = "call" /\ session'[h].at = "commit" /\ session'[h].claim = s.claim
        /\ session'[h].income = s.income /\ session'[h].whole = s.whole
    BY <1>4, <2>1, NextPoint
  <2>3. Treats(s, o)
    BY <2>2 DEF Treats
  <2> QED BY <1>1, <2>2, <2>3 DEF Remembered
<1>5. ASSUME NEW x \in Refunds, SuccessNotice(h, x) PROVE Recalls(session[h], o)'
  <2>1. /\ session'[h].at = "notice" /\ session'[h].txn = x
        /\ session'[h].income = order[OrderOf(x)].income /\ session'[h].whole = Whole(OrderOf(x))
    BY <1>5, NextPoint
  <2>2. order' = order /\ ledger' = ledger /\ refund' = refund
    BY <1>5 DEF SuccessNotice
  <2>3. OrderOf(x) = o
    BY <2>1, <2>2 DEF Treats, OrderOf
  <2>4. Recalls(session'[h], o)
    BY <2>1, <2>3, ReadColumns DEF AllColumned
  <2> QED BY <2>2, <2>4 DEF Recalls
<1>6. Acts(h) => RefundOrder(h) \/ CallGateway(h) \/ \E x \in Refunds : SuccessNotice(h, x)
  <2>1. session'[h].at \in {"call", "commit", "notice"}
    BY DEF Treats
  <2>2. Idle.at \notin {"call", "commit", "notice"}
    BY DEF Idle
  <2>3. ~ \E c \in Claims : UpdateStatus(h, c)
    BY <2>1, NewDecision
  <2>4. ~ (CommitRefund(h) \/ WriteClaim(h) \/ CompleteRefund(h) \/ Crash(h))
    BY <2>1, <2>2, NextPoint
  <2> QED BY <2>3, <2>4 DEF Acts
<1> QED BY <1>2, <1>3, <1>4, <1>5, <1>6, SessionOf

\* Whatever handlers run beside each other, the columns of a split order are its split less
\* what was taken back, or all zero after a reversal computed from a copy read before the
\* delivery (ReverseOrderSettlementTx).
THEOREM IncomeFollowsLedger == Spec => []IncomeMatchesLedger
<1>1. AllColumned => IncomeMatchesLedger
  BY DEF AllColumned, Columned, IncomeMatchesLedger
<1> QED BY <1>1, TypedInit, TypedStep, FreshInit, FreshStep, LedgerInit, LedgerStep, ColumnsInit,
           ColumnsStep, RememberedStep, PTL DEF Spec
-----------------------------------------------------------------------------
(* The claims: what holds whoever dies, and whoever works beside whom.     *)

\* A refund that a claim names, or that a decision is about to write into it, is stored and
\* the claim's own; it has succeeded when they say so.  A refund on its way is never said to
\* have succeeded.
Names(c, txn, done) ==
  /\ txn # "none" => refund[txn].status # "none" /\ refund[txn].claim = c
  /\ done => txn # "none" /\ refund[txn].status = "success"
Named ==
  /\ \A c \in Claims : Names(c, claim[c].txn, claim[c].refundedAt)
  /\ \A h \in Handlers : session[h].at = "write" =>
       Names(session[h].claim, session[h].txn, session[h].done)
  /\ \A h \in Handlers : session[h].at \in Early => session[h].done = FALSE

\* A handler that handles the notice of a success: the gateway has made the refund, which
\* waits for the notice or has been completed by another one meanwhile.
Waits ==
  \A h \in Handlers : session[h].at = "notice" =>
    /\ gateway[session[h].txn].state = "done"
    /\ refund[session[h].txn].status \in {"refund_pending", "success"}

LEMMA NamedInit == Init => Named /\ Waits
BY DEF Init, Named, Names, Waits, Early, Idle

\* What is said of a stored refund holds on.
LEMMA NamesKept ==
  ASSUME Typed, Fresh, [Next]_vars, NEW c, NEW txn \in RefundId, NEW done, Names(c, txn, done)
  PROVE  /\ txn # "none" => refund'[txn].status # "none" /\ refund'[txn].claim = c
         /\ done => txn # "none" /\ refund'[txn].status = "success"
<1>1. CASE txn = "none"
  BY <1>1 DEF Names
<1>2. CASE txn # "none"
  <2>1. txn \in Refunds
    BY <1>2 DEF RefundId
  <2>2. /\ refund[txn].status # "none" /\ refund[txn].claim = c
        /\ done => refund[txn].status = "success"
    BY <1>2 DEF Names
  <2>3. /\ refund'[txn].status # "none" /\ refund'[txn].claim = refund[txn].claim
        /\ refund[txn].status = "success" => refund'[txn].status = "success"
    BY <2>1, <2>2, StableRefund
  <2> QED BY <1>2, <2>2, <2>3
<1> QED BY <1>1, <1>2

\* How a step changes what a claim says.
LEMMA ClaimMoves ==
  ASSUME Typed, [Next]_vars, NEW c \in Claims
  PROVE  \/ claim'[c].txn = claim[c].txn /\ claim'[c].refundedAt = claim[c].refundedAt
         \/ \E h \in Handlers :
              /\ WriteClaim(h) /\ session[h].at = "write" /\ session[h].claim = c
              /\ claim'[c].txn = session[h].txn /\ claim'[c].refundedAt = session[h].done
         \/ \E h \in Handlers :
              /\ CompleteRefund(h) /\ session[h].txn = claim[c].txn
              /\ claim'[c].txn = claim[c].txn /\ claim'[c].refundedAt = TRUE
         \/ \E x \in Refunds :
              /\ FailureNotice(x) /\ claim[c].txn = x
              /\ claim'[c].txn = "none" /\ claim'[c].refundedAt = FALSE
<1> DEFINE Same == claim'[c].txn = claim[c].txn /\ claim'[c].refundedAt = claim[c].refundedAt
<1>0. claim[c] \in Entity
  BY DEF Typed, TypeOK
<1>1. ASSUME NEW h \in Handlers, WriteClaim(h)
      PROVE  Same \/ /\ session[h].at = "write" /\ session[h].claim = c
                     /\ claim'[c].txn = session[h].txn /\ claim'[c].refundedAt = session[h].done
  BY <1>1 DEF WriteClaim, Typed, TypeOK
<1>2. ASSUME NEW h \in Handlers, CompleteRefund(h)
      PROVE  Same \/ /\ session[h].txn = claim[c].txn
                     /\ claim'[c].txn = claim[c].txn /\ claim'[c].refundedAt = TRUE
  BY <1>0, <1>2 DEF CompleteRefund, Entity
<1>3. ASSUME NEW x \in Refunds, FailureNotice(x)
      PROVE  Same \/ /\ claim[c].txn = x
                     /\ claim'[c].txn = "none" /\ claim'[c].refundedAt = FALSE
  BY <1>0, <1>3 DEF FailureNotice, Released, Entity
<1>4. ASSUME NEW d \in Claims, CreateClaim(d) PROVE Same
  BY <1>0, <1>4 DEF CreateClaim, Entity, Typed, TypeOK
<1>5. ASSUME \/ UNCHANGED vars
             \/ \E p \in Payments : PayOrder(p) \/ PaymentNotice(p)
             \/ \E o \in Orders :
                  Accept(o) \/ Dispatch(o) \/ Pickup(o) \/ Deliver(o) \/ SettleRiderIncome(o)
             \/ \E x \in Refunds : GatewayEnds(x)
      PROVE  Same
  BY <1>5 DEF vars, PayOrder, PaymentNotice, Accept, Dispatch, Pickup, Progress, Deliver,
              SettleRiderIncome, GatewayEnds
<1>6. ASSUME NEW h \in Handlers,
             \/ \E d \in Claims : UpdateStatus(h, d)
             \/ \E x \in Refunds : SuccessNotice(h, x)
             \/ RefundOrder(h) \/ CallGateway(h) \/ CommitRefund(h) \/ Crash(h)
      PROVE  Same
  BY <1>6 DEF UpdateStatus, SuccessNotice, RefundOrder, CallGateway, CommitRefund, Crash
<1> HIDE DEF Same
<1>7. \/ Same
      \/ \E h \in Handlers : WriteClaim(h) \/ CompleteRefund(h)
      \/ \E x \in Refunds : FailureNotice(x)
  BY <1>4, <1>5, <1>6 DEF Next
<1> QED BY <1>1, <1>2, <1>3, <1>7 DEF Same

LEMMA NamedStep == Typed /\ Fresh /\ Waits /\ Named /\ [Next]_vars => Named'
<1> SUFFICES ASSUME Typed, Fresh, Waits, Named, [Next]_vars PROVE Named' OBVIOUS
<1>0. Idle.at = "idle"
  BY DEF Idle
<1>1. ASSUME NEW c, NEW txn \in RefundId, NEW done, Names(c, txn, done)
      PROVE  /\ txn # "none" => refund'[txn].status # "none" /\ refund'[txn].claim = c
             /\ done => txn # "none" /\ refund'[txn].status = "success"
  BY <1>1, NamesKept
<1>2. ASSUME NEW c \in Claims PROVE Names(c, claim[c].txn, claim[c].refundedAt)'
  <2>0. claim[c].txn \in RefundId /\ Names(c, claim[c].txn, claim[c].refundedAt)
    BY DEF Named, Typed, TypeOK, Entity
  <2>1. CASE claim'[c].txn = claim[c].txn /\ claim'[c].refundedAt = claim[c].refundedAt
    BY <1>1, <2>0, <2>1 DEF Names
  <2>2. ASSUME NEW h \in Handlers, session[h].at = "write", session[h].claim = c,
               claim'[c].txn = session[h].txn, claim'[c].refundedAt = session[h].done
        PROVE  Names(c, claim[c].txn, claim[c].refundedAt)'
    <3>1. session[h].txn \in RefundId
      BY <2>2, SessionAt DEF Points, Working, Typed
    <3>2. Names(c, session[h].txn, session[h].done)
      BY <2>2 DEF Named
    <3> QED BY <1>1, <2>2, <3>1, <3>2 DEF Names
  <2>3. ASSUME NEW h \in Handlers, CompleteRefund(h), session[h].txn = claim[c].txn,
               claim'[c].txn = claim[c].txn
        PROVE  Names(c, claim[c].txn, claim[c].refundedAt)'
    <3>1. claim[c].txn \in Refunds /\ claim[c].txn # "none"
      BY <2>3, SessionAt, ConstantsOK DEF CompleteRefund, Noticed, Typed
    <3>2. refund'[claim[c].txn].status = "success"
      <4>1. refund' = [refund EXCEPT ![claim[c].txn].status = "success"]
        BY <2>3 DEF CompleteRefund
      <4>2. refund[claim[c].txn].status # "none"
        BY <2>0, <3>1 DEF Names
      <4>3. refund'[claim[c].txn] = [refund[claim[c].txn] EXCEPT !.status = "success"]
        BY <3>1, <4>1 DEF Typed, TypeOK
      <4> QED BY <3>1, <4>2, <4>3 DEF Typed, TypeOK, RefundRow
    <3> QED BY <1>1, <2>0, <2>3, <3>1, <3>2 DEF Names
  <2>4. ASSUME claim'[c].txn = "none", claim'[c].refundedAt = FALSE
        PROVE  Names(c, claim[c].txn, claim[c].refundedAt)'
    BY <2>4 DEF Names
  <2> QED BY <2>1, <2>2, <2>3, <2>4, ClaimMoves
<1>3. ASSUME NEW h \in Handlers, session'[h].at = "write"
      PROVE  Names(session[h].claim, session[h].txn, session[h].done)'
  <2>1. CASE session'[h] = session[h]
    <3>1. session[h].txn \in RefundId /\ Names(session[h].claim, session[h].txn, session[h].done)
      BY <1>3, <2>1, SessionAt DEF Named, Points, Working, Typed
    <3> QED BY <1>1, <2>1, <3>1 DEF Names
  <2>2. ASSUME NEW c \in Claims, UpdateStatus(h, c)
        PROVE  Names(session[h].claim, session[h].txn, session[h].done)'
    <3>1. refund' = refund
      BY <2>2 DEF UpdateStatus
    <3>2. /\ session'[h].claim = c /\ session'[h].txn = claim[c].txn
          /\ session'[h].done = claim[c].refundedAt \/ session'[h].done = FALSE
      BY <1>3, <2>2, NewDecision
    <3>3. Names(c, claim[c].txn, claim[c].refundedAt)
      BY DEF Named
    <3>4. claim[c].refundedAt \in BOOLEAN
      BY DEF Typed, TypeOK, Entity
    <3>5. CASE session'[h].done = claim[c].refundedAt
      BY <3>1, <3>2, <3>3, <3>5 DEF Names
    <3>6. CASE session'[h].done = FALSE
      BY <3>1, <3>2, <3>3, <3>6 DEF Names
    <3> QED BY <3>2, <3>5, <3>6
  <2>3. CASE CommitRefund(h)
    <3> DEFINE s == session[h]
               row == [status |-> IF s.method = "ifpay" THEN "success" ELSE "refund_pending",
                       claim |-> s.claim, amount |-> s.amount, method |-> s.method]
    <3>1. /\ session'[h].claim = s.claim /\ session'[h].txn = s.txn /\ s.at = "commit"
          /\ session'[h].done = IF s.method = "ifpay" THEN TRUE ELSE s.done
      BY <2>3, NextPoint
    <3>2. s.txn \in Refunds /\ refund' = [refund EXCEPT ![s.txn] = row]
      BY <2>3, CommittedRow
    <3>3. refund'[s.txn] = row
      BY <3>2 DEF Typed, TypeOK
    <3>4. /\ row.status = (IF s.method = "ifpay" THEN "success" ELSE "refund_pending")
          /\ row.claim = s.claim
      OBVIOUS
    <3> HIDE DEF row
    <3>5. s.done = FALSE
      BY <3>1 DEF Named, Early
    <3>6. s.txn # "none"
      BY <3>2, ConstantsOK
    <3> QED BY <3>1, <3>3, <3>4, <3>5, <3>6 DEF Names
  <2>4. ~ \E x \in Refunds : SuccessNotice(h, x)
    BY <1>3, NextPoint
  <2>5. ~ (RefundOrder(h) \/ CallGateway(h) \/ WriteClaim(h) \/ CompleteRefund(h) \/ Crash(h))
    BY <1>0, <1>3, NextPoint
  <2> QED BY <2>1, <2>2, <2>3, <2>4, <2>5, SessionOf DEF Acts
<1>4. ASSUME NEW h \in Handlers, session'[h].at \in Early PROVE session'[h].done = FALSE
  <2>1. CASE session'[h] = session[h]
    BY <1>4, <2>1 DEF Named
  <2>2. ASSUME NEW c \in Claims, UpdateStatus(h, c) PROVE session'[h].done = FALSE
    <3>1. claim[c].txn = "none" /\ session'[h].done = claim[c].refundedAt
      BY <1>4, <2>2, NewDecision DEF Early
    <3>2. Names(c, claim[c].txn, claim[c].refundedAt) /\ claim[c].refundedAt \in BOOLEAN
      BY DEF Named, Typed, TypeOK, Entity
    <3>3. claim[c].refundedAt = FALSE
      BY <3>1, <3>2 DEF Names
    <3> QED BY <3>1, <3>3
  <2>3. CASE RefundOrder(h) \/ CallGateway(h)
    <3>1. session'[h] # Idle
      BY <1>0, <1>4 DEF Early
    <3>2. session[h].at \in Early /\ session'[h].done = session[h].done
      BY <2>3, <3>1, NextPoint DEF Early
    <3> QED BY <3>2 DEF Named
  <2>4. ~ \E x \in Refunds : SuccessNotice(h, x)
    BY <1>4, NextPoint DEF Early
  <2>5. ~ (CommitRefund(h) \/ WriteClaim(h) \/ CompleteRefund(h) \/ Crash(h))
    BY <1>0, <1>4, NextPoint DEF Early
  <2> QED BY <2>1, <2>2, <2>3, <2>4, <2>5, SessionOf DEF Acts
<1> QED BY <1>2, <1>3, <1>4 DEF Named

\* Only a call of a handler and the gateway itself change what the gateway knows.
LEMMA GatewayActs ==
  ASSUME Typed, [Next]_vars
  PROVE  \/ gateway' = gateway
         \/ \E y \in Refunds : GatewayEnds(y)
         \/ \E h \in Handlers : CallGateway(h)
<1>1. ASSUME NEW h \in Handlers, Acts(h) PROVE gateway' = gateway \/ CallGateway(h)
  BY <1>1 DEF Acts, UpdateStatus, SuccessNotice, RefundOrder, CommitRefund, WriteClaim,
              CompleteRefund, Crash
<1>2. ASSUME NEW y \in Refunds, FailureNotice(y) PROVE gateway' = gateway
  BY <1>2 DEF FailureNotice
<1>3. ASSUME \/ UNCHANGED vars
             \/ \E p \in Payments : PayOrder(p) \/ PaymentNotice(p)
             \/ \E o \in Orders :
                  Accept(o) \/ Dispatch(o) \/ Pickup(o) \/ Deliver(o) \/ SettleRiderIncome(o)
             \/ \E c \in Claims : CreateClaim(c)
      PROVE  gateway' = gateway
  BY <1>3 DEF vars, PayOrder, PaymentNotice, Accept, Dispatch, Pickup, Progress, Deliver,
              SettleRiderIncome, CreateClaim
<1> QED BY <1>1, <1>2, <1>3 DEF Next, Acts

\* A refund the gateway has made stays made: its id is stored, and not used again.
LEMMA DoneKept ==
  ASSUME Typed, Fresh, [Next]_vars, NEW x \in Refunds, gateway[x].state = "done",
         refund[x].status # "none"
  PROVE  gateway'[x].state = "done"
<1>1. CASE gateway' = gateway
  BY <1>1
<1>2. ASSUME NEW y \in Refunds, GatewayEnds(y) PROVE gateway'[x].state = "done"
  <2>1. y # x
    BY <1>2 DEF GatewayEnds
  <2> QED BY <1>2, <2>1 DEF GatewayEnds, Typed, TypeOK
<1>3. ASSUME NEW h \in Handlers, CallGateway(h) PROVE gateway'[x].state = "done"
  <2>1. session[h].txn # x
    BY <1>3 DEF CallGateway, Fresh, Early
  <2> QED BY <1>3, <2>1 DEF CallGateway, Typed, TypeOK
<1> QED BY <1>1, <1>2, <1>3, GatewayActs

\* A stored refund ends otherwise than in success only by the notice of its failure.
LEMMA StoredKept ==
  ASSUME Typed, Fresh, [Next]_vars, NEW x \in Refunds, ~FailureNotice(x),
         refund[x].status \in {"refund_pending", "success"}
  PROVE  refund'[x].status \in {"refund_pending", "success"}
<1>1. CASE refund' = refund
  BY <1>1
<1>2. ASSUME NEW h \in Handlers, CommitRefund(h) PROVE refund'[x] = refund[x]
  BY <1>2, CommittedRow DEF Typed, TypeOK
<1>3. ASSUME NEW h \in Handlers, CompleteRefund(h)
      PROVE  refund'[x].status \in {"refund_pending", "success"}
  <2>1. PICK y \in Refunds : refund' = [refund EXCEPT ![y].status = "success"]
    BY <1>3, SessionAt DEF CompleteRefund, Noticed, Typed
  <2>2. CASE y # x
    BY <2>1, <2>2 DEF Typed, TypeOK
  <2>3. CASE y = x
    <3>1. refund'[x] = [refund[x] EXCEPT !.status = "success"]
      BY <2>1, <2>3 DEF Typed, TypeOK
    <3> QED BY <3>1 DEF Typed, TypeOK, RefundRow
  <2> QED BY <2>2, <2>3
<1>4. ASSUME NEW y \in Refunds, FailureNotice(y) PROVE refund'[x] = refund[x]
  BY <1>4 DEF FailureNotice, Typed, TypeOK
<1>5. CASE UNCHANGED vars
  BY <1>5 DEF vars
<1> QED BY <1>1, <1>2, <1>3, <1>4, <1>5, RefundMoves

LEMMA WaitsStep == Typed /\ Fresh /\ Waits /\ [Next]_vars => Waits'
<1> SUFFICES ASSUME Typed, Fresh, Waits, [Next]_vars, NEW h \in Handlers, session'[h].at = "notice"
             PROVE  /\ gateway'[session'[h].txn].state = "done"
                    /\ refund'[session'[h].txn].status \in {"refund_pending", "success"}
  BY DEF Waits
<1>1. CASE session'[h] = session[h]
  <2> DEFINE x == session[h].txn
  <2>1. /\ x \in Refunds /\ gateway[x].state = "done"
        /\ refund[x].status \in {"refund_pending", "success"}
    BY <1>1, SessionAt DEF Noticed, Typed, Waits
  <2> HIDE DEF x
  <2>2. ~FailureNotice(x)
    BY <2>1 DEF FailureNotice, Announced
  <2>3. gateway'[x].state = "done" /\ refund'[x].status \in {"refund_pending", "success"}
    BY <2>1, <2>2, DoneKept, StoredKept
  <2> QED BY <1>1, <2>3 DEF x
<1>2. ASSUME NEW x \in Refunds, SuccessNotice(h, x), session'[h].txn = x
      PROVE  /\ gateway'[session'[h].txn].state = "done"
             /\ refund'[session'[h].txn].status \in {"refund_pending", "success"}
  BY <1>2 DEF SuccessNotice, Announced
<1> QED BY <1>1, <1>2, NoticeMoves
-----------------------------------------------------------------------------
(* A claim that nothing overtook, and the refunds made for it.             *)

Made(c) == {x \in Refunds : refund[x].status \in {"refund_pending", "success"}
                            /\ refund[x].claim = c}
Won(c) == {x \in Made(c) : refund[x].status = "success"}
\* A record of a claim, its transaction and whether it succeeded, agrees with its refunds.
Agrees(made, won, txn, done) == made = {txn} \ {"none"} /\ (done <=> won # {})
Writes(h, c) == session[h].at = "write" /\ session[h].claim = c

\* One handler at most decides the claim.  The record is that of the handler that is about to
\* write it, or else that of the claim; a handler that is about to store a refund knows that
\* there is none.
Known(c) ==
  /\ \A g, h \in Handlers : Decides(g, c) /\ Decides(h, c) => g = h
  /\ \A h \in Handlers : Decides(h, c) /\ session[h].at \in Early => claim[c].txn = "none"
  /\ (\A h \in Handlers : ~Writes(h, c)) =>
       Agrees(Made(c), Won(c), claim[c].txn, claim[c].refundedAt)
  /\ \A h \in Handlers : Writes(h, c) =>
       Agrees(Made(c), Won(c), session[h].txn, session[h].done)
KnownClaims == \A c \in Claims \ disturbed : Known(c)

LEMMA KnownInit == Init => KnownClaims
<1> SUFFICES ASSUME Init, NEW c \in Claims PROVE Known(c)
  BY DEF KnownClaims
<1>1. Made(c) = {} /\ Won(c) = {}
  BY DEF Init, Made, Won
<1>2. claim[c].txn = "none" /\ claim[c].refundedAt = FALSE
  BY DEF Init
<1>3. \A h \in Handlers : session[h].at = "idle"
  BY DEF Init, Idle
<1> QED BY <1>1, <1>2, <1>3 DEF Known, Agrees, Decides, Writes, Points

\* How a step changes the refunds of a claim.
SameMade(c) == Made(c)' = Made(c) /\ Won(c)' = Won(c)

LEMMA MadeSame ==
  ASSUME NEW c \in Claims, NEW x \in Refunds, \A y \in Refunds \ {x} : refund'[y] = refund[y],
         x \notin Made(c), x \notin Made(c)'
  PROVE  SameMade(c)
<1>1. ASSUME NEW y \in Refunds PROVE y \in Made(c)' <=> y \in Made(c)
  BY DEF Made
<1>2. Made(c) \subseteq Refunds /\ Made(c)' \subseteq Refunds
  BY DEF Made
<1>3. Made(c)' = Made(c)
  BY <1>1, <1>2
<1>4. \A y \in Made(c) : refund'[y] = refund[y]
  BY <1>2
<1>5. Won(c)' = {y \in Made(c) : refund'[y].status = "success"}
  BY <1>3 DEF Won
<1> QED BY <1>3, <1>4, <1>5 DEF SameMade, Won

LEMMA CommitMade ==
  ASSUME Typed, Fresh, NEW h \in Handlers, CommitRefund(h), NEW c \in Claims
  PROVE  /\ session[h].claim \in Claims /\ session[h].txn \in Refunds
         /\ c # session[h].claim => SameMade(c)
         /\ c = session[h].claim =>
              /\ Made(c)' = Made(c) \cup {session[h].txn}
              /\ Won(c)' = IF session[h].method = "ifpay" THEN Won(c) \cup {session[h].txn}
                                                          ELSE Won(c)
<1> DEFINE s == session[h]
           x == s.txn
           row == [status |-> IF s.method = "ifpay" THEN "success" ELSE "refund_pending",
                   claim |-> s.claim, amount |-> s.amount, method |-> s.method]
<1>1. /\ s \in Working /\ x \in Refunds /\ refund[x].status = "none" /\ s.claim \in Claims
      /\ refund' = [refund EXCEPT ![x] = row]
  BY CommittedRow DEF Working
<1>2. refund'[x] = row /\ \A y \in Refunds \ {x} : refund'[y] = refund[y]
  BY <1>1 DEF Typed, TypeOK
<1>3. /\ refund'[x].status = (IF s.method = "ifpay" THEN "success" ELSE "refund_pending")
      /\ refund'[x].claim = s.claim
  BY <1>2
<1> HIDE DEF row
<1>4. x \notin Made(c) /\ x \notin Won(c)
  BY <1>1 DEF Made, Won
<1>5. CASE c # s.claim
  <2>1. x \notin Made(c)'
    BY <1>3, <1>5 DEF Made
  <2>2. SameMade(c)
    BY <1>1, <1>2, <1>4, <2>1, MadeSame
  <2> QED BY <1>1, <1>5, <2>2
<1>6. CASE c = s.claim
  <2>1. x \in Made(c)'
    BY <1>1, <1>3, <1>6 DEF Made
  <2>2. ASSUME NEW y \in Refunds, y # x
        PROVE  (y \in Made(c)' <=> y \in Made(c)) /\ (y \in Won(c)' <=> y \in Won(c))
    BY <1>2, <2>2 DEF Made, Won
  <2>3. x \in Won(c)' <=> s.method = "ifpay"
    BY <1>3, <2>1 DEF Won
  <2>4. Made(c) \subseteq Refunds /\ Made(c)' \subseteq Refunds
        /\ Won(c) \subseteq Refunds /\ Won(c)' \subseteq Refunds
    BY DEF Made, Won
  <2>5. Made(c)' = Made(c) \cup {x}
    BY <1>1, <2>1, <2>2, <2>4
  <2>6. CASE s.method = "ifpay"
    <3>1. Won(c)' = Won(c) \cup {x}
      BY <1>1, <2>2, <2>3, <2>4, <2>6
    <3> QED BY <1>1, <1>6, <2>5, <2>6, <3>1
  <2>7. CASE s.method # "ifpay"
    <3>1. Won(c)' = Won(c)
      BY <1>4, <2>2, <2>3, <2>4, <2>7
    <3> QED BY <1>1, <1>6, <2>5, <2>7, <3>1
  <2> QED BY <2>6, <2>7
<1> QED BY <1>5, <1>6

\* The history only grows, and tells of every claim that was overtaken.
LEMMA HistoryGrows ==
  ASSUME Typed, [Next]_vars, NEW c \in Claims, c \notin disturbed'
  PROVE  /\ c \notin disturbed
         /\ \A h \in Handlers : UpdateStatus(h, c) => \A g \in Handlers : ~Decides(g, c)
         /\ \A h \in Handlers : CompleteRefund(h) /\ refund[session[h].txn].claim = c =>
              \A g \in Handlers : ~Decides(g, c)
         /\ \A x \in Refunds : FailureNotice(x) /\ refund[x].claim = c =>
              \A g \in Handlers : ~Decides(g, c)
         /\ \A h \in Handlers : Crash(h) /\ session[h].claim = c => ~Unwritten(session[h])
<1>1. /\ \A h \in Handlers, d \in Claims : UpdateStatus(h, d) => disturbed' = Overtaken(d)
      /\ \A h \in Handlers : CompleteRefund(h) =>
           disturbed' = Overtaken(refund[session[h].txn].claim)
      /\ \A x \in Refunds : FailureNotice(x) => disturbed' = Overtaken(refund[x].claim)
      /\ \A h \in Handlers : Crash(h) =>
           disturbed' = IF Unwritten(session[h]) THEN disturbed \cup {session[h].claim}
                        ELSE disturbed
      /\ \A h \in Handlers : CallGateway(h) =>
           disturbed' \in {disturbed, disturbed \cup {session[h].claim}}
  BY DEF UpdateStatus, CompleteRefund, FailureNotice, Crash, CallGateway
<1>2. ASSUME \/ UNCHANGED vars
             \/ \E p \in Payments : PayOrder(p) \/ PaymentNotice(p)
             \/ \E o \in Orders :
                  Accept(o) \/ Dispatch(o) \/ Pickup(o) \/ Deliver(o) \/ SettleRiderIncome(o)
             \/ \E d \in Claims : CreateClaim(d)
             \/ \E x \in Refunds : GatewayEnds(x)
             \/ \E h \in Handlers :
                  \/ \E x \in Refunds : SuccessNotice(h, x)
                  \/ RefundOrder(h) \/ CommitRefund(h) \/ WriteClaim(h)
      PROVE  disturbed' = disturbed
  BY <1>2 DEF vars, PayOrder, PaymentNotice, Accept, Dispatch, Pickup, Progress, Deliver,
              SettleRiderIncome, CreateClaim, GatewayEnds, SuccessNotice, RefundOrder,
              CommitRefund, WriteClaim
<1>3. disturbed \subseteq disturbed'
  BY <1>1, <1>2 DEF Next, Overtaken
<1>4. disturbed' = Overtaken(c) => \A g \in Handlers : ~Decides(g, c)
  BY DEF Overtaken
<1> QED BY <1>1, <1>3, <1>4

\* A step that leaves the refunds of the claim and what it says, and begins no decision.
LEMMA KnownKept ==
  ASSUME Typed, NEW c \in Claims, Known(c), SameMade(c),
         claim'[c].txn = claim[c].txn, claim'[c].refundedAt = claim[c].refundedAt,
         \A h \in Handlers :
           \/ session'[h] = session[h]
           \/ ~Writes(h, c) /\ ~(session'[h].at \in Points /\ session'[h].claim = c)
           \/ /\ session[h].at \in Early /\ session'[h].at \in Early
              /\ session'[h].claim = session[h].claim
  PROVE  Known(c)'
<1>1. \A h \in Handlers : Decides(h, c)' => Decides(h, c)
  BY DEF Decides, Points, Early
<1>2. \A h \in Handlers : Decides(h, c)' /\ session'[h].at \in Early =>
        Decides(h, c) /\ session[h].at \in Early
  BY DEF Decides, Points, Early
<1>3. \A h \in Handlers : Writes(h, c) => Writes(h, c)' /\ session'[h] = session[h]
  BY DEF Writes, Early
<1>4. \A h \in Handlers : Writes(h, c)' => Writes(h, c) /\ session'[h] = session[h]
  BY DEF Writes, Early, Points
<1>5. Made(c)' = Made(c) /\ Won(c)' = Won(c)
  BY DEF SameMade
<1>6. (\A h \in Handlers : ~Writes(h, c)') =>
        Agrees(Made(c), Won(c), claim[c].txn, claim[c].refundedAt)'
  BY <1>3, <1>5 DEF Known, Agrees
<1>7. \A h \in Handlers : Writes(h, c)' =>
        Agrees(Made(c), Won(c), session[h].txn, session[h].done)'
  BY <1>4, <1>5 DEF Known, Agrees
<1> QED BY <1>1, <1>2, <1>6, <1>7 DEF Known

\* A decision of a claim that nobody else decides.
LEMMA KnownDecision ==
  ASSUME Typed, Named, NEW h \in Handlers, NEW c \in Claims, Known(c), UpdateStatus(h, c),
         \A g \in Handlers : ~Decides(g, c), \A g \in Handlers \ {h} : session'[g] = session[g]
  PROVE  Known(c)'
<1>0. refund' = refund /\ claim' = claim
  BY DEF UpdateStatus
<1>1. Made(c)' = Made(c) /\ Won(c)' = Won(c)
  BY <1>0 DEF Made, Won
<1>2. /\ session'[h].claim = c
      /\ \/ /\ session'[h].at = "refund_order" /\ session'[h].txn \in Refunds
            /\ claim[c].txn = "none" /\ session'[h].done = claim[c].refundedAt
         \/ /\ session'[h].at = "write" /\ session'[h].txn = claim[c].txn
            /\ \/ session'[h].done = claim[c].refundedAt
               \/ session'[h].done = FALSE /\ claim[c].txn = "none"
  BY NewDecision
<1>3. \A g \in Handlers : ~Writes(g, c)
  BY DEF Decides, Writes, Points
<1>4. Agrees(Made(c), Won(c), claim[c].txn, claim[c].refundedAt)
  BY <1>3 DEF Known
<1>5. \A g \in Handlers : Decides(g, c)' => g = h
  BY DEF Decides
<1>6. Won(c) \subseteq Made(c)
  BY DEF Won
<1>7. CASE session'[h].at = "refund_order"
  <2>1. \A g \in Handlers : ~Writes(g, c)'
    BY <1>3, <1>7 DEF Writes
  <2>2. claim[c].txn = "none"
    BY <1>2, <1>7
  <2>3. Agrees(Made(c), Won(c), claim[c].txn, claim[c].refundedAt)'
    BY <1>0, <1>1, <1>4 DEF Agrees
  <2> QED BY <1>0, <1>5, <2>1, <2>2, <2>3 DEF Known
<1>8. CASE session'[h].at = "write"
  <2>1. session'[h].txn = claim[c].txn
    BY <1>2, <1>8
  <2>2. Made(c) = {claim[c].txn} \ {"none"} /\ (claim[c].refundedAt <=> Won(c) # {})
    BY <1>4 DEF Agrees
  <2>3. session'[h].done <=> Won(c) # {}
    <3>1. CASE session'[h].done = claim[c].refundedAt
      BY <2>2, <3>1
    <3>2. CASE session'[h].done = FALSE /\ claim[c].txn = "none"
      BY <1>6, <2>2, <3>2
    <3> QED BY <1>2, <1>8, <3>1, <3>2
  <2>4. Agrees(Made(c), Won(c), session[h].txn, session[h].done)'
    BY <1>1, <2>1, <2>2, <2>3 DEF Agrees
  <2>5. Writes(h, c)' /\ \A g \in Handlers : Writes(g, c)' => g = h
    BY <1>2, <1>3, <1>8 DEF Writes
  <2>6. \A g \in Handlers : Decides(g, c)' => session'[g].at \notin Early
    BY <1>5, <1>8 DEF Early
  <2> QED BY <1>5, <2>4, <2>5, <2>6 DEF Known
<1> QED BY <1>2, <1>7, <1>8

LEMMA KnownCommit ==
  ASSUME Typed, Fresh, Named, NEW h \in Handlers, CommitRefund(h),
         NEW c \in Claims, session[h].claim = c, Known(c),
         \A g \in Handlers \ {h} : session'[g] = session[g]
  PROVE  Known(c)'
<1> DEFINE x == session[h].txn
<1>0. claim' = claim
  BY DEF CommitRefund
<1>1. /\ session[h].at = "commit" /\ session'[h].at = "write" /\ session'[h].claim = c
      /\ session'[h].txn = x
      /\ session'[h].done = IF session[h].method = "ifpay" THEN TRUE ELSE session[h].done
  BY NextPoint
<1>2. x \in Refunds /\ x # "none"
  BY <1>1, ConstantsOK DEF Typed, Holds
<1> HIDE DEF x
<1>3. /\ Made(c)' = Made(c) \cup {x}
      /\ Won(c)' = IF session[h].method = "ifpay" THEN Won(c) \cup {x} ELSE Won(c)
  BY CommitMade DEF x
<1>4. \A g \in Handlers : Decides(g, c) => g = h
  BY <1>1 DEF Known, Decides, Points
<1>5. \A g \in Handlers : ~Writes(g, c)
  BY <1>1, <1>4 DEF Writes, Decides, Points
<1>6. claim[c].txn = "none" /\ session[h].done = FALSE
  BY <1>1 DEF Known, Named, Early, Decides, Points
<1>7. Made(c) = {} /\ Won(c) = {}
  <2>1. Agrees(Made(c), Won(c), claim[c].txn, claim[c].refundedAt)
    BY <1>5 DEF Known
  <2>2. Made(c) = {}
    BY <1>6, <2>1 DEF Agrees
  <2> QED BY <2>2 DEF Won
<1>8. \A g \in Handlers : Decides(g, c)' => g = h
  BY <1>4 DEF Decides
<1>9. Writes(h, c)' /\ \A g \in Handlers : Writes(g, c)' => g = h
  BY <1>1, <1>5 DEF Writes
<1>10. Made(c)' = {x} \ {"none"} /\ (session'[h].done <=> Won(c)' # {})
  BY <1>1, <1>2, <1>3, <1>6, <1>7
<1>11. Agrees(Made(c), Won(c), session[h].txn, session[h].done)'
  BY <1>1, <1>10 DEF Agrees
<1>12. \A g \in Handlers : Decides(g, c)' => session'[g].at \notin Early
  BY <1>1, <1>8 DEF Early
<1> QED BY <1>8, <1>9, <1>11, <1>12 DEF Known

LEMMA KnownWrite ==
  ASSUME Typed, NEW h \in Handlers, WriteClaim(h),
         NEW c \in Claims, session[h].claim = c, Known(c),
         \A g \in Handlers \ {h} : session'[g] = session[g]
  PROVE  Known(c)'
<1>0. refund' = refund
  BY DEF WriteClaim
<1>1. Made(c)' = Made(c) /\ Won(c)' = Won(c)
  BY <1>0 DEF Made, Won
<1>2. session[h].at = "write" /\ session'[h] = Idle /\ Idle.at = "idle"
  BY NextPoint DEF WriteClaim, Idle
<1>3. claim'[c].txn = session[h].txn /\ claim'[c].refundedAt = session[h].done
  BY DEF WriteClaim, Typed, TypeOK
<1>4. \A g \in Handlers : Decides(g, c) => g = h
  BY <1>2 DEF Known, Decides, Points
<1>5. \A g \in Handlers : ~Decides(g, c)' /\ ~Writes(g, c)'
  BY <1>2, <1>4 DEF Decides, Writes, Points
<1>6. Agrees(Made(c), Won(c), session[h].txn, session[h].done)
  BY <1>2 DEF Known, Writes
<1>7. Agrees(Made(c), Won(c), claim[c].txn, claim[c].refundedAt)'
  BY <1>1, <1>3, <1>6 DEF Agrees
<1> QED BY <1>5, <1>7 DEF Known

\* A refund made for a claim that nobody decides is the one the claim names.
LEMMA NamedRefund ==
  ASSUME Typed, NEW c \in Claims, Known(c), \A g \in Handlers : ~Decides(g, c),
         NEW x \in Refunds, refund[x].status \in {"refund_pending", "success"}, refund[x].claim = c
  PROVE  /\ \A g \in Handlers : ~Writes(g, c)
         /\ claim[c].txn = x /\ Made(c) = {x} /\ (claim[c].refundedAt <=> Won(c) # {})
<1>1. \A g \in Handlers : ~Writes(g, c)
  BY DEF Decides, Writes, Points
<1>2. Agrees(Made(c), Won(c), claim[c].txn, claim[c].refundedAt)
  BY <1>1 DEF Known
<1>3. x \in Made(c)
  BY DEF Made
<1> QED BY <1>1, <1>2, <1>3 DEF Agrees

LEMMA KnownComplete ==
  ASSUME Typed, Waits, NEW h \in Handlers, CompleteRefund(h),
         NEW c \in Claims, refund[session[h].txn].claim = c, Known(c),
         \A g \in Handlers : ~Decides(g, c), \A g \in Handlers \ {h} : session'[g] = session[g]
  PROVE  Known(c)'
<1>1. session[h].at = "notice" /\ session[h].txn \in Refunds /\ session'[h].at = "idle"
  <2>1. session'[h] = Idle
    BY NextPoint
  <2> QED BY <2>1, SessionAt DEF CompleteRefund, Noticed, Typed, Idle
<1>2. PICK x \in Refunds : session[h].txn = x
  BY <1>1
<1>3. refund[x].status \in {"refund_pending", "success"} /\ refund[x].claim = c
  BY <1>1, <1>2 DEF Waits
<1>4. /\ \A g \in Handlers : ~Writes(g, c)
      /\ claim[c].txn = x /\ Made(c) = {x} /\ (claim[c].refundedAt <=> Won(c) # {})
  BY <1>3, NamedRefund
<1>5. claim'[c].txn = x /\ claim'[c].refundedAt = TRUE
  <2>1. claim'[c] = [claim[c] EXCEPT !.refundedAt = TRUE]
    BY <1>2, <1>4 DEF CompleteRefund
  <2> QED BY <1>4, <2>1 DEF Typed, TypeOK, Entity
<1>6. refund' = [refund EXCEPT ![x].status = "success"]
  BY <1>2 DEF CompleteRefund
<1>7. /\ refund'[x].status = "success" /\ refund'[x].claim = c
      /\ \A y \in Refunds \ {x} : refund'[y] = refund[y]
  BY <1>3, <1>6 DEF Typed, TypeOK, RefundRow
<1>8. Made(c)' = {x} /\ Won(c)' = {x}
  <2>1. x \in Made(c)' /\ Made(c)' \subseteq Refunds
    BY <1>7 DEF Made
  <2>2. \A y \in Refunds \ {x} : y \in Made(c)' <=> y \in Made(c)
    BY <1>7 DEF Made
  <2>3. Made(c)' = {x}
    BY <1>4, <2>1, <2>2
  <2> QED BY <1>7, <2>3 DEF Won
<1>9. \A g \in Handlers : ~Decides(g, c)' /\ ~Writes(g, c)'
  BY <1>1, <1>4 DEF Decides, Writes, Points
<1>10. Agrees(Made(c), Won(c), claim[c].txn, claim[c].refundedAt)'
  <2>1. x # "none"
    BY ConstantsOK
  <2> QED BY <1>5, <1>8, <2>1 DEF Agrees
<1> QED BY <1>9, <1>10 DEF Known

LEMMA KnownFailure ==
  ASSUME Typed, NEW x \in Refunds, FailureNotice(x),
         NEW c \in Claims, refund[x].claim = c, Known(c), \A g \in Handlers : ~Decides(g, c)
  PROVE  Known(c)'
<1>1. refund[x].status = "refund_pending" /\ session' = session
      /\ refund' = [refund EXCEPT ![x].status = "failed"]
  BY DEF FailureNotice, Announced
<1>2. /\ \A g \in Handlers : ~Writes(g, c)
      /\ claim[c].txn = x /\ Made(c) = {x} /\ (claim[c].refundedAt <=> Won(c) # {})
  BY <1>1, NamedRefund
<1>3. claim'[c].txn = "none" /\ claim'[c].refundedAt = FALSE
  <2>1. claim'[c] = [claim[c] EXCEPT !.txn = "none", !.refundedAt = FALSE]
    BY <1>2 DEF FailureNotice, Released
  <2> QED BY <2>1 DEF Typed, TypeOK, Entity
<1>4. refund'[x].status = "failed" /\ \A y \in Refunds \ {x} : refund'[y] = refund[y]
  BY <1>1 DEF Typed, TypeOK, RefundRow
<1>5. Made(c)' = {} /\ Won(c)' = {}
  <2>1. x \notin Made(c)' /\ Made(c)' \subseteq Refunds
    BY <1>4 DEF Made
  <2>2. \A y \in Refunds \ {x} : y \in Made(c)' <=> y \in Made(c)
    BY <1>4 DEF Made
  <2>3. Made(c)' = {}
    BY <1>2, <2>1, <2>2
  <2> QED BY <2>3 DEF Won
<1>6. \A g \in Handlers : ~Decides(g, c)' /\ ~Writes(g, c)'
  BY <1>1, <1>2 DEF Decides, Writes
<1>7. Agrees(Made(c), Won(c), claim[c].txn, claim[c].refundedAt)'
  BY <1>3, <1>5 DEF Agrees
<1> QED BY <1>6, <1>7 DEF Known

\* The end of a refund of another claim.
LEMMA OtherEnded ==
  ASSUME Typed, Fresh, Named, NEW c \in Claims, NEW x \in Refunds, refund[x].status # "none",
         refund[x].claim # c, NEW status \in {"success", "failed"},
         refund' = [refund EXCEPT ![x].status = status]
  PROVE  SameMade(c) /\ claim[c].txn # x
<1>1. refund'[x] = [refund[x] EXCEPT !.status = status]
      /\ \A y \in Refunds \ {x} : refund'[y] = refund[y]
  BY DEF Typed, TypeOK
<1>2. refund'[x].claim = refund[x].claim
  BY <1>1 DEF Typed, TypeOK, RefundRow
<1>3. x \notin Made(c) /\ x \notin Made(c)'
  BY <1>2 DEF Made
<1>4. SameMade(c)
  BY <1>1, <1>3, MadeSame
<1>5. claim[c].txn # x
  <2>1. Names(c, claim[c].txn, claim[c].refundedAt) /\ x # "none"
    BY ConstantsOK DEF Named
  <2> QED BY <2>1 DEF Names
<1> QED BY <1>4, <1>5

LEMMA SameRefundsMade ==
  ASSUME refund' = refund, NEW c \in Claims PROVE SameMade(c)
BY DEF SameMade, Made, Won

LEMMA KnownActs ==
  ASSUME Typed, Fresh, Named, Waits, [Next]_vars, NEW c \in Claims, c \notin disturbed', Known(c),
         NEW h \in Handlers, Acts(h), \A g \in Handlers \ {h} : session'[g] = session[g]
  PROVE  Known(c)'
<1>0. Idle.at = "idle"
  BY DEF Idle
<1>1. ASSUME NEW d \in Claims, UpdateStatus(h, d) PROVE Known(c)'
  <2>1. CASE d = c
    BY <1>1, <2>1, HistoryGrows, KnownDecision
  <2>2. CASE d # c
    <3>1. session[h] = Idle /\ session'[h].claim = d
      BY <1>1, NewDecision
    <3>2. SameMade(c) /\ claim' = claim
      BY <1>1, SameRefundsMade DEF UpdateStatus
    <3>3. ~Writes(h, c) /\ ~(session'[h].at \in Points /\ session'[h].claim = c)
      BY <1>0, <2>2, <3>1 DEF Writes
    <3> QED BY <3>2, <3>3, KnownKept
  <2> QED BY <2>1, <2>2
<1>2. ASSUME NEW x \in Refunds, SuccessNotice(h, x) PROVE Known(c)'
  <2>1. SameMade(c) /\ claim' = claim
    BY <1>2, SameRefundsMade DEF SuccessNotice
  <2>2. session[h].at = "idle" /\ session'[h].at = "notice"
    BY <1>0, <1>2, NextPoint
  <2> QED BY <2>1, <2>2, KnownKept DEF Writes, Points
<1>3. CASE RefundOrder(h)
  <2>1. SameMade(c) /\ claim' = claim /\ session[h].at = "refund_order"
    BY <1>3, SameRefundsMade DEF RefundOrder
  <2>2. /\ session'[h].at \in {"idle", "call", "commit"}
        /\ session'[h].at \in Early => session'[h].claim = session[h].claim
    BY <1>0, <1>3, NextPoint DEF Early
  <2> QED BY <2>1, <2>2, KnownKept DEF Writes, Points, Early
<1>4. CASE CallGateway(h)
  <2>1. SameMade(c) /\ claim' = claim /\ session[h].at = "call"
    BY <1>4, SameRefundsMade DEF CallGateway
  <2>2. /\ session'[h].at \in {"idle", "commit"}
        /\ session'[h].at \in Early => session'[h].claim = session[h].claim
    BY <1>0, <1>4, NextPoint DEF Early
  <2> QED BY <2>1, <2>2, KnownKept DEF Writes, Points, Early
<1>5. CASE CommitRefund(h)
  <2>1. CASE session[h].claim = c
    BY <1>5, <2>1, KnownCommit
  <2>2. CASE session[h].claim # c
    <3>1. SameMade(c) /\ claim' = claim
      BY <1>5, <2>2, CommitMade DEF CommitRefund
    <3>2. session[h].at = "commit" /\ session'[h].claim = session[h].claim
      BY <1>5, NextPoint
    <3> QED BY <2>2, <3>1, <3>2, KnownKept DEF Writes
  <2> QED BY <2>1, <2>2
<1>6. CASE WriteClaim(h)
  <2>1. CASE session[h].claim = c
    BY <1>6, <2>1, KnownWrite
  <2>2. CASE session[h].claim # c
    <3>1. SameMade(c) /\ claim'[c] = claim[c]
      BY <1>6, <2>2, SameRefundsMade DEF WriteClaim, Typed, TypeOK
    <3>2. session'[h].at = "idle"
      BY <1>0, <1>6, NextPoint
    <3> QED BY <2>2, <3>1, <3>2, KnownKept DEF Writes, Points
  <2> QED BY <2>1, <2>2
<1>7. CASE CompleteRefund(h)
  <2> DEFINE x == session[h].txn
  <2>1. /\ x \in Refunds /\ refund[x].status # "none" /\ session[h].at = "notice"
        /\ refund' = [refund EXCEPT ![x].status = "success"]
        /\ claim' = [d \in Claims |-> IF claim[d].txn = x
                                      THEN [claim[d] EXCEPT !.refundedAt = TRUE] ELSE claim[d]]
    BY <1>7, SessionAt DEF CompleteRefund, Noticed, Typed, Holds
  <2>2. CASE refund[x].claim = c
    <3>1. \A g \in Handlers : ~Decides(g, c)
      BY <1>7, <2>2, HistoryGrows
    <3> QED BY <1>7, <2>2, <3>1, KnownComplete
  <2>3. session'[h].at = "idle"
    BY <1>0, <1>7, NextPoint
  <2> HIDE DEF x
  <2>4. CASE refund[x].claim # c
    <3>1. SameMade(c) /\ claim[c].txn # x
      BY <2>1, <2>4, OtherEnded
    <3>2. claim'[c] = claim[c]
      BY <2>1, <3>1
    <3> QED BY <2>1, <2>3, <3>1, <3>2, KnownKept DEF Writes, Points
  <2> QED BY <2>2, <2>4
<1>8. CASE Crash(h)
  <2>1. SameMade(c) /\ claim' = claim
    BY <1>8, SameRefundsMade DEF Crash
  <2>2. ~Writes(h, c)
    BY <1>8, HistoryGrows DEF Writes, Unwritten
  <2>3. session'[h].at = "idle"
    BY <1>0, <1>8, NextPoint
  <2> QED BY <2>1, <2>2, <2>3, KnownKept DEF Points
<1> QED BY <1>1, <1>2, <1>3, <1>4, <1>5, <1>6, <1>7, <1>8 DEF Acts

LEMMA KnownStep ==
  Typed /\ Fresh /\ Named /\ Waits /\ KnownClaims /\ [Next]_vars => KnownClaims'
<1> SUFFICES ASSUME Typed, Fresh, Named, Waits, KnownClaims, [Next]_vars,
                    NEW c \in Claims, c \notin disturbed'
             PROVE  Known(c)'
  BY DEF KnownClaims
<1>0. Known(c)
  BY HistoryGrows DEF KnownClaims
<1>1. ASSUME NEW h \in Handlers, Acts(h), \A g \in Handlers \ {h} : session'[g] = session[g]
      PROVE  Known(c)'
  BY <1>0, <1>1, KnownActs
<1>2. ASSUME NEW x \in Refunds, FailureNotice(x) PROVE Known(c)'
  <2>1. /\ refund[x].status # "none" /\ session' = session
        /\ refund' = [refund EXCEPT ![x].status = "failed"]
        /\ claim' = [d \in Claims |-> IF claim[d].txn = x
                       THEN [claim[d] EXCEPT !.txn = "none", !.refundedAt = FALSE] ELSE claim[d]]
    BY <1>2 DEF FailureNotice, Announced, Released
  <2>2. CASE refund[x].claim = c
    <3>1. \A g \in Handlers : ~Decides(g, c)
      BY <1>2, <2>2, HistoryGrows
    <3> QED BY <1>0, <1>2, <2>2, <3>1, KnownFailure
  <2>3. CASE refund[x].claim # c
    <3>1. SameMade(c) /\ claim[c].txn # x
      BY <2>1, <2>3, OtherEnded
    <3>2. claim'[c] = claim[c]
      BY <2>1, <3>1
    <3> QED BY <1>0, <2>1, <3>1, <3>2, KnownKept
  <2> QED BY <2>2, <2>3
<1>3. ASSUME \/ UNCHANGED vars
             \/ \E p \in Payments : PayOrder(p) \/ PaymentNotice(p)
             \/ \E o \in Orders :
                  Accept(o) \/ Dispatch(o) \/ Pickup(o) \/ Deliver(o) \/ SettleRiderIncome(o)
             \/ \E d \in Claims : CreateClaim(d)
             \/ \E x \in Refunds : GatewayEnds(x)
      PROVE  Known(c)'
  <2>1. session' = session /\ refund' = refund
    BY <1>3 DEF vars, PayOrder, PaymentNotice, Accept, Dispatch, Pickup, Progress, Deliver,
                SettleRiderIncome, CreateClaim, GatewayEnds
  <2>2. claim'[c].txn = claim[c].txn /\ claim'[c].refundedAt = claim[c].refundedAt
    <3>1. ASSUME NEW d \in Claims, CreateClaim(d)
          PROVE  claim'[c].txn = claim[c].txn /\ claim'[c].refundedAt = claim[c].refundedAt
      BY <3>1 DEF CreateClaim, Typed, TypeOK, Entity
    <3>2. claim' = claim \/ \E d \in Claims : CreateClaim(d)
      BY <1>3 DEF vars, PayOrder, PaymentNotice, Accept, Dispatch, Pickup, Progress, Deliver,
                  SettleRiderIncome, GatewayEnds
    <3> QED BY <3>1, <3>2
  <2> QED BY <1>0, <2>1, <2>2, SameRefundsMade, KnownKept
<1>4. CASE session' = session /\ \A x \in Refunds : ~FailureNotice(x)
  <2>1. CASE \E h \in Handlers : Acts(h)
    BY <1>1, <1>4, <2>1
  <2>2. CASE ~ \E h \in Handlers : Acts(h)
    BY <1>3, <1>4, <2>2 DEF Next, Acts
  <2> QED BY <2>1, <2>2
<1>5. ASSUME NEW h \in Handlers, Acts(h), session' = session PROVE Known(c)'
  BY <1>1, <1>5
<1> QED BY <1>1, <1>2, <1>4, <1>5, SessionOf

\* A claim names no refund but a stored one of its own.  Unless its handler died or was
\* overtaken between the refund and the claim, it names the one refund made for it as soon as
\* nobody decides it, says when that succeeded, and is released by its failure, whatever else
\* goes on in the order (UpdateStatus, RefundOrder, markThirdPartyCallbackFailed).
THEOREM ClaimsKnown == Spec => []ClaimKnowsRefund
<1>1. Typed /\ Named /\ KnownClaims => ClaimKnowsRefund
  <2> SUFFICES ASSUME Typed, Named, KnownClaims, NEW c \in Claims
               PROVE  /\ claim[c].txn # "none" => refund[claim[c].txn].status # "none"
                                                  /\ refund[claim[c].txn].claim = c
                      /\ claim[c].refundedAt =>
                           claim[c].txn \in Made(c) /\ refund[claim[c].txn].status = "success"
                      /\ c \notin disturbed /\ (\A h \in Handlers : ~Decides(h, c)) =>
                           /\ Made(c) = {claim[c].txn} \ {"none"}
                           /\ \A x \in Made(c) : refund[x].status = "success" => claim[c].refundedAt
    BY DEF ClaimKnowsRefund, Made
  <2>1. Names(c, claim[c].txn, claim[c].refundedAt) /\ claim[c].txn \in RefundId
    BY DEF Named, Typed, TypeOK, Entity
  <2>2. ASSUME c \notin disturbed, \A h \in Handlers : ~Decides(h, c)
        PROVE  /\ Made(c) = {claim[c].txn} \ {"none"}
               /\ \A x \in Made(c) : refund[x].status = "success" => claim[c].refundedAt
    <3>1. \A h \in Handlers : ~Writes(h, c)
      BY <2>2 DEF Decides, Writes, Points
    <3>2. Agrees(Made(c), Won(c), claim[c].txn, claim[c].refundedAt)
      BY <2>2, <3>1 DEF KnownClaims, Known
    <3> QED BY <3>2 DEF Agrees, Won
  <2>3. claim[c].refundedAt => claim[c].txn \in Made(c)
    BY <2>1 DEF Names, Made, RefundId
  <2> QED BY <2>1, <2>2, <2>3 DEF Names
<1> QED BY <1>1, TypedInit, TypedStep, FreshInit, FreshStep, NamedInit, NamedStep, WaitsStep,
           KnownInit, KnownStep, PTL DEF Spec

-----------------------------------------------------------------------------
(* The refunds the gateway made.                                           *)

\* Only a refund through the gateway is asked of it.
Asks == \A h \in Handlers : session[h].at = "call" => session[h].method = "gateway"

Taken(x) == gateway[x].state \in {"accepted", "done"}
Stored(x) ==
  refund[x].status \in {"refund_pending", "success"} /\ refund[x].claim = gateway[x].claim
Stores(h, x) ==
  /\ session[h].at = "commit" /\ session[h].method = "gateway"
  /\ session[h].txn = x /\ session[h].claim = gateway[x].claim
\* What the gateway took on is stored, or about to be.
Booked ==
  \A x \in Refunds : Taken(x) /\ gateway[x].claim \notin disturbed =>
    Stored(x) \/ \E h \in Handlers : Stores(h, x)

LEMMA BookedInit == Init => Asks /\ Booked
BY DEF Init, Asks, Booked, Taken, Idle

LEMMA AsksStep == Typed /\ Asks /\ [Next]_vars => Asks'
<1> SUFFICES ASSUME Typed, Asks, [Next]_vars, NEW h \in Handlers, session'[h].at = "call"
             PROVE  session'[h].method = "gateway"
  BY DEF Asks
<1>0. Idle.at = "idle"
  BY DEF Idle
<1>1. CASE session'[h] = session[h]
  BY <1>1 DEF Asks
<1>2. CASE Acts(h)
  <2>1. ~ \E c \in Claims : UpdateStatus(h, c)
    BY NewDecision
  <2>2. ~ \E x \in Refunds : SuccessNotice(h, x)
    BY NextPoint
  <2>3. ~ (CallGateway(h) \/ CommitRefund(h) \/ WriteClaim(h) \/ CompleteRefund(h) \/ Crash(h))
    BY <1>0, NextPoint
  <2>4. RefundOrder(h)
    BY <1>2, <2>1, <2>2, <2>3 DEF Acts
  <2> QED BY <1>0, <2>4, NextPoint
<1> QED BY <1>1, <1>2, SessionOf

\* Only a call makes the gateway take on a refund; its handler stores it, unless the reply
\* is lost, which the history records.
LEMMA GatewayMoves ==
  ASSUME Typed, Asks, [Next]_vars, NEW x \in Refunds, Taken(x)',
         gateway'[x].claim \notin disturbed'
  PROVE  \/ Taken(x) /\ gateway'[x].claim = gateway[x].claim
         \/ \E h \in Handlers : Stores(h, x)'
<1>1. CASE gateway' = gateway
  BY <1>1 DEF Taken
<1>2. ASSUME NEW y \in Refunds, GatewayEnds(y)
      PROVE  Taken(x) /\ gateway'[x].claim = gateway[x].claim
  <2>1. PICK end \in {"done", "failed"} : gateway' = [gateway EXCEPT ![y].state = end]
    BY <1>2 DEF GatewayEnds
  <2>2. gateway[y].state = "accepted" /\ gateway[y] \in GatewayRow
    BY <1>2 DEF GatewayEnds, Typed, TypeOK
  <2>3. CASE x = y
    <3>1. gateway'[x] = [gateway[x] EXCEPT !.state = end]
      BY <2>1, <2>3 DEF Typed, TypeOK
    <3> QED BY <2>2, <2>3, <3>1 DEF Taken, GatewayRow
  <2>4. CASE x # y
    <3>1. gateway'[x] = gateway[x]
      BY <2>1, <2>4 DEF Typed, TypeOK
    <3> QED BY <3>1 DEF Taken
  <2> QED BY <2>3, <2>4
<1>3. ASSUME NEW h \in Handlers, CallGateway(h), gateway' # gateway
      PROVE  (Taken(x) /\ gateway'[x].claim = gateway[x].claim) \/ Stores(h, x)'
  <2> DEFINE s == session[h]
             row == [state |-> "accepted", claim |-> s.claim, amount |-> s.amount]
             t == [s EXCEPT !.at = "commit"]
  <2>1. /\ gateway' = [gateway EXCEPT ![s.txn] = row] /\ s.at = "call"
        /\ Step(h, t) \/ disturbed' = disturbed \cup {s.claim}
    BY <1>3 DEF CallGateway
  <2>2. s \in Working /\ s.method = "gateway"
    BY <2>1, SessionAt DEF Points, Typed, Asks
  <2>3. Step(h, t) => session'[h] = t
    BY DEF Step, Typed, TypeOK
  <2>4. t.at = "commit" /\ t.txn = s.txn /\ t.claim = s.claim /\ t.method = s.method
    BY <2>2 DEF Working
  <2>5. row.claim = s.claim
    OBVIOUS
  <2> HIDE DEF row, t
  <2>6. CASE s.txn = x
    <3>1. gateway'[x] = row
      BY <2>1, <2>6 DEF Typed, TypeOK
    <3>2. Step(h, t)
      BY <2>1, <2>5, <3>1
    <3> QED BY <2>2, <2>3, <2>4, <2>5, <2>6, <3>1, <3>2 DEF Stores
  <2>7. CASE s.txn # x
    <3>1. gateway'[x] = gateway[x]
      BY <2>1, <2>7 DEF Typed, TypeOK
    <3> QED BY <3>1 DEF Taken
  <2> QED BY <2>6, <2>7
<1> QED BY <1>1, <1>2, <1>3, GatewayActs

LEMMA BookedStep == Typed /\ Fresh /\ Asks /\ Booked /\ [Next]_vars => Booked'
<1> SUFFICES ASSUME Typed, Fresh, Asks, Booked, [Next]_vars, NEW x \in Refunds, Taken(x)',
                    gateway'[x].claim \notin disturbed'
             PROVE  Stored(x)' \/ \E h \in Handlers : Stores(h, x)'
  BY DEF Booked
<1>0. Idle.at = "idle"
  BY DEF Idle
<1>1. CASE \E h \in Handlers : Stores(h, x)'
  BY <1>1
<1>2. CASE Taken(x) /\ gateway'[x].claim = gateway[x].claim
  <2>1. CASE Stored(x)
    <3>1. ~FailureNotice(x)
      BY <1>2 DEF FailureNotice, Announced, Taken
    <3>2. refund'[x].status \in {"refund_pending", "success"}
      BY <2>1, <3>1, StoredKept DEF Stored
    <3>3. refund'[x].claim = refund[x].claim
      BY <2>1, StableRefund DEF Stored
    <3> QED BY <1>2, <2>1, <3>2, <3>3 DEF Stored
  <2>2. ASSUME NEW h \in Handlers, Stores(h, x)
        PROVE  Stored(x)' \/ \E g \in Handlers : Stores(g, x)'
    <3>0. session[h].at = "commit" /\ session[h].claim \in Claims
      BY <2>2, SessionAt DEF Stores, Points, Working, Typed
    <3>1. CASE session'[h] = session[h]
      <4>1. Stores(h, x)'
        BY <1>2, <2>2, <3>1 DEF Stores
      <4> QED BY <4>1
    <3>2. CASE Acts(h)
      <4>1. CommitRefund(h)
        <5>1. session[h] # Idle
          BY <1>0, <3>0
        <5>2. ~ \E c \in Claims : UpdateStatus(h, c)
          BY <5>1, NewDecision
        <5>3. ~ \E y \in Refunds : SuccessNotice(h, y)
          BY <5>1 DEF SuccessNotice
        <5>4. ~ (RefundOrder(h) \/ CallGateway(h) \/ WriteClaim(h) \/ CompleteRefund(h))
          BY <3>0 DEF RefundOrder, CallGateway, WriteClaim, CompleteRefund
        <5>5. ~Crash(h)
          <6>1. Unwritten(session[h]) /\ session[h].claim \notin disturbed'
            BY <1>2, <2>2 DEF Unwritten, Stores
          <6> QED BY <3>0, <6>1, HistoryGrows
        <5> QED BY <3>2, <5>2, <5>3, <5>4, <5>5 DEF Acts
      <4> DEFINE s == session[h]
                 row == [status |-> IF s.method = "ifpay" THEN "success" ELSE "refund_pending",
                         claim |-> s.claim, amount |-> s.amount, method |-> s.method]
      <4>2. s.txn = x /\ refund' = [refund EXCEPT ![s.txn] = row]
        BY <2>2, <4>1, CommittedRow DEF Stores
      <4>3. row.status \in {"refund_pending", "success"} /\ row.claim = s.claim
        OBVIOUS
      <4> HIDE DEF row
      <4>4. refund'[x] = row
        BY <4>2 DEF Typed, TypeOK
      <4>5. s.claim = gateway'[x].claim
        BY <1>2, <2>2 DEF Stores
      <4> QED BY <4>3, <4>4, <4>5 DEF Stored
    <3> QED BY <3>1, <3>2, SessionOf
  <2>3. gateway[x].claim \notin disturbed
    <3>1. gateway[x].claim \in Claims
      BY <1>2 DEF Taken, Typed, TypeOK, GatewayRow
    <3> QED BY <1>2, <3>1, HistoryGrows
  <2> QED BY <1>2, <2>1, <2>2, <2>3 DEF Booked
<1> QED BY <1>1, <1>2, GatewayMoves

\* The money of a claim is given back at most once, to the wallet or by the gateway: what the
\* gateway took on for the claim is stored, or is about to be by the one handler that decides
\* the claim, and that handler began because there was no refund of it.  It holds for every
\* claim that no two handlers decided at once, no handler left and no notice crossed between
\* the refund and the claim, whatever happens to the others: RefundOrder does not recognise
\* its own idempotency key, so a refund the claim does not name would be made again.
THEOREM RefundsOnce == Spec => []RefundedOnce
<1>1. Typed /\ KnownClaims /\ Booked => RefundedOnce
  <2> DEFINE Given(c) == {x \in Refunds :
               \/ refund[x].status \in {"refund_pending", "success"} /\ refund[x].claim = c
               \/ gateway[x].state \in {"accepted", "done"} /\ gateway[x].claim = c}
  <2> SUFFICES ASSUME Typed, KnownClaims, Booked, NEW c \in Claims \ disturbed
               PROVE  Cardinality(Given(c)) <= 1
    BY DEF RefundedOnce
  <2>0. Known(c)
    BY DEF KnownClaims
  <2>1. \E txn : Given(c) \subseteq {txn}
    <3>1. ASSUME NEW x \in Given(c)
          PROVE  x \in Made(c) \/ \E h \in Handlers : Stores(h, x) /\ session[h].claim = c
      BY DEF Booked, Taken, Stored, Stores, Made
    <3>2. ASSUME NEW h \in Handlers, session[h].at = "commit", session[h].claim = c
          PROVE  Given(c) \subseteq {session[h].txn}
      <4>1. \A g \in Handlers : Decides(g, c) => g = h
        BY <2>0, <3>2 DEF Known, Decides, Points
      <4>2. \A g \in Handlers : ~Writes(g, c)
        BY <3>2, <4>1 DEF Writes, Decides, Points
      <4>3. Made(c) = {}
        <5>1. claim[c].txn = "none"
          BY <2>0, <3>2 DEF Known, Decides, Points, Early
        <5>2. Agrees(Made(c), Won(c), claim[c].txn, claim[c].refundedAt)
          BY <2>0, <4>2 DEF Known
        <5> QED BY <5>1, <5>2 DEF Agrees
      <4> QED BY <3>1, <4>1, <4>3 DEF Stores, Decides, Points
    <3>3. CASE \E h \in Handlers : session[h].at = "commit" /\ session[h].claim = c
      BY <3>2, <3>3
    <3>4. CASE ~ \E h \in Handlers : session[h].at = "commit" /\ session[h].claim = c
      <4>1. Given(c) \subseteq Made(c)
        BY <3>1, <3>4 DEF Stores
      <4>2. CASE \A h \in Handlers : ~Writes(h, c)
        <5>1. Agrees(Made(c), Won(c), claim[c].txn, claim[c].refundedAt)
          BY <2>0, <4>2 DEF Known
        <5> QED BY <4>1, <5>1 DEF Agrees
      <4>3. ASSUME NEW h \in Handlers, Writes(h, c) PROVE Given(c) \subseteq {session[h].txn}
        <5>1. Agrees(Made(c), Won(c), session[h].txn, session[h].done)
          BY <2>0, <4>3 DEF Known
        <5> QED BY <4>1, <5>1 DEF Agrees
      <4> QED BY <4>2, <4>3
    <3> QED BY <3>3, <3>4
  <2> HIDE DEF Given
  <2>2. PICK txn : Given(c) \subseteq {txn}
    BY <2>1
  <2>3. IsFiniteSet({txn}) /\ Cardinality({txn}) = 1
    BY FS_Singleton
  <2>4. Cardinality(Given(c)) <= Cardinality({txn}) /\ IsFiniteSet(Given(c))
    BY <2>2, <2>3, FS_Subset
  <2>5. Cardinality(Given(c)) \in Nat
    BY <2>4, FS_CardinalityType
  <2> QED BY <2>3, <2>4, <2>5
<1> QED BY <1>1, TypedInit, TypedStep, FreshInit, FreshStep, NamedInit, NamedStep, WaitsStep,
           KnownInit, KnownStep, BookedInit, AsksStep, BookedStep, PTL DEF Spec
=============================================================================
