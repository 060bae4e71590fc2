------------------------- MODULE RiderDepositProofs -------------------------
(* What holds of RiderDeposit for every value of its constants and in every    *)
(* interleaving: type correctness, and what the run checks of the deposit.     *)
EXTENDS RiderDeposit, FiniteSetTheorems, WellFoundedInduction, TLAPS

\* The latest deposit.
LEMMA LatestCreated ==
  ASSUME Created # {}
  PROVE  /\ Max(Created) \in Created
         /\ \A d \in Created : d <= Max(Created)
<1> DEFINE Gaps == {Last - d : d \in Created}
<1>1. Created \subseteq 1..Last /\ Last \in Nat
  BY ConstantsOK DEF Created, Deposits
<1>2. Gaps \subseteq Nat /\ Gaps # {}
  <2>1. ASSUME NEW d \in Created PROVE Last - d \in Nat
    BY <1>1
  <2> QED BY <2>1
<1> DEFINE Less == OpToRel(<, Nat)
<1>3. PICK x \in Gaps : \A y \in Gaps : ~ (<<y, x>> \in Less)
  <2> HIDE DEF Gaps
  <2>1. IsWellFoundedOn(Less, Nat)
    BY NatLessThanWellFounded
  <2> HIDE DEF Less
  <2> QED BY <1>2, <2>1, WFMin
<1>4. PICK m \in Created : x = Last - m
  BY <1>3
<1>5. ASSUME NEW d \in Created PROVE m >= d
  <2>1. Last - d \in Gaps /\ ~ (<<Last - d, Last - m>> \in Less)
    BY <1>3, <1>4
  <2>2. ~ (Last - d < Last - m)
    BY <2>1, <1>1, <1>2 DEF OpToRel
  <2> QED BY <2>2, <1>1
<1>6. Max(Created) \in Created /\ \A y \in Created : Max(Created) >= y
  BY <1>5 DEF Max
<1> QED BY <1>6, <1>1

-----------------------------------------------------------------------------
(* The inductive invariant.                                                *)

\* A handler acts on a deposit that was taken into use, settles one that exists, locks one
\* when some deposit was paid, and has seen the rider at rest if it withdraws unless an order
\* became active since.
Used(d) == deposit[d].status \notin {"none", "unpaid"}
SessionFacts(h) ==
  LET s == session[h] IN
  /\ s.at \in {"count", "write", "withdraw"} => Used(s.deposit)
  /\ s.at \in {"accept", "mark"} => \E d \in Deposits : payment[d] = "success"
  /\ s.at = "notice" => deposit[s.deposit].status # "none"
  /\ s.at = "write" /\ s.status = "withdrawable" /\ s.late = FALSE => ~Active
  /\ s.at = "withdraw" /\ s.late = FALSE => ~Active
Sessions == \A h \in Handlers : SessionFacts(h)

\* The deposits are created in order, each before its payment, and name a request only in
\* use; a request not created yet is named by no deposit.
InOrder == \A d \in Created : \A e \in 1..d : e \in Created
PaidLater ==
  \A d \in Deposits : /\ deposit[d].status = "none" => payment[d] = "none"
                      /\ deposit[d].request # "none" => Used(d)
Fresh ==
  \A w \in Requests : request[w].status = "none" => \A d \in Deposits : deposit[d].request # w
Rows == InOrder /\ PaidLater /\ Fresh /\ HeldWasPaid /\ DepositFollowsRequest

LEMMA MarksOne ==
  ASSUME Rows, Sessions, NEW h \in Handlers, session[h].at \in {"accept", "mark"}
  PROVE  /\ Created # {} /\ Max(Created) \in Deposits
         /\ \E e \in 1..Max(Created) : payment[e] = "success"
<1>1. PICK d \in Deposits : payment[d] = "success"
  BY DEF Sessions, SessionFacts
<1>2. d \in Created
  BY <1>1 DEF Rows, PaidLater, Created
<1>3. Max(Created) \in Created /\ d <= Max(Created)
  BY <1>2, LatestCreated
<1>4. d \in 1..Max(Created)
  BY <1>3, ConstantsOK DEF Created, Deposits
<1> QED BY <1>1, <1>2, <1>3, <1>4 DEF Created

-----------------------------------------------------------------------------
(* Type correctness.                                                       *)

\* A session that an order overtakes.
LEMMA LateSession ==
  ASSUME NEW s \in Session, s.at \in {"write", "withdraw"}
  PROVE  /\ [s EXCEPT !.late = TRUE] \in Session
         /\ [s EXCEPT !.late = TRUE].late = TRUE
         /\ [s EXCEPT !.late = TRUE].at = s.at
         /\ [s EXCEPT !.late = TRUE].deposit = s.deposit
         /\ s.late \in BOOLEAN
<1> DEFINE Writes == [at : {"count", "write"}, for : Purposes, deposit : Deposits, status : Held,
                      due : BOOLEAN, late : BOOLEAN]
           Withdraws == [at : {"withdraw"}, deposit : Deposits, late : BOOLEAN]
<1>1. s \in Writes \/ s \in Withdraws
  BY DEF Session, Idle
<1>2. CASE s \in Writes
  <2>1. [s EXCEPT !.late = TRUE] \in Writes
    BY <1>2
  <2> QED BY <1>2, <2>1 DEF Session
<1>3. CASE s \in Withdraws
  <2>1. [s EXCEPT !.late = TRUE] \in Withdraws
    BY <1>3
  <2> QED BY <1>3, <2>1 DEF Session
<1> QED BY <1>1, <1>2, <1>3

\* What a session holds.
LEMMA SessionAt ==
  ASSUME TypeOK, NEW h \in Handlers
  PROVE  /\ session[h] \in Session
         /\ session[h].at \in {"count", "write"} =>
              /\ session[h] \in [at : {"count", "write"}, for : Purposes, deposit : Deposits,
                                 status : Held, due : BOOLEAN, late : BOOLEAN]
              /\ session[h].deposit \in Deposits /\ session[h].status \in Held
         /\ session[h].at \in {"withdraw", "notice"} => session[h].deposit \in Deposits
         /\ session[h].at \in {"write", "withdraw"} =>
              /\ [session[h] EXCEPT !.late = TRUE] \in Session
              /\ session[h].late \in BOOLEAN
<1>1. session[h] \in Session
  BY DEF TypeOK
<1>2. ASSUME session[h].at \in {"write", "withdraw"}
      PROVE  [session[h] EXCEPT !.late = TRUE] \in Session /\ session[h].late \in BOOLEAN
  BY <1>1, <1>2, LateSession
<1>3. ASSUME session[h].at \in {"count", "write"}
      PROVE  session[h] \in [at : {"count", "write"}, for : Purposes, deposit : Deposits,
                              status : Held, due : BOOLEAN, late : BOOLEAN]
  BY <1>1, <1>3 DEF Session, Idle
<1>4. ASSUME session[h].at \in {"withdraw", "notice"} PROVE session[h].deposit \in Deposits
  BY <1>1, <1>4 DEF Session, Idle
<1>5. ASSUME session[h].at \in {"count", "write"}
      PROVE  session[h].deposit \in Deposits /\ session[h].status \in Held
  BY <1>3, <1>5
<1> QED BY <1>1, <1>2, <1>3, <1>4, <1>5

LEMMA StepType ==
  ASSUME TypeOK, NEW h \in Handlers, NEW s \in Session, Step(h, s)
  PROVE  session' \in [Handlers -> Session] /\ session'[h] = s
         /\ \A g \in Handlers \ {h} : session'[g] = session[g]
  BY DEF TypeOK, Step

\* Where a caller goes on with the deposit that refreshRiderDepositState returned.
LEMMA ResumeStep ==
  ASSUME NEW h \in Handlers, NEW purpose, NEW d \in Deposits, NEW status, NEW late \in BOOLEAN,
         Resume(h, purpose, d, status, late)
  PROVE  \E s \in Session :
           /\ Step(h, s)
           /\ s.at \in {"idle", "accept", "pay", "withdraw"}
           /\ s.at = "accept" => status \in Held
           /\ s.at = "withdraw" => status = "withdrawable" /\ s.deposit = d /\ s.late = late
<1> DEFINE s == CASE purpose = "accept" /\ status \in Held -> [at |-> "accept"]
                  [] purpose = "pay" /\ status \notin Held \cup {"withdrawing"} -> [at |-> "pay"]
                  [] purpose = "withdraw" /\ status = "withdrawable"
                       -> [at |-> "withdraw", deposit |-> d, late |-> late]
                  [] OTHER -> Idle
<1>1. Step(h, s)
  BY DEF Resume
<1>2. CASE purpose = "accept" /\ status \in Held
  <2>1. s = [at |-> "accept"]
    BY <1>2
  <2>2. s \in Session
    BY <2>1 DEF Session
  <2> HIDE DEF s
  <2> QED BY <1>1, <1>2, <2>1, <2>2
<1>3. CASE purpose = "pay" /\ status \notin Held \cup {"withdrawing"}
  <2>1. s = [at |-> "pay"]
    BY <1>3
  <2>2. s \in Session
    BY <2>1 DEF Session
  <2> HIDE DEF s
  <2> QED BY <1>1, <2>1, <2>2
<1>4. CASE purpose = "withdraw" /\ status = "withdrawable"
  <2>1. s = [at |-> "withdraw", deposit |-> d, late |-> late]
    BY <1>4
  <2>2. s \in Session
    BY <2>1 DEF Session
  <2>3. s.at = "withdraw" /\ s.deposit = d /\ s.late = late
    BY <2>1
  <2> HIDE DEF s
  <2> QED BY <1>1, <1>4, <2>2, <2>3
<1>5. CASE /\ ~ (purpose = "accept" /\ status \in Held)
           /\ ~ (purpose = "pay" /\ status \notin Held \cup {"withdrawing"})
           /\ ~ (purpose = "withdraw" /\ status = "withdrawable")
  <2>1. s = Idle
    BY <1>5
  <2>2. s \in Session
    BY <2>1 DEF Session
  <2> HIDE DEF s
  <2> QED BY <1>1, <2>1, <2>2 DEF Idle
<1> QED BY <1>2, <1>3, <1>4, <1>5

LEMMA ResumeType ==
  ASSUME TypeOK, NEW h \in Handlers, NEW purpose, NEW d \in Deposits, NEW status,
         NEW late \in BOOLEAN, Resume(h, purpose, d, status, late)
  PROVE  session' \in [Handlers -> Session]
<1>1. \E s \in Session : Step(h, s)
  BY ResumeStep
<1> QED BY <1>1, StepType

\* The writes of one deposit keep its type.
LEMMA RowTypes ==
  ASSUME TypeOK, NEW d \in Deposits
  PROVE  /\ deposit[d] \in DepositRow
         /\ \A st \in {"none", "unpaid", "withdrawing", "refunded"} \cup Held :
              SetStatus(d, st) => deposit' \in [Deposits -> DepositRow]
         /\ \A st \in Held :
              /\ [deposit[d] EXCEPT !.status = st] \in DepositRow
              /\ [deposit[d] EXCEPT !.status = st].status = st
              /\ [deposit[d] EXCEPT !.status = st].request = deposit[d].request
              /\ [deposit[d] EXCEPT !.status = st].accepted = deposit[d].accepted
<1>1. deposit[d] \in DepositRow
  BY DEF TypeOK
<1>2. ASSUME NEW st \in {"none", "unpaid", "withdrawing", "refunded"} \cup Held, SetStatus(d, st)
      PROVE  deposit' \in [Deposits -> DepositRow]
  <2>1. [deposit[d] EXCEPT !.status = st] \in DepositRow
    BY <1>1 DEF DepositRow
  <2> QED BY <1>2, <2>1 DEF TypeOK, SetStatus
<1>3. ASSUME NEW st \in Held
      PROVE  /\ [deposit[d] EXCEPT !.status = st] \in DepositRow
             /\ [deposit[d] EXCEPT !.status = st].status = st
             /\ [deposit[d] EXCEPT !.status = st].request = deposit[d].request
             /\ [deposit[d] EXCEPT !.status = st].accepted = deposit[d].accepted
  BY <1>1 DEF DepositRow
<1> QED BY <1>1, <1>2, <1>3

LEMMA OverwriteType ==
  ASSUME TypeOK, NEW d \in Deposits, NEW row \in DepositRow, Overwrite(d, row)
  PROVE  deposit' \in [Deposits -> DepositRow] /\ reopened' \in SUBSET Deposits
  BY DEF TypeOK, Overwrite

\* The sessions a new order overtakes.
LEMMA OvertakenType ==
  ASSUME NEW ss \in [Handlers -> Session]
  PROVE  /\ Overtaken(ss) \in [Handlers -> Session]
         /\ \A h \in Handlers :
              IF ss[h].at \in {"write", "withdraw"}
              THEN Overtaken(ss)[h].late = TRUE /\ Overtaken(ss)[h].at = ss[h].at
                   /\ Overtaken(ss)[h].deposit = ss[h].deposit
              ELSE Overtaken(ss)[h] = ss[h]
<1>1. ASSUME NEW h \in Handlers, ss[h].at \in {"write", "withdraw"}
      PROVE  /\ [ss[h] EXCEPT !.late = TRUE] \in Session
             /\ [ss[h] EXCEPT !.late = TRUE].late = TRUE
             /\ [ss[h] EXCEPT !.late = TRUE].at = ss[h].at
             /\ [ss[h] EXCEPT !.late = TRUE].deposit = ss[h].deposit
  BY <1>1, LateSession
<1> QED BY <1>1 DEF Overtaken

LEMMA LinkedType ==
  ASSUME TypeOK, NEW w \in Requests, NEW st \in {"withdrawing", "refunded"} \cup Held,
         Linked(w, st)
  PROVE  deposit' \in [Deposits -> DepositRow] /\ reopened' \subseteq Deposits
<1>1. ASSUME NEW d \in Deposits
      PROVE  deposit[d] \in DepositRow /\ [deposit[d] EXCEPT !.status = st] \in DepositRow
  BY DEF TypeOK, DepositRow
<1> QED BY <1>1 DEF Linked, TypeOK

LEMMA RequestType ==
  ASSUME TypeOK, NEW w \in Requests,
         NEW st \in {"none", "pending_transfer", "transferring", "success", "failed"},
         SetRequest(w, st)
  PROVE  request' \in [Requests -> RequestRow]
<1>1. [request[w] EXCEPT !.status = st] \in RequestRow
  BY DEF TypeOK, RequestRow
<1> QED BY <1>1 DEF TypeOK, SetRequest

LEMMA InitType == Init => TypeOK
<1>1. [status |-> "none", request |-> "none", accepted |-> FALSE, due |-> FALSE] \in DepositRow
  BY DEF DepositRow
<1>2. 0 \in 0..Last
  BY ConstantsOK
<1> QED BY <1>1, <1>2 DEF Init, TypeOK, RequestRow, OrderRow, Session

LEMMA RefreshType ==
  ASSUME TypeOK, NEW h \in Handlers,
         (\E purpose \in Purposes : RefreshRead(h, purpose)) \/ RefreshCount(h) \/ RefreshWrite(h)
  PROVE  TypeOK'
<1>1. ASSUME NEW purpose \in Purposes, RefreshRead(h, purpose)
      PROVE  session' \in [Handlers -> Session]
  <2>1. CASE Created = {}
    <3>1. [at |-> "pay"] \in Session
      BY DEF Session
    <3> QED BY <1>1, <2>1, <3>1, StepType DEF RefreshRead
  <2>2. CASE Created # {}
    <3> DEFINE d == Max(Created)
               s == [at |-> "count", for |-> purpose, deposit |-> d,
                     status |-> deposit[d].status, due |-> deposit[d].due, late |-> FALSE]
    <3>1. d \in Deposits
      BY <2>2, LatestCreated DEF Created
    <3>2. deposit[d] \in DepositRow
      BY <3>1, RowTypes
    <3>3. CASE deposit[d].status \in Held
      <4>1. Step(h, s)
        BY <1>1, <2>2, <3>3 DEF RefreshRead
      <4>2. s \in Session
        BY <3>1, <3>2, <3>3 DEF Session, DepositRow
      <4> HIDE DEF s
      <4> QED BY <4>1, <4>2, StepType
    <3>4. CASE deposit[d].status \notin Held
      <4>1. Resume(h, purpose, d, deposit[d].status, FALSE)
        BY <1>1, <2>2, <3>4 DEF RefreshRead
      <4> HIDE DEF d
      <4> QED BY <3>1, <4>1, ResumeType
    <3> QED BY <3>3, <3>4
  <2> QED BY <2>1, <2>2
<1>2. ASSUME RefreshCount(h) PROVE session' \in [Handlers -> Session]
  <2> DEFINE s == session[h]
             t == [s EXCEPT !.at = "write", !.status = NewStatus(s)]
  <2>1. /\ s \in [at : {"count", "write"}, for : Purposes, deposit : Deposits,
                  status : Held, due : BOOLEAN, late : BOOLEAN]
        /\ s.deposit \in Deposits
    BY <1>2, SessionAt DEF RefreshCount
  <2>2. CASE NewStatus(s) = "none"
    <3>1. Resume(h, s.for, s.deposit, s.status, FALSE)
      BY <1>2, <2>2 DEF RefreshCount
    <3> QED BY <2>1, <3>1, ResumeType
  <2>3. CASE NewStatus(s) # "none"
    <3>1. Step(h, t)
      BY <1>2, <2>3 DEF RefreshCount
    <3>2. NewStatus(s) \in Held
      BY <2>3 DEF NewStatus, Held
    <3>3. t \in Session
      BY <2>1, <3>2 DEF Session
    <3> HIDE DEF t
    <3> QED BY <3>1, <3>3, StepType
  <2> QED BY <2>2, <2>3
<1>3. ASSUME RefreshWrite(h)
      PROVE  /\ session' \in [Handlers -> Session] /\ deposit' \in [Deposits -> DepositRow]
             /\ reopened' \in SUBSET Deposits
  <2>1. /\ session[h].deposit \in Deposits /\ session[h].status \in Held
        /\ session[h].late \in BOOLEAN
    BY <1>3, SessionAt DEF RefreshWrite
  <2>2. [deposit[session[h].deposit] EXCEPT !.status = session[h].status] \in DepositRow
    BY <2>1, RowTypes
  <2>3. Overwrite(session[h].deposit,
                  [deposit[session[h].deposit] EXCEPT !.status = session[h].status])
    BY <1>3 DEF RefreshWrite
  <2>4. deposit' \in [Deposits -> DepositRow] /\ reopened' \in SUBSET Deposits
    BY <2>1, <2>2, <2>3, OverwriteType
  <2>5. Resume(h, session[h].for, session[h].deposit, session[h].status, session[h].late)
    BY <1>3 DEF RefreshWrite
  <2>6. session' \in [Handlers -> Session]
    BY <2>1, <2>5, ResumeType
  <2> QED BY <2>4, <2>6
<1>4. ASSUME NEW purpose \in Purposes, RefreshRead(h, purpose) PROVE TypeOK'
  BY <1>1, <1>4 DEF RefreshRead, TypeOK
<1>5. CASE RefreshCount(h)
  BY <1>2, <1>5 DEF RefreshCount, TypeOK
<1>6. CASE RefreshWrite(h)
  BY <1>3, <1>6 DEF RefreshWrite, TypeOK
<1> QED BY <1>4, <1>5, <1>6

\* What the callers of the refresh do, and the notices of a payment.
LEMMA CallerType ==
  ASSUME TypeOK, Rows, Sessions, NEW h \in Handlers,
         \/ AcceptOrder(h) \/ MarkRiderAccepted(h) \/ CreatePayIntent(h)
         \/ WithdrawRiderDeposit(h) \/ PaymentSucceeds(h) \/ Crash(h)
         \/ \E d \in Deposits : NoticeRead(h, d)
  PROVE  TypeOK'
<1>1. Idle \in Session /\ [at |-> "mark"] \in Session
  BY DEF Session
<1>2. ASSUME Step(h, Idle) PROVE session' \in [Handlers -> Session]
  BY <1>1, <1>2, StepType
<1>3. CASE AcceptOrder(h)
  <2>1. session' \in [Handlers -> Session]
    <3>1. [session EXCEPT ![h] = [at |-> "mark"]] \in [Handlers -> Session]
      BY <1>1 DEF TypeOK
    <3> QED BY <1>2, <1>3, <3>1, OvertakenType DEF AcceptOrder
  <2>2. order' \in [Orders -> OrderRow]
    <3>1. ASSUME NEW o \in Orders, order' = [order EXCEPT ![o].status = "active"]
          PROVE  order' \in [Orders -> OrderRow]
      <4>1. [order[o] EXCEPT !.status = "active"] \in OrderRow
        BY DEF TypeOK, OrderRow
      <4> QED BY <3>1, <4>1 DEF TypeOK
    <3> QED BY <1>3, <3>1 DEF AcceptOrder, TypeOK
  <2> QED BY <1>3, <2>1, <2>2 DEF AcceptOrder, TypeOK
<1>4. CASE MarkRiderAccepted(h)
  <2> DEFINE m == Max(Created)
             row == [deposit[m] EXCEPT !.status = "paid_locked", !.accepted = TRUE, !.due = FALSE]
  <2>1. Overwrite(m, row)
    BY <1>4 DEF MarkRiderAccepted
  <2>2. ASSUME m \in Deposits PROVE row \in DepositRow
    <3> HIDE DEF m
    <3>1. deposit[m] \in DepositRow
      BY <2>2, RowTypes
    <3> QED BY <3>1 DEF DepositRow, Held
  <2> HIDE DEF row
  <2>4. m \in Deposits
    BY <1>4, MarksOne DEF MarkRiderAccepted
  <2>5. deposit' \in [Deposits -> DepositRow] /\ reopened' \in SUBSET Deposits
    BY <2>1, <2>2, <2>4, OverwriteType
  <2> QED BY <1>2, <1>4, <2>5 DEF MarkRiderAccepted, TypeOK
<1>5. CASE CreatePayIntent(h)
  <2> DEFINE d == Cardinality(Created) + 1
  <2>1. session' \in [Handlers -> Session]
    BY <1>2, <1>5 DEF CreatePayIntent
  <2>2. /\ UNCHANGED <<request, wallet, order, reopened>>
        /\ \/ SetStatus(d, "unpaid") /\ payment' = [payment EXCEPT ![d] = "pending"]
           \/ UNCHANGED <<deposit, payment>>
    BY <1>5 DEF CreatePayIntent
  <2> HIDE DEF d
  <2>3. CASE UNCHANGED <<deposit, payment>>
    BY <2>1, <2>2, <2>3 DEF TypeOK
  <2>4. CASE SetStatus(d, "unpaid") /\ payment' = [payment EXCEPT ![d] = "pending"]
    <3>1. CASE d \in Deposits
      <4>1. deposit' \in [Deposits -> DepositRow]
        BY <2>4, <3>1, RowTypes
      <4>2. payment' \in [Deposits -> {"none", "pending", "success", "failed"}]
        BY <2>4 DEF TypeOK
      <4> QED BY <2>1, <2>2, <4>1, <4>2 DEF TypeOK
    <3>2. CASE d \notin Deposits
      <4>1. deposit' = deposit /\ payment' = payment
        BY <2>4, <3>2 DEF SetStatus, TypeOK
      <4> QED BY <2>1, <2>2, <4>1 DEF TypeOK
    <3> QED BY <3>1, <3>2
  <2> QED BY <2>2, <2>3, <2>4
<1>6. CASE WithdrawRiderDeposit(h)
  <2> DEFINE d == session[h].deposit
  <2>0. d \in Deposits
    BY <1>6, SessionAt DEF WithdrawRiderDeposit
  <2>1. d \in Deposits /\ d \in 0..Last
    <3> HIDE DEF d
    <3> QED BY <2>0, ConstantsOK DEF Deposits
  <2>2. PICK w \in Requests :
          /\ request' = [request EXCEPT ![w] = [status |-> "pending_transfer", deposit |-> d]]
          /\ deposit' = [deposit EXCEPT ![d] = [@ EXCEPT !.status = "withdrawing", !.request = w]]
    BY <1>6 DEF WithdrawRiderDeposit
  <2> HIDE DEF d
  <2>3. [deposit[d] EXCEPT !.status = "withdrawing", !.request = w] \in DepositRow
    <3>1. deposit[d] \in DepositRow
      BY <2>1, RowTypes
    <3> QED BY <3>1 DEF DepositRow
  <2>4. deposit' \in [Deposits -> DepositRow]
    BY <2>1, <2>2, <2>3 DEF TypeOK
  <2>5. request' \in [Requests -> RequestRow]
    BY <2>1, <2>2 DEF TypeOK, RequestRow
  <2>6. reopened' \subseteq Deposits
    BY <1>6 DEF WithdrawRiderDeposit, TypeOK
  <2> QED BY <1>2, <1>6, <2>4, <2>5, <2>6 DEF WithdrawRiderDeposit, TypeOK
<1>7. CASE PaymentSucceeds(h)
  <2> DEFINE d == session[h].deposit
             row == [deposit[d] EXCEPT !.status = "paid_locked",
                                       !.due = deposit[d].due /\ deposit[d].accepted]
  <2>1. d \in Deposits
    BY <1>7, SessionAt DEF PaymentSucceeds
  <2>2. Overwrite(d, row)
    BY <1>7 DEF PaymentSucceeds
  <2>3. row \in DepositRow
    <3> DEFINE due == deposit[d].due /\ deposit[d].accepted
    <3>1. deposit[d] \in DepositRow
      BY <2>1, RowTypes
    <3>2. due \in BOOLEAN
      OBVIOUS
    <3>3. row = [deposit[d] EXCEPT !.status = "paid_locked", !.due = due]
      OBVIOUS
    <3> HIDE DEF due, row, d
    <3> QED BY <3>1, <3>2, <3>3 DEF DepositRow, Held
  <2> HIDE DEF row
  <2>4. deposit' \in [Deposits -> DepositRow] /\ reopened' \in SUBSET Deposits
    BY <2>1, <2>2, <2>3, OverwriteType
  <2>5. payment' \in [Deposits -> {"none", "pending", "success", "failed"}]
    BY <1>7 DEF PaymentSucceeds, BookPayment, TypeOK
  <2> QED BY <1>2, <1>7, <2>4, <2>5 DEF PaymentSucceeds, TypeOK
<1>8. CASE Crash(h)
  BY <1>2, <1>8 DEF Crash, TypeOK
<1>9. ASSUME NEW d \in Deposits, NoticeRead(h, d) PROVE TypeOK'
  <2>1. [at |-> "notice", deposit |-> d] \in Session
    BY DEF Session
  <2> QED BY <1>9, <2>1, StepType DEF NoticeRead, TypeOK
<1> QED BY <1>3, <1>4, <1>5, <1>6, <1>7, <1>8, <1>9

\* The changes of a withdraw request: what is taken from the frozen balance was there.
LEMMA RequestsType ==
  ASSUME TypeOK, NEW w \in Requests, Submit(w) \/ Complete(w) \/ Fail(w) \/ Retry(w)
  PROVE  TypeOK'
<1>1. /\ wallet.balance \in Nat /\ wallet.frozen \in Nat /\ Amount \in Nat
      /\ wallet \in [balance : Nat, frozen : Nat]
  BY ConstantsOK DEF TypeOK
<1>2. CASE Submit(w)
  <2>1. /\ request' \in [Requests -> RequestRow] /\ deposit' \in [Deposits -> DepositRow]
        /\ reopened' \subseteq Deposits
    BY <1>2, RequestType, LinkedType DEF Submit
  <2> QED BY <1>2, <2>1 DEF Submit, TypeOK
<1>3. CASE Complete(w)
  <2>1. /\ request' \in [Requests -> RequestRow] /\ deposit' \in [Deposits -> DepositRow]
        /\ reopened' \subseteq Deposits
    BY <1>3, RequestType, LinkedType DEF Complete
  <2>2. wallet' \in [balance : Nat, frozen : Nat]
    BY <1>1, <1>3 DEF Complete, HasFrozen
  <2> QED BY <1>3, <2>1, <2>2 DEF Complete, TypeOK
<1>4. CASE Fail(w)
  <2>1. /\ request' \in [Requests -> RequestRow] /\ deposit' \in [Deposits -> DepositRow]
        /\ reopened' \subseteq Deposits
    BY <1>4, RequestType, LinkedType DEF Fail, Reopen, Held
  <2>2. wallet' \in [balance : Nat, frozen : Nat]
    BY <1>1, <1>4 DEF Fail, HasFrozen
  <2> QED BY <1>4, <2>1, <2>2 DEF Fail, TypeOK
<1>5. CASE Retry(w)
  <2>1. /\ request' \in [Requests -> RequestRow] /\ deposit' \in [Deposits -> DepositRow]
        /\ reopened' \subseteq Deposits
    BY <1>5, RequestType, LinkedType DEF Retry
  <2>2. wallet' \in [balance : Nat, frozen : Nat]
    BY <1>1, <1>5 DEF Retry
  <2> QED BY <1>5, <2>1, <2>2 DEF Retry, TypeOK
<1> QED BY <1>2, <1>3, <1>4, <1>5

\* The rider's work, and time.
LEMMA WorkType ==
  ASSUME TypeOK,
         \/ \E d \in Deposits : PaymentFails(d) \/ Rest(d)
         \/ \E o \in Orders : Dispatch(o) \/ Deliver(o) \/ SettleRiderIncome(o)
  PROVE  TypeOK'
<1>1. ASSUME NEW d \in Deposits, PaymentFails(d) PROVE TypeOK'
  <2>1. payment' \in [Deposits -> {"none", "pending", "success", "failed"}]
    BY <1>1 DEF PaymentFails, TypeOK
  <2> QED BY <1>1, <2>1 DEF PaymentFails, TypeOK
<1>2. ASSUME NEW d \in Deposits, Rest(d) PROVE TypeOK'
  <2>1. [deposit[d] EXCEPT !.due = TRUE] \in DepositRow
    <3>1. deposit[d] \in DepositRow
      BY RowTypes
    <3> QED BY <3>1 DEF DepositRow
  <2>2. deposit' \in [Deposits -> DepositRow]
    BY <1>2, <2>1 DEF Rest, TypeOK
  <2> QED BY <1>2, <2>2 DEF Rest, TypeOK
<1>3. ASSUME NEW o \in Orders
      PROVE  /\ order[o] \in OrderRow /\ Fee[o] \in Nat
             /\ wallet.balance \in Nat /\ wallet.frozen \in Nat
             /\ wallet \in [balance : Nat, frozen : Nat]
  BY ConstantsOK DEF TypeOK
<1>4. ASSUME NEW o \in Orders, Dispatch(o) PROVE TypeOK'
  <2>1. [order[o] EXCEPT !.status = "active"] \in OrderRow
    BY <1>3 DEF OrderRow
  <2>2. order' \in [Orders -> OrderRow]
    BY <1>4, <2>1 DEF Dispatch, TypeOK
  <2>3. session' \in [Handlers -> Session]
    BY <1>4, OvertakenType DEF Dispatch, TypeOK
  <2> QED BY <1>4, <2>2, <2>3 DEF Dispatch, TypeOK
<1>5. ASSUME NEW o \in Orders, Deliver(o) PROVE TypeOK'
  <2>1. [status |-> "completed", income |-> "pending"] \in OrderRow
    BY DEF OrderRow
  <2>2. order' \in [Orders -> OrderRow]
    BY <1>5, <2>1 DEF Deliver, TypeOK
  <2>3. wallet' \in [balance : Nat, frozen : Nat]
    BY <1>3, <1>5 DEF Deliver
  <2> QED BY <1>5, <2>2, <2>3 DEF Deliver, TypeOK
<1>6. ASSUME NEW o \in Orders, SettleRiderIncome(o) PROVE TypeOK'
  <2>1. [order[o] EXCEPT !.income = "success"] \in OrderRow
    BY <1>3 DEF OrderRow
  <2>2. order' \in [Orders -> OrderRow]
    BY <1>6, <2>1 DEF SettleRiderIncome, TypeOK
  <2>3. wallet' \in [balance : Nat, frozen : Nat]
    BY <1>3, <1>6 DEF SettleRiderIncome, HasFrozen
  <2> QED BY <1>6, <2>2, <2>3 DEF SettleRiderIncome, TypeOK
<1> QED BY <1>1, <1>2, <1>4, <1>5, <1>6

LEMMA TypeStep == TypeOK /\ Rows /\ Sessions /\ [Next]_vars => TypeOK'
<1> SUFFICES ASSUME TypeOK, Rows, Sessions, [Next]_vars PROVE TypeOK'
  OBVIOUS
<1>1. CASE UNCHANGED vars
  BY <1>1 DEF vars, TypeOK
<1>2. CASE Next
  <2>1. ASSUME NEW h \in Handlers,
               \/ \E purpose \in Purposes : RefreshRead(h, purpose)
               \/ \E d \in Deposits : NoticeRead(h, d)
               \/ RefreshCount(h) \/ RefreshWrite(h) \/ AcceptOrder(h) \/ MarkRiderAccepted(h)
               \/ CreatePayIntent(h) \/ WithdrawRiderDeposit(h) \/ PaymentSucceeds(h) \/ Crash(h)
        PROVE  TypeOK'
    BY <2>1, RefreshType, CallerType
  <2> QED BY <1>2, <2>1, RequestsType, WorkType DEF Next
<1> QED BY <1>1, <1>2

-----------------------------------------------------------------------------
(* What a step leaves to the handlers that do not take it.                 *)

\* Nothing is taken back: a deposit stays created and in use, a payment booked.
Grown ==
  /\ \A d \in Deposits : deposit[d].status # "none" => deposit'[d].status # "none"
  /\ \A d \in Deposits : Used(d) => Used(d)'
  /\ \A d \in Deposits : payment[d] = "success" => payment'[d] = "success"

\* The facts of a handler survive the steps of the others.
LEMMA FactsKept ==
  ASSUME TypeOK, Sessions, Grown, NEW h \in Handlers, UNCHANGED session[h], Active' => Active
  PROVE  SessionFacts(h)'
<1>1. SessionFacts(h)
  BY DEF Sessions
<1>2. session[h].at \in {"count", "write", "withdraw", "notice"} => session[h].deposit \in Deposits
  BY SessionAt
<1> QED BY <1>1, <1>2 DEF SessionFacts, Grown

\* A handler that an order overtakes has only the facts about deposits left.
LEMMA OvertakenFacts ==
  ASSUME TypeOK, Sessions, Grown, NEW h \in Handlers,
         NEW ss \in [Handlers -> Session], ss[h] = session[h], session' = Overtaken(ss)
  PROVE  SessionFacts(h)'
<1>1. SessionFacts(h)
  BY DEF Sessions
<1>2. session[h].at \in {"count", "write", "withdraw", "notice"} => session[h].deposit \in Deposits
  BY SessionAt
<1>3. CASE session[h].at \in {"write", "withdraw"}
  <2>1. /\ session'[h].late = TRUE /\ session'[h].at = session[h].at
        /\ session'[h].deposit = session[h].deposit
    BY <1>3, OvertakenType
  <2> QED BY <1>1, <1>2, <1>3, <2>1 DEF SessionFacts, Grown
<1>4. CASE session[h].at \notin {"write", "withdraw"}
  <2>1. session'[h] = session[h]
    BY <1>4, OvertakenType
  <2> QED BY <1>1, <1>2, <1>4, <2>1 DEF SessionFacts, Grown
<1> QED BY <1>3, <1>4

LEMMA OneSession ==
  ASSUME TypeOK, Sessions, Grown, NEW h \in Handlers, NEW s \in Session, Step(h, s),
         Active' => Active, SessionFacts(h)'
  PROVE  Sessions'
<1>1. \A g \in Handlers \ {h} : session'[g] = session[g]
  BY StepType
<1> QED BY <1>1, FactsKept DEF Sessions

LEMMA BackToIdle ==
  ASSUME TypeOK, Sessions, Grown, NEW h \in Handlers, Step(h, Idle), Active' => Active
  PROVE  Sessions'
<1>1. Idle \in Session
  BY DEF Session
<1>2. session'[h] = Idle
  BY <1>1, StepType
<1>3. SessionFacts(h)'
  BY <1>2 DEF SessionFacts, Idle
<1> QED BY <1>1, <1>3, OneSession

LEMMA AfterResume ==
  ASSUME TypeOK, Rows, Sessions, Grown, NEW h \in Handlers, NEW purpose, NEW d \in Deposits,
         NEW status, NEW late \in BOOLEAN, Resume(h, purpose, d, status, late),
         status \in Held => Used(d) /\ deposit'[d].status \notin {"none", "unpaid"},
         status = "withdrawable" /\ late = FALSE => ~Active',
         Active' => Active
  PROVE  Sessions'
<1>1. PICK s \in Session :
        /\ Step(h, s)
        /\ s.at \in {"idle", "accept", "pay", "withdraw"}
        /\ s.at = "accept" => status \in Held
        /\ s.at = "withdraw" => status = "withdrawable" /\ s.deposit = d /\ s.late = late
  BY ResumeStep
<1>2. session'[h] = s
  BY <1>1, StepType
<1>3. "withdrawable" \in Held
  BY DEF Held
<1>4. ASSUME status \in Held PROVE \E e \in Deposits : payment'[e] = "success"
  <2>1. PICK e \in 1..d : payment[e] = "success"
    BY <1>4 DEF Rows, HeldWasPaid, Used
  <2>2. e \in Deposits
    BY ConstantsOK DEF Deposits
  <2> QED BY <2>1, <2>2 DEF Grown
<1>5. SessionFacts(h)'
  BY <1>1, <1>2, <1>3, <1>4 DEF SessionFacts, Used
<1> QED BY <1>1, <1>5, OneSession

-----------------------------------------------------------------------------
(* What a step does to the rows.                                           *)

LEMMA InitRows == Init => Rows /\ Sessions
<1> SUFFICES ASSUME Init PROVE Rows /\ Sessions
  OBVIOUS
<1>1. /\ \A d \in Deposits : deposit[d].status = "none" /\ deposit[d].request = "none"
      /\ \A d \in Deposits : payment[d] = "none"
  BY DEF Init
<1>2. Created = {}
  BY <1>1 DEF Created
<1>3. InOrder /\ PaidLater /\ HeldWasPaid /\ DepositFollowsRequest
  BY <1>1, <1>2 DEF InOrder, PaidLater, HeldWasPaid, DepositFollowsRequest, InTransfer
<1>4. Fresh
  BY <1>1, ConstantsOK DEF Fresh
<1>5. Sessions
  BY DEF Init, Sessions, SessionFacts, Idle
<1> QED BY <1>3, <1>4, <1>5 DEF Rows

\* A step that moves no deposit from one status to another.
LEMMA RowsKept ==
  ASSUME Rows, UNCHANGED <<payment, request, reopened>>,
         \A d \in Deposits : /\ deposit'[d].status = deposit[d].status
                             /\ deposit'[d].request = deposit[d].request
                             /\ deposit'[d].accepted = deposit[d].accepted
  PROVE  Rows' /\ Grown
<1>1. Created' = Created
  BY DEF Created
<1>2. InOrder' /\ PaidLater'
  BY <1>1 DEF Rows, InOrder, PaidLater, Used
<1>3. HeldWasPaid'
  <2>1. \A d \in Deposits : \A e \in 1..d : payment'[e] = payment[e]
    OBVIOUS
  <2> QED BY <2>1 DEF Rows, HeldWasPaid
<1>4. Fresh' /\ DepositFollowsRequest'
  BY DEF Rows, Fresh, DepositFollowsRequest
<1>5. Grown
  BY DEF Grown, Used
<1> QED BY <1>2, <1>3, <1>4, <1>5 DEF Rows

\* A created deposit that moves to another status stays created.
LEMMA OrderKept ==
  ASSUME Rows, \A d \in Deposits : deposit'[d].status = "none" <=> deposit[d].status = "none"
  PROVE  InOrder' /\ Created' = Created
<1>1. Created' = Created
  BY DEF Created
<1> QED BY <1>1 DEF Rows, InOrder

\* A write that does not look at the status of the deposit it overwrites.
LEMMA OverwriteRows ==
  ASSUME TypeOK, Rows, NEW d \in Deposits, NEW row, Overwrite(d, row), UNCHANGED request,
         deposit[d].status # "none", row.status \in Held, row.request = deposit[d].request,
         \A e \in Deposits : payment'[e] = payment[e] \/ (e = d /\ payment'[e] = "success"),
         payment'[d] = "success" \/ row.accepted, \E e \in 1..d : payment'[e] = "success"
  PROVE  Rows' /\ Grown
<1>1. \A e \in Deposits : deposit'[e] = IF e = d THEN row ELSE deposit[e]
  BY DEF TypeOK, Overwrite
<1>2. row.status \notin {"none", "unpaid", "withdrawing", "refunded"}
  BY DEF Held
<1>3. InOrder'
  BY <1>1, <1>2, OrderKept
<1>4. Grown
  BY <1>1, <1>2 DEF Grown, Used
<1>5. HeldWasPaid'
  <2> SUFFICES ASSUME NEW e \in Deposits, deposit'[e].status \notin {"none", "unpaid"}
               PROVE  /\ payment'[e] = "success" \/ deposit'[e].accepted
                      /\ \E f \in 1..e : payment'[f] = "success"
    BY DEF HeldWasPaid
  <2>1. CASE e = d
    BY <1>1, <2>1
  <2>2. CASE e # d
    <3>1. deposit'[e] = deposit[e]
      BY <1>1, <2>2
    <3>2. PICK f \in 1..e : payment[f] = "success"
      BY <3>1 DEF Rows, HeldWasPaid
    <3>3. f \in Deposits
      BY ConstantsOK DEF Deposits
    <3>4. payment'[f] = "success"
      BY <3>2, <3>3 DEF Grown
    <3>5. payment[e] = "success" \/ deposit[e].accepted
      BY <3>1 DEF Rows, HeldWasPaid
    <3> QED BY <3>1, <3>4, <3>5
  <2> QED BY <2>1, <2>2
<1>6. PaidLater'
  BY <1>1, <1>2, <1>5 DEF Rows, PaidLater, HeldWasPaid, Used
<1>7. Fresh'
  BY <1>1 DEF Rows, Fresh
<1>8. DepositFollowsRequest'
  <2> SUFFICES ASSUME NEW e \in Deposits \ reopened'
               PROVE  LET w == deposit'[e].request
                          stage == IF w = "none" THEN "none" ELSE request'[w].status
                      IN /\ deposit'[e].status = "withdrawing" <=> stage \in InTransfer
                         /\ deposit'[e].status = "refunded" <=> stage = "success"
    BY DEF DepositFollowsRequest, InTransfer
  <2>1. e \notin reopened /\ (e = d => deposit[d].status \notin {"withdrawing", "refunded"})
    BY DEF Overwrite
  <2> QED BY <1>1, <1>2, <2>1 DEF Rows, DepositFollowsRequest
<1> QED BY <1>3, <1>4, <1>5, <1>6, <1>7, <1>8 DEF Rows

-----------------------------------------------------------------------------
(* The steps of the handlers.                                              *)

LEMMA ReadKeeps ==
  ASSUME TypeOK, Rows, Sessions, NEW h \in Handlers, NEW purpose \in Purposes, RefreshRead(h, purpose)
  PROVE  Rows' /\ Sessions'
<1>0. UNCHANGED <<deposit, payment, request, order, reopened>> /\ Active' = Active
  BY DEF RefreshRead, Active
<1>1. Rows' /\ Grown
  BY <1>0, RowsKept
<1>2. CASE Created = {}
  <2>1. Step(h, [at |-> "pay"]) /\ [at |-> "pay"] \in Session
    BY <1>2 DEF RefreshRead, Session
  <2>2. SessionFacts(h)'
    BY <2>1, StepType DEF SessionFacts
  <2> QED BY <1>0, <1>1, <2>1, <2>2, OneSession
<1>3. CASE Created # {}
  <2> DEFINE d == Max(Created)
             s == [at |-> "count", for |-> purpose, deposit |-> d,
                   status |-> deposit[d].status, due |-> deposit[d].due, late |-> FALSE]
  <2>1. d \in Deposits
    BY <1>3, LatestCreated DEF Created
  <2>2. CASE deposit[d].status \in Held
    <3>1. Step(h, s)
      BY <1>3, <2>2 DEF RefreshRead
    <3>2. deposit[d] \in DepositRow
      BY <2>1, RowTypes
    <3>3. s \in Session
      BY <2>1, <2>2, <3>2 DEF Session, DepositRow
    <3>4. /\ deposit'[d].status \notin {"none", "unpaid"}
          /\ s.at = "count" /\ s.deposit = d
      BY <1>0, <2>2 DEF Held
    <3> HIDE DEF s, d
    <3>5. SessionFacts(h)'
      BY <3>1, <3>3, <3>4, StepType DEF SessionFacts, Used
    <3> QED BY <1>0, <1>1, <3>1, <3>3, <3>5, OneSession
  <2>3. CASE deposit[d].status \notin Held
    <3>1. Resume(h, purpose, d, deposit[d].status, FALSE)
      BY <1>3, <2>3 DEF RefreshRead
    <3>2. deposit[d].status # "withdrawable" /\ FALSE \in BOOLEAN
      BY <2>3 DEF Held
    <3> HIDE DEF d
    <3> QED BY <1>0, <1>1, <2>1, <2>3, <3>1, <3>2, AfterResume
  <2> QED BY <2>2, <2>3
<1> QED BY <1>2, <1>3

LEMMA CountKeeps ==
  ASSUME TypeOK, Rows, Sessions, NEW h \in Handlers, RefreshCount(h)
  PROVE  Rows' /\ Sessions'
<1> DEFINE s == session[h]
           t == [s EXCEPT !.at = "write", !.status = NewStatus(s)]
<1>1. UNCHANGED <<deposit, payment, request, order, reopened>> /\ Active' = Active /\ s.at = "count"
  BY DEF RefreshCount, Active
<1>2. Rows' /\ Grown
  BY <1>1, RowsKept
<1>3. /\ s \in [at : {"count", "write"}, for : Purposes, deposit : Deposits, status : Held,
                due : BOOLEAN, late : BOOLEAN]
      /\ s.deposit \in Deposits /\ s.status \in Held
  BY <1>1, SessionAt
<1>4. Used(s.deposit)
  BY <1>1 DEF Sessions, SessionFacts
<1>5. CASE NewStatus(s) = "none"
  <2>1. Resume(h, s.for, s.deposit, s.status, FALSE)
    BY <1>5 DEF RefreshCount
  <2>2. s.status = "withdrawable" => ~Active
    BY <1>5 DEF NewStatus
  <2>3. deposit'[s.deposit].status \notin {"none", "unpaid"} /\ FALSE \in BOOLEAN
    BY <1>1, <1>4 DEF Used
  <2> HIDE DEF s
  <2> QED BY <1>1, <1>2, <1>3, <1>4, <2>1, <2>2, <2>3, AfterResume
<1>6. CASE NewStatus(s) # "none"
  <2>1. Step(h, t)
    BY <1>6 DEF RefreshCount
  <2>2. /\ NewStatus(s) \in Held
        /\ NewStatus(s) = "withdrawable" => ~Active
    BY <1>6 DEF NewStatus, Held
  <2>3. t \in Session
    BY <1>3, <2>2 DEF Session
  <2>4. t.at = "write" /\ t.deposit = s.deposit /\ t.status = NewStatus(s)
    BY <1>3
  <2> HIDE DEF t, s
  <2>5. SessionFacts(h)'
    BY <1>1, <1>4, <2>1, <2>2, <2>3, <2>4, StepType DEF SessionFacts, Used
  <2> QED BY <1>1, <1>2, <2>1, <2>3, <2>5, OneSession
<1> QED BY <1>5, <1>6

LEMMA WriteKeeps ==
  ASSUME TypeOK, Rows, Sessions, NEW h \in Handlers, RefreshWrite(h)
  PROVE  Rows' /\ Sessions'
<1> DEFINE s == session[h]
           d == s.deposit
           row == [deposit[d] EXCEPT !.status = s.status]
<1>1. /\ UNCHANGED <<payment, request, order>> /\ s.at = "write" /\ Active' = Active
      /\ Overwrite(d, row) /\ Resume(h, s.for, d, s.status, s.late)
  BY DEF RefreshWrite, Active
<1>2. d \in Deposits /\ s.status \in Held /\ s.late \in BOOLEAN
  BY <1>1, SessionAt
<1>3. Used(d) /\ (s.status = "withdrawable" /\ s.late = FALSE => ~Active)
  BY <1>1 DEF Sessions, SessionFacts
<1>4. row.status = s.status /\ row.request = deposit[d].request /\ row.accepted = deposit[d].accepted
  BY <1>2, RowTypes
<1>5. /\ payment[d] = "success" \/ deposit[d].accepted
      /\ \E e \in 1..d : payment[e] = "success"
  BY <1>2, <1>3 DEF Rows, HeldWasPaid, Used
<1> HIDE DEF row, d, s
<1>6. Rows' /\ Grown
  BY <1>1, <1>2, <1>3, <1>4, <1>5, OverwriteRows DEF Used
<1>7. deposit'[d].status \notin {"none", "unpaid"}
  BY <1>2, <1>3, <1>6 DEF Grown, Used
<1> QED BY <1>1, <1>2, <1>3, <1>6, <1>7, AfterResume

LEMMA AcceptKeeps ==
  ASSUME TypeOK, Rows, Sessions, NEW h \in Handlers, AcceptOrder(h)
  PROVE  Rows' /\ Sessions'
<1>1. UNCHANGED <<deposit, payment, request, reopened>> /\ session[h].at = "accept"
  BY DEF AcceptOrder
<1>2. Rows' /\ Grown
  BY <1>1, RowsKept
<1>3. CASE Step(h, Idle) /\ UNCHANGED order
  <2>1. Active' = Active
    BY <1>3 DEF Active
  <2> QED BY <1>2, <1>3, <2>1, BackToIdle
<1>4. CASE session' = Overtaken([session EXCEPT ![h] = [at |-> "mark"]])
  <2> DEFINE ss == [session EXCEPT ![h] = [at |-> "mark"]]
  <2>1. [at |-> "mark"] \in Session
    BY DEF Session
  <2>2. ss \in [Handlers -> Session] /\ ss[h] = [at |-> "mark"]
        /\ \A g \in Handlers \ {h} : ss[g] = session[g]
    BY <2>1 DEF TypeOK
  <2>3. session' = Overtaken(ss)
    BY <1>4
  <2> HIDE DEF ss
  <2>4. ASSUME NEW g \in Handlers \ {h} PROVE SessionFacts(g)'
    <3>1. g \in Handlers /\ ss[g] = session[g] /\ ss \in [Handlers -> Session]
      BY <2>2
    <3> QED BY <1>2, <2>3, <3>1, OvertakenFacts
  <2>5. session'[h] = [at |-> "mark"]
    <3>1. ss[h].at = "mark"
      BY <2>2
    <3>2. Overtaken(ss)[h] = ss[h]
      BY <2>2, <3>1, OvertakenType
    <3> QED BY <2>2, <2>3, <3>2
  <2>6. \E d \in Deposits : payment'[d] = "success"
    BY <1>1 DEF Sessions, SessionFacts
  <2>7. SessionFacts(h)'
    BY <2>5, <2>6 DEF SessionFacts
  <2> QED BY <1>2, <2>4, <2>7 DEF Sessions
<1> QED BY <1>3, <1>4 DEF AcceptOrder

LEMMA MarkKeeps ==
  ASSUME TypeOK, Rows, Sessions, NEW h \in Handlers, MarkRiderAccepted(h)
  PROVE  Rows' /\ Sessions'
<1> DEFINE d == Max(Created)
           row == [deposit[d] EXCEPT !.status = "paid_locked", !.accepted = TRUE, !.due = FALSE]
<1>1. /\ UNCHANGED <<payment, request, order>> /\ Active' = Active
      /\ Step(h, Idle) /\ Overwrite(d, row) /\ session[h].at = "mark"
  BY DEF MarkRiderAccepted, Active
<1>2. d \in Deposits /\ d \in Created /\ \E e \in 1..d : payment[e] = "success"
  BY <1>1, MarksOne, LatestCreated
<1> HIDE DEF d
<1>3. row.status \in Held /\ row.request = deposit[d].request /\ row.accepted = TRUE
  <2>1. deposit[d] \in DepositRow
    BY <1>2, RowTypes
  <2> QED BY <2>1 DEF DepositRow, Held
<1>4. deposit[d].status # "none"
  BY <1>2 DEF Created
<1> HIDE DEF row
<1>5. Rows' /\ Grown
  BY <1>1, <1>2, <1>3, <1>4, OverwriteRows
<1> QED BY <1>1, <1>5, BackToIdle

\* The deposits created so far are 1..k, so the next one is new.
LEMMA NextIsNew ==
  ASSUME InOrder
  PROVE  /\ Cardinality(Created) \in Nat
         /\ Created = 1..Cardinality(Created)
<1>1. Created \subseteq Nat \ {0}
  BY ConstantsOK DEF Created, Deposits
<1>2. CASE Created = {}
  <2>1. Cardinality(Created) = 0
    BY <1>2, FS_EmptySet
  <2> QED BY <1>2, <2>1
<1>3. CASE Created # {}
  <2> DEFINE k == Max(Created)
  <2>1. k \in Created /\ \A d \in Created : d <= k
    BY <1>3, LatestCreated
  <2> HIDE DEF k
  <2>2. Created = 1..k /\ k \in Nat
    <3>1. k \in Nat /\ \A e \in 1..k : e \in Created
      BY <1>1, <2>1 DEF InOrder
    <3>2. \A d \in Created : d \in 1..k
      BY <1>1, <2>1, <3>1
    <3> QED BY <3>1, <3>2
  <2>3. Cardinality(1..k) = IF 1 > k THEN 0 ELSE k - 1 + 1
    BY <2>2, FS_Interval
  <2>4. k >= 1
    BY <1>1, <2>1
  <2>5. Cardinality(Created) = k
    BY <2>2, <2>3, <2>4
  <2> QED BY <2>2, <2>5
<1> QED BY <1>2, <1>3

LEMMA PayKeeps ==
  ASSUME TypeOK, Rows, Sessions, NEW h \in Handlers, CreatePayIntent(h)
  PROVE  Rows' /\ Sessions'
<1> DEFINE d == Cardinality(Created) + 1
<1>1. /\ UNCHANGED <<request, order, reopened>> /\ Step(h, Idle) /\ Active' = Active
      /\ \/ d <= Last /\ SetStatus(d, "unpaid") /\ payment' = [payment EXCEPT ![d] = "pending"]
         \/ UNCHANGED <<deposit, payment>>
  BY DEF CreatePayIntent, Active
<1>2. CASE UNCHANGED <<deposit, payment>>
  BY <1>1, <1>2, RowsKept, BackToIdle
<1>3. CASE /\ d <= Last /\ SetStatus(d, "unpaid")
           /\ payment' = [payment EXCEPT ![d] = "pending"]
  <2>1. Created = 1..(d-1) /\ d \in Nat \ {0}
    BY NextIsNew DEF Rows
  <2> HIDE DEF d
  <2>2. d \in Deposits /\ d \notin Created
    BY <1>3, <2>1, ConstantsOK DEF Deposits
  <2>3. deposit[d].status = "none" /\ payment[d] = "none"
    BY <2>2 DEF Created, Rows, PaidLater
  <2>4. /\ deposit'[d].status = "unpaid" /\ deposit'[d].request = deposit[d].request
        /\ payment'[d] = "pending"
        /\ \A e \in Deposits \ {d} : deposit'[e] = deposit[e] /\ payment'[e] = payment[e]
    <3>1. deposit[d] \in DepositRow
      BY <2>2, RowTypes
    <3>2. /\ [deposit[d] EXCEPT !.status = "unpaid"].status = "unpaid"
          /\ [deposit[d] EXCEPT !.status = "unpaid"].request = deposit[d].request
      BY <3>1 DEF DepositRow
    <3> QED BY <1>3, <2>2, <3>2 DEF SetStatus, TypeOK
  <2>5. Created' = 1..d
    <3>1. Created' = Created \cup {d}
      BY <2>2, <2>4 DEF Created
    <3> QED BY <2>1, <3>1
  <2>6. InOrder' /\ PaidLater'
    BY <2>1, <2>3, <2>4, <2>5 DEF InOrder, Rows, PaidLater, Used
  <2>7. Grown
    BY <2>3, <2>4 DEF Grown, Used
  <2>8. HeldWasPaid'
    <3> SUFFICES ASSUME NEW e \in Deposits, deposit'[e].status \notin {"none", "unpaid"}
                 PROVE  /\ payment'[e] = "success" \/ deposit'[e].accepted
                        /\ \E f \in 1..e : payment'[f] = "success"
      BY DEF HeldWasPaid
    <3>1. e # d /\ deposit'[e] = deposit[e] /\ payment'[e] = payment[e]
      BY <2>4
    <3>2. PICK f \in 1..e : payment[f] = "success"
      BY <3>1 DEF Rows, HeldWasPaid
    <3>3. f \in Deposits
      BY ConstantsOK DEF Deposits
    <3> QED BY <2>7, <3>1, <3>2, <3>3 DEF Rows, HeldWasPaid, Grown
  <2>9. Fresh'
    BY <1>1, <2>4 DEF Rows, Fresh
  <2>10. DepositFollowsRequest'
    BY <1>1, <2>3, <2>4 DEF Rows, DepositFollowsRequest, InTransfer
  <2> QED BY <1>1, <2>6, <2>7, <2>8, <2>9, <2>10, BackToIdle DEF Rows
<1> QED BY <1>1, <1>2, <1>3

\* The withdrawal: besides the rows, the rider was at rest when its handler counted.
LEMMA WithdrawKeeps ==
  ASSUME TypeOK, Rows, Sessions, NEW h \in Handlers, WithdrawRiderDeposit(h)
  PROVE  /\ Rows' /\ Sessions'
         /\ session[h].at = "withdraw" /\ session'[h] = Idle
         /\ session[h].late \/ ~Active
<1> DEFINE d == session[h].deposit
<1>1. /\ UNCHANGED <<payment, order>> /\ Step(h, Idle) /\ Active' = Active
      /\ session[h].at = "withdraw" /\ reopened' = reopened \ {d}
  BY DEF WithdrawRiderDeposit, Active
<1>2. PICK w \in Requests :
        /\ request[w].status = "none"
        /\ request' = [request EXCEPT ![w] = [status |-> "pending_transfer", deposit |-> d]]
        /\ deposit' = [deposit EXCEPT ![d] = [@ EXCEPT !.status = "withdrawing", !.request = w]]
  BY DEF WithdrawRiderDeposit
<1>3. d \in Deposits /\ Used(d) /\ (session[h].late \/ ~Active)
  <2>1. session[h].late \in BOOLEAN /\ d \in Deposits
    BY <1>1, SessionAt
  <2> QED BY <1>1, <2>1 DEF Sessions, SessionFacts
<1>4. session'[h] = Idle
  <2>1. Idle \in Session
    BY DEF Session
  <2> QED BY <1>1, <2>1, StepType
<1> HIDE DEF d
<1>5. /\ deposit'[d].status = "withdrawing" /\ deposit'[d].request = w
      /\ deposit'[d].accepted = deposit[d].accepted
      /\ \A e \in Deposits \ {d} : deposit'[e] = deposit[e]
  <2>1. deposit[d] \in DepositRow
    BY <1>3, RowTypes
  <2>2. /\ [deposit[d] EXCEPT !.status = "withdrawing", !.request = w].status = "withdrawing"
        /\ [deposit[d] EXCEPT !.status = "withdrawing", !.request = w].request = w
        /\ [deposit[d] EXCEPT !.status = "withdrawing", !.request = w].accepted = deposit[d].accepted
    BY <2>1 DEF DepositRow
  <2> QED BY <1>2, <1>3, <2>2 DEF TypeOK
<1>6. /\ request'[w].status = "pending_transfer"
      /\ \A v \in Requests \ {w} : request'[v] = request[v]
  BY <1>2 DEF TypeOK
<1>7. InOrder' /\ Grown /\ PaidLater'
  <2>1. InOrder' /\ Created' = Created
    BY <1>3, <1>5, OrderKept DEF Used
  <2> QED BY <1>1, <1>3, <1>5, <2>1 DEF Grown, Used, Rows, PaidLater
<1>8. HeldWasPaid'
  <2>1. \A e \in Deposits : /\ Used(e)' => Used(e)
                            /\ deposit'[e].accepted = deposit[e].accepted
    BY <1>3, <1>5 DEF Used
  <2> QED BY <1>1, <2>1 DEF Rows, HeldWasPaid, Used
<1>9. Fresh'
  BY <1>5, <1>6 DEF Rows, Fresh
<1>10. DepositFollowsRequest'
  <2>1. ASSUME NEW e \in Deposits \ {d}, deposit[e].request # "none"
        PROVE  deposit[e].request \in Requests \ {w}
    <3>1. deposit[e] \in DepositRow
      BY RowTypes
    <3>2. deposit[e].request \in Requests
      BY <2>1, <3>1 DEF DepositRow
    <3> QED BY <1>2, <3>2 DEF Rows, Fresh
  <2>2. ASSUME NEW e \in Deposits \ {d}, e \notin reopened
        PROVE  LET v == deposit'[e].request
                   stage == IF v = "none" THEN "none" ELSE request'[v].status
               IN /\ deposit'[e].status = "withdrawing" <=> stage \in InTransfer
                  /\ deposit'[e].status = "refunded" <=> stage = "success"
    BY <1>5, <1>6, <2>1, <2>2 DEF Rows, DepositFollowsRequest
  <2>3. LET v == deposit'[d].request
            stage == IF v = "none" THEN "none" ELSE request'[v].status
        IN /\ deposit'[d].status = "withdrawing" <=> stage \in InTransfer
           /\ deposit'[d].status = "refunded" <=> stage = "success"
    BY <1>5, <1>6, ConstantsOK DEF InTransfer
  <2> QED BY <1>1, <2>2, <2>3 DEF DepositFollowsRequest
<1> QED BY <1>1, <1>3, <1>4, <1>7, <1>8, <1>9, <1>10, BackToIdle DEF Rows

LEMMA PaidKeeps ==
  ASSUME TypeOK, Rows, Sessions, NEW h \in Handlers, PaymentSucceeds(h)
  PROVE  Rows' /\ Sessions'
<1> DEFINE d == session[h].deposit
           due == deposit[d].due /\ deposit[d].accepted
           row == [deposit[d] EXCEPT !.status = "paid_locked", !.due = due]
<1>1. /\ UNCHANGED <<request, order>> /\ Step(h, Idle) /\ Active' = Active
      /\ session[h].at = "notice" /\ payment' = [payment EXCEPT ![d] = "success"]
      /\ Overwrite(d, row)
  BY DEF PaymentSucceeds, BookPayment, Active
<1>2. d \in Deposits /\ deposit[d].status # "none"
  BY <1>1, SessionAt DEF Sessions, SessionFacts
<1> HIDE DEF d, due
<1>3. row.status \in Held /\ row.request = deposit[d].request
  <2>1. deposit[d] \in DepositRow
    BY <1>2, RowTypes
  <2> QED BY <2>1 DEF DepositRow, Held
<1> HIDE DEF row
<1>4. \A e \in Deposits : payment'[e] = IF e = d THEN "success" ELSE payment[e]
  BY <1>1 DEF TypeOK
<1>5. \E e \in 1..d : payment'[e] = "success"
  <2>1. d \in 1..d
    BY <1>2, ConstantsOK DEF Deposits
  <2> QED BY <1>2, <1>4, <2>1
<1>6. Rows' /\ Grown
  BY <1>1, <1>2, <1>3, <1>4, <1>5, OverwriteRows
<1> QED BY <1>1, <1>6, BackToIdle

LEMMA NoticeKeeps ==
  ASSUME TypeOK, Rows, Sessions, NEW h \in Handlers, NEW d \in Deposits, NoticeRead(h, d)
  PROVE  Rows' /\ Sessions'
<1> DEFINE s == [at |-> "notice", deposit |-> d]
<1>1. /\ UNCHANGED <<deposit, payment, request, order, reopened>> /\ Step(h, s)
      /\ payment[d] = "pending" /\ Active' = Active
  BY DEF NoticeRead, Active
<1>2. Rows' /\ Grown
  BY <1>1, RowsKept
<1>3. s \in Session
  BY DEF Session
<1>4. session'[h] = s /\ deposit'[d].status # "none"
  BY <1>1, <1>3, StepType DEF Rows, PaidLater
<1>5. SessionFacts(h)'
  BY <1>4 DEF SessionFacts
<1> HIDE DEF s
<1> QED BY <1>1, <1>2, <1>3, <1>5, OneSession

-----------------------------------------------------------------------------
(* The requests, the rider's work, and time.                               *)

\* A request that moves takes the deposit that names it along.
LEMMA LinkedRows ==
  ASSUME TypeOK, Rows, NEW w \in Requests, request[w].status # "none",
         NEW st, NEW stage, Linked(w, st), SetRequest(w, stage), UNCHANGED payment,
         st \in {"withdrawing", "refunded", "withdrawable"},
         st = "withdrawing" <=> stage \in InTransfer,
         st = "refunded" <=> stage = "success",
         stage # "none",
         \A d \in Deposits : deposit[d].request = w => Used(d)
  PROVE  Rows' /\ Grown
<1>1. \A d \in Deposits :
        /\ deposit[d].request # w => deposit'[d] = deposit[d]
        /\ deposit[d].request = w => deposit'[d] = [deposit[d] EXCEPT !.status = st]
  BY DEF Linked
<1>2. ASSUME NEW d \in Deposits, deposit[d].request = w
      PROVE  /\ deposit'[d].status = st /\ deposit'[d].request = w
             /\ deposit'[d].accepted = deposit[d].accepted
             /\ Used(d)
  <2>1. deposit[d] \in DepositRow
    BY RowTypes
  <2> QED BY <1>1, <1>2, <2>1 DEF DepositRow
<1>3. /\ request'[w].status = stage
      /\ \A v \in Requests \ {w} : request'[v] = request[v]
  <2>1. request[w] \in RequestRow
    BY DEF TypeOK
  <2>2. [request[w] EXCEPT !.status = stage].status = stage
    BY <2>1 DEF RequestRow
  <2> QED BY <2>2 DEF SetRequest, TypeOK
<1>4. \A d \in Deposits : /\ deposit'[d].status = "none" <=> deposit[d].status = "none"
                          /\ Used(d)' <=> Used(d)
                          /\ deposit'[d].accepted = deposit[d].accepted
                          /\ deposit'[d].request = deposit[d].request
  BY <1>1, <1>2 DEF Used
<1>5. InOrder' /\ PaidLater' /\ Grown
  <2>1. InOrder'
    BY <1>4, OrderKept
  <2> QED BY <1>4, <2>1 DEF Rows, PaidLater, Grown, Used
<1>6. HeldWasPaid'
  BY <1>4 DEF Rows, HeldWasPaid, Used
<1>7. Fresh'
  <2>1. ASSUME NEW v \in Requests, request'[v].status = "none" PROVE request[v].status = "none"
    BY <1>3, <2>1
  <2> QED BY <1>4, <2>1 DEF Rows, Fresh
<1>8. ASSUME NEW d \in Deposits \ reopened'
      PROVE  LET v == deposit'[d].request
                 at == IF v = "none" THEN "none" ELSE request'[v].status
             IN /\ deposit'[d].status = "withdrawing" <=> at \in InTransfer
                /\ deposit'[d].status = "refunded" <=> at = "success"
  <2>1. CASE deposit[d].request = w
    BY <1>2, <1>3, <2>1, ConstantsOK
  <2>2. CASE deposit[d].request # w
    <3>1. deposit[d].request # "none" => deposit[d].request \in Requests \ {w}
      BY <2>2, RowTypes DEF DepositRow
    <3>2. deposit'[d] = deposit[d] /\ d \notin reopened
      BY <1>1, <2>2 DEF Linked
    <3>3. CASE deposit[d].request = "none"
      BY <3>2, <3>3 DEF Rows, DepositFollowsRequest
    <3>4. CASE deposit[d].request # "none"
      <4>1. request'[deposit[d].request] = request[deposit[d].request]
        BY <1>3, <3>1, <3>4
      <4> QED BY <3>2, <3>4, <4>1 DEF Rows, DepositFollowsRequest
    <3> QED BY <3>3, <3>4
  <2> QED BY <2>1, <2>2
<1>9. DepositFollowsRequest'
  BY <1>8 DEF DepositFollowsRequest
<1> QED BY <1>5, <1>6, <1>7, <1>9 DEF Rows

LEMMA RequestsKeep ==
  ASSUME TypeOK, Rows, Sessions, NEW w \in Requests,
         Submit(w) \/ Complete(w) \/ Fail(w) \/ Retry(w)
  PROVE  Rows' /\ Sessions'
<1>1. UNCHANGED <<payment, session, order>> /\ request[w].status # "none" /\ Active' = Active
  BY DEF Submit, Complete, Fail, Retry, InTransfer, Active
<1>2. \A d \in Deposits : deposit[d].request = w => Used(d)
  BY ConstantsOK DEF Rows, PaidLater
<1>3. ASSUME Grown PROVE Sessions'
  BY <1>1, <1>3, FactsKept DEF Sessions
<1>4. \/ SetRequest(w, "transferring") /\ Linked(w, "withdrawing")
      \/ SetRequest(w, "success") /\ Linked(w, "refunded")
      \/ SetRequest(w, "failed") /\ Linked(w, "withdrawable")
      \/ SetRequest(w, "pending_transfer") /\ Linked(w, "withdrawing")
  BY DEF Submit, Complete, Fail, Retry, Reopen
<1>5. CASE SetRequest(w, "transferring") /\ Linked(w, "withdrawing")
  BY <1>1, <1>2, <1>3, <1>5, LinkedRows DEF InTransfer
<1>6. CASE SetRequest(w, "success") /\ Linked(w, "refunded")
  BY <1>1, <1>2, <1>3, <1>6, LinkedRows DEF InTransfer
<1>7. CASE SetRequest(w, "failed") /\ Linked(w, "withdrawable")
  BY <1>1, <1>2, <1>3, <1>7, LinkedRows DEF InTransfer
<1>8. CASE SetRequest(w, "pending_transfer") /\ Linked(w, "withdrawing")
  BY <1>1, <1>2, <1>3, <1>8, LinkedRows DEF InTransfer
<1> QED BY <1>4, <1>5, <1>6, <1>7, <1>8

LEMMA WorkKeeps ==
  ASSUME TypeOK, Rows, Sessions,
         \/ \E d \in Deposits : PaymentFails(d) \/ Rest(d)
         \/ \E o \in Orders : Dispatch(o) \/ Deliver(o) \/ SettleRiderIncome(o)
  PROVE  Rows' /\ Sessions'
<1>1. ASSUME Grown, UNCHANGED session, Active' => Active PROVE Sessions'
  BY <1>1, FactsKept DEF Sessions
<1>2. ASSUME NEW d \in Deposits, PaymentFails(d) PROVE Rows' /\ Sessions'
  <2>1. /\ UNCHANGED <<deposit, request, order, session, reopened>> /\ Active' = Active
        /\ payment[d] = "pending" /\ payment' = [payment EXCEPT ![d] = "failed"]
    BY <1>2 DEF PaymentFails, Active
  <2>2. \A e \in Deposits : payment[e] = "success" <=> payment'[e] = "success"
    BY <2>1 DEF TypeOK
  <2>3. Grown
    BY <2>1, <2>2 DEF Grown, Used
  <2>4. HeldWasPaid'
    <3>1. \A e \in Deposits : \A f \in 1..e : f \in Deposits
      BY ConstantsOK DEF Deposits
    <3> QED BY <2>1, <2>2, <3>1 DEF Rows, HeldWasPaid
  <2>5. PaidLater'
    BY <2>1 DEF Rows, PaidLater, TypeOK, Used
  <2>6. InOrder' /\ Fresh' /\ DepositFollowsRequest'
    BY <2>1, OrderKept DEF Rows, Fresh, DepositFollowsRequest
  <2> QED BY <1>1, <2>1, <2>3, <2>4, <2>5, <2>6 DEF Rows
<1>3. ASSUME NEW d \in Deposits, Rest(d) PROVE Rows' /\ Sessions'
  <2>1. UNCHANGED <<payment, request, order, session, reopened>> /\ Active' = Active
    BY <1>3 DEF Rest, Active
  <2>2. \A e \in Deposits : /\ deposit'[e].status = deposit[e].status
                            /\ deposit'[e].request = deposit[e].request
                            /\ deposit'[e].accepted = deposit[e].accepted
    <3>1. deposit[d] \in DepositRow
      BY RowTypes
    <3>2. /\ [deposit[d] EXCEPT !.due = TRUE].status = deposit[d].status
          /\ [deposit[d] EXCEPT !.due = TRUE].request = deposit[d].request
          /\ [deposit[d] EXCEPT !.due = TRUE].accepted = deposit[d].accepted
      BY <3>1 DEF DepositRow
    <3>3. deposit' = [deposit EXCEPT ![d] = [deposit[d] EXCEPT !.due = TRUE]]
      BY <1>3 DEF Rest, TypeOK
    <3> QED BY <3>2, <3>3 DEF TypeOK
  <2> QED BY <1>1, <2>1, <2>2, RowsKept
<1>4. ASSUME NEW o \in Orders, Dispatch(o) PROVE Rows' /\ Sessions'
  <2>1. UNCHANGED <<deposit, payment, request, reopened>> /\ session' = Overtaken(session)
    BY <1>4 DEF Dispatch
  <2>2. Rows' /\ Grown
    BY <2>1, RowsKept
  <2>3. session \in [Handlers -> Session]
    BY DEF TypeOK
  <2>4. ASSUME NEW h \in Handlers PROVE SessionFacts(h)'
    BY <2>1, <2>2, <2>3, OvertakenFacts
  <2> QED BY <2>2, <2>4 DEF Sessions
<1>5. ASSUME NEW o \in Orders, Deliver(o) \/ SettleRiderIncome(o) PROVE Rows' /\ Sessions'
  <2>1. UNCHANGED <<deposit, payment, request, session, reopened>>
    BY <1>5 DEF Deliver, SettleRiderIncome
  <2>2. \A p \in Orders : order'[p].status = "active" => order[p].status = "active"
    <3>1. CASE Deliver(o)
      BY <3>1 DEF Deliver, TypeOK
    <3>2. CASE SettleRiderIncome(o)
      <4>1. order[o] \in OrderRow
        BY DEF TypeOK
      <4>2. [order[o] EXCEPT !.income = "success"].status = order[o].status
        BY <4>1 DEF OrderRow
      <4> QED BY <3>2, <4>2 DEF SettleRiderIncome, TypeOK
    <3> QED BY <1>5, <3>1, <3>2
  <2>3. Active' => Active
    BY <2>2 DEF Active
  <2> QED BY <1>1, <2>1, <2>3, RowsKept
<1> QED BY <1>2, <1>3, <1>4, <1>5

LEMMA RowsStep == TypeOK /\ Rows /\ Sessions /\ [Next]_vars => Rows' /\ Sessions'
<1> SUFFICES ASSUME TypeOK, Rows, Sessions, [Next]_vars PROVE Rows' /\ Sessions'
  OBVIOUS
<1>1. CASE UNCHANGED vars
  <2>1. Rows' /\ Grown /\ UNCHANGED session /\ Active' = Active
    BY <1>1, RowsKept DEF vars, Active
  <2> QED BY <2>1, FactsKept DEF Sessions
<1>2. ASSUME NEW h \in Handlers, Crash(h) PROVE Rows' /\ Sessions'
  <2>1. UNCHANGED <<deposit, payment, request, order, reopened>> /\ Step(h, Idle) /\ Active' = Active
    BY <1>2 DEF Crash, Active
  <2> QED BY <2>1, RowsKept, BackToIdle
<1>3. CASE Next
  <2>1. ASSUME NEW h \in Handlers,
               \/ \E purpose \in Purposes : RefreshRead(h, purpose)
               \/ \E d \in Deposits : NoticeRead(h, d)
               \/ RefreshCount(h) \/ RefreshWrite(h) \/ AcceptOrder(h) \/ MarkRiderAccepted(h)
               \/ CreatePayIntent(h) \/ WithdrawRiderDeposit(h) \/ PaymentSucceeds(h) \/ Crash(h)
        PROVE  Rows' /\ Sessions'
    BY <1>2, <2>1, ReadKeeps, NoticeKeeps, CountKeeps, WriteKeeps, AcceptKeeps, MarkKeeps,
       PayKeeps, WithdrawKeeps, PaidKeeps
  <2> QED BY <1>3, <2>1, RequestsKeep, WorkKeeps DEF Next
<1> QED BY <1>1, <1>3

-----------------------------------------------------------------------------
(* The properties of the run, for any number of handlers at once.          *)

IInv == TypeOK /\ Rows /\ Sessions

LEMMA Inductive == /\ Init => IInv
                   /\ IInv /\ [Next]_vars => IInv'
BY InitType, InitRows, TypeStep, RowsStep DEF IInv

\* Type correctness: the wallet of the rider never becomes negative, and no
\* deposit, payment or request takes a state the code does not know
\* (ReviewWithdraw, failWithdrawByCallbackTxWithPayload, retryWithdrawPayout).
THEOREM TypeCorrect == Spec => []TypeOK
<1>1. IInv => TypeOK
  BY DEF IInv
<1> QED BY <1>1, Inductive, PTL DEF Spec

\* Whatever handlers, notices and payouts do at once, a deposit that lets the rider accept
\* orders, or that is paid back, was paid, or an order accepted on an earlier, paid one locked
\* it (CanRiderAcceptOrders, MarkRiderAccepted, completeRiderDepositCallbackTx).
THEOREM HeldPaid == Spec => []HeldWasPaid
<1>1. IInv => HeldWasPaid
  BY DEF IInv, Rows
<1> QED BY <1>1, Inductive, PTL DEF Spec

\* In every interleaving a deposit is on its way back exactly while the request it names is,
\* and refunded exactly when that succeeded, until a write that does not look at the status
\* puts it back (updateRiderDepositWithdrawStateTx).
THEOREM DepositFollows == Spec => []DepositFollowsRequest
<1>1. IInv => DepositFollowsRequest
  BY DEF IInv, Rows
<1> QED BY <1>1, Inductive, PTL DEF Spec

\* Only WithdrawRiderDeposit creates a request.
LEMMA RequestCreated ==
  ASSUME TypeOK, Next, NEW w \in Requests,
         request[w].status = "none", request'[w].status # "none"
  PROVE  \E h \in Handlers : WithdrawRiderDeposit(h)
<1>1. ASSUME NEW v \in Requests, Submit(v) \/ Complete(v) \/ Fail(v) \/ Retry(v) PROVE FALSE
  <2>1. request[v].status # "none" /\ \E st : SetRequest(v, st)
    BY <1>1 DEF Submit, Complete, Fail, Retry, InTransfer
  <2>2. request'[w] = request[w]
    BY <2>1 DEF SetRequest, TypeOK
  <2> QED BY <2>2
<1>2. ASSUME UNCHANGED request PROVE FALSE
  BY <1>2
<1>3. ASSUME NEW d \in Deposits, PaymentFails(d) \/ Rest(d) PROVE FALSE
  BY <1>2, <1>3 DEF PaymentFails, Rest
<1>4. ASSUME NEW o \in Orders, Dispatch(o) \/ Deliver(o) \/ SettleRiderIncome(o) PROVE FALSE
  BY <1>2, <1>4 DEF Dispatch, Deliver, SettleRiderIncome
<1>5. ASSUME NEW h \in Handlers,
             \/ \E purpose \in Purposes : RefreshRead(h, purpose)
             \/ \E d \in Deposits : NoticeRead(h, d)
             \/ RefreshCount(h) \/ RefreshWrite(h) \/ AcceptOrder(h) \/ MarkRiderAccepted(h)
             \/ CreatePayIntent(h) \/ PaymentSucceeds(h) \/ Crash(h)
      PROVE  FALSE
  BY <1>2, <1>5 DEF RefreshRead, NoticeRead, RefreshCount, RefreshWrite, AcceptOrder,
     MarkRiderAccepted, CreatePayIntent, PaymentSucceeds, Crash
<1> QED BY <1>1, <1>3, <1>4, <1>5 DEF Next

\* In every interleaving, and although an acceptance may die before it locks the deposit, a
\* withdrawal starts beside an order to deliver only if the order became active after its
\* handler's count (refreshRiderDepositState, WithdrawRiderDeposit).
THEOREM WithdrawsAtRest == Spec => StartsAtRest
<1> DEFINE Good == \A w \in Requests :
             request[w].status = "none" /\ request'[w].status # "none" =>
               \/ ~Active
               \/ \E h \in Handlers : session[h].at = "withdraw" /\ session[h].late /\ session'[h] = Idle
<1>1. IInv /\ [Next]_vars => [Good]_vars
  <2>1. ASSUME IInv, Next, NEW w \in Requests,
               request[w].status = "none", request'[w].status # "none"
        PROVE  \/ ~Active
               \/ \E h \in Handlers : session[h].at = "withdraw" /\ session[h].late /\ session'[h] = Idle
    BY <2>1, RequestCreated, WithdrawKeeps DEF IInv
  <2> QED BY <2>1
<1> QED BY <1>1, Inductive, PTL DEF Spec, StartsAtRest
=============================================================================
