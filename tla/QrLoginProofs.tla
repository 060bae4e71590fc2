--------------------------- MODULE QrLoginProofs ---------------------------
(***************************************************************************)
(* Proofs about QrLogin, for any number of codes, administrators, requests   *)
(* and faults.                                                              *)
(***************************************************************************)
EXTENDS QrLogin, TLAPS

\* A request that scans or decides names a user, and one that approves has a token.
Decided ==
  \A s \in Slots :
    /\ job[s].op \in {"scan", "approve", "reject"} => job[s].named \in Names
    /\ job[s].op = "approve" => job[s].who \in Admins

\* An answer that says "confirmed" brings a token.
Brings ==
  \A s \in Slots :
    job[s].op = "reply" /\ job[s].copy.status = "confirmed" => job[s].copy.token # Nobody

Inv == TypeOK /\ Decided /\ Brings /\ SessionCoherent /\ TokenNotLost /\ PageAlive

LEMMA InitInv == Init => Inv
<1> SUFFICES ASSUME Init PROVE Inv
  OBVIOUS
<1>1. NoSession \in Session
  BY DEF NoSession, Session
<1>2. TypeOK
  <2>1. redis \in [Tickets -> Session] /\ local \in [Tickets -> Session]
    BY <1>1 DEF Init
  <2>2. /\ age \in [Tickets -> {"unused", "fresh", "late"}]
        /\ job \in [Slots -> {Idle} \cup Request \cup Reply]
    BY DEF Init
  <2>3. faults \in 0..MaxFaults
    BY ConstantsOK DEF Init
  <2> QED
    BY <2>1, <2>2, <2>3 DEF Init, TypeOK
<1>3. Decided /\ Brings
  BY DEF Init, Decided, Brings, Idle
<1>4. SessionCoherent
  BY DEF Init, SessionCoherent, Coherent, Idle, NoSession
<1>5. TokenNotLost
  BY DEF Init, TokenNotLost, NoSession
<1>6. PageAlive
  BY DEF Init, PageAlive
<1> QED
  BY <1>2, <1>3, <1>4, <1>5, <1>6 DEF Inv

-----------------------------------------------------------------------------
(* What a request holds and reads.                                          *)

LEMMA RequestType ==
  ASSUME TypeOK, NEW s \in Slots, job[s].op \in Ops
  PROVE  /\ job[s] \in Request
         /\ job[s].ticket \in Tickets /\ job[s].copy \in Session
         /\ job[s].op # "reply" /\ job[s] # Idle
  BY DEF TypeOK, Request, Reply, Sent, Idle, Ops

LEMMA ReplyType ==
  ASSUME TypeOK, NEW s \in Slots, job[s].op = "reply"
  PROVE  job[s].ticket \in Tickets /\ job[s].copy \in Session
  BY DEF TypeOK, Request, Reply, Sent, Idle, Ops

\* What getQrLoginSession returns is a session, coherent as the copies it is taken from.
LEMMA LoadedCoherent ==
  ASSUME TypeOK, SessionCoherent, NEW s \in Slots, job[s].op \in Ops
  PROVE  Loaded(s) \in Session /\ Coherent(Loaded(s))
<1>1. Found(s) \in Session /\ Coherent(Found(s))
  BY RequestType DEF Found, TypeOK, SessionCoherent
<1>2. CASE Expired(s)
  <2>1. Loaded(s) = [Found(s) EXCEPT !.status = "expired"]
    BY <1>2 DEF Loaded
  <2>2. Found(s).status \in Open
    BY <1>2 DEF Expired
  <2> QED
    BY <1>1, <2>1, <2>2 DEF Session, Coherent, Open, Final
<1>3. CASE ~Expired(s)
  BY <1>1, <1>3 DEF Loaded
<1> QED
  BY <1>2, <1>3

\* What Persist leaves in the two stores.
LEMMA PersistKeeps ==
  ASSUME TypeOK, SessionCoherent, NEW t \in Tickets, NEW session \in Session,
         Coherent(session), Persist(t, session)
  PROVE  /\ local' \in [Tickets -> Session] /\ redis' \in [Tickets -> Session]
         /\ \A u \in Tickets : Coherent(redis'[u]) /\ Coherent(local'[u])
         /\ faults' \in 0..MaxFaults
         /\ faults' = 0 => faults = 0
         /\ \A u \in Tickets : redis'[u] \in {redis[u], session}
<1>1. local' = [local EXCEPT ![t] = session]
  BY DEF Persist
<1>2. CASE redis' = [redis EXCEPT ![t] = session] /\ NoFault
  BY <1>1, <1>2 DEF TypeOK, SessionCoherent, NoFault
<1>3. CASE Fault /\ UNCHANGED redis
  BY <1>1, <1>3, ConstantsOK DEF TypeOK, SessionCoherent, Fault
<1> QED
  BY <1>2, <1>3 DEF Persist

\* A step that changes one request, and brings no token into Redis unless it answers it.
LEMMA TokenKept ==
  ASSUME TypeOK, TokenNotLost, NEW s \in Slots, job[s].op # "reply",
         NEW request, job' = [job EXCEPT ![s] = request],
         logged' = logged, faults' = 0 => faults = 0,
         \/ \A t \in Tickets : redis'[t].status = "consumed" => redis[t].status = "consumed"
         \/ request.op = "reply" /\ request.copy.status = "confirmed"
  PROVE  TokenNotLost'
<1>1. CASE request.op = "reply" /\ request.copy.status = "confirmed"
  BY <1>1 DEF TypeOK, TokenNotLost, CarriesToken
<1>2. CASE \A t \in Tickets : redis'[t].status = "consumed" => redis[t].status = "consumed"
  <2>1. \A r \in Slots : CarriesToken(r) => CarriesToken(r)'
    BY DEF TypeOK, CarriesToken
  <2> QED
    BY <1>2, <2>1 DEF TokenNotLost
<1> QED
  BY <1>1, <1>2

\* A request replaced by another.
LEMMA JobKept ==
  ASSUME TypeOK, Decided, Brings, SessionCoherent, NEW s \in Slots,
         NEW request \in {Idle} \cup Request \cup Reply, job' = [job EXCEPT ![s] = request],
         request.op \in {"scan", "approve", "reject"} => request.named \in Names,
         request.op = "approve" => request.who \in Admins,
         request.op = "reply" /\ request.copy.status = "confirmed" => request.copy.token # Nobody,
         request.op # "reply" => Coherent(request.copy)
  PROVE  /\ job' \in [Slots -> {Idle} \cup Request \cup Reply]
         /\ Decided' /\ Brings'
         /\ \A r \in Slots : job'[r].op # "reply" => Coherent(job'[r].copy)
<1>1. job \in [Slots -> {Idle} \cup Request \cup Reply]
  BY DEF TypeOK
<1>2. job' \in [Slots -> {Idle} \cup Request \cup Reply]
  BY <1>1
<1>3. \A r \in Slots : job'[r] = IF r = s THEN request ELSE job[r]
  BY <1>1
<1>4. Decided'
  BY <1>3 DEF Decided
<1>5. Brings'
  BY <1>3 DEF Brings
<1>6. \A r \in Slots : job'[r].op # "reply" => Coherent(job'[r].copy)
  BY <1>3 DEF SessionCoherent
<1> QED
  BY <1>2, <1>4, <1>5, <1>6

LEMMA IdleFits ==
  /\ Idle.op \notin {"scan", "approve", "reject", "reply"}
  /\ Coherent(Idle.copy)
  BY DEF Idle, Coherent, NoSession

\* What a request that ends in one step of the BFF leaves, whatever it stores.
LEMMA HandledKeeps ==
  ASSUME Inv, NEW s \in Slots, job[s].op \in Ops,
         NEW session \in Session, Coherent(session),
         Persist(job[s].ticket, session)
           \/ (local' = [local EXCEPT ![job[s].ticket] = session] /\ NoFault /\ UNCHANGED redis),
         NEW request \in {Idle} \cup Reply, job' = [job EXCEPT ![s] = request],
         request.op = "reply" /\ request.copy.status = "confirmed" => request.copy.token # Nobody,
         \/ session.status # "consumed" \/ redis' = redis
         \/ request.op = "reply" /\ request.copy.status = "confirmed",
         UNCHANGED <<age, page>>
  PROVE  Inv'
<1> USE DEF Inv
<1>1. job[s].ticket \in Tickets /\ job[s].op # "reply"
  BY RequestType
<1>2. /\ local' \in [Tickets -> Session] /\ redis' \in [Tickets -> Session]
      /\ \A u \in Tickets : Coherent(redis'[u]) /\ Coherent(local'[u])
      /\ faults' \in 0..MaxFaults
      /\ faults' = 0 => faults = 0
      /\ \A u \in Tickets : redis'[u] \in {redis[u], session}
  <2>1. CASE Persist(job[s].ticket, session)
    BY <1>1, <2>1, PersistKeeps
  <2>2. CASE local' = [local EXCEPT ![job[s].ticket] = session] /\ NoFault /\ UNCHANGED redis
    BY <1>1, <2>2 DEF TypeOK, SessionCoherent, NoFault
  <2> QED
    BY <2>1, <2>2
<1>3. /\ request \in {Idle} \cup Request \cup Reply
      /\ request.op \notin {"scan", "approve", "reject"}
      /\ request.op # "reply" => Coherent(request.copy)
  BY IdleFits DEF Reply, Sent
<1>4. /\ job' \in [Slots -> {Idle} \cup Request \cup Reply]
      /\ Decided' /\ Brings'
      /\ \A r \in Slots : job'[r].op # "reply" => Coherent(job'[r].copy)
  BY <1>3, JobKept
<1>5. TypeOK'
  BY <1>2, <1>4 DEF TypeOK, page
<1>6. SessionCoherent'
  BY <1>2, <1>4 DEF SessionCoherent
<1>7. \/ \A t \in Tickets : redis'[t].status = "consumed" => redis[t].status = "consumed"
      \/ request.op = "reply" /\ request.copy.status = "confirmed"
  BY <1>2
<1>8. logged' = logged
  BY DEF page
<1>9. TokenNotLost'
  <2>1. faults' = 0 => faults = 0
    BY <1>2
  <2> QED
    BY <1>1, <1>7, <1>8, <2>1, TokenKept
<1>10. PageAlive'
  BY DEF PageAlive, page
<1> QED
  BY <1>4, <1>5, <1>6, <1>9, <1>10

LEMMA ScanInv == ASSUME Inv, NEW s \in Slots, Scan(s) PROVE Inv'
<1> DEFINE session == [Loaded(s) EXCEPT !.status = "scanned", !.by = job[s].named]
<1>1. job[s].op \in Ops /\ job[s].named \in Names
  BY DEF Scan, Ops, Inv, Decided
<1>2. Loaded(s) \in Session /\ Coherent(Loaded(s)) /\ Loaded(s).status \in Open
  BY <1>1, LoadedCoherent DEF Inv, Scan, CanScan
<1>3. session \in Session /\ Coherent(session) /\ session.status # "consumed"
  BY <1>1, <1>2, ConstantsOK DEF Session, Coherent, Open, Final
<1>4. /\ Persist(job[s].ticket, session) /\ job' = [job EXCEPT ![s] = Idle]
      /\ UNCHANGED <<age, page>>
  BY DEF Scan
<1> HIDE DEF session
<1> QED
  BY <1>1, <1>3, <1>4, IdleFits, HandledKeeps

LEMMA ConfirmInv == ASSUME Inv, NEW s \in Slots, Confirm(s) PROVE Inv'
<1> DEFINE session == IF job[s].op = "approve" THEN Approved(Loaded(s), job[s].who, job[s].named)
                                               ELSE Rejected(Loaded(s), job[s].who)
<1>1. /\ job[s].op \in Ops /\ job[s].named \in Names
      /\ job[s].op = "approve" => job[s].who \in Admins
  BY DEF Confirm, Ops, Inv, Decided
<1>2. Loaded(s) \in Session
  BY <1>1, LoadedCoherent DEF Inv
<1>3. session \in Session /\ Coherent(session) /\ session.status # "consumed"
  <2>1. CASE job[s].op = "approve"
    BY <1>1, <1>2, <2>1, ConstantsOK DEF Session, Coherent, Open, Final, Approved
  <2>2. CASE job[s].op # "approve"
    BY <1>2, <2>2, ConstantsOK DEF Session, Coherent, Open, Final, Rejected
  <2> QED
    BY <2>1, <2>2
<1>4. /\ Persist(job[s].ticket, session) /\ job' = [job EXCEPT ![s] = Idle]
      /\ UNCHANGED <<age, page>>
  BY DEF Confirm
<1> HIDE DEF session
<1> QED
  BY <1>1, <1>3, <1>4, IdleFits, HandledKeeps

LEMMA HandOutInv == ASSUME Inv, NEW s \in Slots, HandOut(s) PROVE Inv'
<1> DEFINE session == [Loaded(s) EXCEPT !.status = "consumed"]
           answer == Answer(s, Loaded(s))
<1>1. job[s].op \in Ops
  BY DEF HandOut, Ops
<1>2. /\ Loaded(s) \in Session /\ Coherent(Loaded(s))
      /\ Loaded(s).status = "confirmed" /\ Loaded(s).token # Nobody
  BY <1>1, LoadedCoherent DEF Inv, HandOut, CanHandOut
<1>3. session \in Session /\ Coherent(session)
  BY <1>2 DEF Session, Coherent, Open, Final
<1>4. answer \in Reply /\ answer.op = "reply"
      /\ answer.copy.status = "confirmed" /\ answer.copy.token # Nobody
  BY <1>1, <1>2, RequestType DEF Answer, Reply, Sent, Session, Inv
<1>5. /\ Persist(job[s].ticket, session) /\ job' = [job EXCEPT ![s] = answer]
      /\ UNCHANGED <<age, page>>
  BY DEF HandOut
<1> HIDE DEF session, answer
<1> QED
  BY <1>1, <1>3, <1>4, <1>5, HandledKeeps

LEMMA DeclineInv == ASSUME Inv, NEW s \in Slots, Decline(s) PROVE Inv'
<1> DEFINE request == IF job[s].op = "poll" THEN Answer(s, Loaded(s)) ELSE Idle
<1>1. job[s].op \in Ops /\ (job[s].op = "poll" => ~CanHandOut(Loaded(s)))
  BY DEF Decline, Refused, Ops
<1>2. Loaded(s) \in Session /\ Coherent(Loaded(s))
  BY <1>1, LoadedCoherent DEF Inv
<1>3. request \in {Idle} \cup Reply /\ (request.op = "reply" => request.copy.status # "confirmed")
  <2>1. CASE job[s].op = "poll"
    <3>1. request = Answer(s, Loaded(s)) /\ job[s].ticket \in Tickets
      BY <1>1, <2>1, RequestType DEF Inv
    <3>2. request \in Reply
      BY <1>2, <3>1 DEF Answer, Reply, Sent, Session
    <3>3. Loaded(s).status # "confirmed"
      BY <1>1, <1>2, <2>1 DEF CanHandOut, Coherent
    <3>4. request.copy.status = Loaded(s).status
      BY <1>2, <3>1 DEF Answer, Session
    <3> QED
      BY <3>2, <3>3, <3>4
  <2>2. CASE job[s].op # "poll"
    BY <2>2, IdleFits
  <2> QED
    BY <2>1, <2>2
<1>4. CASE Expired(s)
  <2>1. Loaded(s).status = "expired" /\ Persist(job[s].ticket, Loaded(s))
    <3>1. Found(s) \in Session
      BY <1>1, RequestType DEF Found, Inv, TypeOK
    <3> QED
      BY <1>4, <3>1 DEF Decline, Loaded, Session
  <2>2. job' = [job EXCEPT ![s] = request] /\ UNCHANGED <<age, page>>
    BY DEF Decline
  <2> HIDE DEF request
  <2> QED
    BY <1>1, <1>2, <1>3, <2>1, <2>2, HandledKeeps
<1>5. CASE ~Expired(s)
  <2>1. local' = [local EXCEPT ![job[s].ticket] = Loaded(s)] /\ NoFault /\ UNCHANGED redis
    BY <1>5 DEF Decline
  <2>2. job' = [job EXCEPT ![s] = request] /\ UNCHANGED <<age, page>>
    BY DEF Decline
  <2> HIDE DEF request
  <2> QED
    BY <1>1, <1>2, <1>3, <2>1, <2>2, HandledKeeps
<1> QED
  BY <1>4, <1>5

-----------------------------------------------------------------------------
(* The steps of the administrators and of the page.                         *)

\* A step that leaves both stores alone and at most replaces requests.
LEMMA StoresAlone ==
  ASSUME Inv, UNCHANGED <<redis, local>>, Decided', Brings', TypeOK', PageAlive', TokenNotLost',
         \A r \in Slots : job'[r].op # "reply" => Coherent(job'[r].copy)
  PROVE  Inv'
  BY DEF Inv, SessionCoherent

\* A request that arrives, of an administrator or of the page.
LEMMA ArriveKeeps ==
  ASSUME Inv, NEW s \in Slots, NEW op \in Ops, NEW t \in Tickets, NEW who \in Admins \cup {Nobody},
         NEW named \in Names \cup {Nobody}, op # "poll" => named \in Names,
         op = "approve" => who \in Admins, Arrive(s, op, t, who, named), UNCHANGED page
  PROVE  Inv'
<1> USE DEF Inv
<1>1. PICK copy \in {redis[t], NoSession} :
        /\ IF copy = redis[t] THEN NoFault ELSE Fault
        /\ job' = [job EXCEPT ![s] = [op |-> op, ticket |-> t, who |-> who, named |-> named,
                                       copy |-> copy]]
  BY DEF Arrive
<1> DEFINE request == [op |-> op, ticket |-> t, who |-> who, named |-> named, copy |-> copy]
<1>2. copy \in Session /\ Coherent(copy)
  BY DEF TypeOK, SessionCoherent, NoSession, Session, Coherent
<1>3. /\ request \in {Idle} \cup Request \cup Reply
      /\ request.op \in {"scan", "approve", "reject"} => request.named \in Names
      /\ request.op = "approve" => request.who \in Admins
      /\ request.op # "reply" /\ Coherent(request.copy)
  BY <1>2 DEF Request, Sent, Ops
<1>4. job' = [job EXCEPT ![s] = request]
  BY <1>1
<1> HIDE DEF request
<1>5. /\ job' \in [Slots -> {Idle} \cup Request \cup Reply]
      /\ Decided' /\ Brings'
      /\ \A r \in Slots : job'[r].op # "reply" => Coherent(job'[r].copy)
  BY <1>3, <1>4, JobKept
<1>6. UNCHANGED <<redis, local, age>> /\ job[s] = Idle
  BY DEF Arrive
<1>7. faults' \in 0..MaxFaults /\ (faults' = 0 => faults = 0)
  BY <1>1, ConstantsOK DEF Fault, NoFault, TypeOK
<1>8. TypeOK'
  BY <1>5, <1>6, <1>7 DEF TypeOK, page
<1>9. TokenNotLost'
  <2>1. logged' = logged
    BY DEF page
  <2>2. job[s].op # "reply"
    BY <1>6, IdleFits
  <2> QED
    BY <1>4, <1>6, <1>7, <2>1, <2>2, TokenKept
<1>10. PageAlive'
  BY DEF PageAlive, page
<1> QED
  BY <1>5, <1>6, <1>8, <1>9, <1>10, StoresAlone

\* The steps of the page that touch neither sessions nor requests.
LEMMA PageKeeps ==
  ASSUME Inv, UNCHANGED <<redis, local, age, job, logged, faults>>,
         qrMode' \in BOOLEAN, loading' \in BOOLEAN, ticket' \in Tickets \cup {Nobody},
         polling' \in BOOLEAN, refresh' \in BOOLEAN, PageAlive'
  PROVE  Inv'
<1>1. TypeOK'
  BY DEF Inv, TypeOK
<1>2. Decided' /\ Brings' /\ SessionCoherent'
  BY DEF Inv, Decided, Brings, SessionCoherent
<1>3. TokenNotLost'
  BY DEF Inv, TokenNotLost, CarriesToken
<1> QED
  BY <1>1, <1>2, <1>3 DEF Inv

LEMMA RefreshTimerInv == ASSUME Inv, RefreshTimer PROVE Inv'
<1>1. PageAlive' /\ qrMode' \in BOOLEAN /\ loading' \in BOOLEAN
      /\ ticket' \in Tickets \cup {Nobody} /\ polling' \in BOOLEAN /\ refresh' \in BOOLEAN
  BY DEF RefreshTimer, StartRefresh, PageAlive, Inv, TypeOK
<1> QED
  BY <1>1, PageKeeps DEF RefreshTimer

LEMMA ToggleModeInv == ASSUME Inv, ToggleMode PROVE Inv'
<1>1. PageAlive' /\ qrMode' \in BOOLEAN /\ loading' \in BOOLEAN
      /\ ticket' \in Tickets \cup {Nobody} /\ polling' \in BOOLEAN /\ refresh' \in BOOLEAN
  BY DEF ToggleMode, StartRefresh, PageAlive, Inv, TypeOK
<1> QED
  BY <1>1, PageKeeps DEF ToggleMode

LEMMA CreatedInv == ASSUME Inv, NEW t \in Tickets, Created(t) PROVE Inv'
<1> USE DEF Inv
<1>1. NewSession \in Session /\ Coherent(NewSession) /\ NewSession.status # "consumed"
  BY DEF NewSession, Session, Coherent, Open, Final
<1>2. Persist(t, NewSession) /\ UNCHANGED <<job, qrMode, logged>>
  BY DEF Created
<1>3. /\ local' \in [Tickets -> Session] /\ redis' \in [Tickets -> Session]
      /\ \A u \in Tickets : Coherent(redis'[u]) /\ Coherent(local'[u])
      /\ faults' \in 0..MaxFaults
      /\ faults' = 0 => faults = 0
      /\ \A u \in Tickets : redis'[u] \in {redis[u], NewSession}
  BY <1>1, <1>2, PersistKeeps
<1>4. TypeOK'
  <2>1. /\ age' \in [Tickets -> {"unused", "fresh", "late"}]
        /\ ticket' \in Tickets \cup {Nobody} /\ loading' \in BOOLEAN
        /\ polling' \in BOOLEAN /\ refresh' \in BOOLEAN
    BY DEF TypeOK, Created
  <2> QED
    BY <1>2, <1>3, <2>1 DEF TypeOK
<1>5. Decided' /\ Brings' /\ SessionCoherent'
  BY <1>2, <1>3 DEF Decided, Brings, SessionCoherent
<1>6. TokenNotLost'
  BY <1>1, <1>2, <1>3 DEF TokenNotLost, CarriesToken
<1>7. PageAlive'
  BY DEF PageAlive, Created
<1> QED
  BY <1>4, <1>5, <1>6, <1>7

LEMMA CreateFailsInv == ASSUME Inv, CreateFails PROVE Inv'
<1>1. TypeOK' /\ faults' # 0
  <2>1. faults' \in 0..MaxFaults /\ faults' # 0
    BY ConstantsOK DEF Inv, TypeOK, CreateFails, Fault
  <2>2. loading' \in BOOLEAN /\ refresh' \in BOOLEAN
    BY DEF CreateFails
  <2> QED
    BY <2>1, <2>2 DEF Inv, TypeOK, CreateFails
<1>2. Decided' /\ Brings' /\ SessionCoherent'
  BY DEF Inv, Decided, Brings, SessionCoherent, CreateFails
<1>3. TokenNotLost'
  BY <1>1 DEF TokenNotLost
<1>4. PageAlive'
  BY DEF Inv, PageAlive, CreateFails
<1> QED
  BY <1>1, <1>2, <1>3, <1>4 DEF Inv

LEMMA PollAnswerInv == ASSUME Inv, NEW s \in Slots, PollAnswer(s) PROVE Inv'
<1> USE DEF Inv
<1>1. /\ job[s].op = "reply" /\ job' = [job EXCEPT ![s] = Idle]
      /\ UNCHANGED <<redis, local, age, qrMode, loading, ticket, faults>>
  BY DEF PollAnswer
<1>2. job[s].copy \in Session
  BY <1>1, ReplyType
<1>3. /\ job' \in [Slots -> {Idle} \cup Request \cup Reply]
      /\ Decided' /\ Brings'
      /\ \A r \in Slots : job'[r].op # "reply" => Coherent(job'[r].copy)
  BY <1>1, IdleFits, JobKept
<1>4. CASE job[s].copy.status = "confirmed"
  <2>1. polling' = FALSE /\ refresh' = FALSE /\ logged' = job[s].copy.token /\ logged' # Nobody
    BY <1>1, <1>4 DEF PollAnswer, Brings
  <2>2. TypeOK'
    BY <1>1, <1>2, <1>3, <2>1 DEF TypeOK, Session
  <2>3. TokenNotLost' /\ PageAlive'
    BY <2>1 DEF TokenNotLost, PageAlive
  <2> QED
    BY <1>1, <1>3, <2>2, <2>3, StoresAlone
<1>5. CASE job[s].copy.status # "confirmed"
  <2>1. /\ refresh' = (refresh \/ job[s].copy.status \in Ends)
        /\ UNCHANGED <<polling, logged>>
    BY <1>5 DEF PollAnswer
  <2>2. TypeOK'
    BY <1>1, <1>3, <2>1 DEF TypeOK
  <2>3. TokenNotLost'
    <3>1. \A r \in Slots : CarriesToken(r) => CarriesToken(r)'
      BY <1>1, <1>5 DEF CarriesToken, TypeOK
    <3> QED
      BY <1>1, <2>1, <3>1 DEF TokenNotLost
  <2>4. PageAlive'
    BY <1>1, <2>1 DEF PageAlive
  <2> QED
    BY <1>1, <1>3, <2>2, <2>3, <2>4, StoresAlone
<1> QED
  BY <1>4, <1>5

LEMMA PollFailsInv == ASSUME Inv, NEW s \in Slots, PollFails(s) PROVE Inv'
<1> USE DEF Inv
<1>1. /\ job' = [job EXCEPT ![s] = Idle] /\ Fault /\ refresh' = TRUE
      /\ UNCHANGED <<redis, local, age, qrMode, loading, ticket, polling, logged>>
  BY DEF PollFails
<1>2. /\ job' \in [Slots -> {Idle} \cup Request \cup Reply]
      /\ Decided' /\ Brings'
      /\ \A r \in Slots : job'[r].op # "reply" => Coherent(job'[r].copy)
  BY <1>1, IdleFits, JobKept
<1>3. TypeOK' /\ faults' # 0
  BY <1>1, <1>2, ConstantsOK DEF TypeOK, Fault
<1>4. TokenNotLost' /\ PageAlive'
  BY <1>1, <1>3 DEF TokenNotLost, PageAlive
<1> QED
  BY <1>1, <1>2, <1>3, <1>4, StoresAlone

LEMMA AgesInv == ASSUME Inv, NEW t \in Tickets, Ages(t) PROVE Inv'
<1> USE DEF Inv
<1>1. /\ UNCHANGED <<job, page, faults>> /\ age' \in [Tickets -> {"unused", "fresh", "late"}]
      /\ \/ UNCHANGED <<redis, local>>
         \/ /\ redis' = [redis EXCEPT ![t] = NoSession]
            /\ local' = [local EXCEPT ![t] = NoSession]
  BY DEF Ages, TypeOK
<1>2. NoSession \in Session /\ Coherent(NoSession) /\ NoSession.status = "none"
  BY DEF NoSession, Session, Coherent
<1>3. TypeOK'
  BY <1>1, <1>2 DEF TypeOK, page
<1>4. Decided' /\ Brings'
  BY <1>1 DEF Decided, Brings
<1>5. SessionCoherent'
  BY <1>1, <1>2 DEF TypeOK, SessionCoherent
<1>6. TokenNotLost'
  <2>1. \A u \in Tickets : redis'[u].status = "consumed" => redis[u].status = "consumed"
    BY <1>1, <1>2 DEF TypeOK
  <2> QED
    BY <1>1, <2>1 DEF TokenNotLost, CarriesToken, page
<1>7. PageAlive'
  BY <1>1 DEF PageAlive, page
<1> QED
  BY <1>3, <1>4, <1>5, <1>6, <1>7

LEMMA RestartInv == ASSUME Inv, Restart PROVE Inv'
<1> USE DEF Inv
<1>1. NoSession \in Session /\ Coherent(NoSession)
  BY DEF NoSession, Session, Coherent
<1>2. /\ Fault /\ local' = [t \in Tickets |-> NoSession] /\ job' = [s \in Slots |-> Idle]
      /\ UNCHANGED <<redis, age, page>>
  BY DEF Restart
<1>3. TypeOK' /\ faults' # 0
  BY <1>1, <1>2, ConstantsOK DEF TypeOK, Fault, page
<1>4. Decided' /\ Brings' /\ SessionCoherent'
  BY <1>1, <1>2, IdleFits DEF Decided, Brings, SessionCoherent
<1>5. TokenNotLost' /\ PageAlive'
  BY <1>2, <1>3 DEF TokenNotLost, PageAlive, page
<1> QED
  BY <1>3, <1>4, <1>5

-----------------------------------------------------------------------------
LEMMA NextInv == ASSUME Inv, [Next]_vars PROVE Inv'
<1>1. CASE UNCHANGED vars
  <2>1. UNCHANGED <<redis, local, age, job, qrMode, loading, ticket, polling, refresh, logged, faults>>
    BY <1>1 DEF vars, page
  <2>2. TypeOK' /\ Decided' /\ Brings'
    BY <2>1 DEF Inv, TypeOK, Decided, Brings
  <2>3. SessionCoherent' /\ TokenNotLost' /\ PageAlive'
    BY <2>1 DEF Inv, SessionCoherent, TokenNotLost, CarriesToken, PageAlive
  <2> QED
    BY <2>2, <2>3 DEF Inv
<1>2. ASSUME NEW s \in Slots, NEW op \in Ops \ {"poll"}, NEW t \in Tickets, NEW a \in Admins,
             NEW named \in Names, AdminActs(s, op, t, a, named)
      PROVE  Inv'
  <2> DEFINE who == IF op = "approve" THEN a ELSE Nobody
  <2>1. Arrive(s, op, t, who, named) /\ UNCHANGED page
    BY <1>2 DEF AdminActs
  <2>2. who \in Admins \cup {Nobody} /\ (op = "approve" => who \in Admins)
    OBVIOUS
  <2> HIDE DEF who
  <2> QED
    BY <2>1, <2>2, ArriveKeeps
<1>3. ASSUME NEW s \in Slots, PollStatus(s) PROVE Inv'
  <2>1. ticket \in Tickets /\ "poll" \in Ops
    BY <1>3 DEF PollStatus, Inv, TypeOK, Ops
  <2> QED
    BY <1>3, <2>1, ArriveKeeps DEF PollStatus
<1>4. ASSUME NEW s \in Slots, Handle(s) PROVE Inv'
  BY <1>4, ScanInv, ConfirmInv, HandOutInv, DeclineInv DEF Handle
<1>5. ASSUME NEW s \in Slots, PollAnswer(s) \/ PollFails(s) PROVE Inv'
  BY <1>5, PollAnswerInv, PollFailsInv
<1>6. CASE RefreshTimer \/ ToggleMode \/ CreateFails \/ Restart
  BY <1>6, RefreshTimerInv, ToggleModeInv, CreateFailsInv, RestartInv
<1>7. ASSUME NEW t \in Tickets, Created(t) \/ Ages(t) PROVE Inv'
  BY <1>7, CreatedInv, AgesInv
<1>8. CASE Next
  BY <1>2, <1>3, <1>4, <1>5, <1>6, <1>7, <1>8, Zenon DEF Next
<1> QED
  BY <1>1, <1>8

\* The inductive invariant of the login by QR code holds in every state (qrLogin.js).
THEOREM SpecInv == Spec => []Inv
<1>1. Init => Inv
  BY InitInv
<1>2. Inv /\ [Next]_vars => Inv'
  BY NextInv
<1> QED
  BY <1>1, <1>2, PTL DEF Spec

\* Sessions, requests and page keep their types (qrLogin.js, loginPageHelpers.js).
THEOREM QrTyping == Spec => []TypeOK
<1>1. Inv => TypeOK
  BY DEF Inv
<1> QED
  BY <1>1, SpecInv, PTL

\* Every copy of a session, in Redis, in memory or on its way through scanQrLoginSession and
\* confirmQrLoginSession, grants a token exactly when it was approved, and by its approver.
THEOREM QrSessionsCoherent == Spec => []SessionCoherent
<1>1. Inv => SessionCoherent
  BY DEF Inv
<1> QED
  BY <1>1, SpecInv, PTL

\* Without faults the poll that consumes a session brings its token to the page, whatever
\* number of polls overlap (getQrLoginSessionStatus, pollQrStatus).
THEOREM QrTokenNotLost == Spec => []TokenNotLost
<1>1. Inv => TokenNotLost
  BY DEF Inv
<1> QED
  BY <1>1, SpecInv, PTL

\* A page in QR mode always has its next code coming, and polls for the one it shows
\* (refreshQrCode, scheduleQrRefresh, pollQrStatus).
THEOREM QrPageAlive == Spec => []PageAlive
<1>1. Inv => PageAlive
  BY DEF Inv
<1> QED
  BY <1>1, SpecInv, PTL
=============================================================================
