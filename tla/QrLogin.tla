------------------------------ MODULE QrLogin ------------------------------
(***************************************************************************)
(* Login to the web console by QR code: the login page that shows a code    *)
(* and polls it, the administrators who scan and decide it in their app,    *)
(* and the sessions of the codes, which the BFF keeps in Redis with a copy  *)
(* in its memory for when Redis fails.                                      *)
(*                                                                         *)
(* Granularity.  A request reads the session when it arrives and acts when  *)
(* the answer of Redis is there; Redis takes reads and writes in the order  *)
(* they were sent.  A code that is forgotten may be used again, so that     *)
(* finitely many stand for the fresh one of every refresh.                  *)
(***************************************************************************)
EXTENDS Naturals

CONSTANTS
  Tickets,   \* codes
  Followed,  \* the codes that somebody scans
  Admins,    \* administrators who own the app, by their tokens
  Names,     \* the users a request of theirs may name
  Slots,     \* requests that may be under way together
  MaxFaults, \* bound: failed requests, failed commands of Redis, restarts
  Nobody

ASSUME ConstantsOK == MaxFaults \in Nat /\ Followed \subseteq Tickets /\ Nobody \notin Admins \cup Names \cup Tickets

VARIABLES
  redis,   \* the sessions in Redis
  local,   \* localQrLoginSessions of the BFF
  age,     \* of a code: "unused", "fresh", "late" after two minutes
  job,     \* the requests under way
  qrMode,  \* isQrMode
  loading, \* qrLoading: a refresh awaits its new code
  ticket,  \* qrTicket, the code the page shows
  polling, \* the poll interval runs
  refresh, \* the refresh timer is set
  logged,  \* whose token the page has stored
  faults

page == <<qrMode, loading, ticket, polling, refresh, logged>>
vars == <<redis, local, age, job, page, faults>>

Open == {"pending", "scanned"}
Final == {"confirmed", "rejected", "expired", "consumed"}
\* by is the scanner as the request named him, token the administrator who is logged in.
Session == [status : Open \cup Final \cup {"none"},
            by : Names \cup {Nobody}, token : Admins \cup {Nobody}]
NoSession == [status |-> "none", by |-> Nobody, token |-> Nobody]
NewSession == [status |-> "pending", by |-> Nobody, token |-> Nobody]
Ops == {"scan", "approve", "reject", "poll"}
Idle == [op |-> "idle", ticket |-> Nobody, who |-> Nobody, named |-> Nobody, copy |-> NoSession]
Sent(ops) == [op : ops, ticket : Tickets, who : Admins \cup {Nobody}, named : Names \cup {Nobody},
              copy : Session]
Request == Sent(Ops)
Reply == Sent({"reply"})

Init ==
  /\ redis = [t \in Tickets |-> NoSession] /\ local = redis
  /\ age = [t \in Tickets |-> "unused"]
  /\ job = [s \in Slots |-> Idle]
  /\ qrMode = FALSE /\ loading = FALSE /\ ticket = Nobody
  /\ polling = FALSE /\ refresh = FALSE /\ logged = Nobody
  /\ faults = 0

Fault == faults < MaxFaults /\ faults' = faults + 1
NoFault == UNCHANGED faults

-----------------------------------------------------------------------------
(* The sessions.                                                           *)

\* persistQrLoginSession: a write that Redis refuses is only logged.
Persist(t, session) ==
  /\ local' = [local EXCEPT ![t] = session]
  /\ \/ redis' = [redis EXCEPT ![t] = session] /\ NoFault
     \/ Fault /\ UNCHANGED redis

\* loadRedisSession: a read that fails looks like a session Redis does not have.
Arrive(s, op, t, who, named) ==
  /\ job[s] = Idle
  /\ \E copy \in {redis[t], NoSession} :
       /\ IF copy = redis[t] THEN NoFault ELSE Fault
       /\ job' = [job EXCEPT ![s] = [op |-> op, ticket |-> t, who |-> who, named |-> named,
                                         copy |-> copy]]
  /\ UNCHANGED <<redis, local, age>>

\* getQrLoginSession: the copy of this process stands in, and two minutes end an open session.
Found(s) == IF job[s].copy = NoSession THEN local[job[s].ticket] ELSE job[s].copy
Expired(s) == age[job[s].ticket] = "late" /\ Found(s).status \in Open
Loaded(s) == IF Expired(s) THEN [Found(s) EXCEPT !.status = "expired"] ELSE Found(s)

CanScan(session) == session.status \in Open
\* The scanner decides: the two are compared as their requests name them.
CanDecide(session, named) ==
  session.status \notin {"none", "expired", "consumed"} /\ session.by \in {Nobody, named}
CanHandOut(session) == session.status = "confirmed" /\ session.token # Nobody

Refused(s) ==
  LET session == Loaded(s)
  IN  CASE job[s].op = "scan" -> ~CanScan(session)
        [] job[s].op \in {"approve", "reject"} -> ~CanDecide(session, job[s].named)
        [] job[s].op = "poll" -> ~CanHandOut(session)
        [] OTHER -> FALSE

Scan(s) ==
  /\ job[s].op = "scan" /\ CanScan(Loaded(s))
  /\ Persist(job[s].ticket, [Loaded(s) EXCEPT !.status = "scanned", !.by = job[s].named])
  /\ job' = [job EXCEPT ![s] = Idle]
  /\ UNCHANGED <<age, page>>

Approved(session, who, named) ==
  [status |-> "confirmed", by |-> IF session.by = Nobody THEN named ELSE session.by, token |-> who]
RejectedOnly(session, who) == [session EXCEPT !.status = "rejected"]  \* mutant: keeps the token

Rejected(session, who) == [status |-> "rejected", by |-> session.by, token |-> Nobody]

Confirm(s) ==
  /\ job[s].op \in {"approve", "reject"} /\ CanDecide(Loaded(s), job[s].named)
  /\ Persist(job[s].ticket, IF job[s].op = "approve" THEN Approved(Loaded(s), job[s].who, job[s].named)
                                                     ELSE Rejected(Loaded(s), job[s].who))
  /\ job' = [job EXCEPT ![s] = Idle]
  /\ UNCHANGED <<age, page>>

AnswerForPage(s, session) ==  \* mutant: answers for the code the page shows by now
  [op |-> "reply", ticket |-> ticket, who |-> Nobody, named |-> Nobody,
   copy |-> [session EXCEPT !.by = Nobody]]

Answer(s, session) ==
  [op |-> "reply", ticket |-> job[s].ticket, who |-> Nobody, named |-> Nobody,
   copy |-> [session EXCEPT !.by = Nobody]]

HandOutStored(s) ==  \* mutant: answers with the status it has just stored
  /\ job[s].op = "poll" /\ CanHandOut(Loaded(s))
  /\ Persist(job[s].ticket, [Loaded(s) EXCEPT !.status = "consumed"])
  /\ job' = [job EXCEPT ![s] = Answer(s, [Loaded(s) EXCEPT !.status = "consumed"])]
  /\ UNCHANGED <<age, page>>

\* The poll that finds the session confirmed takes the token and says "confirmed".
HandOut(s) ==
  /\ job[s].op = "poll" /\ CanHandOut(Loaded(s))
  /\ Persist(job[s].ticket, [Loaded(s) EXCEPT !.status = "consumed"])
  /\ job' = [job EXCEPT ![s] = Answer(s, Loaded(s))]
  /\ UNCHANGED <<age, page>>

\* Whatever else happens to a request; a session that has just expired is stored.
Decline(s) ==
  /\ Refused(s)
  /\ IF Expired(s) THEN Persist(job[s].ticket, Loaded(s))
                   ELSE local' = [local EXCEPT ![job[s].ticket] = Loaded(s)]
                        /\ NoFault /\ UNCHANGED redis
  /\ job' = [job EXCEPT ![s] = IF job[s].op = "poll" THEN Answer(s, Loaded(s)) ELSE Idle]
  /\ UNCHANGED <<age, page>>

-----------------------------------------------------------------------------
(* The administrators.                                                     *)

\* The code on the screen, or one they scanned before the page took the next.  The
\* payload of the code names its end, and a late one is refused at once.  The request
\* proves who sends it by its token, which only an approval keeps; the user it names in
\* its body may be another.
AdminActs(s, op, t, a, named) ==
  /\ t \in Followed /\ age[t] = "fresh"
  /\ op = "scan" => t = ticket /\ logged = Nobody
  /\ Arrive(s, op, t, IF op = "approve" THEN a ELSE Nobody, named)
  /\ UNCHANGED page

-----------------------------------------------------------------------------
(* The login page.                                                         *)

\* refreshQrCode, which every timer and the switch to QR mode call.  The ten seconds of
\* the timer, and the user, are slower than the answer of the last refresh.
StartRefresh ==
  /\ polling' = FALSE /\ refresh' = FALSE
  /\ loading' = TRUE
  /\ ticket' = Nobody

RefreshTimer ==
  /\ refresh /\ ~loading
  /\ IF qrMode THEN StartRefresh
               ELSE refresh' = FALSE /\ UNCHANGED <<loading, ticket, polling>>
  /\ UNCHANGED <<redis, local, age, job, qrMode, logged, faults>>

\* toggleMode.
ToggleMode ==
  /\ logged = Nobody /\ (qrMode \/ ~loading)
  /\ qrMode' = ~qrMode
  /\ IF qrMode
     THEN /\ polling' = FALSE /\ refresh' = FALSE /\ ticket' = Nobody
          /\ UNCHANGED loading
     ELSE StartRefresh
  /\ UNCHANGED <<redis, local, age, job, logged, faults>>

Unused(t) == age[t] = "unused" /\ ticket # t /\ \A s \in Slots : job[s].ticket # t

\* createQrLoginSession and the page that gets its answer: both timers start.
Created(t) ==
  /\ loading /\ Unused(t)
  /\ Persist(t, NewSession)
  /\ age' = [age EXCEPT ![t] = "fresh"]
  /\ loading' = FALSE
  /\ ticket' = t /\ polling' = TRUE /\ refresh' = TRUE
  /\ UNCHANGED <<job, qrMode, logged>>

CreateGivesUp ==  \* mutant: no new attempt after a failed one
  /\ loading
  /\ Fault
  /\ loading' = FALSE
  /\ UNCHANGED <<redis, local, age, job, qrMode, ticket, polling, refresh, logged>>

CreateFails ==
  /\ loading
  /\ Fault
  /\ loading' = FALSE
  /\ refresh' = TRUE
  /\ UNCHANGED <<redis, local, age, job, qrMode, ticket, polling, logged>>

PollStatus(s) ==
  /\ polling /\ qrMode /\ ticket # Nobody /\ ~loading
  /\ Arrive(s, "poll", ticket, Nobody, Nobody)
  /\ UNCHANGED page

Ends == {"expired", "rejected", "consumed", "none"}

\* An answer counts whatever code the page shows by then; "none" is the 404.
PollAnswer(s) ==
  /\ job[s].op = "reply"
  /\ job' = [job EXCEPT ![s] = Idle]
  /\ LET told == job[s].copy
     IN  IF told.status = "confirmed"
         THEN /\ polling' = FALSE /\ refresh' = FALSE /\ logged' = told.token
         ELSE /\ refresh' = (refresh \/ told.status \in Ends)
              /\ UNCHANGED <<polling, logged>>
  /\ UNCHANGED <<redis, local, age, qrMode, loading, ticket, faults>>

PollFails(s) ==
  /\ job[s].op \in {"poll", "reply"}
  /\ Fault
  /\ job' = [job EXCEPT ![s] = Idle]
  /\ refresh' = TRUE
  /\ UNCHANGED <<redis, local, age, qrMode, loading, ticket, polling, logged>>

-----------------------------------------------------------------------------
(* Time and failures.                                                      *)

\* Two minutes after its creation, and at the end of the time a session is kept.
Ages(t) ==
  \/ /\ age[t] = "fresh"
     /\ age' = [age EXCEPT ![t] = "late"]
     /\ UNCHANGED <<redis, local, job, page, faults>>
  \/ /\ age[t] = "late" /\ \A s \in Slots : job[s].ticket # t
     /\ age' = [age EXCEPT ![t] = "unused"]
     /\ redis' = [redis EXCEPT ![t] = NoSession]
     /\ local' = [local EXCEPT ![t] = NoSession]
     /\ UNCHANGED <<job, page, faults>>

\* The memory of the BFF is gone; the requests it had fail.
Restart ==
  /\ \A s \in Slots : job[s].op \notin {"poll", "reply"}
  /\ Fault
  /\ local' = [t \in Tickets |-> NoSession]
  /\ job' = [s \in Slots |-> Idle]
  /\ UNCHANGED <<redis, age, page>>

-----------------------------------------------------------------------------
Handle(s) == Scan(s) \/ Confirm(s) \/ HandOut(s) \/ Decline(s)

Next ==
  \/ \E s \in Slots :
       \/ \E op \in Ops \ {"poll"}, t \in Tickets, a \in Admins, named \in Names :
            AdminActs(s, op, t, a, named)
       \/ PollStatus(s) \/ Handle(s) \/ PollAnswer(s) \/ PollFails(s)
  \/ RefreshTimer \/ ToggleMode \/ CreateFails \/ Restart
  \/ \E t \in Tickets : Created(t) \/ Ages(t)

Spec == Init /\ [][Next]_vars

-----------------------------------------------------------------------------
TypeOK ==
  /\ redis \in [Tickets -> Session] /\ local \in [Tickets -> Session]
  /\ age \in [Tickets -> {"unused", "fresh", "late"}]
  /\ job \in [Slots -> {Idle} \cup Request \cup Reply]
  /\ qrMode \in BOOLEAN /\ loading \in BOOLEAN
  /\ ticket \in Tickets \cup {Nobody}
  /\ polling \in BOOLEAN /\ refresh \in BOOLEAN
  /\ logged \in Admins \cup {Nobody}
  /\ faults \in 0..MaxFaults

\* A session grants a token exactly when its last decision was to approve it, names its
\* scanner from the scan on and nobody before; this holds for each copy of it, the stale
\* ones that requests carry and later store included.  Whose token it is the session does
\* not say: the scanner it names is the one of the request (scanQrLoginSession,
\* confirmQrLoginSession, getQrLoginSessionStatus).
Coherent(session) ==
  /\ session.status \in {"confirmed", "consumed"} <=> session.token # Nobody
  /\ session.status \in {"scanned", "confirmed", "consumed"} => session.by # Nobody
  /\ session.status \in {"none", "pending"} => session.by = Nobody
SessionCoherent ==
  /\ \A t \in Tickets : Coherent(redis[t]) /\ Coherent(local[t])
  /\ \A s \in Slots : job[s].op # "reply" => Coherent(job[s].copy)

\* A consumed session has given its token: it is on its way to the page, or the page has
\* stored it, unless a request failed (getQrLoginSessionStatus, pollQrStatus).
CarriesToken(s) == job[s].op = "reply" /\ job[s].copy.status = "confirmed"
TokenNotLost ==
  (\E t \in Tickets : redis[t].status = "consumed") /\ faults = 0
    => logged # Nobody \/ \E s \in Slots : CarriesToken(s)

\* Whatever answers are late, crossed or lost, a page in QR mode that is not logged in is
\* about to take a fresh code, and asks for the state of the one it shows
\* (scheduleQrRefresh, startQrPolling, clearQrTimers).
PageAlive ==
  qrMode /\ logged = Nobody => (loading \/ refresh) /\ (ticket # Nobody => polling)
=============================================================================
