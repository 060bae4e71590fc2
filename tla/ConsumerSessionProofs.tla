----------------------- MODULE ConsumerSessionProofs -----------------------
(***************************************************************************)
(* Proofs about ConsumerSession, for any number of requests, accounts and    *)
(* faults.                                                                  *)
(***************************************************************************)
EXTENDS ConsumerSession, TLAPS

\* Unless a refresh crossed the end of a session, every refresh under way is for the account
\* that is logged in.
OwnRefresh ==
  ~crossed =>
    /\ \A r \in Requests : req[r].at = "refreshing" => req[r].token = user
    /\ launch.at = "refreshing" => launch.token = user

Inv == TypeOK /\ OneRefresh /\ WaitersServed /\ SessionIsUsers /\ OwnRefresh

LEMMA IdleFacts ==
  /\ Idle \notin Request /\ Idle.at = "idle" /\ Launched \in Launch
  /\ None \notin Session /\ None.owner = Nobody /\ None.soon = FALSE /\ None.mode = FALSE
BY ConstantsOK DEF Idle, Request, Launched, Launch, None, Session

\* What the state of a request says of its row.
LEMMA RowType ==
  ASSUME TypeOK, NEW r \in Requests, req[r].at # "idle"
  PROVE  /\ req[r] \in Request
         /\ req[r].retried \in BOOLEAN /\ req[r].token \in Holder /\ req[r].dead \in BOOLEAN
         /\ req[r].at = "refreshing" => req[r].token \in Accounts
         /\ req[r].at \in {"sent", "refused", "waiting", "refreshing"}
<1>1. req[r] \in {Idle} \cup Request
  BY DEF TypeOK
<1>2. req[r] \in Request
  BY <1>1, IdleFacts
<1> QED
  BY <1>2 DEF Request, Holder

LEMMA ModeType == ASSUME TypeOK PROVE stored.mode \in BOOLEAN
<1>1. CASE stored = None
  BY <1>1 DEF None
<1>2. CASE stored \in Session
  BY <1>2 DEF Session
<1> QED
  BY <1>1, <1>2 DEF TypeOK

LEMMA InitInv == Init => Inv
<1> SUFFICES ASSUME Init PROVE Inv
  OBVIOUS
<1>1. user \in Holder
  BY IdleFacts DEF Init, Session, Holder
<1>2. launch \in Launch /\ faults \in 0..MaxFaults
  BY ConstantsOK DEF Init, Launch
<1>3. TypeOK
  BY <1>1, <1>2 DEF Init, TypeOK
<1>4. OneRefresh /\ WaitersServed
  BY IdleFacts DEF Init, OneRefresh, WaitersServed
<1>5. SessionIsUsers /\ OwnRefresh
  BY IdleFacts DEF Init, SessionIsUsers, OwnRefresh
<1> QED
  BY <1>3, <1>4, <1>5 DEF Inv

-----------------------------------------------------------------------------
(* The session ends.                                                        *)

\* forceLogout leaves no session and remembers a refresh it crossed.
LEMMA LogoutFacts ==
  ASSUME Inv, NEW done \in SUBSET Requests, ForceLogout(done),
         \A r \in Requests : req'[r].at = "refreshing" => r \notin done /\ req[r].at = "refreshing"
  PROVE  /\ stored' \in Session \cup {None} /\ user' \in Holder /\ crossed' \in BOOLEAN
         /\ SessionIsUsers' /\ OwnRefresh'
<1>1. stored' = None /\ user' = Nobody
  BY DEF ForceLogout
<1>2. crossed' = (crossed \/ launch'.at = "refreshing"
                    \/ \E r \in Requests \ done : req[r].at = "refreshing")
  BY DEF ForceLogout
<1>3. crossed' \in BOOLEAN
  BY <1>2 DEF Inv, TypeOK
<1>4. SessionIsUsers'
  BY <1>1, IdleFacts DEF SessionIsUsers
<1>5. OwnRefresh'
  BY <1>2 DEF OwnRefresh
<1> QED
  BY <1>1, <1>3, <1>4, <1>5 DEF Holder

LEMMA LogoutInv == ASSUME Inv, Logout PROVE Inv'
<1>1. UNCHANGED <<isRefreshing, req, launch, faults>> /\ ForceLogout({})
  BY DEF Logout
<1>2. /\ stored' \in Session \cup {None} /\ user' \in Holder /\ crossed' \in BOOLEAN
      /\ SessionIsUsers' /\ OwnRefresh'
  BY <1>1, LogoutFacts
<1>3. TypeOK' /\ OneRefresh' /\ WaitersServed'
  BY <1>1, <1>2 DEF Inv, TypeOK, OneRefresh, WaitersServed
<1> QED
  BY <1>2, <1>3 DEF Inv

LEMMA LoggedOutInv == ASSUME Inv, NEW r \in Requests, Handle401LoggedOut(r) PROVE Inv'
<1>1. /\ req[r].at = "refused" /\ req' = [req EXCEPT ![r] = Idle]
      /\ UNCHANGED <<isRefreshing, launch, faults>> /\ ForceLogout({r})
  BY DEF Handle401LoggedOut
<1>2. \A s \in Requests : req'[s] = IF s = r THEN Idle ELSE req[s]
  BY <1>1 DEF Inv, TypeOK
<1>3. /\ stored' \in Session \cup {None} /\ user' \in Holder /\ crossed' \in BOOLEAN
      /\ SessionIsUsers' /\ OwnRefresh'
  BY <1>1, <1>2, LogoutFacts, IdleFacts
<1>4. TypeOK'
  BY <1>1, <1>3 DEF Inv, TypeOK
<1>5. OneRefresh' /\ WaitersServed'
  BY <1>1, <1>2, IdleFacts DEF Inv, OneRefresh, WaitersServed
<1> QED
  BY <1>3, <1>4, <1>5 DEF Inv

LEMMA FaultCounts ==
  ASSUME TypeOK, Fault PROVE faults' \in 0..MaxFaults /\ faults' # 0
  BY ConstantsOK DEF TypeOK, Fault

LEMMA RefreshFailsInv == ASSUME Inv, NEW r \in Requests, RefreshFails(r) PROVE Inv'
<1>1. /\ req[r].at = "refreshing" /\ req' = [req EXCEPT ![r] = Idle]
      /\ isRefreshing' = FALSE /\ launch' = launch /\ Fault /\ ForceLogout({r})
  BY DEF RefreshFails
<1>2. \A s \in Requests : req'[s] = IF s = r THEN Idle ELSE req[s]
  BY <1>1 DEF Inv, TypeOK
<1>3. /\ stored' \in Session \cup {None} /\ user' \in Holder /\ crossed' \in BOOLEAN
      /\ SessionIsUsers' /\ OwnRefresh'
  BY <1>1, <1>2, LogoutFacts, IdleFacts
<1>4. faults' \in 0..MaxFaults /\ faults' # 0
  BY <1>1, FaultCounts DEF Inv
<1>5. TypeOK'
  BY <1>1, <1>3, <1>4 DEF Inv, TypeOK
<1>6. OneRefresh'
  BY <1>1, <1>2, IdleFacts DEF Inv, OneRefresh
<1>7. WaitersServed'
  BY <1>4 DEF WaitersServed
<1> QED
  BY <1>3, <1>5, <1>6, <1>7 DEF Inv

\* The check at the launch ends the session.
LEMMA LaunchLogoutInv ==
  ASSUME Inv, LaunchRefreshFails \/ VerifyRefused \/ LaunchWithout PROVE Inv'
<1>1. UNCHANGED <<isRefreshing, req>> /\ launch' = Launched /\ ForceLogout({})
  BY DEF LaunchRefreshFails, VerifyRefused, LaunchWithout
<1>2. /\ stored' \in Session \cup {None} /\ user' \in Holder /\ crossed' \in BOOLEAN
      /\ SessionIsUsers' /\ OwnRefresh'
  BY <1>1, LogoutFacts
<1>3. faults' \in 0..MaxFaults /\ (faults' = 0 => faults = 0)
  BY FaultCounts, ConstantsOK DEF LaunchRefreshFails, VerifyRefused, LaunchWithout, Inv, TypeOK
<1>4. TypeOK'
  BY <1>1, <1>2, <1>3, IdleFacts DEF Inv, TypeOK
<1>5. OneRefresh' /\ WaitersServed'
  BY <1>1, <1>3 DEF Inv, OneRefresh, WaitersServed
<1> QED
  BY <1>2, <1>4, <1>5 DEF Inv

-----------------------------------------------------------------------------
(* The session begins, grows old, and is checked.                           *)

LEMMA LoginInv == ASSUME Inv, NEW a \in Accounts, Login(a) PROVE Inv'
<1>1. /\ user = Nobody /\ stored' = Fresh(a, TRUE) /\ user' = a
      /\ UNCHANGED <<isRefreshing, req, launch, faults, crossed>>
  BY DEF Login
<1>2. TypeOK'
  BY <1>1 DEF Inv, TypeOK, Fresh, Session, Holder
<1>3. OneRefresh' /\ WaitersServed' /\ SessionIsUsers'
  BY <1>1 DEF Inv, OneRefresh, WaitersServed, SessionIsUsers, Fresh
<1>4. ASSUME ~crossed PROVE /\ \A r \in Requests : req[r].at # "refreshing"
                            /\ launch.at # "refreshing"
  <2>1. ASSUME NEW r \in Requests, req[r].at = "refreshing" PROVE FALSE
    BY <1>1, <1>4, <2>1, RowType, ConstantsOK DEF Inv, OwnRefresh
  <2>2. launch.at = "refreshing" => launch.token \in Accounts
    BY DEF Inv, TypeOK, Launch
  <2> QED
    BY <1>1, <1>4, <2>1, <2>2, ConstantsOK DEF Inv, OwnRefresh
<1>5. OwnRefresh'
  BY <1>1, <1>4 DEF OwnRefresh
<1> QED
  BY <1>2, <1>3, <1>5 DEF Inv

LEMMA ExpiresSoonInv == ASSUME Inv, ExpiresSoon PROVE Inv'
<1>1. /\ stored \in Session /\ stored' = [stored EXCEPT !.soon = TRUE]
      /\ UNCHANGED <<user, isRefreshing, req, launch, faults, crossed>>
  BY DEF ExpiresSoon, Inv, TypeOK
<1>2. stored' \in Session /\ stored'.owner = stored.owner
  BY <1>1 DEF Session
<1>3. TypeOK' /\ OneRefresh' /\ WaitersServed'
  BY <1>1, <1>2 DEF Inv, TypeOK, OneRefresh, WaitersServed
<1>4. SessionIsUsers' /\ OwnRefresh'
  BY <1>1, <1>2 DEF Inv, SessionIsUsers, OwnRefresh
<1> QED
  BY <1>3, <1>4 DEF Inv

LEMMA ExpireInv == ASSUME Inv, Expire PROVE Inv'
<1>1. /\ stored' = [stored EXCEPT !.dead = (stored # None)]
      /\ req' = [r \in Requests |-> [req[r] EXCEPT !.dead = (req[r] # Idle)]]
      /\ launch' = [launch EXCEPT !.dead = (launch.token # Nobody)]
      /\ UNCHANGED <<user, isRefreshing, faults, crossed>>
  BY DEF Expire
<1>2. stored' \in Session \cup {None} /\ stored'.owner = stored.owner
  <2>1. CASE stored = None
    BY <1>1, <2>1 DEF None
  <2>2. CASE stored \in Session
    BY <1>1, <2>2 DEF Session
  <2> QED
    BY <2>1, <2>2 DEF Inv, TypeOK
<1>3. ASSUME NEW r \in Requests
      PROVE  /\ req'[r] \in {Idle} \cup Request
             /\ req'[r].at = req[r].at /\ req'[r].token = req[r].token
  <2>1. CASE req[r] = Idle
    <3>1. req'[r] = [Idle EXCEPT !.dead = FALSE]
      BY <1>1, <2>1
    <3> QED
      BY <2>1, <3>1 DEF Idle
  <2>2. CASE req[r] \in Request
    BY <1>1, <2>2, IdleFacts DEF Request
  <2> QED
    BY <2>1, <2>2 DEF Inv, TypeOK
<1>4. launch' \in Launch /\ launch'.at = launch.at /\ launch'.token = launch.token
  BY <1>1, ConstantsOK DEF Inv, TypeOK, Launch
<1>5. req' \in [Requests -> {Idle} \cup Request]
  BY <1>1, <1>3
<1>6. TypeOK'
  BY <1>1, <1>2, <1>4, <1>5 DEF Inv, TypeOK
<1>7. OneRefresh' /\ WaitersServed'
  <2>1. \A r \in Requests : req'[r].at = req[r].at
    BY <1>3
  <2>2. isRefreshing' = isRefreshing /\ faults' = faults
    BY <1>1
  <2>3. OneRefresh'
    BY <2>1, <2>2, Zenon DEF Inv, OneRefresh
  <2>4. WaitersServed'
    BY <2>1, <2>2 DEF Inv, WaitersServed
  <2> QED
    BY <2>3, <2>4
<1>8. SessionIsUsers' /\ OwnRefresh'
  BY <1>1, <1>2, <1>3, <1>4 DEF Inv, SessionIsUsers, OwnRefresh
<1> QED
  BY <1>6, <1>7, <1>8 DEF Inv

LEMMA LaunchAppInv == ASSUME Inv, LaunchApp PROVE Inv'
<1>1. /\ stored.mode
      /\ launch' = [at |-> IF stored.soon THEN "refreshing" ELSE "verifying",
                    token |-> stored.owner, dead |-> stored.dead]
      /\ UNCHANGED <<stored, user, isRefreshing, req, faults, crossed>>
  BY DEF LaunchApp
<1>2. launch' \in Launch /\ (launch'.at = "refreshing" => launch'.token = stored.owner)
  <2>1. stored \in Session
    BY <1>1, IdleFacts DEF Inv, TypeOK
  <2> QED
    BY <1>1, <2>1 DEF Session, Launch
<1>3. TypeOK' /\ OneRefresh' /\ WaitersServed'
  BY <1>1, <1>2 DEF Inv, TypeOK, OneRefresh, WaitersServed
<1>4. SessionIsUsers' /\ OwnRefresh'
  BY <1>1, <1>2 DEF Inv, SessionIsUsers, OwnRefresh
<1> QED
  BY <1>3, <1>4 DEF Inv

LEMMA LaunchRefreshedInv == ASSUME Inv, LaunchRefreshed PROVE Inv'
<1>1. /\ launch.at = "refreshing" /\ stored' = Fresh(launch.token, stored.mode)
      /\ launch' = [at |-> "verifying", token |-> launch.token, dead |-> FALSE]
      /\ UNCHANGED <<user, isRefreshing, req, faults, crossed>>
  BY DEF LaunchRefreshed, SaveTokenInfo
<1>2. launch.token \in Accounts /\ stored.mode \in BOOLEAN
  BY <1>1, ModeType DEF Inv, TypeOK, Launch
<1>3. launch' \in Launch /\ stored' \in Session /\ stored'.owner = launch.token
  BY <1>1, <1>2 DEF Launch, Fresh, Session
<1>4. TypeOK' /\ OneRefresh' /\ WaitersServed'
  BY <1>1, <1>3 DEF Inv, TypeOK, OneRefresh, WaitersServed
<1>5. SessionIsUsers' /\ OwnRefresh'
  BY <1>1, <1>3 DEF Inv, SessionIsUsers, OwnRefresh
<1> QED
  BY <1>4, <1>5 DEF Inv

LEMMA VerifiedInv == ASSUME Inv, Verified PROVE Inv'
<1>1. launch' = Launched /\ UNCHANGED <<stored, user, isRefreshing, req, crossed>>
  BY DEF Verified
<1>2. faults' \in 0..MaxFaults /\ (faults' = 0 => faults = 0)
  BY ConstantsOK DEF Verified, Inv, TypeOK
<1>3. TypeOK' /\ OneRefresh' /\ WaitersServed'
  BY <1>1, <1>2, IdleFacts DEF Inv, TypeOK, OneRefresh, WaitersServed
<1>4. SessionIsUsers' /\ OwnRefresh'
  BY <1>1 DEF Inv, SessionIsUsers, OwnRefresh, Launched
<1> QED
  BY <1>3, <1>4 DEF Inv

-----------------------------------------------------------------------------
(* The requests.                                                            *)

\* A step of one request that has no refresh and joins none.
LEMMA RowInv ==
  ASSUME Inv, NEW r \in Requests, NEW row \in {Idle} \cup Request,
         row.at \in {"idle", "sent", "refused"}, req[r].at # "refreshing",
         req' = [req EXCEPT ![r] = row],
         UNCHANGED <<stored, user, isRefreshing, launch, crossed>>,
         faults' \in 0..MaxFaults, faults' = 0 => faults = 0
  PROVE  Inv'
<1>1. \A s \in Requests : req'[s] = IF s = r THEN row ELSE req[s]
  BY DEF Inv, TypeOK
<1>2. TypeOK'
  BY DEF Inv, TypeOK
<1>3. OneRefresh' /\ WaitersServed'
  BY <1>1 DEF Inv, OneRefresh, WaitersServed
<1>4. SessionIsUsers' /\ OwnRefresh'
  BY <1>1 DEF Inv, SessionIsUsers, OwnRefresh
<1> QED
  BY <1>2, <1>3, <1>4 DEF Inv

\* Join the refresh under way, or start the only one.
LEMMA RenewInv ==
  ASSUME Inv, NEW r \in Requests, NEW retried \in BOOLEAN, Renew(r, retried),
         req[r].at \in {"idle", "refused"}, isRefreshing \/ stored # None,
         UNCHANGED <<stored, user, launch, faults, crossed>>
  PROVE  Inv'
<1> DEFINE row == [at |-> IF isRefreshing THEN "waiting" ELSE "refreshing", retried |-> retried,
                   token |-> stored.owner, dead |-> FALSE]
<1>1. req' = [req EXCEPT ![r] = row] /\ isRefreshing' = TRUE
  BY DEF Renew
<1>2. stored.owner \in Holder /\ (stored # None => stored.owner \in Accounts)
  BY IdleFacts DEF Inv, TypeOK, Session, Holder
<1>3. row \in Request
  BY <1>2 DEF Request
<1>4. /\ row.at = IF isRefreshing THEN "waiting" ELSE "refreshing"
      /\ row.token = stored.owner
  OBVIOUS
<1> HIDE DEF row
<1>5. \A s \in Requests : req'[s] = IF s = r THEN row ELSE req[s]
  BY <1>1 DEF Inv, TypeOK
<1>6. TypeOK'
  BY <1>1, <1>3 DEF Inv, TypeOK
<1>7. OneRefresh' /\ WaitersServed'
  BY <1>1, <1>4, <1>5 DEF Inv, TypeOK, OneRefresh, WaitersServed
<1>8. SessionIsUsers' /\ OwnRefresh'
  BY <1>4, <1>5 DEF Inv, SessionIsUsers, OwnRefresh
<1> QED
  BY <1>6, <1>7, <1>8 DEF Inv

LEMMA BeginInv == ASSUME Inv, NEW r \in Requests, Begin(r) PROVE Inv'
<1>1. req[r] = Idle /\ UNCHANGED <<stored, user, launch, faults, crossed>>
  BY DEF Begin
<1>2. CASE stored.soon
  BY <1>1, <1>2, IdleFacts, RenewInv DEF Begin
<1>3. CASE ~stored.soon
  <2> DEFINE row == [at |-> "sent", retried |-> FALSE, token |-> stored.owner,
                     dead |-> stored.dead]
  <2>1. row \in Request /\ row.at = "sent"
    <3>1. stored.owner \in Holder /\ stored.dead \in BOOLEAN
      <4>1. CASE stored = None
        BY <4>1 DEF None, Holder
      <4>2. CASE stored \in Session
        BY <4>2 DEF Session, Holder
      <4> QED
        BY <4>1, <4>2 DEF Inv, TypeOK
    <3> QED
      BY <3>1 DEF Request
  <2>2. req' = [req EXCEPT ![r] = row] /\ isRefreshing' = isRefreshing
    BY <1>3 DEF Begin
  <2> HIDE DEF row
  <2>3. faults' \in 0..MaxFaults
    BY <1>1 DEF Inv, TypeOK
  <2> QED
    BY <1>1, <2>1, <2>2, <2>3, RowInv, IdleFacts
<1> QED
  BY <1>2, <1>3

LEMMA JudgeInv == ASSUME Inv, NEW r \in Requests, Judge(r) \/ RequestFails(r) PROVE Inv'
<1>1. /\ req[r].at = "sent" /\ UNCHANGED <<stored, user, isRefreshing, launch, crossed>>
      /\ \E row \in {Idle, [req[r] EXCEPT !.at = "refused"]} : req' = [req EXCEPT ![r] = row]
  BY DEF Judge, RequestFails
<1>2. faults' \in 0..MaxFaults /\ (faults' = 0 => faults = 0)
  BY FaultCounts DEF Judge, RequestFails, Inv, TypeOK
<1>3. /\ [req[r] EXCEPT !.at = "refused"] \in Request
      /\ [req[r] EXCEPT !.at = "refused"].at = "refused"
  BY <1>1, RowType DEF Inv, Request, Holder
<1>4. PICK row \in {Idle, [req[r] EXCEPT !.at = "refused"]} : req' = [req EXCEPT ![r] = row]
  BY <1>1
<1>5. row \in {Idle} \cup Request /\ row.at \in {"idle", "sent", "refused"}
  BY <1>3, <1>4, IdleFacts
<1> QED
  BY <1>1, <1>2, <1>4, <1>5, RowInv

LEMMA Handle401Inv == ASSUME Inv, NEW r \in Requests, Handle401(r) PROVE Inv'
  BY RenewInv DEF Handle401

LEMMA RefreshAnswersInv == ASSUME Inv, NEW r \in Requests, RefreshAnswers(r) PROVE Inv'
<1>1. /\ req[r].at = "refreshing" /\ stored' = Fresh(req[r].token, stored.mode)
      /\ isRefreshing' = FALSE
      /\ req' = [w \in Requests |->
                   IF w = r \/ req[w].at = "waiting"
                   THEN [req[w] EXCEPT !.at = "sent", !.token = req[r].token, !.dead = FALSE]
                   ELSE req[w]]
      /\ UNCHANGED <<user, launch, faults, crossed>>
  BY DEF RefreshAnswers, SaveTokenInfo
<1>2. req[r].token \in Accounts
  BY <1>1, RowType DEF Inv
<1>3. stored' \in Session /\ stored'.owner = req[r].token
  BY <1>1, <1>2, ModeType DEF Inv, Fresh, Session
<1>4. ASSUME NEW w \in Requests
      PROVE  /\ req'[w] \in {Idle} \cup Request
             /\ req'[w].at \notin {"refreshing", "waiting"}
  <2>1. CASE w = r \/ req[w].at = "waiting"
    <3>1. req'[w] = [req[w] EXCEPT !.at = "sent", !.token = req[r].token, !.dead = FALSE]
      BY <1>1, <2>1
    <3>2. req[w] \in Request
      BY <1>1, <2>1, RowType DEF Inv
    <3> QED
      BY <1>2, <3>1, <3>2 DEF Request, Holder
  <2>2. CASE ~(w = r \/ req[w].at = "waiting")
    BY <1>1, <2>2 DEF Inv, TypeOK, OneRefresh
  <2> QED
    BY <2>1, <2>2
<1>5. req' \in [Requests -> {Idle} \cup Request]
  BY <1>1, <1>4
<1>6. TypeOK'
  BY <1>1, <1>3, <1>5 DEF Inv, TypeOK
<1>7. OneRefresh' /\ WaitersServed'
  BY <1>1, <1>4 DEF OneRefresh, WaitersServed
<1>8. SessionIsUsers' /\ OwnRefresh'
  BY <1>1, <1>3, <1>4 DEF Inv, SessionIsUsers, OwnRefresh
<1> QED
  BY <1>6, <1>7, <1>8 DEF Inv

-----------------------------------------------------------------------------
LEMMA NextInv == ASSUME Inv, [Next]_vars PROVE Inv'
<1>1. CASE UNCHANGED vars
  BY <1>1 DEF vars, Inv, TypeOK, OneRefresh, WaitersServed, SessionIsUsers, OwnRefresh
<1>2. ASSUME NEW a \in Accounts, Login(a) PROVE Inv'
  BY <1>2, LoginInv
<1>3. CASE Logout \/ ExpiresSoon \/ Expire
  BY <1>3, LogoutInv, ExpiresSoonInv, ExpireInv
<1>4. ASSUME NEW r \in Requests,
             Begin(r) \/ RequestStep(r) \/ RequestFails(r) \/ RefreshFails(r)
      PROVE  Inv'
  BY <1>4, BeginInv, JudgeInv, Handle401Inv, LoggedOutInv, RefreshAnswersInv, RefreshFailsInv
  DEF RequestStep
<1>5. CASE LaunchApp \/ LaunchWithout \/ LaunchRefreshed \/ LaunchRefreshFails \/ Verified \/ VerifyRefused
  BY <1>5, LaunchAppInv, LaunchRefreshedInv, LaunchLogoutInv, VerifiedInv
<1>6. CASE Next
  BY <1>2, <1>3, <1>4, <1>5, <1>6, Zenon DEF Next
<1> QED
  BY <1>1, <1>6

\* The inductive invariant of the session holds in every state (consumer-request-interceptor.js).
THEOREM SpecInv == Spec => []Inv
<1>1. Init => Inv
  BY InitInv
<1>2. Inv /\ [Next]_vars => Inv'
  BY NextInv
<1> QED
  BY <1>1, <1>2, PTL DEF Spec

\* Storage, requests and the check at the launch keep their types
\* (consumer-request-interceptor.js, consumer-app-session.js).
THEOREM SessionTyping == Spec => []TypeOK
<1>1. Inv => TypeOK
  BY DEF Inv
<1> QED
  BY <1>1, SpecInv, PTL

\* However many requests meet an old token or a 401 at once, one of them refreshes, and the
\* flag says so (request, handle401).
THEOREM SessionOneRefresh == Spec => []OneRefresh
<1>1. Inv => OneRefresh
  BY DEF Inv
<1> QED
  BY <1>1, SpecInv, PTL

\* While nothing failed, no request waits for a refresh that is over (onTokenRefreshed).
THEOREM SessionWaitersServed == Spec => []WaitersServed
<1>1. Inv => WaitersServed
  BY DEF Inv
<1> QED
  BY <1>1, SpecInv, PTL

\* Unless a refresh crossed the end of a session, the tokens in the storage are of who is
\* logged in (saveTokenInfo, forceLogout, persistConsumerAuthSessionResult).
THEOREM SessionOwned == Spec => []SessionIsUsers
<1>1. Inv => SessionIsUsers
  BY DEF Inv
<1> QED
  BY <1>1, SpecInv, PTL
=============================================================================
