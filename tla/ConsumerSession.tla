-------------------------- MODULE ConsumerSession --------------------------
(***************************************************************************)
(* The session of the consumer apps: the tokens in the storage of the       *)
(* device, the interceptor that puts them on every request and refreshes    *)
(* them once for all requests, the check when the app is launched, and the  *)
(* user who logs in and out.                                                *)
(*                                                                         *)
(* Granularity.  What runs between two awaits is one step.  A request is     *)
(* judged by the server in one step and its refusal handled in a later one. *)
(* Access tokens grow old together; how old the app believes its token to   *)
(* be (its clock) and how old the server finds it are independent.          *)
(***************************************************************************)
EXTENDS Naturals

CONSTANTS
  Requests,  \* requests of the pages that may be under way together
  Accounts,
  MaxFaults, \* bound: requests and refreshes that fail
  Nobody

ASSUME ConstantsOK == MaxFaults \in Nat /\ Nobody \notin Accounts

VARIABLES
  stored,       \* the tokens in the storage
  user,         \* who is logged in on the screen
  isRefreshing,
  req,          \* the requests; the waiting ones are refreshSubscribers
  launch,       \* verifySession, at the launch of the app
  faults,
  crossed       \* history: the session was cleared while a refresh was under way

vars == <<stored, user, isRefreshing, req, launch, faults, crossed>>

\* mode: the authMode is stored too, which the login writes and a refresh does not.
Session == [owner : Accounts, soon : BOOLEAN, dead : BOOLEAN, mode : BOOLEAN]
None == [owner |-> Nobody, soon |-> FALSE, dead |-> FALSE, mode |-> FALSE]
Fresh(a, mode) == [owner |-> a, soon |-> FALSE, dead |-> FALSE, mode |-> mode]

\* A request holds the account of its token and whether the server refuses it; one that
\* refreshes holds the account of its refresh token.  retried: after a 401.
Holder == Accounts \cup {Nobody}
Idle == [at |-> "idle", retried |-> FALSE, token |-> Nobody, dead |-> FALSE]
Request ==
  [at : {"sent", "refused", "waiting"}, retried : BOOLEAN, token : Holder, dead : BOOLEAN]
    \cup [at : {"refreshing"}, retried : BOOLEAN, token : Accounts, dead : BOOLEAN]
Launch == [at : {"new", "done"}, token : {Nobody}, dead : {FALSE}]
            \cup [at : {"refreshing", "verifying"}, token : Accounts, dead : BOOLEAN]
Launched == [at |-> "done", token |-> Nobody, dead |-> FALSE]

\* The session of the last time, whatever its age.
Init ==
  /\ stored \in {session \in Session : session.mode} \cup {None}
  /\ user = stored.owner
  /\ isRefreshing = FALSE
  /\ req = [r \in Requests |-> Idle]
  /\ launch = [at |-> "new", token |-> Nobody, dead |-> FALSE]
  /\ faults = 0
  /\ crossed = FALSE

Fault == faults < MaxFaults /\ faults' = faults + 1

-----------------------------------------------------------------------------
(* The session.                                                            *)

SaveTokenInfo(a) == stored' = Fresh(a, stored.mode)

\* forceLogout, beside the requests of done: those it does not end.
ForceLogout(done) ==
  /\ stored' = None
  /\ user' = Nobody
  /\ crossed' = (crossed \/ launch'.at = "refreshing"
                   \/ \E r \in Requests \ done : req[r].at = "refreshing")

Login(a) ==
  /\ user = Nobody
  /\ stored' = Fresh(a, TRUE)
  /\ user' = a
  /\ UNCHANGED <<isRefreshing, req, launch, faults, crossed>>

Logout ==
  /\ user # Nobody
  /\ UNCHANGED <<isRefreshing, req, launch, faults>>
  /\ ForceLogout({})

\* The app finds its token less than five minutes from its end.
ExpiresSoon ==
  /\ stored # None /\ ~stored.soon
  /\ stored' = [stored EXCEPT !.soon = TRUE]
  /\ UNCHANGED <<user, isRefreshing, req, launch, faults, crossed>>

\* The server no longer takes the access tokens issued so far.
Expire ==
  /\ stored' = [stored EXCEPT !.dead = (stored # None)]
  /\ req' = [r \in Requests |-> [req[r] EXCEPT !.dead = (req[r] # Idle)]]
  /\ launch' = [launch EXCEPT !.dead = (launch.token # Nobody)]
  /\ UNCHANGED <<user, isRefreshing, faults, crossed>>

-----------------------------------------------------------------------------
(* The interceptor.                                                        *)

RenewAlone(r, retried) ==  \* mutant: every request starts a refresh of its own
  /\ req' = [req EXCEPT ![r] = [at |-> "refreshing", retried |-> retried,
                                token |-> stored.owner, dead |-> FALSE]]
  /\ isRefreshing' = TRUE

\* Before a request, or after its 401: join the refresh under way or start one.
Renew(r, retried) ==
  /\ req' = [req EXCEPT ![r] =
               [at |-> IF isRefreshing THEN "waiting" ELSE "refreshing", retried |-> retried,
                token |-> stored.owner, dead |-> FALSE]]
  /\ isRefreshing' = TRUE

Begin(r) ==
  /\ req[r] = Idle
  /\ IF stored.soon
     THEN Renew(r, FALSE)
     ELSE /\ req' = [req EXCEPT ![r] = [at |-> "sent", retried |-> FALSE,
                                        token |-> stored.owner, dead |-> stored.dead]]
          /\ UNCHANGED isRefreshing
  /\ UNCHANGED <<stored, user, launch, faults, crossed>>

\* Without a token a request may ask for what needs none.  A second 401 is the answer.
Judge(r) ==
  /\ req[r].at = "sent"
  /\ \E refused \in {req[r].dead, req[r].dead \/ req[r].token = Nobody} :
       req' = [req EXCEPT ![r] =
                 IF refused /\ ~req[r].retried THEN [req[r] EXCEPT !.at = "refused"] ELSE Idle]
  /\ UNCHANGED <<stored, user, isRefreshing, launch, faults, crossed>>

RequestFails(r) ==
  /\ req[r].at = "sent"
  /\ Fault
  /\ req' = [req EXCEPT ![r] = Idle]
  /\ UNCHANGED <<stored, user, isRefreshing, launch, crossed>>

Handle401Always(r) ==  \* mutant: refreshes with no refresh token
  /\ req[r].at = "refused"
  /\ Renew(r, TRUE)
  /\ UNCHANGED <<stored, user, launch, faults, crossed>>

Handle401(r) ==
  /\ req[r].at = "refused"
  /\ isRefreshing \/ stored # None
  /\ Renew(r, TRUE)
  /\ UNCHANGED <<stored, user, launch, faults, crossed>>

\* With no refresh token left there is nothing to refresh.
Handle401LoggedOut(r) ==
  /\ req[r].at = "refused"
  /\ ~isRefreshing /\ stored = None
  /\ req' = [req EXCEPT ![r] = Idle]
  /\ UNCHANGED <<isRefreshing, launch, faults>>
  /\ ForceLogout({r})

ForgetsFlag(r) ==  \* mutant: the flag stays up after the refresh
  /\ req[r].at = "refreshing"
  /\ SaveTokenInfo(req[r].token)
  /\ req' = [w \in Requests |->
               IF w = r \/ req[w].at = "waiting"
               THEN [req[w] EXCEPT !.at = "sent", !.token = req[r].token, !.dead = FALSE]
               ELSE req[w]]
  /\ UNCHANGED <<user, isRefreshing, launch, faults, crossed>>

ForgetsWaiters(r) ==  \* mutant: only the request that refreshed goes on
  /\ req[r].at = "refreshing"
  /\ SaveTokenInfo(req[r].token)
  /\ isRefreshing' = FALSE
  /\ req' = [req EXCEPT ![r] = [@ EXCEPT !.at = "sent", !.dead = FALSE]]
  /\ UNCHANGED <<user, launch, faults, crossed>>

\* The new tokens are stored, and the requests that waited go on with them.
RefreshAnswers(r) ==
  /\ req[r].at = "refreshing"
  /\ SaveTokenInfo(req[r].token)
  /\ isRefreshing' = FALSE
  /\ req' = [w \in Requests |->
               IF w = r \/ req[w].at = "waiting"
               THEN [req[w] EXCEPT !.at = "sent", !.token = req[r].token, !.dead = FALSE]
               ELSE req[w]]
  /\ UNCHANGED <<user, launch, faults, crossed>>

KeepsTokens(r) ==  \* mutant: the user is logged out on the screen only
  /\ req[r].at = "refreshing"
  /\ Fault
  /\ isRefreshing' = FALSE
  /\ req' = [req EXCEPT ![r] = Idle]
  /\ user' = Nobody
  /\ UNCHANGED <<stored, launch, crossed>>

\* A refresh that fails logs out; the requests that wait for it are not told.
RefreshFails(r) ==
  /\ req[r].at = "refreshing"
  /\ Fault
  /\ isRefreshing' = FALSE
  /\ req' = [req EXCEPT ![r] = Idle]
  /\ UNCHANGED launch
  /\ ForceLogout({r})

-----------------------------------------------------------------------------
(* verifySession, with manualRefreshToken, which knows nothing of isRefreshing. *)

LaunchApp ==
  /\ launch.at = "new" /\ stored.mode
  /\ launch' = [at |-> IF stored.soon THEN "refreshing" ELSE "verifying",
                token |-> stored.owner, dead |-> stored.dead]
  /\ UNCHANGED <<stored, user, isRefreshing, req, faults, crossed>>

\* What is left of a session that is not complete is cleared.
LaunchWithout ==
  /\ launch.at = "new" /\ ~stored.mode
  /\ launch' = Launched
  /\ UNCHANGED <<isRefreshing, req, faults>>
  /\ ForceLogout({})

LaunchRefreshed ==
  /\ launch.at = "refreshing"
  /\ SaveTokenInfo(launch.token)
  /\ launch' = [at |-> "verifying", token |-> launch.token, dead |-> FALSE]
  /\ UNCHANGED <<user, isRefreshing, req, faults, crossed>>

LaunchRefreshFails ==
  /\ launch.at = "refreshing"
  /\ Fault
  /\ launch' = Launched
  /\ UNCHANGED <<isRefreshing, req>>
  /\ ForceLogout({})

\* A verification that fails counts as valid.
Verified ==
  /\ launch.at = "verifying"
  /\ ~launch.dead \/ faults < MaxFaults
  /\ faults' = IF launch.dead THEN faults + 1 ELSE faults
  /\ launch' = Launched
  /\ UNCHANGED <<stored, user, isRefreshing, req, crossed>>

\* Any other answer than 200 ends the session, be the token good or not.
VerifyRefused ==
  /\ launch.at = "verifying"
  /\ launch.dead \/ faults < MaxFaults
  /\ faults' = IF launch.dead THEN faults ELSE faults + 1
  /\ launch' = Launched
  /\ UNCHANGED <<isRefreshing, req>>
  /\ ForceLogout({})

-----------------------------------------------------------------------------
RequestStep(r) ==
  \/ Judge(r) \/ Handle401(r) \/ Handle401LoggedOut(r) \/ RefreshAnswers(r)

Next ==
  \/ \E a \in Accounts : Login(a)
  \/ Logout \/ ExpiresSoon \/ Expire
  \/ \E r \in Requests : Begin(r) \/ RequestStep(r) \/ RequestFails(r) \/ RefreshFails(r)
  \/ LaunchApp \/ LaunchWithout \/ LaunchRefreshed \/ LaunchRefreshFails \/ Verified \/ VerifyRefused

\* Requests are answered; nobody has to log in, and no token has to expire.
Fairness == \A r \in Requests : WF_vars(RequestStep(r))

Spec == Init /\ [][Next]_vars /\ Fairness

-----------------------------------------------------------------------------
TypeOK ==
  /\ stored \in Session \cup {None}
  /\ user \in Holder
  /\ isRefreshing \in BOOLEAN
  /\ req \in [Requests -> {Idle} \cup Request]
  /\ launch \in Launch
  /\ faults \in 0..MaxFaults
  /\ crossed \in BOOLEAN

\* The flag says exactly that one request refreshes, however requests, 401s, failures and
\* logouts cross: never two, and never the flag without a refresh (handle401, request).
OneRefresh ==
  /\ isRefreshing <=> \E r \in Requests : req[r].at = "refreshing"
  /\ \A r, s \in Requests : req[r].at = "refreshing" /\ req[s].at = "refreshing" => r = s

\* Unless something failed, a request that waits has a refresh to wait for (subscribeTokenRefresh).
WaitersServed ==
  faults = 0 => \A r \in Requests : req[r].at = "waiting" => isRefreshing

\* The session in the storage is of who is logged in, and there is none after a logout,
\* unless a refresh was under way when it was cleared (saveTokenInfo, forceLogout).
SessionIsUsers == ~crossed => stored.owner = user

\* Every request ends, whatever it waits for, unless something failed (waitForTokenRefresh).
RequestsEnd ==
  \A r \in Requests : (req[r] # Idle) ~> (req[r] = Idle \/ faults > 0)

\* "forceLogout clears auth state and cache" (consumer-request-interceptor.test.mjs:104):
\* after it nothing is stored until the next login.
LogoutLasts == user = Nobody => stored = None
=============================================================================
