------------------------------ MODULE RtcCall ------------------------------
(***************************************************************************)
(* One voice call: the two sides, the socket server that rings and times it *)
(* out, and the row of the call, which the server writes through the API.   *)
(*                                                                         *)
(* Granularity.  Every await of the server and of the pages is a boundary   *)
(* between two steps.  A request to the API takes effect in one step and    *)
(* its answer is handled in a later one.  The sockets are in order, in each *)
(* direction.  Sound (rtc_signal) and the microphone are left out.          *)
(***************************************************************************)
EXTENDS Integers, Sequences

CONSTANTS
  Slots,     \* handlers of the socket server that may be under way together
  MaxTaps,   \* bound: buttons a side presses
  MaxFaults  \* bound: failed API requests, lost connections and restarts

ASSUME ConstantsOK == MaxTaps \in Nat /\ MaxFaults \in Nat

VARIABLES
  kind,      \* "mobile" (rtc-call-page.js) or "console" (adminRtc.js), for ever
  bridge,    \* the callee's application listens for invites, for ever
  row,       \* status in the row of the call, "none" before it exists
  announced, \* the server has created the call and sent the invite
  ring,      \* the server's ring timer is set
  job,       \* what each handler of the server awaits
  up, down,  \* the events on their way to the server and to a side
  sock,      \* the connection of each side to /rtc
  stage,     \* how far the page of a side is
  closed,    \* the user has left the page
  shown,     \* the status a page shows
  timer,     \* the page's own ring timer is set
  accepting, \* an accept awaits the microphone
  taps, faults

server == <<row, announced, ring, job>>
page == <<stage, closed, shown, timer, accepting>>
vars == <<kind, bridge, server, up, down, sock, page, taps, faults>>

Sides == {"caller", "callee"}
Waiting == {"initiated", "ringing"}
Final == {"rejected", "cancelled", "ended", "timeout"}
Status == Waiting \cup Final \cup {"accepted"}
Ups == {"start", "accepted"} \cup Final
Downs == [event : {"created", "invite", "status"}, status : Status]
Idle == [op |-> "idle", at |-> "none", status |-> "ended"]
Job == {Idle} \cup
  [op : {"create", "mark", "fetch", "status"}, at : {"sent", "done", "failed"}, status : Status]

Asked(op, status) == [op |-> op, at |-> "sent", status |-> status]

Init ==
  /\ kind \in [Sides -> {"mobile", "console"}]
  /\ kind["caller"] = "console" => kind["callee"] = "mobile"
  /\ bridge \in BOOLEAN
  /\ row = "none" /\ announced = FALSE /\ ring = FALSE
  /\ job = [s \in Slots |-> Idle]
  /\ up = [p \in Sides |-> <<>>] /\ down = [p \in Sides |-> <<>>]
  /\ sock = [p \in Sides |->
               IF kind[p] = "console" /\ (p = "caller" \/ bridge) THEN "open" ELSE "off"]
  /\ stage = [p \in Sides |-> "none"]
  /\ closed = [p \in Sides |-> FALSE]
  /\ shown = [p \in Sides |-> "initiated"]
  /\ timer = [p \in Sides |-> FALSE]
  /\ accepting = [p \in Sides |-> FALSE]
  /\ taps = [p \in Sides |-> 0]
  /\ faults = 0

-----------------------------------------------------------------------------
(* The sockets.                                                            *)

\* The client of the mobile apps drops what is sent before the connection is open;
\* the one of the console keeps it.
Sent(p, m) ==
  IF sock[p] = "open" \/ kind[p] = "console" THEN Append(up[p], m) ELSE up[p]

\* What the server emits reaches the sides that are connected.
Emitted(m) ==
  [p \in Sides |-> IF sock[p] = "open" /\ p \in DOMAIN m THEN Append(down[p], m[p]) ELSE down[p]]

SocketOpens(p) ==
  /\ sock[p] = "opening"
  /\ sock' = [sock EXCEPT ![p] = "open"]
  /\ UNCHANGED <<kind, bridge, server, up, down, page, taps, faults>>

-----------------------------------------------------------------------------
(* The socket server.                                                      *)

TakeUp(p) ==
  /\ up[p] # <<>>
  /\ sock[p] = "open" \/ closed[p]
  /\ up' = [up EXCEPT ![p] = Tail(@)]
  /\ UNCHANGED <<kind, bridge, row, announced, down, sock, page, taps, faults>>

RtcStartCall(s, p) ==
  /\ job[s] = Idle
  /\ TakeUp(p)
  /\ Head(up[p]) = "start"
  /\ job' = [job EXCEPT ![s] = Asked("create", "initiated")]
  /\ UNCHANGED ring

\* rtc_accept_call, rtc_reject_call, rtc_cancel_call, rtc_end_call, rtc_timeout_call.
RtcStatusEvent(s, p) ==
  /\ job[s] = Idle
  /\ TakeUp(p)
  /\ Head(up[p]) # "start"
  /\ ring' = FALSE
  /\ job' = [job EXCEPT ![s] = Asked("status", Head(up[p]))]

RingTimer(s) ==
  /\ ring
  /\ job[s] = Idle
  /\ ring' = FALSE
  /\ job' = [job EXCEPT ![s] = Asked("fetch", "timeout")]
  /\ UNCHANGED <<kind, bridge, row, announced, up, down, sock, page, taps, faults>>

\* UpsertCall: the status that comes in replaces the one in the row, whatever it is.
ApiAnswers(s) ==
  /\ job[s].at = "sent"
  /\ row' = IF job[s].op = "fetch" THEN row ELSE job[s].status
  /\ job' = [job EXCEPT ![s] =
               [op |-> job[s].op, at |-> "done",
                status |-> IF job[s].op = "fetch" THEN row ELSE job[s].status]]
  /\ UNCHANGED <<kind, bridge, announced, ring, up, down, sock, page, taps, faults>>

ApiFails(s) ==
  /\ job[s].at = "sent"
  /\ faults < MaxFaults
  /\ faults' = faults + 1
  /\ job' = [job EXCEPT ![s] = [op |-> job[s].op, at |-> "failed", status |-> job[s].status]]
  /\ UNCHANGED <<kind, bridge, row, announced, ring, up, down, sock, page, taps>>

CalleeOnline == (bridge /\ kind["callee"] = "mobile") \/ sock["callee"] = "open"

RingIfOnline(s, status) ==  \* mutant: no timer for a call nobody can take
  /\ announced' = TRUE
  /\ ring' = CalleeOnline
  /\ down' = Emitted([caller |-> [event |-> "created", status |-> status],
                      callee |-> [event |-> "invite", status |-> status]])
  /\ job' = [job EXCEPT ![s] = Idle]

\* The end of rtc_start_call: caller and callee learn of the call, the timer starts.
Announce(s, status) ==
  /\ announced' = TRUE
  /\ ring' = TRUE
  /\ down' = Emitted([caller |-> [event |-> "created", status |-> status],
                      callee |-> [event |-> "invite", status |-> status]])
  /\ job' = [job EXCEPT ![s] = Idle]

AfterCreate(s) ==
  /\ job[s].op = "create" /\ job[s].at = "done"
  /\ IF CalleeOnline
     THEN /\ job' = [job EXCEPT ![s] = Asked("mark", "ringing")]
          /\ UNCHANGED <<announced, ring, down>>
     ELSE Announce(s, "initiated")
  /\ UNCHANGED <<kind, bridge, row, up, sock, page, taps, faults>>

\* A failure to store "ringing" is only logged.
AfterMark(s) ==
  /\ job[s].op = "mark" /\ job[s].at # "sent"
  /\ Announce(s, IF job[s].at = "done" THEN "ringing" ELSE "initiated")
  /\ UNCHANGED <<kind, bridge, row, up, sock, page, taps, faults>>

EndTellsCallee(s) ==  \* mutant: who is called learns of the end, who calls does not
  /\ job[s].op = "status" /\ job[s].at = "done"
  /\ LET told == IF job[s].status \in Final THEN {"callee"} ELSE Sides
     IN  down' = Emitted([p \in told |-> [event |-> "status", status |-> job[s].status]])
  /\ job' = [job EXCEPT ![s] = Idle]
  /\ UNCHANGED <<kind, bridge, row, announced, ring, up, sock, page, taps, faults>>

AfterStatus(s) ==
  /\ job[s].op = "status" /\ job[s].at = "done"
  /\ down' = Emitted([p \in Sides |-> [event |-> "status", status |-> job[s].status]])
  /\ job' = [job EXCEPT ![s] = Idle]
  /\ UNCHANGED <<kind, bridge, row, announced, ring, up, sock, page, taps, faults>>

RingingOnly(s) ==  \* mutant: the timer gives up on a call that was never marked ringing
  /\ job[s].op = "fetch" /\ job[s].at = "done"
  /\ job' = [job EXCEPT ![s] =
               IF job[s].status = "ringing" THEN Asked("status", "timeout") ELSE Idle]
  /\ UNCHANGED <<kind, bridge, row, announced, ring, up, down, sock, page, taps, faults>>

\* The ring timer goes on only if the call it read still waits.
AfterFetch(s) ==
  /\ job[s].op = "fetch" /\ job[s].at = "done"
  /\ job' = [job EXCEPT ![s] =
               IF job[s].status \in Waiting THEN Asked("status", "timeout") ELSE Idle]
  /\ UNCHANGED <<kind, bridge, row, announced, ring, up, down, sock, page, taps, faults>>

AfterFailure(s) ==
  /\ job[s].op \in {"create", "fetch", "status"} /\ job[s].at = "failed"
  /\ job' = [job EXCEPT ![s] = Idle]
  /\ UNCHANGED <<kind, bridge, row, announced, ring, up, down, sock, page, taps, faults>>

-----------------------------------------------------------------------------
(* The pages of the mobile apps.                                           *)

\* applyCallRecord on a page that has its session.
Shows(p, status) ==
  /\ shown' = [shown EXCEPT ![p] = status]
  /\ timer' = [timer EXCEPT ![p] = kind[p] = "mobile" /\ status \in Waiting]

\* onLoad of an outgoing call: the row is created first, over HTTP.
PlaceCall ==
  /\ kind["caller"] = "mobile" /\ stage["caller"] = "none"
  /\ stage' = [stage EXCEPT !["caller"] = "placed"]
  /\ row' = "initiated"
  /\ UNCHANGED <<kind, bridge, announced, ring, job, up, down, sock, closed, shown,
                 timer, accepting, taps, faults>>

\* startCall: with the socket token, connect and emit at once.
StartSession ==
  /\ kind["caller"] = "mobile" /\ stage["caller"] = "placed"
  /\ stage' = [stage EXCEPT !["caller"] = "live"]
  /\ sock' = [sock EXCEPT !["caller"] = "opening"]
  /\ up' = [up EXCEPT !["caller"] = Sent("caller", "start")]
  /\ Shows("caller", "initiated")
  /\ UNCHANGED <<kind, bridge, server, down, closed, accepting, taps, faults>>

OpenUninvited ==  \* mutant: the page opens before there is a call
  /\ kind["callee"] = "mobile" /\ stage["callee"] = "none"
  /\ bridge
  /\ stage' = [stage EXCEPT !["callee"] = "placed"]
  /\ shown' = [shown EXCEPT !["callee"] = row]
  /\ UNCHANGED <<kind, bridge, server, up, down, sock, closed, timer, accepting, taps, faults>>

\* The invite bridge opens the page of the callee, which fetches the call first ...
OpenInvited ==
  /\ kind["callee"] = "mobile" /\ stage["callee"] = "none"
  /\ announced /\ bridge
  /\ stage' = [stage EXCEPT !["callee"] = "placed"]
  /\ shown' = [shown EXCEPT !["callee"] = row]
  /\ UNCHANGED <<kind, bridge, server, up, down, sock, closed, timer, accepting, taps, faults>>

\* ... and connects then.  The record of rtc_joined is not looked at.
JoinSession ==
  /\ kind["callee"] = "mobile" /\ stage["callee"] = "placed"
  /\ stage' = [stage EXCEPT !["callee"] = "live"]
  /\ sock' = [sock EXCEPT !["callee"] = "opening"]
  /\ Shows("callee", shown["callee"])
  /\ UNCHANGED <<kind, bridge, server, up, down, closed, accepting, taps, faults>>

\* The events of a page that knows its call.
PageEvent(p) ==
  /\ stage[p] = "live" /\ sock[p] = "open"
  /\ down[p] # <<>>
  /\ down' = [down EXCEPT ![p] = Tail(@)]
  /\ Shows(p, Head(down[p]).status)
  /\ UNCHANGED <<kind, bridge, server, up, sock, stage, closed, accepting, taps, faults>>

\* A connection opens long before the ring timeout unless it was lost meanwhile.
PageTimer(p) ==
  /\ timer[p]
  /\ sock[p] = "open" \/ faults > 0
  /\ timer' = [timer EXCEPT ![p] = FALSE]
  /\ up' = [up EXCEPT ![p] = Sent(p, "timeout")]
  /\ UNCHANGED <<kind, bridge, server, down, sock, stage, closed, shown, accepting, taps, faults>>

\* onUnload.  What the page awaits goes on; a session that does not exist yet is not
\* disconnected.
LeavePage(p) ==
  /\ kind[p] = "mobile" /\ stage[p] # "none" /\ ~closed[p]
  /\ closed' = [closed EXCEPT ![p] = TRUE]
  /\ timer' = [timer EXCEPT ![p] = FALSE]
  /\ IF stage[p] = "live"
     THEN /\ sock' = [sock EXCEPT ![p] = "off"]
          /\ stage' = [stage EXCEPT ![p] = "gone"]
          /\ down' = [down EXCEPT ![p] = <<>>]
     ELSE UNCHANGED <<sock, stage, down>>
  /\ UNCHANGED <<kind, bridge, server, up, shown, accepting, taps, faults>>

-----------------------------------------------------------------------------
(* The console.                                                            *)

\* startAdminRTCCall: the row over HTTP, then rtc_start_call on the open socket.
ConsoleStart ==
  /\ kind["caller"] = "console" /\ stage["caller"] = "none"
  /\ row' = "initiated"
  /\ stage' = [stage EXCEPT !["caller"] = "live"]
  /\ up' = [up EXCEPT !["caller"] = Sent("caller", "start")]
  /\ Shows("caller", "initiated")
  /\ UNCHANGED <<kind, bridge, announced, ring, job, down, sock, closed, accepting,
                 taps, faults>>

\* handleIncomingInvite opens the dialog; other events of an unknown call are ignored.
ConsoleInvited ==
  /\ kind["callee"] = "console" /\ stage["callee"] = "none"
  /\ down["callee"] # <<>>
  /\ down' = [down EXCEPT !["callee"] = Tail(@)]
  /\ IF Head(down["callee"]).event = "invite"
     THEN /\ stage' = [stage EXCEPT !["callee"] = "live"]
          /\ Shows("callee", Head(down["callee"]).status)
     ELSE UNCHANGED <<stage, shown, timer>>
  /\ UNCHANGED <<kind, bridge, server, up, sock, closed, accepting, taps, faults>>

-----------------------------------------------------------------------------
(* The users.                                                              *)

CanTap(p) ==
  stage[p] = "live" /\ ~closed[p] /\ ~accepting[p] /\ taps[p] < MaxTaps

Tap(p, status) ==
  /\ CanTap(p)
  /\ taps' = [taps EXCEPT ![p] = @ + 1]
  /\ up' = [up EXCEPT ![p] = Sent(p, status)]
  /\ UNCHANGED <<kind, bridge, server, down, sock, page, faults>>

Cancel == shown["caller"] \in Waiting /\ Tap("caller", "cancelled")
Reject == shown["callee"] \in Waiting /\ Tap("callee", "rejected")
End(p) == shown[p] = "accepted" /\ Tap(p, "ended")

\* The accept is sent when the microphone is there, whatever the page shows by then.
Accept ==
  /\ shown["callee"] \in Waiting
  /\ CanTap("callee")
  /\ taps' = [taps EXCEPT !["callee"] = @ + 1]
  /\ accepting' = [accepting EXCEPT !["callee"] = TRUE]
  /\ UNCHANGED <<kind, bridge, server, up, down, sock, stage, closed, shown, timer, faults>>

AcceptReady ==
  /\ accepting["callee"]
  /\ accepting' = [accepting EXCEPT !["callee"] = FALSE]
  /\ up' = [up EXCEPT !["callee"] = Sent("callee", "accepted")]
  /\ UNCHANGED <<kind, bridge, server, down, sock, stage, closed, shown, timer, taps, faults>>

-----------------------------------------------------------------------------
(* What fails.                                                             *)

LoseConnection(p) ==
  /\ faults < MaxFaults
  /\ sock[p] = "open"
  /\ faults' = faults + 1
  /\ sock' = [sock EXCEPT ![p] = "opening"]
  /\ up' = [up EXCEPT ![p] = <<>>]
  /\ down' = [down EXCEPT ![p] = <<>>]
  /\ UNCHANGED <<kind, bridge, server, page, taps>>

\* Timers and handlers live in the memory of the socket server.
ServerRestarts ==
  /\ faults < MaxFaults
  /\ faults' = faults + 1
  /\ ring' = FALSE
  /\ job' = [s \in Slots |-> Idle]
  /\ sock' = [p \in Sides |-> IF sock[p] = "open" THEN "opening" ELSE sock[p]]
  /\ up' = [p \in Sides |-> <<>>]
  /\ down' = [p \in Sides |-> <<>>]
  /\ UNCHANGED <<kind, bridge, row, announced, page, taps>>

-----------------------------------------------------------------------------
ServerStep(s) ==
  \/ \E p \in Sides : RtcStartCall(s, p) \/ RtcStatusEvent(s, p)
  \/ RingTimer(s)
  \/ ApiAnswers(s)
  \/ AfterCreate(s) \/ AfterMark(s) \/ AfterStatus(s) \/ AfterFetch(s) \/ AfterFailure(s)

PageStep(p) == SocketOpens(p) \/ PageEvent(p) \/ PageTimer(p)

Next ==
  \/ \E s \in Slots : ServerStep(s) \/ ApiFails(s)
  \/ \E p \in Sides : PageStep(p) \/ LeavePage(p) \/ End(p) \/ LoseConnection(p)
  \/ PlaceCall \/ StartSession \/ OpenInvited \/ JoinSession
  \/ ConsoleStart \/ ConsoleInvited
  \/ Cancel \/ Reject \/ Accept \/ AcceptReady
  \/ ServerRestarts

\* Handlers, timers and connections go on by themselves; nothing is expected of users.
Fairness ==
  /\ \A s \in Slots : WF_vars(ServerStep(s))
  /\ \A p \in Sides : WF_vars(SocketOpens(p)) /\ WF_vars(PageEvent(p)) /\ WF_vars(PageTimer(p))
  /\ WF_vars(ConsoleInvited)

Spec == Init /\ [][Next]_vars /\ Fairness

-----------------------------------------------------------------------------
TypeOK ==
  /\ kind \in [Sides -> {"mobile", "console"}] /\ bridge \in BOOLEAN
  /\ row \in Status \cup {"none"}
  /\ announced \in BOOLEAN /\ ring \in BOOLEAN
  /\ job \in [Slots -> Job]
  /\ up \in [Sides -> Seq(Ups)] /\ down \in [Sides -> Seq(Downs)]
  /\ sock \in [Sides -> {"off", "opening", "open"}]
  /\ stage \in [Sides -> {"none", "placed", "live", "gone"}]
  /\ closed \in [Sides -> BOOLEAN]
  /\ shown \in [Sides -> Status]
  /\ timer \in [Sides -> BOOLEAN]
  /\ accepting \in [Sides -> BOOLEAN]
  /\ taps \in [Sides -> 0..MaxTaps]
  /\ faults \in 0..MaxFaults

\* A handler that will still take the call out of waiting.
Settling(j) ==
  \/ j.op = "status" /\ j.at = "sent"
  \/ j.op = "fetch" /\ (j.at = "sent" \/ (j.at = "done" /\ j.status \in Waiting))

\* As long as nothing failed, an announced call that rings is watched: the ring timer
\* is set or a handler is about to settle it.  Each event clears the timer before its
\* write, so the timer is not what keeps this true (rtcNamespace.js, scheduleCallTimeout).
RingWatched ==
  announced /\ row \in Waiting /\ faults = 0 => ring \/ \E s \in Slots : Settling(job[s])

Quiet ==
  /\ \A s \in Slots : job[s] = Idle
  /\ \A p \in Sides : up[p] = <<>> /\ down[p] = <<>> /\ sock[p] # "opening" /\ ~timer[p]
  /\ ~ring

\* When nothing is under way and nothing failed, the call is on at both pages or at
\* neither, although accept, cancel, end and the timers cross (rtc_status goes to both).
TalkingTogether ==
  Quiet /\ faults = 0 /\ (\A p \in Sides : stage[p] = "live" /\ ~closed[p])
    => (shown["caller"] = "accepted" <=> shown["callee"] = "accepted")

\* An announced call does not ring for ever, and no mobile page waits for ever, with no
\* help from a user, unless something failed (35 s timers of server and page).
StillWaits ==
  \/ announced /\ row \in Waiting
  \/ \E p \in Sides : kind[p] = "mobile" /\ stage[p] = "live" /\ ~closed[p] /\ shown[p] \in Waiting
WaitingEnds == StillWaits ~> (~StillWaits \/ faults > 0)

\* startCall "emits rtc_start_call through the connected session" (rtc-contact.test.mjs:72):
\* a call whose caller is connected and waits, with nothing on its way, has been started.
PlacedCallStarts ==
  (stage["caller"] = "live" /\ sock["caller"] = "open" /\ up["caller"] = <<>> /\ row = "initiated"
     /\ faults = 0)
    => announced \/ \E s \in Slots : job[s].op \in {"create", "mark"}
=============================================================================
