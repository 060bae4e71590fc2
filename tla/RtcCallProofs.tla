--------------------------- MODULE RtcCallProofs ---------------------------
(***************************************************************************)
(* Proofs about RtcCall for every number of handlers, taps and faults.      *)
(*                                                                         *)
(* Why a ringing call is watched: its creation is asked for once (Once), so *)
(* nothing makes it wait again after it was announced; the timer is then    *)
(* cleared only by a step that leaves a handler which settles the call, and *)
(* a handler that gives up has read a status that stays settled (Handlers). *)
(*                                                                         *)
(* Why both pages end alike is said where Links and Talk are defined.       *)
(***************************************************************************)
EXTENDS RtcCall, SequenceTheorems, TLAPS

Creates(j) == j.op \in {"create", "mark"}
NoStart(q) == \A i \in 1 .. Len(q) : q[i] # "start"
LoneStart(q) == \A i, j \in 1 .. Len(q) : q[i] = "start" /\ q[j] = "start" => i = j

\* The call is created by one event, which one handler takes up.
Once ==
  /\ NoStart(up["callee"]) /\ LoneStart(up["caller"])
  /\ stage["caller"] \in {"none", "placed"} =>
       ~announced /\ NoStart(up["caller"]) /\ \A s \in Slots : ~Creates(job[s])
  /\ announced => NoStart(up["caller"]) /\ \A s \in Slots : ~Creates(job[s])
  /\ \A s \in Slots : Creates(job[s]) => NoStart(up["caller"])
  /\ \A s, t \in Slots : Creates(job[s]) /\ Creates(job[t]) => s = t

Handlers ==
  /\ ring => announced
  /\ stage["caller"] # "none" => row # "none"
  /\ \A s \in Slots :
       /\ job[s].op = "fetch" => announced
       /\ job[s].op = "status" => job[s].status \notin Waiting
       /\ job[s].at = "failed" => faults > 0
       /\ job[s].op = "fetch" /\ job[s].at = "done" /\ job[s].status \notin Waiting
            => row \notin Waiting

IInv == TypeOK /\ Once /\ Handlers /\ RingWatched
-----------------------------------------------------------------------------
(* Queues.                                                                 *)

LEMMA AppendQueue ==
  ASSUME NEW S, NEW q \in Seq(S), NEW m \in S
  PROVE  Append(q, m) \in Seq(S)
  BY AppendProperties

LEMMA TailQueue ==
  ASSUME NEW S, NEW q \in Seq(S), q # <<>>
  PROVE  Tail(q) \in Seq(S) /\ Head(q) \in S
  BY HeadTailProperties

LEMMA AppendStart ==
  ASSUME NEW q \in Seq(Ups), NEW m \in Ups
  PROVE  /\ NoStart(q) /\ m # "start" => NoStart(Append(q, m))
         /\ LoneStart(q) /\ (NoStart(q) \/ m # "start") => LoneStart(Append(q, m))
<1>1. /\ Len(Append(q, m)) = Len(q) + 1 /\ Len(q) \in Nat
      /\ \A i \in 1 .. Len(q) : Append(q, m)[i] = q[i]
      /\ Append(q, m)[Len(q) + 1] = m
  BY AppendProperties, LenProperties
<1> QED
  BY <1>1 DEF NoStart, LoneStart

LEMMA TailStart ==
  ASSUME NEW q \in Seq(Ups), q # <<>>
  PROVE  /\ NoStart(q) => NoStart(Tail(q)) /\ Head(q) # "start"
         /\ LoneStart(q) => LoneStart(Tail(q))
         /\ LoneStart(q) /\ Head(q) = "start" => NoStart(Tail(q))
<1>1. /\ Len(Tail(q)) = Len(q) - 1 /\ Len(q) \in Nat \ {0}
      /\ \A i \in 1 .. Len(Tail(q)) : Tail(q)[i] = q[i + 1]
      /\ Head(q) = q[1]
  BY HeadTailProperties, LenProperties, EmptySeq
<1> QED
  BY <1>1 DEF NoStart, LoneStart

LEMMA EmptyStart == NoStart(<<>>) /\ LoneStart(<<>>) /\ \A S : <<>> \in Seq(S)
  BY DEF NoStart, LoneStart

-----------------------------------------------------------------------------
(* Types.                                                                  *)

LEMMA JobMember ==
  \A op \in {"create", "mark", "fetch", "status"}, at \in {"sent", "done", "failed"},
     status \in Status : [op |-> op, at |-> at, status |-> status] \in Job
  BY DEF Job

LEMMA JobFields ==
  ASSUME TypeOK, NEW s \in Slots
  PROVE  /\ Idle \in Job /\ job[s] \in Job /\ job[s].status \in Status
         /\ job[s].at # "none" => /\ job[s].op \in {"create", "mark", "fetch", "status"}
                                  /\ job[s].at \in {"sent", "done", "failed"}
         /\ job[s].op # "idle" => job[s] # Idle /\ job[s].at # "none"
<1>1. Idle \in Job /\ job[s] \in Job
  BY DEF TypeOK, Job
<1> QED
  BY <1>1 DEF Job, Idle, Status, Final

LEMMA SentType ==
  ASSUME TypeOK, NEW p \in Sides, NEW m \in Ups
  PROVE  /\ Sent(p, m) \in Seq(Ups)
         /\ [up EXCEPT ![p] = Sent(p, m)] \in [Sides -> Seq(Ups)]
<1>1. up[p] \in Seq(Ups)
  BY DEF TypeOK
<1>2. Append(up[p], m) \in Seq(Ups)
  BY <1>1, AppendQueue
<1>3. Sent(p, m) \in Seq(Ups)
  BY <1>1, <1>2 DEF Sent
<1> QED
  BY <1>3 DEF TypeOK

LEMMA EmittedType ==
  ASSUME TypeOK, NEW m, \A p \in Sides : p \in DOMAIN m => m[p] \in Downs
  PROVE  Emitted(m) \in [Sides -> Seq(Downs)]
<1> SUFFICES ASSUME NEW p \in Sides
             PROVE  (IF sock[p] = "open" /\ p \in DOMAIN m THEN Append(down[p], m[p])
                     ELSE down[p]) \in Seq(Downs)
  BY DEF Emitted
<1>1. down[p] \in Seq(Downs)
  BY DEF TypeOK
<1>2. p \in DOMAIN m => Append(down[p], m[p]) \in Seq(Downs)
  BY <1>1, AppendQueue
<1> QED
  BY <1>1, <1>2

LEMMA AnnouncedType ==
  ASSUME TypeOK, NEW s \in Slots, NEW status \in Status, Announce(s, status)
  PROVE  /\ announced' \in BOOLEAN /\ ring' \in BOOLEAN
         /\ down' \in [Sides -> Seq(Downs)] /\ job' \in [Slots -> Job]
<1> DEFINE m == [caller |-> [event |-> "created", status |-> status],
                 callee |-> [event |-> "invite", status |-> status]]
<1>1. \A p \in Sides : p \in DOMAIN m => m[p] \in Downs
  BY DEF Downs, Sides
<1>2. Emitted(m) \in [Sides -> Seq(Downs)]
  <2> HIDE DEF m
  <2> QED
    BY <1>1, EmittedType
<1> QED
  BY <1>2, JobFields DEF Announce, TypeOK

\* What the row, the handlers, the queues and the connections are made of.
Plumbing ==
  /\ row \in Status \cup {"none"} /\ announced \in BOOLEAN /\ ring \in BOOLEAN
  /\ job \in [Slots -> Job]
  /\ up \in [Sides -> Seq(Ups)] /\ down \in [Sides -> Seq(Downs)]
  /\ sock \in [Sides -> {"off", "opening", "open"}]

LEMMA PlumbingType ==
  ASSUME TypeOK, Plumbing', UNCHANGED <<kind, bridge, page, taps>>,
         faults' \in 0..MaxFaults
  PROVE  TypeOK'
  BY DEF TypeOK, Plumbing, page

LEMMA TakeUpType ==
  ASSUME TypeOK, NEW p \in Sides, TakeUp(p)
  PROVE  /\ up' \in [Sides -> Seq(Ups)] /\ Head(up[p]) \in Ups
         /\ up[p] \in Seq(Ups) /\ up[p] # <<>>
         /\ up' = [up EXCEPT ![p] = Tail(up[p])]
<1>1. up[p] \in Seq(Ups) /\ up[p] # <<>>
  BY DEF TypeOK, TakeUp
<1>2. Tail(up[p]) \in Seq(Ups) /\ Head(up[p]) \in Ups
  BY <1>1, TailQueue
<1> QED
  BY <1>1, <1>2 DEF TypeOK, TakeUp

LEMMA ServerType ==
  ASSUME TypeOK, row # "none" \/ \A s \in Slots : job[s].op # "fetch",
         NEW s \in Slots, ServerStep(s) \/ ApiFails(s)
  PROVE  TypeOK'
<1>1. ASSUME NEW p \in Sides, RtcStartCall(s, p) PROVE TypeOK'
  <2>1. TakeUp(p) /\ Asked("create", "initiated") \in Job
    BY <1>1, JobMember DEF RtcStartCall, Asked, Status, Waiting
  <2>2. up' \in [Sides -> Seq(Ups)]
    BY <2>1, TakeUpType
  <2>3. Plumbing'
    BY <1>1, <2>1, <2>2 DEF RtcStartCall, TakeUp, TypeOK, Plumbing
  <2> QED
    BY <2>1, <2>3, PlumbingType DEF TakeUp, TypeOK
<1>2. ASSUME NEW p \in Sides, RtcStatusEvent(s, p) PROVE TypeOK'
  <2>1. TakeUp(p) /\ Head(up[p]) \in Ups /\ up' \in [Sides -> Seq(Ups)]
    BY <1>2, TakeUpType DEF RtcStatusEvent
  <2>2. Asked("status", Head(up[p])) \in Job
    BY <1>2, <2>1, JobMember DEF RtcStatusEvent, Asked, Ups, Status
  <2>3. Plumbing'
    BY <1>2, <2>1, <2>2 DEF RtcStatusEvent, TakeUp, TypeOK, Plumbing
  <2> QED
    BY <2>1, <2>3, PlumbingType DEF TakeUp, TypeOK
<1>3. CASE RingTimer(s)
  <2>1. Asked("fetch", "timeout") \in Job
    BY JobMember DEF Asked, Status, Final
  <2>2. Plumbing'
    BY <1>3, <2>1 DEF RingTimer, TypeOK, Plumbing
  <2> QED
    BY <1>3, <2>2, PlumbingType DEF RingTimer, TypeOK
<1>4. CASE ApiAnswers(s)
  <2> DEFINE status == IF job[s].op = "fetch" THEN row ELSE job[s].status
  <2>1. status \in Status
    BY JobFields DEF TypeOK
  <2>2. [op |-> job[s].op, at |-> "done", status |-> status] \in Job
    BY <1>4, <2>1, JobFields, JobMember DEF ApiAnswers
  <2>3. /\ row' \in Status \cup {"none"}
        /\ job' \in [Slots -> Job]
    BY <1>4, <2>1, <2>2 DEF ApiAnswers, TypeOK
  <2>4. Plumbing'
    BY <1>4, <2>3 DEF ApiAnswers, TypeOK, Plumbing
  <2> QED
    BY <1>4, <2>4, PlumbingType DEF ApiAnswers, TypeOK
<1>5. CASE ApiFails(s)
  <2>1. [op |-> job[s].op, at |-> "failed", status |-> job[s].status] \in Job
    BY <1>5, JobFields, JobMember DEF ApiFails
  <2>2. Plumbing'
    BY <1>5, <2>1 DEF ApiFails, TypeOK, Plumbing
  <2>3. faults' \in 0..MaxFaults
    BY <1>5, ConstantsOK DEF ApiFails, TypeOK
  <2> QED
    BY <1>5, <2>2, <2>3, PlumbingType DEF ApiFails
<1>6. CASE AfterCreate(s)
  <2>1. Asked("mark", "ringing") \in Job /\ "initiated" \in Status
    BY JobMember DEF Asked, Status, Waiting
  <2>2. Plumbing'
    BY <1>6, <2>1, AnnouncedType DEF AfterCreate, TypeOK, Plumbing
  <2> QED
    BY <1>6, <2>2, PlumbingType DEF AfterCreate, TypeOK
<1>7. CASE AfterMark(s)
  <2>1. {"ringing", "initiated"} \subseteq Status
    BY DEF Status, Waiting
  <2>2. Plumbing'
    BY <1>7, <2>1, AnnouncedType DEF AfterMark, TypeOK, Plumbing
  <2> QED
    BY <1>7, <2>2, PlumbingType DEF AfterMark, TypeOK
<1>8. CASE AfterStatus(s)
  <2> DEFINE m == [p \in Sides |-> [event |-> "status", status |-> job[s].status]]
  <2>1. \A p \in Sides : p \in DOMAIN m => m[p] \in Downs
    BY JobFields DEF Downs
  <2>2. Emitted(m) \in [Sides -> Seq(Downs)]
    <3> HIDE DEF m
    <3> QED
      BY <2>1, EmittedType
  <2>3. Plumbing'
    BY <1>8, <2>2, JobFields DEF AfterStatus, TypeOK, Plumbing
  <2> QED
    BY <1>8, <2>3, PlumbingType DEF AfterStatus, TypeOK
<1>9. CASE AfterFetch(s)
  <2>1. Asked("status", "timeout") \in Job
    BY JobMember DEF Asked, Status, Final
  <2>2. Plumbing'
    BY <1>9, <2>1, JobFields DEF AfterFetch, TypeOK, Plumbing
  <2> QED
    BY <1>9, <2>2, PlumbingType DEF AfterFetch, TypeOK
<1>10. CASE AfterFailure(s)
  <2>1. Plumbing'
    BY <1>10, JobFields DEF AfterFailure, TypeOK, Plumbing
  <2> QED
    BY <1>10, <2>1, PlumbingType DEF AfterFailure, TypeOK
<1> QED
  BY <1>1, <1>2, <1>3, <1>4, <1>5, <1>6, <1>7, <1>8, <1>9, <1>10 DEF ServerStep

LEMMA PageType ==
  ASSUME TypeOK, announced => row # "none",
         \/ \E p \in Sides : PageStep(p) \/ LeavePage(p)
         \/ PlaceCall \/ StartSession \/ OpenInvited \/ JoinSession
         \/ ConsoleStart \/ ConsoleInvited
  PROVE  TypeOK'
<1> USE DEF server, page
<1>1. ASSUME NEW p \in Sides, SocketOpens(p) PROVE TypeOK'
  BY <1>1 DEF SocketOpens, TypeOK
<1>2. ASSUME NEW p \in Sides, down[p] # <<>>
      PROVE  /\ Tail(down[p]) \in Seq(Downs)
             /\ Head(down[p]).status \in Status
  <2>1. down[p] \in Seq(Downs)
    BY DEF TypeOK
  <2>2. Tail(down[p]) \in Seq(Downs) /\ Head(down[p]) \in Downs
    BY <1>2, <2>1, TailQueue
  <2> QED
    BY <2>2 DEF Downs
<1>3. ASSUME NEW p \in Sides, PageEvent(p) PROVE TypeOK'
  <2>1. down' \in [Sides -> Seq(Downs)]
    BY <1>2, <1>3 DEF PageEvent, TypeOK
  <2>2. shown' \in [Sides -> Status] /\ timer' \in [Sides -> BOOLEAN]
    BY <1>2, <1>3 DEF PageEvent, Shows, TypeOK
  <2> QED
    BY <1>3, <2>1, <2>2 DEF PageEvent, TypeOK
<1>4. ASSUME NEW p \in Sides, PageTimer(p) PROVE TypeOK'
  <2>1. up' \in [Sides -> Seq(Ups)]
    BY <1>4, SentType DEF PageTimer, Ups, Final
  <2> QED
    BY <1>4, <2>1 DEF PageTimer, TypeOK
<1>5. ASSUME NEW p \in Sides, LeavePage(p) PROVE TypeOK'
  <2>1. down' \in [Sides -> Seq(Downs)]
    <3>1. <<>> \in Seq(Downs)
      BY EmptyStart
    <3>2. down' = down \/ down' = [down EXCEPT ![p] = <<>>]
      BY <1>5 DEF LeavePage
    <3> QED
      BY <3>1, <3>2 DEF TypeOK
  <2>2. sock' \in [Sides -> {"off", "opening", "open"}]
    BY <1>5 DEF LeavePage, TypeOK
  <2>3. stage' \in [Sides -> {"none", "placed", "live", "gone"}]
    <3>1. stage \in [Sides -> {"none", "placed", "live", "gone"}]
      BY DEF TypeOK
    <3>2. stage' = stage \/ stage' = [stage EXCEPT ![p] = "gone"]
      BY <1>5 DEF LeavePage
    <3> QED
      BY <3>1, <3>2
  <2>4. closed' \in [Sides -> BOOLEAN] /\ timer' \in [Sides -> BOOLEAN]
    BY <1>5 DEF LeavePage, TypeOK
  <2>5. UNCHANGED <<kind, bridge, server, up, shown, accepting, taps, faults>>
    BY <1>5 DEF LeavePage
  <2> QED
    BY <2>1, <2>2, <2>3, <2>4, <2>5 DEF TypeOK
<1>6. CASE PlaceCall
  BY <1>6 DEF PlaceCall, TypeOK, Status, Waiting
<1>7. "start" \in Ups /\ "initiated" \in Status
  BY DEF Ups, Status, Waiting
<1>8. CASE StartSession
  <2>1. up' \in [Sides -> Seq(Ups)]
    BY <1>7, <1>8, SentType DEF StartSession, Sides
  <2>2. shown' \in [Sides -> Status] /\ timer' \in [Sides -> BOOLEAN]
    BY <1>7, <1>8 DEF StartSession, Shows, TypeOK
  <2> QED
    BY <1>8, <2>1, <2>2 DEF StartSession, TypeOK
<1>9. CASE OpenInvited
  <2>1. shown' \in [Sides -> Status]
    BY <1>9 DEF OpenInvited, TypeOK
  <2> QED
    BY <1>9, <2>1 DEF OpenInvited, TypeOK
<1>10. CASE JoinSession
  <2>1. shown' \in [Sides -> Status] /\ timer' \in [Sides -> BOOLEAN]
    BY <1>10 DEF JoinSession, Shows, TypeOK, Sides
  <2> QED
    BY <1>10, <2>1 DEF JoinSession, TypeOK
<1>11. CASE ConsoleStart
  <2>1. up' \in [Sides -> Seq(Ups)]
    BY <1>7, <1>11, SentType DEF ConsoleStart, Sides
  <2>2. shown' \in [Sides -> Status] /\ timer' \in [Sides -> BOOLEAN]
    BY <1>7, <1>11 DEF ConsoleStart, Shows, TypeOK
  <2> QED
    BY <1>7, <1>11, <2>1, <2>2 DEF ConsoleStart, TypeOK
<1>12. CASE ConsoleInvited
  <2>1. down' \in [Sides -> Seq(Downs)]
    BY <1>2, <1>12 DEF ConsoleInvited, TypeOK, Sides
  <2>2. shown' \in [Sides -> Status] /\ timer' \in [Sides -> BOOLEAN]
    <3>1. CASE UNCHANGED <<shown, timer>>
      BY <3>1 DEF TypeOK
    <3>2. CASE Shows("callee", Head(down["callee"]).status)
      BY <1>2, <1>12, <3>2 DEF ConsoleInvited, Shows, TypeOK, Sides
    <3> QED
      BY <1>12, <3>1, <3>2 DEF ConsoleInvited
  <2>3. stage' \in [Sides -> {"none", "placed", "live", "gone"}]
    <3>1. stage \in [Sides -> {"none", "placed", "live", "gone"}]
      BY DEF TypeOK
    <3>2. stage' = stage \/ stage' = [stage EXCEPT !["callee"] = "live"]
      BY <1>12 DEF ConsoleInvited
    <3> QED
      BY <3>1, <3>2
  <2>4. UNCHANGED <<kind, bridge, server, up, sock, closed, accepting, taps, faults>>
    BY <1>12 DEF ConsoleInvited
  <2> QED
    BY <2>1, <2>2, <2>3, <2>4 DEF TypeOK
<1> QED
  BY <1>1, <1>3, <1>4, <1>5, <1>6, <1>8, <1>9, <1>10, <1>11, <1>12 DEF PageStep

LEMMA UserType ==
  ASSUME TypeOK,
         \/ \E p \in Sides : End(p) \/ LoseConnection(p)
         \/ Cancel \/ Reject \/ Accept \/ AcceptReady \/ ServerRestarts
  PROVE  TypeOK'
<1> USE DEF server, page
<1>1. ASSUME NEW p \in Sides, NEW m \in Ups, Tap(p, m) PROVE TypeOK'
  <2>1. up' \in [Sides -> Seq(Ups)]
    BY <1>1, SentType DEF Tap
  <2>2. taps' \in [Sides -> 0..MaxTaps]
    BY <1>1, ConstantsOK DEF Tap, CanTap, TypeOK
  <2> QED
    BY <1>1, <2>1, <2>2 DEF Tap, TypeOK
<1>2. ASSUME NEW p \in Sides, End(p) PROVE TypeOK'
  BY <1>1, <1>2 DEF End, Ups, Final
<1>3. CASE Cancel \/ Reject
  BY <1>1, <1>3 DEF Cancel, Reject, Ups, Final, Sides
<1>4. CASE Accept
  <2>1. taps' \in [Sides -> 0..MaxTaps]
    BY <1>4, ConstantsOK DEF Accept, CanTap, TypeOK, Sides
  <2> QED
    BY <1>4, <2>1 DEF Accept, TypeOK
<1>5. CASE AcceptReady
  <2>1. up' \in [Sides -> Seq(Ups)]
    BY <1>5, SentType DEF AcceptReady, Ups, Sides
  <2> QED
    BY <1>5, <2>1 DEF AcceptReady, TypeOK
<1>6. \A S : <<>> \in Seq(S)
  BY EmptyStart
<1>7. ASSUME NEW p \in Sides, LoseConnection(p) PROVE TypeOK'
  <2>1. up' \in [Sides -> Seq(Ups)] /\ down' \in [Sides -> Seq(Downs)]
    BY <1>6, <1>7 DEF LoseConnection, TypeOK
  <2>2. faults' \in 0..MaxFaults
    BY <1>7, ConstantsOK DEF LoseConnection, TypeOK
  <2> QED
    BY <1>7, <2>1, <2>2 DEF LoseConnection, TypeOK
<1>8. CASE ServerRestarts
  <2>1. up' \in [Sides -> Seq(Ups)] /\ down' \in [Sides -> Seq(Downs)]
    BY <1>6, <1>8 DEF ServerRestarts, TypeOK
  <2>2. faults' \in 0..MaxFaults
    BY <1>8, ConstantsOK DEF ServerRestarts, TypeOK
  <2>3. job' \in [Slots -> Job] /\ sock' \in [Sides -> {"off", "opening", "open"}]
    BY <1>8 DEF ServerRestarts, TypeOK, Job
  <2> QED
    BY <1>8, <2>1, <2>2, <2>3 DEF ServerRestarts, TypeOK
<1> QED
  BY <1>2, <1>3, <1>4, <1>5, <1>7, <1>8

-----------------------------------------------------------------------------
(* The call is created once.                                               *)

\* A step that brings no start to a queue.
NoNewStart ==
  /\ NoStart(up'["callee"]) /\ LoneStart(up'["caller"])
  /\ NoStart(up["caller"]) => NoStart(up'["caller"])

LEMMA OnceKept ==
  ASSUME Once, NoNewStart, UNCHANGED announced,
         stage'["caller"] \in {"none", "placed"} => stage["caller"] \in {"none", "placed"},
         \A s \in Slots : Creates(job'[s]) => Creates(job[s])
  PROVE  Once'
  BY DEF Once, NoNewStart

LEMMA QueuesAlone ==
  ASSUME Once, UNCHANGED up
  PROVE  NoNewStart
  BY DEF Once, NoNewStart

LEMMA SentStart ==
  ASSUME TypeOK, Once, NEW p \in Sides, NEW m \in Ups, m # "start",
         up' = [up EXCEPT ![p] = Sent(p, m)]
  PROVE  NoNewStart
<1>1. up["caller"] \in Seq(Ups) /\ up["callee"] \in Seq(Ups)
  BY DEF TypeOK, Sides
<1>2. /\ up'["caller"] \in {up["caller"], Append(up["caller"], m)}
      /\ up'["callee"] \in {up["callee"], Append(up["callee"], m)}
  BY DEF TypeOK, Sent, Sides
<1> QED
  BY <1>1, <1>2, AppendStart DEF Once, NoNewStart

LEMMA TakenStart ==
  ASSUME TypeOK, Once, NEW p \in Sides, TakeUp(p)
  PROVE  /\ NoNewStart
         /\ Head(up[p]) = "start" => p = "caller" /\ NoStart(up'["caller"]) /\ ~NoStart(up["caller"])
<1>1. /\ up["caller"] \in Seq(Ups) /\ up["callee"] \in Seq(Ups)
      /\ up[p] # <<>> /\ up' = [up EXCEPT ![p] = Tail(up[p])]
  BY TakeUpType DEF TypeOK, Sides
<1>2. CASE p = "caller"
  <2>1. up'["caller"] = Tail(up["caller"]) /\ up'["callee"] = up["callee"]
    BY <1>1, <1>2 DEF TypeOK, Sides
  <2> QED
    BY <1>1, <1>2, <2>1, TailStart DEF Once, NoNewStart
<1>3. CASE p = "callee"
  <2>1. up'["callee"] = Tail(up["callee"]) /\ up'["caller"] = up["caller"]
    BY <1>1, <1>3 DEF TypeOK, Sides
  <2> QED
    BY <1>1, <1>3, <2>1, TailStart DEF Once, NoNewStart
<1> QED
  BY <1>2, <1>3 DEF Sides

LEMMA ServerOnce ==
  ASSUME TypeOK, Once, NEW s \in Slots, ServerStep(s) \/ ApiFails(s)
  PROVE  Once'
<1> USE DEF Creates
<1>1. ASSUME NEW p \in Sides, RtcStartCall(s, p) PROVE Once'
  <2>1. /\ NoNewStart /\ NoStart(up'["caller"]) /\ ~NoStart(up["caller"])
        /\ UNCHANGED <<announced, stage>>
    BY <1>1, TakenStart DEF RtcStartCall, TakeUp, page
  <2>2. \A t \in Slots : Creates(job'[t]) => t = s
    BY <1>1, <2>1 DEF RtcStartCall, Once, TypeOK
  <2> QED
    BY <2>1, <2>2 DEF Once, NoNewStart
<1>2. ASSUME NEW p \in Sides, RtcStatusEvent(s, p) PROVE Once'
  <2>1. NoNewStart /\ UNCHANGED <<announced, stage>>
    BY <1>2, TakenStart DEF RtcStatusEvent, TakeUp, page
  <2>2. \A t \in Slots : Creates(job'[t]) => Creates(job[t])
    BY <1>2 DEF RtcStatusEvent, Asked, TypeOK
  <2> QED
    BY <2>1, <2>2, OnceKept
<1>3. CASE RingTimer(s) \/ ApiAnswers(s) \/ ApiFails(s) \/ AfterStatus(s) \/ AfterFetch(s)
           \/ AfterFailure(s)
  <2>1. UNCHANGED <<up, announced, stage>>
    BY <1>3 DEF RingTimer, ApiAnswers, ApiFails, AfterStatus, AfterFetch, AfterFailure, page
  <2>2. \A t \in Slots : Creates(job'[t]) => Creates(job[t])
    <3>1. \E j : /\ job' = [job EXCEPT ![s] = j]
                 /\ j.op \in {job[s].op, "fetch", "status", "idle"}
      BY <1>3 DEF RingTimer, ApiAnswers, ApiFails, AfterStatus, AfterFetch, AfterFailure,
                  Asked, Idle
    <3> QED
      BY <3>1 DEF TypeOK
  <2> QED
    BY <2>1, <2>2, OnceKept, QueuesAlone
<1>4. ASSUME Creates(job[s]), UNCHANGED <<up, stage>>,
             \A t \in Slots : t # s => job'[t] = job[t],
             Creates(job'[s]) => UNCHANGED announced
      PROVE  Once'
  BY <1>4 DEF Once
<1>5. CASE AfterCreate(s)
  <2>1. /\ Creates(job[s]) /\ UNCHANGED <<up, stage>>
        /\ \A t \in Slots : t # s => job'[t] = job[t]
    BY <1>5 DEF AfterCreate, Announce, TypeOK, page
  <2>2. Creates(job'[s]) => UNCHANGED announced
    BY <1>5 DEF AfterCreate, Announce, Idle, TypeOK
  <2> QED
    BY <1>4, <2>1, <2>2
<1>6. CASE AfterMark(s)
  <2>1. /\ Creates(job[s]) /\ UNCHANGED <<up, stage>>
        /\ \A t \in Slots : t # s => job'[t] = job[t]
    BY <1>6 DEF AfterMark, Announce, TypeOK, page
  <2>2. ~Creates(job'[s])
    BY <1>6 DEF AfterMark, Announce, Idle, TypeOK
  <2> QED
    BY <1>4, <2>1, <2>2
<1> QED
  BY <1>1, <1>2, <1>3, <1>5, <1>6 DEF ServerStep

LEMMA PageOnce ==
  ASSUME TypeOK, Once,
         \/ \E p \in Sides : PageStep(p) \/ LeavePage(p)
         \/ PlaceCall \/ StartSession \/ OpenInvited \/ JoinSession
         \/ ConsoleStart \/ ConsoleInvited
  PROVE  Once'
<1> USE DEF server, page
<1>0. "callee" # "caller" /\ "timeout" \in Ups /\ "start" \in Ups
  BY DEF Ups, Final
<1>1. ASSUME NEW p \in Sides, SocketOpens(p) \/ PageEvent(p) PROVE Once'
  BY <1>1, OnceKept, QueuesAlone DEF SocketOpens, PageEvent
<1>2. ASSUME NEW p \in Sides, PageTimer(p) PROVE Once'
  <2>1. NoNewStart
    BY <1>0, <1>2, SentStart DEF PageTimer
  <2> QED
    BY <1>2, <2>1, OnceKept DEF PageTimer
<1>3. ASSUME NEW p \in Sides, LeavePage(p) PROVE Once'
  <2>1. UNCHANGED <<up, announced, job>>
    BY <1>3 DEF LeavePage
  <2>2. stage'["caller"] \in {"none", "placed"} => stage["caller"] \in {"none", "placed"}
    BY <1>3 DEF LeavePage, TypeOK, Sides
  <2> QED
    BY <2>1, <2>2, OnceKept, QueuesAlone
<1>4. CASE PlaceCall \/ OpenInvited \/ JoinSession \/ ConsoleInvited
  <2>1. UNCHANGED <<up, announced, job>>
    BY <1>4 DEF PlaceCall, OpenInvited, JoinSession, ConsoleInvited
  <2>2. stage'["caller"] \in {"none", "placed"} => stage["caller"] \in {"none", "placed"}
    BY <1>4 DEF PlaceCall, OpenInvited, JoinSession, ConsoleInvited, TypeOK, Sides
  <2> QED
    BY <2>1, <2>2, OnceKept, QueuesAlone
<1>5. CASE StartSession \/ ConsoleStart
  <2>1. /\ stage["caller"] \in {"none", "placed"}
        /\ stage'["caller"] = "live" /\ UNCHANGED <<announced, job>>
        /\ up' = [up EXCEPT !["caller"] = Sent("caller", "start")]
    BY <1>5 DEF StartSession, ConsoleStart, TypeOK, Sides
  <2>2. /\ up["caller"] \in Seq(Ups) /\ up'["callee"] = up["callee"]
        /\ up'["caller"] \in {up["caller"], Append(up["caller"], "start")}
    BY <2>1 DEF Sent, TypeOK, Sides
  <2>3. LoneStart(up'["caller"])
    BY <1>0, <2>1, <2>2, AppendStart DEF Once
  <2> QED
    BY <2>1, <2>2, <2>3 DEF Once
<1> QED
  BY <1>1, <1>2, <1>3, <1>4, <1>5 DEF PageStep

LEMMA UserOnce ==
  ASSUME TypeOK, Once,
         \/ \E p \in Sides : End(p) \/ LoseConnection(p)
         \/ Cancel \/ Reject \/ Accept \/ AcceptReady \/ ServerRestarts
  PROVE  Once'
<1> USE DEF server, page
<1>1. ASSUME NEW p \in Sides, NEW m \in Ups \ {"start"}, Tap(p, m) PROVE Once'
  <2>1. NoNewStart
    BY <1>1, SentStart DEF Tap
  <2> QED
    BY <1>1, <2>1, OnceKept DEF Tap
<1>2. CASE Cancel \/ Reject \/ \E p \in Sides : End(p)
  BY <1>1, <1>2 DEF Cancel, Reject, End, Ups, Final, Sides
<1>3. CASE Accept
  BY <1>3, OnceKept, QueuesAlone DEF Accept
<1>4. CASE AcceptReady
  <2>1. NoNewStart
    BY <1>4, SentStart DEF AcceptReady, Ups, Sides
  <2> QED
    BY <1>4, <2>1, OnceKept DEF AcceptReady
<1>5. ASSUME NEW p \in Sides, LoseConnection(p) PROVE Once'
  <2>1. /\ up'["caller"] \in {up["caller"], <<>>} /\ up'["callee"] \in {up["callee"], <<>>}
        /\ UNCHANGED <<announced, stage, job>>
    BY <1>5 DEF LoseConnection, TypeOK, Sides
  <2>2. NoNewStart
    BY <2>1, EmptyStart DEF Once, NoNewStart
  <2> QED
    BY <2>1, <2>2, OnceKept
<1>6. CASE ServerRestarts
  <2>1. /\ up'["caller"] = <<>> /\ up'["callee"] = <<>> /\ UNCHANGED <<announced, stage>>
        /\ \A t \in Slots : job'[t] = Idle
    BY <1>6 DEF ServerRestarts, Sides
  <2>2. NoNewStart
    BY <2>1, EmptyStart DEF NoNewStart
  <2> QED
    BY <2>1, <2>2, OnceKept DEF Creates, Idle
<1> QED
  BY <1>2, <1>3, <1>4, <1>5, <1>6

-----------------------------------------------------------------------------
(* What a handler knows stays true, and someone settles a call that rings.  *)

LEMMA ServerWatches ==
  ASSUME TypeOK, Once, Handlers, RingWatched, NEW s \in Slots, ServerStep(s) \/ ApiFails(s)
  PROVE  Handlers' /\ RingWatched'
<1>0. /\ \A t \in Slots : job[t].op = "fetch" => announced
      /\ \A t \in Slots : Creates(job[t]) => ~announced
      /\ "timeout" \notin Waiting /\ TypeOK'
  BY ServerType DEF Handlers, Once, Waiting, Creates
<1>1. ASSUME NEW p \in Sides, RtcStartCall(s, p) PROVE Handlers' /\ RingWatched'
  <2>1. /\ job[s] = Idle /\ job' = [job EXCEPT ![s] = Asked("create", "initiated")]
        /\ UNCHANGED <<row, announced, ring, stage, faults>>
    BY <1>1 DEF RtcStartCall, TakeUp, page
  <2>2. Handlers'
    BY <2>1 DEF Handlers, Asked, TypeOK
  <2>3. \A t \in Slots : Settling(job[t]) => Settling(job'[t])
    BY <2>1 DEF Settling, Idle, TypeOK
  <2> QED
    BY <2>1, <2>2, <2>3 DEF RingWatched
<1>2. ASSUME NEW p \in Sides, RtcStatusEvent(s, p) PROVE Handlers' /\ RingWatched'
  <2>1. /\ job' = [job EXCEPT ![s] = Asked("status", Head(up[p]))]
        /\ ring' = FALSE /\ UNCHANGED <<row, announced, stage, faults>>
    BY <1>2 DEF RtcStatusEvent, TakeUp, page
  <2>2. Head(up[p]) \in Ups \ {"start"}
    BY <1>2, TakeUpType DEF RtcStatusEvent
  <2>3. Handlers'
    BY <2>1, <2>2 DEF Handlers, Asked, TypeOK, Ups, Final, Waiting
  <2>4. Settling(job'[s])
    BY <2>1 DEF Settling, Asked, TypeOK
  <2> QED
    BY <2>3, <2>4 DEF RingWatched
<1>3. CASE RingTimer(s)
  <2>1. /\ job' = [job EXCEPT ![s] = Asked("fetch", "timeout")] /\ ring /\ ring' = FALSE
        /\ UNCHANGED <<row, announced, stage, faults>>
    BY <1>3 DEF RingTimer, page
  <2>2. Handlers'
    BY <2>1 DEF Handlers, Asked, TypeOK
  <2>3. Settling(job'[s])
    BY <2>1 DEF Settling, Asked, TypeOK
  <2> QED
    BY <2>2, <2>3 DEF RingWatched
<1>4. CASE ApiAnswers(s)
  <2> DEFINE status == IF job[s].op = "fetch" THEN row ELSE job[s].status
  <2>1. /\ job' = [job EXCEPT ![s] = [op |-> job[s].op, at |-> "done", status |-> status]]
        /\ row' = status /\ job[s].at = "sent"
        /\ UNCHANGED <<announced, ring, stage, faults>>
    BY <1>4 DEF ApiAnswers, page
  <2>2. \A t \in Slots : t # s => job'[t] = job[t]
    BY <2>1 DEF TypeOK
  <2>3. job'[s].op = job[s].op /\ job'[s].at = "done" /\ job'[s].status = status
    BY <2>1 DEF TypeOK
  <2>4. status \in Status
    BY <2>3, <1>0, JobFields DEF TypeOK, Job, Idle
  <2>5. CASE job[s].op = "fetch"
    <3>1. row' = row /\ job'[s].status = row
      BY <2>1, <2>3, <2>5
    <3>2. Handlers'
      BY <2>1, <2>2, <2>3, <2>5, <3>1 DEF Handlers
    <3>3. row \in Waiting => Settling(job'[s])
      BY <2>3, <2>5, <3>1 DEF Settling
    <3> QED
      BY <3>1, <3>2, <3>3 DEF RingWatched
  <2>6. CASE job[s].op = "status"
    <3>1. row' \notin Waiting /\ row' \in Status /\ job'[s].status = row'
      BY <2>1, <2>3, <2>4, <2>6 DEF Handlers
    <3>2. Handlers'
      BY <2>1, <2>2, <2>3, <2>6, <3>1 DEF Handlers, Status, Waiting, Final
    <3> QED
      BY <3>1, <3>2 DEF RingWatched
  <2>7. CASE Creates(job[s])
    <3>1. ~announced /\ job[s].op \notin {"fetch", "status"}
      BY <1>0, <2>7 DEF Creates
    <3>2. row' # "none"
      BY <2>1, <2>4 DEF Status, Waiting, Final
    <3>3. Handlers'
      BY <1>0, <2>1, <2>2, <2>3, <3>1, <3>2 DEF Handlers
    <3> QED
      BY <2>1, <3>1, <3>3 DEF RingWatched
  <2> QED
    BY <2>1, <2>5, <2>6, <2>7, JobFields DEF Creates
<1>5. CASE ApiFails(s)
  <2>1. /\ job' = [job EXCEPT ![s] = [op |-> job[s].op, at |-> "failed", status |-> job[s].status]]
        /\ faults' > 0 /\ UNCHANGED <<row, announced, ring, stage>>
    BY <1>5, ConstantsOK DEF ApiFails, page, TypeOK
  <2>2. Handlers'
    BY <2>1 DEF Handlers, TypeOK
  <2> QED
    BY <2>1, <2>2 DEF RingWatched
<1>6. ASSUME NEW status \in Status, Announce(s, status), UNCHANGED <<row, stage, faults>>
      PROVE  Handlers' /\ RingWatched'
  <2>1. /\ announced' = TRUE /\ ring' = TRUE /\ job' = [job EXCEPT ![s] = Idle]
    BY <1>6 DEF Announce
  <2>2. Handlers'
    BY <1>6, <2>1 DEF Handlers, Idle, TypeOK
  <2> QED
    BY <2>1, <2>2 DEF RingWatched
<1>7. CASE AfterCreate(s)
  <2>1. UNCHANGED <<row, stage, faults>> /\ "initiated" \in Status
    BY <1>7 DEF AfterCreate, page, Status, Waiting
  <2>2. CASE Announce(s, "initiated")
    BY <1>6, <2>1, <2>2
  <2>3. CASE /\ job' = [job EXCEPT ![s] = Asked("mark", "ringing")]
             /\ UNCHANGED <<announced, ring>>
    <3>1. ~announced
      BY <1>0, <1>7 DEF AfterCreate, Creates
    <3>2. Handlers'
      BY <2>1, <2>3 DEF Handlers, Asked, TypeOK
    <3> QED
      BY <2>3, <3>1, <3>2 DEF RingWatched
  <2> QED
    BY <1>7, <2>2, <2>3 DEF AfterCreate
<1>8. CASE AfterMark(s)
  <2>1. UNCHANGED <<row, stage, faults>> /\ {"ringing", "initiated"} \subseteq Status
    BY <1>8 DEF AfterMark, page, Status, Waiting
  <2> QED
    BY <1>6, <1>8, <2>1 DEF AfterMark
<1>9. CASE AfterStatus(s) \/ AfterFailure(s)
  <2>1. /\ job' = [job EXCEPT ![s] = Idle] /\ job[s].at \in {"done", "failed"}
        /\ job[s].op = "fetch" => job[s].at = "failed"
        /\ UNCHANGED <<row, announced, ring, stage, faults>>
    BY <1>9 DEF AfterStatus, AfterFailure, page
  <2>2. Handlers'
    BY <2>1 DEF Handlers, Idle, TypeOK
  <2>3. \A t \in Slots : Settling(job[t]) => Settling(job'[t])
    BY <2>1 DEF Settling, TypeOK
  <2> QED
    BY <2>1, <2>2, <2>3 DEF RingWatched
<1>10. CASE AfterFetch(s)
  <2>1. /\ job[s].op = "fetch" /\ job[s].at = "done"
        /\ UNCHANGED <<row, announced, ring, stage, faults>>
    BY <1>10 DEF AfterFetch, page
  <2>2. CASE job[s].status \in Waiting
    <3>1. job' = [job EXCEPT ![s] = Asked("status", "timeout")]
      BY <1>10, <2>2 DEF AfterFetch
    <3>2. Handlers'
      BY <1>0, <2>1, <3>1 DEF Handlers, Asked, TypeOK
    <3>3. Settling(job'[s])
      BY <3>1 DEF Settling, Asked, TypeOK
    <3> QED
      BY <3>2, <3>3 DEF RingWatched
  <2>3. CASE job[s].status \notin Waiting
    <3>1. job' = [job EXCEPT ![s] = Idle] /\ row \notin Waiting
      BY <1>10, <2>1, <2>3 DEF AfterFetch, Handlers
    <3>2. Handlers'
      BY <2>1, <3>1 DEF Handlers, Idle, TypeOK
    <3> QED
      BY <2>1, <3>1, <3>2 DEF RingWatched
  <2> QED
    BY <2>2, <2>3
<1> QED
  BY <1>1, <1>2, <1>3, <1>4, <1>5, <1>7, <1>8, <1>9, <1>10 DEF ServerStep

LEMMA ClientWatches ==
  ASSUME TypeOK, Once, Handlers, RingWatched,
         UNCHANGED <<row, announced, ring, job, faults>>,
         stage'["caller"] # "none" => stage["caller"] # "none"
  PROVE  Handlers' /\ RingWatched'
  BY DEF Handlers, RingWatched

LEMMA PageWatches ==
  ASSUME TypeOK, Once, Handlers, RingWatched,
         \/ \E p \in Sides : PageStep(p) \/ LeavePage(p)
         \/ PlaceCall \/ StartSession \/ OpenInvited \/ JoinSession
         \/ ConsoleStart \/ ConsoleInvited
  PROVE  Handlers' /\ RingWatched'
<1>1. CASE PlaceCall \/ ConsoleStart
  <2>1. /\ stage["caller"] = "none" /\ row' = "initiated"
        /\ UNCHANGED <<announced, ring, job, faults>>
    BY <1>1 DEF PlaceCall, ConsoleStart
  <2>2. ~announced /\ \A s \in Slots : job[s].op # "fetch"
    BY <2>1 DEF Once, Handlers
  <2>3. Handlers'
    BY <2>1, <2>2 DEF Handlers
  <2> QED
    BY <2>1, <2>2, <2>3 DEF RingWatched
<1>2. CASE \/ \E p \in Sides : PageStep(p) \/ LeavePage(p)
           \/ StartSession \/ OpenInvited \/ JoinSession \/ ConsoleInvited
  <2>1. UNCHANGED <<row, announced, ring, job, faults>>
    BY <1>2 DEF PageStep, SocketOpens, PageEvent, PageTimer, LeavePage, StartSession,
                OpenInvited, JoinSession, ConsoleInvited, server
  <2>2. stage'["caller"] # "none" => stage["caller"] # "none"
    <3>1. \/ UNCHANGED stage
          \/ stage["caller"] # "none"
          \/ \E v : stage' = [stage EXCEPT !["callee"] = v]
      BY <1>2 DEF PageStep, SocketOpens, PageEvent, PageTimer, LeavePage, StartSession,
                  OpenInvited, JoinSession, ConsoleInvited, page, Sides
    <3> QED
      BY <3>1 DEF TypeOK, Sides
  <2> QED
    BY <2>1, <2>2, ClientWatches
<1> QED
  BY <1>1, <1>2

LEMMA UserWatches ==
  ASSUME TypeOK, Once, Handlers, RingWatched,
         \/ \E p \in Sides : End(p) \/ LoseConnection(p)
         \/ Cancel \/ Reject \/ Accept \/ AcceptReady \/ ServerRestarts
  PROVE  Handlers' /\ RingWatched'
<1>1. CASE Cancel \/ Reject \/ Accept \/ AcceptReady \/ \E p \in Sides : End(p)
  <2>1. UNCHANGED <<row, announced, ring, job, stage, faults>>
    BY <1>1 DEF Cancel, Reject, Accept, AcceptReady, End, Tap, server, page
  <2> QED
    BY <2>1, ClientWatches
<1>2. CASE ServerRestarts \/ \E p \in Sides : LoseConnection(p)
  <2>1. /\ faults' > 0 /\ UNCHANGED <<row, announced, stage>>
        /\ ring' => ring
        /\ \A s \in Slots : job'[s] = Idle \/ job'[s] = job[s]
    BY <1>2, ConstantsOK DEF ServerRestarts, LoseConnection, server, page, TypeOK
  <2>2. Handlers'
    BY <2>1 DEF Handlers, Idle
  <2> QED
    BY <2>1, <2>2 DEF RingWatched
<1> QED
  BY <1>1, <1>2

-----------------------------------------------------------------------------
LEMMA InitInv == Init => IInv
<1> SUFFICES ASSUME Init PROVE IInv
  OBVIOUS
<1>1. Idle \in Job /\ \A S : <<>> \in Seq(S)
  BY EmptyStart DEF Job
<1>2. TypeOK
  <2>1. row \in Status \cup {"none"} /\ job \in [Slots -> Job]
    BY <1>1 DEF Init
  <2>2. up \in [Sides -> Seq(Ups)] /\ down \in [Sides -> Seq(Downs)]
    BY <1>1 DEF Init
  <2>3. sock \in [Sides -> {"off", "opening", "open"}]
    BY DEF Init
  <2>4. stage \in [Sides -> {"none", "placed", "live", "gone"}] /\ shown \in [Sides -> Status]
    BY DEF Init, Status, Waiting
  <2>5. taps \in [Sides -> 0..MaxTaps] /\ faults \in 0..MaxFaults
    BY ConstantsOK DEF Init
  <2> QED
    BY <2>1, <2>2, <2>3, <2>4, <2>5 DEF Init, TypeOK
<1>3. up["caller"] = <<>> /\ up["callee"] = <<>>
  BY DEF Init, Sides
<1>4. Once
  BY <1>3, EmptyStart DEF Init, Once, Creates, Idle
<1>5. Handlers
  BY DEF Init, Handlers, Idle, Sides
<1> QED
  BY <1>2, <1>4, <1>5 DEF Init, IInv, RingWatched

LEMMA NextInv == IInv /\ Next => IInv'
<1> SUFFICES ASSUME IInv, Next PROVE IInv'
  OBVIOUS
<1>1. TypeOK /\ Once /\ Handlers /\ RingWatched
  BY DEF IInv
<1>2. announced => row # "none"
  BY <1>1 DEF Once, Handlers
<1>3. ASSUME NEW s \in Slots, ServerStep(s) \/ ApiFails(s) PROVE IInv'
  <2>1. row # "none" \/ \A t \in Slots : job[t].op # "fetch"
    BY <1>1, <1>2 DEF Handlers
  <2> QED
    BY <1>1, <1>3, <2>1, ServerType, ServerOnce, ServerWatches DEF IInv
<1>4. CASE \/ \E p \in Sides : PageStep(p) \/ LeavePage(p)
           \/ PlaceCall \/ StartSession \/ OpenInvited \/ JoinSession
           \/ ConsoleStart \/ ConsoleInvited
  <2>1. TypeOK'
    BY <1>1, <1>2, <1>4, PageType
  <2>2. Once'
    BY <1>1, <1>4, PageOnce
  <2> QED
    BY <1>1, <1>4, <2>1, <2>2, PageWatches DEF IInv
<1>5. CASE \/ \E p \in Sides : End(p) \/ LoseConnection(p)
           \/ Cancel \/ Reject \/ Accept \/ AcceptReady \/ ServerRestarts
  <2>1. TypeOK' /\ Once'
    BY <1>1, <1>5, UserType, UserOnce
  <2> QED
    BY <1>1, <1>5, <2>1, UserWatches DEF IInv
<1> QED
  BY <1>3, <1>4, <1>5 DEF Next

LEMMA StutterInv == IInv /\ UNCHANGED vars => IInv'
<1> SUFFICES ASSUME IInv, UNCHANGED vars PROVE IInv'
  OBVIOUS
<1>1. TypeOK'
  BY DEF IInv, TypeOK, vars, server, page
<1>2. Once'
  BY DEF IInv, Once, vars, server, page
<1>3. Handlers' /\ RingWatched'
  BY DEF IInv, Handlers, RingWatched, vars, server, page
<1> QED
  BY <1>1, <1>2, <1>3 DEF IInv

-----------------------------------------------------------------------------
(* Both pages learn of the same end.  Without faults a call is announced    *)
(* only for a caller whose socket stays open, and accepted only by a callee *)
(* whose socket is open: every later status reaches both.                   *)

OtherDowns == {d \in Downs : d.status # "accepted"}

\* Nothing in the system says that the call was accepted.
NoAccept ==
  /\ row # "accepted"
  /\ \A s \in Slots : job[s].status # "accepted"
  /\ \A p \in Sides : shown[p] # "accepted"
  /\ up \in [Sides -> Seq(Ups \ {"accepted"})]
  /\ down \in [Sides -> Seq(OtherDowns)]

\* The callee has connected, and has left since or is connected still.
Met == stage["callee"] = "gone" \/ (stage["callee"] = "live" /\ sock["callee"] = "open")

\* What the page of a side will show once it has handled what is on its way.
Last(p) == IF down[p] = <<>> THEN shown[p] ELSE down[p][Len(down[p])].status
Agree == Last("caller") = "accepted" <=> Last("callee") = "accepted"

Reached == ~NoStart(up["caller"]) \/ announced \/ \E s \in Slots : Creates(job[s])

Links ==
  /\ kind["caller"] = "console" => kind["callee"] = "mobile"
  /\ faults = 0 =>
       /\ kind["caller"] = "console" => sock["caller"] = "open"
       /\ \A p \in Sides : kind[p] = "mobile" /\ stage[p] \in {"none", "placed"} => sock[p] = "off"
       /\ Reached => kind["caller"] = "console"
       /\ stage["callee"] # "none" => announced
       /\ ~announced => down["callee"] \in Seq({d \in Downs : d.event # "invite"})
       /\ accepting["callee"] => stage["callee"] # "none"

Talk == faults = 0 => (Met \/ NoAccept) /\ (stage["callee"] # "gone" => Agree)

LEMMA SentIn ==
  ASSUME NEW S, up \in [Sides -> Seq(S)], NEW p \in Sides, NEW m \in S
  PROVE  [up EXCEPT ![p] = Sent(p, m)] \in [Sides -> Seq(S)]
<1>1. up[p] \in Seq(S)
  OBVIOUS
<1>2. Append(up[p], m) \in Seq(S)
  BY <1>1, AppendQueue
<1>3. Sent(p, m) \in Seq(S)
  BY <1>1, <1>2 DEF Sent
<1> QED
  BY <1>3

LEMMA EmittedIn ==
  ASSUME NEW S, down \in [Sides -> Seq(S)], NEW m,
         \A p \in Sides : p \in DOMAIN m => m[p] \in S
  PROVE  Emitted(m) \in [Sides -> Seq(S)]
<1> SUFFICES ASSUME NEW p \in Sides
             PROVE  (IF sock[p] = "open" /\ p \in DOMAIN m THEN Append(down[p], m[p])
                     ELSE down[p]) \in Seq(S)
  BY DEF Emitted
<1>1. down[p] \in Seq(S)
  OBVIOUS
<1>2. p \in DOMAIN m => Append(down[p], m[p]) \in Seq(S)
  BY <1>1, AppendQueue
<1> QED
  BY <1>1, <1>2

LEMMA TailIn ==
  ASSUME NEW S, NEW f \in [Sides -> Seq(S)], NEW p \in Sides, f[p] # <<>>
  PROVE  [f EXCEPT ![p] = Tail(f[p])] \in [Sides -> Seq(S)] /\ Head(f[p]) \in S
<1>1. Tail(f[p]) \in Seq(S) /\ Head(f[p]) \in S
  BY TailQueue
<1> QED
  BY <1>1

LEMMA ServerNoAccept ==
  ASSUME TypeOK, TypeOK', NoAccept, NEW s \in Slots, ServerStep(s)
  PROVE  NoAccept'
<1>1. ASSUME NEW p \in Sides, RtcStartCall(s, p) \/ RtcStatusEvent(s, p) PROVE NoAccept'
  <2>1. /\ up[p] # <<>> /\ up' = [up EXCEPT ![p] = Tail(up[p])]
        /\ UNCHANGED <<row, down, shown>>
    BY <1>1 DEF RtcStartCall, RtcStatusEvent, TakeUp, page
  <2>2. up' \in [Sides -> Seq(Ups \ {"accepted"})] /\ Head(up[p]) # "accepted"
    BY <2>1, TailIn DEF NoAccept
  <2>3. \A t \in Slots : job'[t].status # "accepted"
    <3>1. \E j : j.status # "accepted" /\ job' = [job EXCEPT ![s] = j]
      <4>1. CASE RtcStartCall(s, p)
        BY <4>1 DEF RtcStartCall, Asked
      <4>2. CASE RtcStatusEvent(s, p)
        BY <2>2, <4>2 DEF RtcStatusEvent, Asked
      <4> QED
        BY <1>1, <4>1, <4>2
    <3> QED
      BY <3>1 DEF TypeOK, NoAccept
  <2> QED
    BY <2>1, <2>2, <2>3 DEF NoAccept
<1>2. CASE RingTimer(s) \/ AfterFetch(s) \/ AfterFailure(s)
  <2>1. \E j : j.status # "accepted" /\ job' = [job EXCEPT ![s] = j]
    BY <1>2 DEF RingTimer, AfterFetch, AfterFailure, Asked, Idle
  <2>2. UNCHANGED <<row, up, down, shown>>
    BY <1>2 DEF RingTimer, AfterFetch, AfterFailure, page
  <2> QED
    BY <2>1, <2>2 DEF NoAccept, TypeOK
<1>3. CASE ApiAnswers(s)
  <2>1. /\ UNCHANGED <<up, down, shown>>
        /\ row' = row \/ row' = job[s].status
    BY <1>3 DEF ApiAnswers, page
  <2>2. \A t \in Slots : job'[t].status = job[t].status \/ job'[t].status = row
    BY <1>3 DEF ApiAnswers, TypeOK
  <2> QED
    BY <2>1, <2>2 DEF NoAccept
<1>4. ASSUME NEW m, \A p \in Sides : p \in DOMAIN m => m[p] \in OtherDowns,
             down' = Emitted(m), job' = [job EXCEPT ![s] = Idle], UNCHANGED <<row, up, shown>>
      PROVE  NoAccept'
  <2>1. down' \in [Sides -> Seq(OtherDowns)]
    BY <1>4, EmittedIn DEF NoAccept
  <2>2. \A t \in Slots : job'[t].status # "accepted"
    BY <1>4 DEF Idle, NoAccept, TypeOK
  <2> QED
    BY <1>4, <2>1, <2>2 DEF NoAccept
<1>5. ASSUME NEW status \in Status \ {"accepted"}, Announce(s, status),
             UNCHANGED <<row, up, shown>>
      PROVE  NoAccept'
  <2> DEFINE m == [caller |-> [event |-> "created", status |-> status],
                   callee |-> [event |-> "invite", status |-> status]]
  <2>1. \A p \in Sides : p \in DOMAIN m => m[p] \in OtherDowns
    BY DEF OtherDowns, Downs, Sides
  <2>2. down' = Emitted(m) /\ job' = [job EXCEPT ![s] = Idle]
    BY <1>5 DEF Announce
  <2> HIDE DEF m
  <2> QED
    BY <1>4, <1>5, <2>1, <2>2
<1>6. CASE AfterCreate(s) \/ AfterMark(s)
  <2>1. UNCHANGED <<row, up, shown>> /\ {"initiated", "ringing"} \subseteq Status \ {"accepted"}
    BY <1>6 DEF AfterCreate, AfterMark, page, Status, Waiting
  <2>2. CASE job' = [job EXCEPT ![s] = Asked("mark", "ringing")] /\ UNCHANGED down
    BY <2>1, <2>2 DEF Asked, NoAccept, TypeOK
  <2> QED
    BY <1>5, <1>6, <2>1, <2>2 DEF AfterCreate, AfterMark
<1>7. CASE AfterStatus(s)
  <2> DEFINE m == [p \in Sides |-> [event |-> "status", status |-> job[s].status]]
  <2>1. \A p \in Sides : p \in DOMAIN m => m[p] \in OtherDowns
    BY JobFields DEF OtherDowns, Downs, NoAccept
  <2>2. /\ down' = Emitted(m) /\ job' = [job EXCEPT ![s] = Idle]
        /\ UNCHANGED <<row, up, shown>>
    BY <1>7 DEF AfterStatus, page
  <2> HIDE DEF m
  <2> QED
    BY <1>4, <2>1, <2>2
<1> QED
  BY <1>1, <1>2, <1>3, <1>6, <1>7 DEF ServerStep

LEMMA PageNoAccept ==
  ASSUME TypeOK, TypeOK', NoAccept,
         \/ \E p \in Sides : PageStep(p) \/ LeavePage(p)
         \/ PlaceCall \/ StartSession \/ OpenInvited \/ JoinSession
         \/ ConsoleStart \/ ConsoleInvited
  PROVE  NoAccept'
<1> USE DEF server, page
<1>0. "callee" \in Sides /\ "caller" \in Sides
  BY DEF Sides
<1>1. ASSUME NEW p \in Sides, SocketOpens(p) PROVE NoAccept'
  BY <1>1 DEF SocketOpens, NoAccept
<1>2. ASSUME NEW p \in Sides, down[p] # <<>>
      PROVE  /\ [down EXCEPT ![p] = Tail(down[p])] \in [Sides -> Seq(OtherDowns)]
             /\ Head(down[p]).status # "accepted"
  <2>1. down \in [Sides -> Seq(OtherDowns)]
    BY DEF NoAccept
  <2>2. /\ [down EXCEPT ![p] = Tail(down[p])] \in [Sides -> Seq(OtherDowns)]
        /\ Head(down[p]) \in OtherDowns
    BY <1>2, <2>1, TailIn
  <2> QED
    BY <2>2 DEF OtherDowns
<1>3. ASSUME NEW p \in Sides, NEW status, status # "accepted",
             shown' = [shown EXCEPT ![p] = status]
      PROVE  \A q \in Sides : shown'[q] # "accepted"
  BY <1>3 DEF NoAccept, TypeOK
<1>4. ASSUME NEW p \in Sides, PageEvent(p) PROVE NoAccept'
  BY <1>2, <1>3, <1>4 DEF PageEvent, Shows, NoAccept
<1>5. ASSUME NEW p \in Sides, PageTimer(p) PROVE NoAccept'
  <2>1. "timeout" \in Ups \ {"accepted"}
    BY DEF Ups, Final
  <2>2. up' \in [Sides -> Seq(Ups \ {"accepted"})]
    BY <1>5, <2>1, SentIn DEF PageTimer, NoAccept
  <2> QED
    BY <1>5, <2>2 DEF PageTimer, NoAccept
<1>6. ASSUME NEW p \in Sides, LeavePage(p) PROVE NoAccept'
  <2>1. down' = down \/ down' = [down EXCEPT ![p] = <<>>]
    BY <1>6 DEF LeavePage
  <2>2. <<>> \in Seq(OtherDowns)
    BY EmptyStart
  <2>3. down' \in [Sides -> Seq(OtherDowns)]
    BY <2>1, <2>2 DEF NoAccept
  <2> QED
    BY <1>6, <2>3 DEF LeavePage, NoAccept
<1>7. CASE PlaceCall
  BY <1>7 DEF PlaceCall, NoAccept
<1>8. CASE StartSession \/ ConsoleStart
  <2>1. "start" \in Ups \ {"accepted"}
    BY DEF Ups
  <2>2. up' \in [Sides -> Seq(Ups \ {"accepted"})]
    <3>1. up' = [up EXCEPT !["caller"] = Sent("caller", "start")]
      BY <1>8 DEF StartSession, ConsoleStart
    <3> QED
      BY <1>0, <2>1, <3>1, SentIn DEF NoAccept
  <2>3. \A q \in Sides : shown'[q] # "accepted"
    BY <1>0, <1>3, <1>8 DEF StartSession, ConsoleStart, Shows
  <2> QED
    BY <1>8, <2>2, <2>3 DEF StartSession, ConsoleStart, NoAccept
<1>9. CASE OpenInvited
  <2>1. \A q \in Sides : shown'[q] # "accepted"
    BY <1>0, <1>3, <1>9 DEF OpenInvited, NoAccept
  <2> QED
    BY <1>9, <2>1 DEF OpenInvited, NoAccept
<1>10. CASE JoinSession
  <2>1. \A q \in Sides : shown'[q] # "accepted"
    BY <1>0, <1>3, <1>10 DEF JoinSession, Shows, NoAccept
  <2> QED
    BY <1>10, <2>1 DEF JoinSession, NoAccept
<1>11. CASE ConsoleInvited
  <2>1. \A q \in Sides : shown'[q] # "accepted"
    BY <1>0, <1>2, <1>3, <1>11 DEF ConsoleInvited, Shows, NoAccept
  <2>2. down' \in [Sides -> Seq(OtherDowns)]
    BY <1>0, <1>2, <1>11 DEF ConsoleInvited
  <2>3. UNCHANGED <<row, job, up>>
    BY <1>11 DEF ConsoleInvited
  <2> QED
    BY <2>1, <2>2, <2>3 DEF NoAccept
<1> QED
  BY <1>1, <1>4, <1>5, <1>6, <1>7, <1>8, <1>9, <1>10, <1>11 DEF PageStep

LEMMA UserNoAccept ==
  ASSUME TypeOK, NoAccept, Cancel \/ Reject \/ Accept \/ \E p \in Sides : End(p)
  PROVE  NoAccept'
<1> USE DEF server, page
<1>1. ASSUME NEW p \in Sides, NEW m \in Ups \ {"accepted"}, Tap(p, m) PROVE NoAccept'
  <2>1. up' \in [Sides -> Seq(Ups \ {"accepted"})]
    BY <1>1, SentIn DEF Tap, NoAccept
  <2> QED
    BY <1>1, <2>1 DEF Tap, NoAccept
<1>2. CASE Cancel \/ Reject \/ \E p \in Sides : End(p)
  BY <1>1, <1>2 DEF Cancel, Reject, End, Ups, Final, Sides
<1>3. CASE Accept
  BY <1>3 DEF Accept, NoAccept
<1> QED
  BY <1>2, <1>3

LEMMA ReachedKept ==
  ASSUME NoNewStart, announced' => announced \/ \E s \in Slots : Creates(job[s]),
         \A s \in Slots : Creates(job'[s]) => Reached
  PROVE  Reached' => Reached
  BY DEF Reached, NoNewStart

Uninvited == {d \in Downs : d.event # "invite"}

LEMMA ServerLinks ==
  ASSUME TypeOK, Once, Links, NEW s \in Slots, ServerStep(s) \/ ApiFails(s)
  PROVE  Links'
<1>1. /\ UNCHANGED <<kind, sock, stage, accepting>>
      /\ announced => announced'
      /\ faults' = 0 => faults = 0
  BY ConstantsOK DEF ServerStep, RtcStartCall, RtcStatusEvent, TakeUp, RingTimer, ApiAnswers,
     ApiFails, AfterCreate, AfterMark, Announce, AfterStatus, AfterFetch, AfterFailure, page,
     TypeOK
<1>2. Reached' => Reached
  <2>1. ASSUME NEW p \in Sides, RtcStartCall(s, p) PROVE Reached' => Reached
    BY <2>1, TakenStart DEF RtcStartCall, Reached
  <2>2. ASSUME NEW p \in Sides, RtcStatusEvent(s, p) PROVE Reached' => Reached
    <3>1. NoNewStart /\ UNCHANGED announced
      BY <2>2, TakenStart DEF RtcStatusEvent, TakeUp
    <3>2. \A t \in Slots : Creates(job'[t]) => Creates(job[t])
      BY <2>2 DEF RtcStatusEvent, Asked, TypeOK, Creates
    <3> QED
      BY <3>1, <3>2, ReachedKept DEF Reached
  <2>3. CASE RingTimer(s) \/ ApiAnswers(s) \/ ApiFails(s) \/ AfterStatus(s) \/ AfterFetch(s)
             \/ AfterFailure(s)
    <3>1. UNCHANGED <<up, announced>>
      BY <2>3 DEF RingTimer, ApiAnswers, ApiFails, AfterStatus, AfterFetch, AfterFailure
    <3>2. \E j : /\ job' = [job EXCEPT ![s] = j]
                 /\ j.op \in {job[s].op, "fetch", "status", "idle"}
      BY <2>3 DEF RingTimer, ApiAnswers, ApiFails, AfterStatus, AfterFetch, AfterFailure,
                  Asked, Idle
    <3>3. \A t \in Slots : Creates(job'[t]) => Creates(job[t])
      BY <3>2 DEF TypeOK, Creates
    <3> QED
      BY <3>1, <3>3, ReachedKept, QueuesAlone DEF Reached
  <2>4. CASE AfterCreate(s) \/ AfterMark(s)
    BY <2>4 DEF AfterCreate, AfterMark, Creates, Reached
  <2> QED
    BY <2>1, <2>2, <2>3, <2>4 DEF ServerStep
<1>3. ASSUME ~announced', down["callee"] \in Seq(Uninvited)
      PROVE  down'["callee"] \in Seq(Uninvited)
  <2>1. CASE UNCHANGED down
    BY <1>3, <2>1
  <2>2. CASE AfterStatus(s)
    <3>1. [event |-> "status", status |-> job[s].status] \in Uninvited
      BY JobFields DEF Uninvited, Downs
    <3>2. down'["callee"] \in {down["callee"],
                               Append(down["callee"], [event |-> "status", status |-> job[s].status])}
      BY <2>2 DEF AfterStatus, Emitted, Sides
    <3> QED
      BY <1>3, <3>1, <3>2, AppendQueue
  <2> QED
    BY <1>3, <2>1, <2>2 DEF ServerStep, RtcStartCall, RtcStatusEvent, TakeUp, RingTimer,
       ApiAnswers, ApiFails, AfterCreate, AfterMark, Announce, AfterFetch, AfterFailure
<1>4. faults' = 0 /\ ~announced' => down'["callee"] \in Seq(Uninvited)
  <2>1. faults = 0 /\ ~announced => down["callee"] \in Seq(Uninvited)
    BY DEF Links, Uninvited
  <2> SUFFICES ASSUME faults' = 0, ~announced' PROVE down'["callee"] \in Seq(Uninvited)
    OBVIOUS
  <2>2. faults = 0 /\ ~announced
    BY <1>1
  <2>3. down["callee"] \in Seq(Uninvited)
    BY <2>1, <2>2
  <2> QED
    BY <1>3, <2>3
<1> QED
  BY <1>1, <1>2, <1>4 DEF Links, Uninvited

LEMMA PageLinks ==
  ASSUME TypeOK, Once, Links,
         \/ \E p \in Sides : PageStep(p) \/ LeavePage(p)
         \/ PlaceCall \/ StartSession \/ OpenInvited \/ JoinSession
         \/ ConsoleStart \/ ConsoleInvited
  PROVE  Links'
<1> USE DEF server, page
<1>0. "callee" \in Sides /\ "caller" \in Sides /\ "timeout" \in Ups /\ "timeout" # "start"
  BY DEF Sides, Ups, Final
<1>1. UNCHANGED <<kind, announced, job, accepting, faults>>
  BY DEF PageStep, SocketOpens, PageEvent, PageTimer, LeavePage, PlaceCall, StartSession,
         OpenInvited, JoinSession, ConsoleStart, ConsoleInvited
<1>2. ASSUME UNCHANGED up PROVE Reached' => Reached
  BY <1>1, <1>2 DEF Reached
<1>3. ASSUME NEW p \in Sides, SocketOpens(p) PROVE Links'
  <2>1. sock[p] = "opening" /\ sock' = [sock EXCEPT ![p] = "open"] /\ UNCHANGED <<up, stage, down>>
    BY <1>3 DEF SocketOpens
  <2> QED
    BY <1>0, <1>1, <1>2, <2>1 DEF Links, TypeOK
<1>4. ASSUME NEW p \in Sides, PageEvent(p) PROVE Links'
  <2>1. /\ stage[p] = "live" /\ UNCHANGED <<up, sock, stage>>
        /\ down' = [down EXCEPT ![p] = Tail(down[p])]
    BY <1>4 DEF PageEvent
  <2>2. faults = 0 /\ ~announced => down'["callee"] = down["callee"]
    BY <1>0, <2>1 DEF Links, TypeOK
  <2> QED
    BY <1>1, <1>2, <2>1, <2>2 DEF Links
<1>5. ASSUME NEW p \in Sides, PageTimer(p) PROVE Links'
  <2>1. UNCHANGED <<down, sock, stage>> /\ NoNewStart
    BY <1>0, <1>5, SentStart DEF PageTimer
  <2>2. Reached' => Reached
    BY <1>1, <2>1, ReachedKept DEF Reached
  <2> QED
    BY <1>1, <2>1, <2>2 DEF Links
<1>6. ASSUME NEW p \in Sides, LeavePage(p) PROVE Links'
  <2>1. UNCHANGED up /\ kind[p] = "mobile"
    BY <1>6 DEF LeavePage
  <2>2. CASE UNCHANGED <<sock, stage, down>>
    BY <1>1, <1>2, <2>1, <2>2 DEF Links
  <2>3. CASE /\ stage[p] = "live" /\ sock' = [sock EXCEPT ![p] = "off"]
             /\ stage' = [stage EXCEPT ![p] = "gone"]
             /\ down' = [down EXCEPT ![p] = <<>>]
    <3>1. down'["callee"] \in {down["callee"], <<>>}
      BY <1>0, <2>3 DEF TypeOK
    <3>2. <<>> \in Seq(Uninvited)
      BY EmptyStart
    <3>3. stage'["callee"] # "none" <=> stage["callee"] # "none"
      BY <1>0, <2>3 DEF TypeOK
    <3>4. \A q \in Sides : \/ stage'[q] = stage[q] /\ sock'[q] = sock[q]
                           \/ stage'[q] = "gone" /\ kind[q] = "mobile"
      BY <2>1, <2>3 DEF TypeOK
    <3> QED
      BY <1>0, <1>1, <1>2, <2>1, <3>1, <3>2, <3>3, <3>4 DEF Links, Uninvited
  <2> QED
    BY <1>6, <2>2, <2>3 DEF LeavePage
<1>7. CASE PlaceCall
  <2>1. /\ UNCHANGED <<up, down, sock>> /\ stage' = [stage EXCEPT !["caller"] = "placed"]
        /\ stage["caller"] = "none"
    BY <1>7 DEF PlaceCall
  <2> QED
    BY <1>0, <1>1, <1>2, <2>1 DEF Links, TypeOK
<1>8. CASE StartSession
  <2>1. /\ UNCHANGED down /\ stage' = [stage EXCEPT !["caller"] = "live"]
        /\ sock' = [sock EXCEPT !["caller"] = "opening"]
        /\ kind["caller"] = "mobile" /\ stage["caller"] = "placed"
    BY <1>8 DEF StartSession
  <2>2. faults = 0 => up'["caller"] = up["caller"]
    BY <1>0, <1>8, <2>1 DEF StartSession, Sent, Links, TypeOK
  <2>3. faults = 0 => (Reached' => Reached)
    BY <1>1, <2>2 DEF Reached
  <2> QED
    BY <1>0, <1>1, <2>1, <2>3 DEF Links, TypeOK
<1>9. CASE OpenInvited
  <2>1. /\ UNCHANGED <<up, down, sock>> /\ stage' = [stage EXCEPT !["callee"] = "placed"]
        /\ stage["callee"] = "none" /\ announced /\ kind["callee"] = "mobile"
    BY <1>9 DEF OpenInvited
  <2> QED
    BY <1>0, <1>1, <1>2, <2>1 DEF Links, TypeOK
<1>10. CASE JoinSession
  <2>1. /\ UNCHANGED <<up, down>> /\ stage' = [stage EXCEPT !["callee"] = "live"]
        /\ sock' = [sock EXCEPT !["callee"] = "opening"]
        /\ stage["callee"] = "placed" /\ kind["callee"] = "mobile"
    BY <1>10 DEF JoinSession
  <2> QED
    BY <1>0, <1>1, <1>2, <2>1 DEF Links, TypeOK
<1>11. CASE ConsoleStart
  <2>1. /\ UNCHANGED <<down, sock>> /\ stage' = [stage EXCEPT !["caller"] = "live"]
        /\ kind["caller"] = "console"
    BY <1>11 DEF ConsoleStart
  <2> QED
    BY <1>0, <1>1, <2>1 DEF Links, TypeOK
<1>12. CASE ConsoleInvited
  <2>1. /\ UNCHANGED <<up, sock>> /\ down["callee"] # <<>>
        /\ down' = [down EXCEPT !["callee"] = Tail(down["callee"])]
        /\ kind["callee"] = "console"
    BY <1>12 DEF ConsoleInvited
  <2>2. ASSUME down["callee"] \in Seq(Uninvited)
        PROVE  down'["callee"] \in Seq(Uninvited) /\ Head(down["callee"]).event # "invite"
    <3>1. Tail(down["callee"]) \in Seq(Uninvited) /\ Head(down["callee"]) \in Uninvited
      BY <2>1, <2>2, TailQueue
    <3> QED
      BY <1>0, <2>1, <3>1 DEF TypeOK, Uninvited
  <2>3. \/ UNCHANGED stage
        \/ /\ stage' = [stage EXCEPT !["callee"] = "live"]
           /\ Head(down["callee"]).event = "invite"
    BY <1>12 DEF ConsoleInvited
  <2>4. faults = 0 /\ stage'["callee"] # "none" => announced
    BY <1>0, <2>2, <2>3 DEF Links, TypeOK, Uninvited
  <2>5. stage'["callee"] = "none" => stage["callee"] = "none"
    BY <1>0, <2>3 DEF TypeOK
  <2>6. \A q \in Sides : kind[q] = "mobile" => stage'[q] = stage[q]
    BY <2>1, <2>3 DEF TypeOK
  <2> QED
    BY <1>1, <1>2, <2>1, <2>2, <2>4, <2>5, <2>6 DEF Links, Uninvited
<1> QED
  BY <1>3, <1>4, <1>5, <1>6, <1>7, <1>8, <1>9, <1>10, <1>11, <1>12 DEF PageStep

LEMMA UserLinks ==
  ASSUME TypeOK, Once, Links,
         \/ \E p \in Sides : End(p) \/ LoseConnection(p)
         \/ Cancel \/ Reject \/ Accept \/ AcceptReady \/ ServerRestarts
  PROVE  Links'
<1> USE DEF server, page
<1>1. ASSUME NEW p \in Sides, NEW m \in Ups \ {"start"},
             up' = [up EXCEPT ![p] = Sent(p, m)],
             UNCHANGED <<kind, announced, job, down, sock, stage, faults>>,
             accepting'["callee"] => accepting["callee"]
      PROVE  Links'
  <2>1. NoNewStart
    BY <1>1, SentStart
  <2>2. Reached' => Reached
    BY <1>1, <2>1, ReachedKept DEF Reached
  <2> QED
    BY <1>1, <2>2 DEF Links
<1>2. CASE Cancel \/ Reject \/ \E p \in Sides : End(p)
  <2>1. PICK p \in Sides, m \in Ups \ {"start"} : Tap(p, m)
    BY <1>2 DEF Cancel, Reject, End, Ups, Final, Sides
  <2> QED
    BY <1>1, <2>1 DEF Tap
<1>3. CASE Accept
  BY <1>3 DEF Accept, CanTap, Links, Reached
<1>4. CASE AcceptReady
  <2>1. "callee" \in Sides /\ "accepted" \in Ups \ {"start"}
    BY DEF Sides, Ups
  <2>2. accepting'["callee"] => accepting["callee"]
    BY <1>4 DEF AcceptReady
  <2> QED
    BY <1>1, <1>4, <2>1, <2>2 DEF AcceptReady
<1>5. CASE ServerRestarts \/ \E p \in Sides : LoseConnection(p)
  <2>1. faults' # 0 /\ UNCHANGED kind
    BY <1>5 DEF ServerRestarts, LoseConnection, TypeOK
  <2> QED
    BY <2>1 DEF Links
<1> QED
  BY <1>2, <1>3, <1>4, <1>5

-----------------------------------------------------------------------------
LEMMA QuietAgree == TypeOK /\ NoAccept => Agree
<1> SUFFICES ASSUME TypeOK, NoAccept, NEW p \in Sides PROVE Last(p) # "accepted"
  BY DEF Agree, Sides
<1>1. CASE down[p] = <<>>
  BY <1>1 DEF Last, NoAccept
<1>2. CASE down[p] # <<>>
  <2>1. down[p] \in Seq(OtherDowns)
    BY DEF NoAccept
  <2>2. Len(down[p]) \in 1 .. Len(down[p])
    BY <1>2, <2>1, EmptySeq, LenProperties
  <2>3. down[p][Len(down[p])] \in OtherDowns
    BY <2>1, <2>2, ElementOfSeq
  <2> QED
    BY <1>2, <2>3 DEF Last, OtherDowns
<1> QED
  BY <1>1, <1>2

LEMMA QuietAgreeNext == (TypeOK /\ NoAccept => Agree)'
  BY QuietAgree, PTL

LEMMA AgreeKept ==
  ASSUME Agree, \A p \in Sides : Last(p)' = Last(p)
  PROVE  Agree'
  BY DEF Agree, Sides

LEMMA EventShown ==
  ASSUME TypeOK, NEW p \in Sides, PageEvent(p)
  PROVE  \A q \in Sides : Last(q)' = Last(q)
<1>1. /\ down[p] \in Seq(Downs) /\ down[p] # <<>>
      /\ down' = [down EXCEPT ![p] = Tail(down[p])]
      /\ shown' = [shown EXCEPT ![p] = Head(down[p]).status]
  BY DEF PageEvent, Shows, TypeOK
<1>2. /\ down'[p] = Tail(down[p]) /\ shown'[p] = Head(down[p]).status
      /\ \A q \in Sides : q # p => down'[q] = down[q] /\ shown'[q] = shown[q]
  BY <1>1 DEF TypeOK
<1>3. Last(p)' = Last(p)
  <2>1. /\ Len(Tail(down[p])) = Len(down[p]) - 1 /\ Len(down[p]) \in Nat \ {0}
        /\ \A i \in 1 .. Len(Tail(down[p])) : Tail(down[p])[i] = down[p][i + 1]
        /\ Head(down[p]) = down[p][1] /\ Tail(down[p]) \in Seq(Downs)
    BY <1>1, HeadTailProperties, LenProperties, EmptySeq
  <2>2. Tail(down[p]) = <<>> <=> Len(down[p]) = 1
    <3>1. Tail(down[p]) = <<>> <=> Len(Tail(down[p])) = 0
      BY <2>1, EmptySeq
    <3> QED
      BY <2>1, <3>1
  <2>3. CASE Len(down[p]) = 1
    BY <1>1, <1>2, <2>1, <2>2, <2>3 DEF Last
  <2>4. CASE Len(down[p]) # 1
    <3>1. Tail(down[p])[Len(Tail(down[p]))] = down[p][Len(down[p])]
      <4> DEFINE n == Len(Tail(down[p]))
      <4>1. n \in 1 .. n /\ n + 1 = Len(down[p])
        <5>1. ASSUME NEW k \in Nat \ {0}, NEW l, k # 1, l = k - 1
              PROVE  l \in 1 .. l /\ l + 1 = k
          BY <5>1
        <5> HIDE DEF n
        <5>2. n = Len(down[p]) - 1
          BY <2>1 DEF n
        <5> QED
          BY <2>1, <2>4, <5>1, <5>2
      <4>2. Tail(down[p])[n] = down[p][n + 1]
        BY <2>1, <4>1
      <4> QED
        BY <4>1, <4>2
    <3> QED
      BY <1>1, <1>2, <2>2, <2>4, <3>1 DEF Last
  <2> QED
    BY <2>3, <2>4
<1> QED
  BY <1>2, <1>3 DEF Last

LEMMA EmittedLast ==
  ASSUME TypeOK, NEW m, DOMAIN m = Sides, \A p \in Sides : m[p] \in Downs /\ sock[p] = "open",
         m["caller"].status = m["callee"].status, down' = Emitted(m)
  PROVE  Agree'
<1>1. ASSUME NEW p \in Sides PROVE Last(p)' = m[p].status
  <2>1. down'[p] = Append(down[p], m[p]) /\ down[p] \in Seq(Downs)
    BY DEF Emitted, TypeOK
  <2>2. /\ Append(down[p], m[p]) # <<>>
        /\ Append(down[p], m[p])[Len(Append(down[p], m[p]))] = m[p]
    BY <2>1, AppendProperties
  <2> QED
    BY <2>1, <2>2 DEF Last
<1> QED
  BY <1>1 DEF Agree, Sides

\* Once accept was possible, the caller is a console, the callee a mobile page.
LEMMA MetFacts ==
  ASSUME TypeOK, Once, Links, faults = 0, Met
  PROVE  /\ announced /\ kind["caller"] = "console" /\ kind["callee"] = "mobile"
         /\ sock["caller"] = "open" /\ stage["caller"] \notin {"none", "placed"}
         /\ stage["callee"] \in {"live", "gone"}
         /\ \A s \in Slots : ~Creates(job[s])
  BY DEF Met, Links, Reached, Once

LEMMA ServerTalk ==
  ASSUME TypeOK, TypeOK', Once, Links, Talk, faults = 0, NEW s \in Slots, ServerStep(s)
  PROVE  Talk'
<1>1. UNCHANGED <<sock, stage, shown>>
  BY DEF ServerStep, RtcStartCall, RtcStatusEvent, TakeUp, RingTimer, ApiAnswers,
     AfterCreate, AfterMark, AfterStatus, AfterFetch, AfterFailure, page
<1>2. CASE NoAccept
  BY <1>2, ServerNoAccept, QuietAgreeNext DEF Talk
<1>3. CASE Met
  <2>1. Met'
    BY <1>1, <1>3 DEF Met
  <2>2. ASSUME stage["callee"] # "gone" PROVE Agree'
    <3>1. Agree /\ sock["callee"] = "open" /\ sock["caller"] = "open"
      BY <1>3, <2>2, MetFacts DEF Talk, Met
    <3>2. CASE UNCHANGED down
      BY <1>1, <3>1, <3>2 DEF Agree, Last
    <3>3. CASE AfterStatus(s)
      <4> DEFINE m == [p \in Sides |-> [event |-> "status", status |-> job[s].status]]
      <4>1. down' = Emitted(m)
        BY <3>3 DEF AfterStatus
      <4>2. DOMAIN m = Sides /\ (\A p \in Sides : m[p] \in Downs)
        BY JobFields DEF Downs
      <4>3. m["caller"].status = m["callee"].status
        BY DEF Sides
      <4>4. \A p \in Sides : sock[p] = "open"
        BY <3>1 DEF Sides
      <4> HIDE DEF m
      <4> QED
        BY <4>1, <4>2, <4>3, <4>4, EmittedLast
    <3>4. CASE AfterCreate(s) \/ AfterMark(s)
      <4>1. Creates(job[s])
        BY <3>4 DEF AfterCreate, AfterMark, Creates
      <4> QED
        BY <1>3, <4>1, MetFacts
    <3> QED
      BY <3>2, <3>3, <3>4 DEF ServerStep, RtcStartCall, RtcStatusEvent, TakeUp, RingTimer,
         ApiAnswers, AfterFetch, AfterFailure
  <2> QED
    BY <1>1, <2>1, <2>2 DEF Talk
<1> QED
  BY <1>2, <1>3 DEF Talk

LEMMA PageTalk ==
  ASSUME TypeOK, TypeOK', Once, Links, Talk, faults = 0,
         \/ \E p \in Sides : PageStep(p) \/ LeavePage(p)
         \/ PlaceCall \/ StartSession \/ OpenInvited \/ JoinSession
         \/ ConsoleStart \/ ConsoleInvited
  PROVE  Talk'
<1>0. "callee" \in Sides /\ "caller" \in Sides
  BY DEF Sides
<1>1. CASE NoAccept
  BY <1>1, PageNoAccept, QuietAgreeNext DEF Talk
<1>2. CASE Met
  <2>0. /\ stage["caller"] \notin {"none", "placed"} /\ stage["callee"] \in {"live", "gone"}
        /\ kind["caller"] = "console" /\ kind["callee"] = "mobile"
    BY <1>2, MetFacts
  <2>1. ASSUME NEW p \in Sides, SocketOpens(p) PROVE Talk'
    <3>1. Met' /\ UNCHANGED stage
      BY <1>0, <1>2, <2>1 DEF Met, SocketOpens, TypeOK, page
    <3>2. Agree => Agree'
      BY <2>1 DEF SocketOpens, Agree, Last, page
    <3> QED
      BY <3>1, <3>2 DEF Talk
  <2>2. ASSUME NEW p \in Sides, PageEvent(p) PROVE Talk'
    <3>1. Met' /\ UNCHANGED stage
      BY <1>2, <2>2 DEF Met, PageEvent
    <3>2. Agree => Agree'
      BY <2>2, EventShown, AgreeKept
    <3> QED
      BY <3>1, <3>2 DEF Talk
  <2>3. ASSUME NEW p \in Sides, PageTimer(p) PROVE Talk'
    <3>1. Met' /\ UNCHANGED stage
      BY <1>2, <2>3 DEF Met, PageTimer
    <3>2. Agree => Agree'
      BY <2>3 DEF PageTimer, Agree, Last
    <3> QED
      BY <3>1, <3>2 DEF Talk
  <2>4. ASSUME NEW p \in Sides, LeavePage(p) PROVE Talk'
    <3>1. p = "callee"
      BY <2>0, <2>4 DEF LeavePage, Sides
    <3>2. CASE stage["callee"] = "live"
      <4>1. stage'["callee"] = "gone"
        BY <1>0, <2>4, <3>1, <3>2 DEF LeavePage, TypeOK
      <4> QED
        BY <4>1 DEF Talk, Met
    <3>3. CASE stage["callee"] = "gone"
      <4>1. stage' = stage
        BY <2>4, <3>1, <3>3 DEF LeavePage
      <4> QED
        BY <3>3, <4>1 DEF Talk, Met
    <3> QED
      BY <2>0, <3>2, <3>3
  <2>5. ~(PlaceCall \/ StartSession \/ OpenInvited \/ JoinSession \/ ConsoleStart
          \/ ConsoleInvited)
    BY <2>0 DEF PlaceCall, StartSession, OpenInvited, JoinSession, ConsoleStart, ConsoleInvited
  <2> QED
    BY <2>1, <2>2, <2>3, <2>4, <2>5 DEF PageStep
<1> QED
  BY <1>1, <1>2 DEF Talk

LEMMA UserTalk ==
  ASSUME TypeOK, TypeOK', Once, Links, Talk, faults = 0,
         Cancel \/ Reject \/ Accept \/ AcceptReady \/ \E p \in Sides : End(p)
  PROVE  Talk'
<1>1. UNCHANGED <<row, job, down, sock, stage, shown>>
  BY DEF Cancel, Reject, Accept, AcceptReady, End, Tap, server, page
<1>2. Met' = Met /\ Agree' = Agree
  BY <1>1 DEF Met, Agree, Last
<1>3. CASE Met
  BY <1>1, <1>2, <1>3 DEF Talk
<1>4. CASE NoAccept /\ ~AcceptReady
  BY <1>1, <1>2, <1>4, UserNoAccept DEF Talk
<1>5. CASE NoAccept /\ AcceptReady /\ ~Met
  <2>1. announced /\ kind["callee"] = "mobile"
    BY <1>5 DEF AcceptReady, Links, Reached
  <2>2. sock["callee"] # "open"
    BY <1>5, <2>1 DEF Met, Links, TypeOK, Sides
  <2>3. up' = up
    BY <1>5, <2>1, <2>2 DEF AcceptReady, Sent, TypeOK, Sides
  <2>4. NoAccept'
    BY <1>1, <1>5, <2>3 DEF NoAccept
  <2> QED
    BY <1>1, <1>2, <2>4 DEF Talk
<1> QED
  BY <1>3, <1>4, <1>5 DEF Talk

LEMMA InitTalk == Init => Links /\ Talk
<1> SUFFICES ASSUME Init PROVE Links /\ Talk
  OBVIOUS
<1>1. \A S : <<>> \in Seq(S)
  BY EmptyStart
<1>2. up["caller"] = <<>> /\ down["callee"] = <<>> /\ \A s \in Slots : ~Creates(job[s])
  BY DEF Init, Sides, Creates, Idle
<1>3. ~Reached
  BY <1>2, EmptyStart DEF Init, Reached
<1>4. Links
  <2>1. kind["caller"] = "console" => sock["caller"] = "open"
    BY DEF Init, Sides
  <2>2. \A p \in Sides : kind[p] = "mobile" => sock[p] = "off"
    BY DEF Init
  <2>3. stage["callee"] = "none" /\ accepting["callee"] = FALSE
    BY DEF Init, Sides
  <2>4. kind["caller"] = "console" => kind["callee"] = "mobile"
    BY DEF Init
  <2>5. down["callee"] \in Seq({d \in Downs : d.event # "invite"})
    BY <1>1, <1>2
  <2> QED
    BY <1>3, <2>1, <2>2, <2>3, <2>4, <2>5 DEF Links
<1>5. NoAccept
  <2>1. up \in [Sides -> Seq(Ups \ {"accepted"})] /\ down \in [Sides -> Seq(OtherDowns)]
    BY <1>1 DEF Init
  <2> QED
    BY <2>1 DEF Init, NoAccept, Idle
<1>6. Agree
  BY DEF Init, Agree, Last, Sides
<1> QED
  BY <1>4, <1>5, <1>6 DEF Talk

LEMMA NextTalk == IInv /\ IInv' /\ Links /\ Talk /\ Next => Links' /\ Talk'
<1> SUFFICES ASSUME IInv, IInv', Links, Talk, Next PROVE Links' /\ Talk'
  OBVIOUS
<1>1. TypeOK /\ TypeOK' /\ Once
  BY DEF IInv
<1>2. Links'
  BY <1>1, ServerLinks, PageLinks, UserLinks DEF Next
<1>3. CASE faults' # 0
  BY <1>2, <1>3 DEF Talk
<1>4. CASE faults' = 0
  <2>1. /\ faults = 0 /\ ~ServerRestarts
        /\ \A s \in Slots : ~ApiFails(s)
        /\ \A p \in Sides : ~LoseConnection(p)
    <3>1. faults' = faults \/ faults' = faults + 1
      BY <1>2, ConstantsOK DEF Next, ServerStep, RtcStartCall, RtcStatusEvent, TakeUp, RingTimer,
         ApiAnswers, ApiFails, AfterCreate, AfterMark, AfterStatus, AfterFetch, AfterFailure,
         PageStep, SocketOpens, PageEvent, PageTimer, LeavePage, PlaceCall, StartSession,
         OpenInvited, JoinSession, ConsoleStart, ConsoleInvited, End, Cancel, Reject, Tap,
         Accept, AcceptReady, LoseConnection, ServerRestarts
    <3>2. faults \in Nat
      BY <1>1, ConstantsOK DEF TypeOK
    <3> QED
      BY <1>4, <3>1, <3>2 DEF ApiFails, LoseConnection, ServerRestarts
  <2> QED
    BY <1>1, <1>2, <2>1, ServerTalk, PageTalk, UserTalk DEF Next
<1> QED
  BY <1>3, <1>4

LEMMA StutterTalk == Links /\ Talk /\ UNCHANGED vars => Links' /\ Talk'
<1> SUFFICES ASSUME Links, Talk, UNCHANGED vars PROVE Links' /\ Talk'
  OBVIOUS
<1>1. Links'
  BY DEF Links, Reached, vars, server, page
<1>2. Met' = Met /\ Agree' = Agree /\ NoAccept' = NoAccept
  BY DEF Met, Agree, Last, NoAccept, vars, server, page
<1> QED
  BY <1>1, <1>2 DEF Talk, vars, page

-----------------------------------------------------------------------------
\* Reached in every behaviour of the server and the pages.
LEMMA Invariance == Spec => []IInv
<1>1. IInv /\ [Next]_vars => IInv'
  BY NextInv, StutterInv
<1> QED
  BY <1>1, InitInv, PTL DEF Spec

\* The handlers of the socket server, the queues of the sockets and the pages keep to
\* their statuses: an answer that is not a status of the call (rtcNamespace.js,
\* rtc-call-page.js) is never stored, sent or shown.
THEOREM RtcTyping == Spec => []TypeOK
<1>1. IInv => TypeOK
  BY DEF IInv
<1> QED
  BY <1>1, Invariance, PTL

\* Every call the server announced that still rings has its timer or a handler that will
\* settle it, whatever crosses on the way, as long as nothing failed (rtcNamespace.js,
\* scheduleCallTimeout and clearCallTimeout).
THEOREM RtcRingWatched == Spec => []RingWatched
<1>1. IInv => RingWatched
  BY DEF IInv
<1> QED
  BY <1>1, Invariance, PTL

\* Without faults a call is on at both pages or at neither once everything has settled,
\* in whatever order accept, cancel, end and the timers crossed: every rtc_status the
\* server emits after an accept was possible reaches both (emitToRTCParticipants).
THEOREM RtcTalkingTogether == Spec => []TalkingTogether
<1>1. Links /\ Talk /\ IInv /\ IInv' /\ [Next]_vars => (Links /\ Talk)'
  BY NextTalk, StutterTalk
<1>2. Spec => [](Links /\ Talk)
  BY <1>1, InitTalk, Invariance, PTL DEF Spec
<1>3. Talk => TalkingTogether
  <2> SUFFICES ASSUME Talk, Quiet, faults = 0, \A p \in Sides : stage[p] = "live"
               PROVE  shown["caller"] = "accepted" <=> shown["callee"] = "accepted"
    BY DEF TalkingTogether
  <2>1. Agree /\ down["caller"] = <<>> /\ down["callee"] = <<>>
    BY DEF Talk, Quiet, Sides
  <2> QED
    BY <2>1 DEF Agree, Last
<1> QED
  BY <1>2, <1>3, PTL
=============================================================================
