------------------------- MODULE OfflineSyncProofs -------------------------
(***************************************************************************)
(* Proofs about OfflineSync for every set of records, clock and bound.      *)
(*                                                                         *)
(* Why the version is right: what a sync pulls is right for the version     *)
(* the server read just before (Answer), because a row that is stamped and  *)
(* seen later names the second of that version or a later one; what it does *)
(* not pull was right for the version it started from (Started), which      *)
(* stays right while pages and the user write over the cache.               *)
(***************************************************************************)
EXTENDS OfflineSync, TLAPS

Started == pc \in Syncing /\ local # Ahead => Claim(local)
Pulling == pc \in {"pull", "versioned", "answered"} => local # Ahead
Answer ==
  pc = "answered" =>
    \A r \in Before(newVersion) :
      \/ r \in passed
      \/ IF r \in DOMAIN pulled THEN pulled[r] = Shown(r) ELSE local > 0 /\ row[r].sec < local
\* A part of the answer does no harm to a cache that keeps its version.
Part ==
  pc = "answered" /\ version # Ahead =>
    \A r \in Before(version) : r \in DOMAIN pulled => r \in passed \/ pulled[r] = Shown(r)

IInv == TypeOK /\ NoChangeMissed /\ Started /\ Pulling /\ Answer /\ Part

-----------------------------------------------------------------------------
(* The server.                                                             *)

LEMMA InitInv == Init => IInv
<1> SUFFICES ASSUME Init PROVE IInv
  OBVIOUS
<1>1. TypeOK
  BY ConstantsOK DEF Init, TypeOK, Contents, Status, NoRows, Syncing
<1> QED
  BY <1>1 DEF Init, IInv, NoChangeMissed, Started, Pulling, Answer, Part, Claim, Before, Existing, Syncing

\* A row that is seen in the second of its statement is in no earlier second than any version
\* of the server; one that is seen later is counted as passed over.
LEMMA CommitInv ==
  ASSUME IInv, NEW x \in Records, NEW edit \in Contents, NEW status \in Status, NEW sec \in 1 .. now,
         Commit(x, edit, status, sec)
  PROVE  IInv'
<1> DEFINE new == [edit |-> edit, sec |-> sec, status |-> status]
<1>1. row \in [Records -> [edit : Contents, sec : 0 .. now, status : Status]] /\ now \in 1 .. Ahead - 1
  BY DEF IInv, TypeOK
<1>2. new \in [edit : Contents, sec : 0 .. now, status : Status] /\ new.sec = sec
  BY <1>1, ConstantsOK
<1>3. UNCHANGED <<now, Table>> /\ row' = [row EXCEPT ![x] = new]
  BY DEF Commit
<1>4. passed \subseteq passed' /\ passed' \subseteq Records /\ (sec < now => x \in passed')
  BY DEF Commit, IInv, TypeOK
<1> HIDE DEF new
<1>5. row' \in [Records -> [edit : Contents, sec : 0 .. now, status : Status]] /\ row'[x].sec = sec
  BY <1>1, <1>2, <1>3
<1>6. TypeOK'
  BY <1>3, <1>4, <1>5 DEF IInv, TypeOK, Table, Contents, Status, Syncing
<1>7. \A v \in 0 .. now : \A r \in Before(v)' :
        r \in passed' \/ (r \in Before(v) /\ Shown(r)' = Shown(r) /\ row'[r] = row[r] /\ r \notin passed)
  <2> SUFFICES ASSUME NEW v \in 0 .. now, NEW r \in Before(v)', r \notin passed'
               PROVE  r \in Before(v) /\ Shown(r)' = Shown(r) /\ row'[r] = row[r]
    BY <1>4
  <2>1. r \in Records /\ row'[r].sec < v
    BY DEF Before, Existing
  <2>2. r # x
    BY <2>1, <1>1, <1>4, <1>5
  <2>3. row'[r] = row[r]
    BY <2>1, <2>2, <1>1, <1>3
  <2> QED
    BY <2>3 DEF Before, Existing, Shown
<1>8. version \in 0 .. now \cup {Ahead} /\ local \in 0 .. now \cup {Ahead} /\ newVersion \in 0 .. now
  BY DEF IInv, TypeOK
<1>9. NoChangeMissed'
  BY <1>3, <1>7, <1>8 DEF IInv, NoChangeMissed, Claim, Table
<1>10. Started'
  BY <1>3, <1>7, <1>8 DEF IInv, Started, Claim, Table
<1>11. Pulling'
  BY <1>3 DEF IInv, Pulling, Table
<1>12. Answer'
  BY <1>3, <1>7, <1>8 DEF IInv, Answer, Table
<1>13. Part'
  BY <1>3, <1>7, <1>8 DEF IInv, Part, Table
<1> QED
  BY <1>6, <1>9, <1>10, <1>11, <1>12, <1>13 DEF IInv

LEMMA ChangeInv == ASSUME IInv, NEW x \in Records, Change(x) PROVE IInv'
<1>1. row[x].edit + 1 \in Contents /\ "active" \in Status
  BY ConstantsOK DEF IInv, TypeOK, Change, Contents, Status
<1>2. PICK sec \in 1 .. now : Commit(x, row[x].edit + 1, "active", sec)
  BY DEF Change
<1> QED
  BY <1>1, <1>2, CommitInv

LEMMA SwitchInv == ASSUME IInv, NEW x \in Records, Switch(x) PROVE IInv'
<1> DEFINE status == IF row[x].status = "active" THEN "inactive" ELSE "active"
<1>1. row[x].edit \in Contents /\ status \in Status
  BY DEF IInv, TypeOK, Status
<1>2. PICK sec \in 1 .. now : Commit(x, row[x].edit, status, sec)
  BY DEF Switch
<1> HIDE DEF status
<1> QED
  BY <1>1, <1>2, CommitInv

LEMMA DeleteInv == ASSUME IInv, NEW x \in Records, Delete(x) PROVE IInv'
<1>1. TypeOK'
  <2>1. row' \in [Records -> [edit : Contents, sec : 0 .. now, status : Status]]
    BY DEF IInv, TypeOK, Delete, Status
  <2> QED
    BY <2>1 DEF IInv, TypeOK, Delete, Phone, Table, Contents, Syncing
<1>2. \A r \in Existing' : r \in Existing /\ Shown(r)' = Shown(r) /\ row'[r] = row[r]
  BY DEF IInv, TypeOK, Delete, Existing, Shown
<1>3. \A v : \A r \in Before(v)' : r \in Before(v) /\ Shown(r)' = Shown(r) /\ row'[r] = row[r]
  BY <1>2 DEF Before
<1> QED
  BY <1>1, <1>3 DEF IInv, NoChangeMissed, Started, Pulling, Answer, Part, Claim, Delete, Phone, Table

LEMMA TickInv == ASSUME IInv, Tick PROVE IInv'
<1>1. TypeOK'
  <2>1. now \in 1 .. Ahead - 1 /\ now' = now + 1 /\ now + 1 < Ahead /\ UNCHANGED <<row, Phone>>
    BY DEF IInv, TypeOK, Tick
  <2>2. 0 .. now \subseteq 0 .. now' /\ now' \in 1 .. Ahead - 1
    BY <2>1, ConstantsOK
  <2>3. row' \in [Records -> [edit : Contents, sec : 0 .. now', status : Status]]
    BY <2>1, <2>2 DEF IInv, TypeOK
  <2> QED
    BY <2>1, <2>2, <2>3 DEF IInv, TypeOK, Phone, Table, Contents, Syncing
<1> QED
  BY <1>1 DEF IInv, NoChangeMissed, Started, Pulling, Answer, Part, Claim, Before, Existing, Shown, Tick, Phone, Table

-----------------------------------------------------------------------------
(* The phone.                                                              *)

\* A sync that ends, or never started, claims nothing.
LEMMA EndedInv ==
  ASSUME TypeOK', NoChangeMissed', pc' \notin Syncing
  PROVE  IInv'
BY DEF IInv, Started, Pulling, Answer, Part, Syncing

LEMMA ClearInv == ASSUME IInv, Clear PROVE IInv'
<1>1. TypeOK'
  BY ConstantsOK DEF IInv, TypeOK, Clear, Empty, server, Sync, Contents, Existing, Syncing
<1>2. NoChangeMissed'
  BY DEF IInv, TypeOK, NoChangeMissed, Claim, Clear, server, Before, Existing
<1>3. Started'
  BY DEF IInv, NoChangeMissed, Started, Claim, Clear, server, Sync, Before, Existing
<1>4. Pulling' /\ Answer'
  BY DEF IInv, Pulling, Answer, Clear, server, Sync, Before, Existing, Shown, Syncing
<1>5. Part'
  BY DEF IInv, TypeOK, Part, Clear, server, Sync, Before, Existing, Shown
<1> QED
  BY <1>1, <1>2, <1>3, <1>4, <1>5 DEF IInv

LEMMA AppStartInv == ASSUME IInv, AppStart PROVE IInv'
<1>1. TypeOK'
  BY ConstantsOK DEF IInv, TypeOK, AppStart, Empty, server, Contents, Syncing
<1>2. NoChangeMissed'
  BY DEF IInv, TypeOK, NoChangeMissed, Claim, AppStart, server, Before, Existing, Shown
<1> QED
  BY <1>1, <1>2, EndedInv DEF AppStart, Syncing

\* A step that ends the sync and leaves the cache as it was.
LEMMA EndInv ==
  ASSUME IInv, NEW to \in {"off", "done"}, Go(to), UNCHANGED <<server, cache, version, passed>>
  PROVE  IInv'
<1>1. pc' = to /\ to \notin Syncing /\ local' = 0 /\ newVersion' = 0 /\ pulled' = NoRows
  BY DEF Go, Syncing
<1>2. TypeOK'
  BY <1>1, ConstantsOK DEF IInv, TypeOK, server, NoRows
<1>3. NoChangeMissed'
  BY DEF IInv, NoChangeMissed, Claim, server, Before, Existing, Shown
<1> QED
  BY <1>1, <1>2, <1>3, EndedInv

LEMMA SyncStartInv == ASSUME IInv, SyncStart PROVE IInv'
<1>1. TypeOK'
  BY ConstantsOK DEF IInv, TypeOK, SyncStart, server, Syncing
<1>2. NoChangeMissed' /\ Started'
  BY DEF IInv, TypeOK, NoChangeMissed, Started, Claim, SyncStart, server, Before, Existing, Shown
<1> QED
  BY <1>1, <1>2 DEF IInv, Pulling, Answer, Part, SyncStart

LEMMA ServerVersionsBound == ASSUME TypeOK PROVE ServerVersions \subseteq 0 .. now
BY DEF TypeOK, ServerVersions, Existing

LEMMA StateAnswerInv == ASSUME IInv, StateAnswer PROVE IInv'
<1>1. TypeOK'
  BY ServerVersionsBound DEF IInv, TypeOK, StateAnswer, server, Syncing
<1>2. NoChangeMissed' /\ Started'
  BY DEF IInv, NoChangeMissed, Started, Claim, StateAnswer, server, Before, Existing, Shown, Syncing
<1> QED
  BY <1>1, <1>2 DEF IInv, Pulling, Answer, Part, StateAnswer

LEMMA SetBackInv == ASSUME IInv, SetBack PROVE IInv'
<1>1. pc' = "done" /\ local' = 0 /\ newVersion' = 0 /\ pulled' = NoRows /\ version' = newVersion
  BY DEF SetBack, Go, Syncing
<1>2. TypeOK'
  BY <1>1, ConstantsOK DEF IInv, TypeOK, SetBack, server, NoRows, Existing, Stale
<1>3. NoChangeMissed'
  <2>1. CASE local = Ahead
    BY <2>1, <1>1 DEF SetBack, NoChangeMissed, Claim, Stale, server, Before, Existing, Shown
  <2>2. CASE local # Ahead
    <3>1. Claim(local) /\ local > newVersion
      BY <2>2 DEF IInv, Started, SetBack, Syncing
    <3>2. Before(newVersion) \subseteq Before(local)
      BY <3>1 DEF IInv, TypeOK, Before, Existing
    <3> QED
      BY <3>1, <3>2, <1>1, <2>2 DEF SetBack, NoChangeMissed, Claim, server, Before, Existing, Shown
  <2> QED
    BY <2>1, <2>2
<1> QED
  BY <1>1, <1>2, <1>3, EndedInv DEF Syncing

LEMMA AskChangesInv == ASSUME IInv, AskChanges PROVE IInv'
<1>1. TypeOK'
  BY DEF IInv, TypeOK, AskChanges, server, Syncing
<1>2. NoChangeMissed' /\ Started'
  BY DEF IInv, NoChangeMissed, Started, Claim, AskChanges, server, Before, Existing, Shown, Syncing
<1>3. Pulling'
  BY ConstantsOK DEF IInv, TypeOK, Pulling, AskChanges
<1> QED
  BY <1>1, <1>2, <1>3 DEF IInv, Answer, Part, AskChanges

LEMMA PullVersionInv == ASSUME IInv, PullVersion PROVE IInv'
<1>1. TypeOK'
  BY ServerVersionsBound DEF IInv, TypeOK, PullVersion, server, Syncing
<1>2. NoChangeMissed' /\ Started'
  BY DEF IInv, NoChangeMissed, Started, Claim, PullVersion, server, Before, Existing, Shown, Syncing
<1> QED
  BY <1>1, <1>2 DEF IInv, Pulling, Answer, Part, PullVersion

LEMMA PullChangesInv == ASSUME IInv, PullChanges PROVE IInv'
<1>1. /\ DOMAIN pulled' = {x \in Existing : local = 0 \/ row[x].sec >= local}
      /\ \A r \in DOMAIN pulled' : pulled'[r] = Shown(r)
  BY DEF PullChanges, ChangesSince
<1>2. UNCHANGED <<now, row, cache, version, local, newVersion, passed>> /\ pc = "versioned" /\ pc' = "answered"
  BY DEF PullChanges, server
<1>3. \A r \in Existing : Shown(r) \in Contents /\ row[r].sec \in 0 .. now
  BY ConstantsOK DEF IInv, TypeOK, Existing, Shown, Contents
<1>4. TypeOK'
  BY <1>1, <1>2, <1>3 DEF IInv, TypeOK, Existing, Syncing
<1>5. NoChangeMissed' /\ Started' /\ Pulling'
  BY <1>2 DEF IInv, NoChangeMissed, Started, Pulling, Claim, Before, Existing, Shown, Syncing
<1>6. Answer'
  <2>1. local \in 0 .. now
    BY <1>2 DEF IInv, TypeOK, Pulling
  <2>2. \A r \in Existing : r \in DOMAIN pulled' \/ (local > 0 /\ row[r].sec < local)
    BY <1>1, <1>3, <2>1
  <2> QED
    BY <1>1, <1>2, <2>2 DEF Answer, Before, Existing, Shown
<1>7. Part'
  BY <1>1, <1>2 DEF Part, Shown
<1> QED
  BY <1>4, <1>5, <1>6, <1>7 DEF IInv

LEMMA SavePullInv == ASSUME IInv, SavePull PROVE IInv'
<1>1. PICK done \in SUBSET DOMAIN pulled :
        /\ Write(pulled, done)
        /\ \/ version' = newVersion /\ passed' = (passed \ {r \in done : pulled[r] = Shown(r)}) \cup (DOMAIN pulled \ done)
           \/ UNCHANGED <<version, passed>>
  BY DEF SavePull
<1>2. pc = "answered" /\ pc' = "done" /\ local' = 0 /\ newVersion' = 0 /\ pulled' = NoRows /\ UNCHANGED <<now, row>>
  BY DEF SavePull, Go, Syncing, server
<1>3. \A r \in Records : cache'[r] = IF r \in done THEN pulled[r] ELSE cache[r]
  BY <1>1 DEF Write
<1>4. TypeOK'
  <2>1. cache' \in [Records -> Contents]
    BY <1>1 DEF IInv, TypeOK, Write
  <2> QED
    BY <2>1, <1>1, <1>2, ConstantsOK DEF IInv, TypeOK, NoRows
<1>5. NoChangeMissed'
  <2>1. CASE version' = newVersion /\ passed' = (passed \ {r \in done : pulled[r] = Shown(r)}) \cup (DOMAIN pulled \ done)
    <3> SUFFICES ASSUME NEW r \in Before(newVersion), r \notin passed'
                 PROVE  cache'[r] = Shown(r)
      BY <1>2, <2>1 DEF NoChangeMissed, Claim, Before, Existing, Shown
    <3>1. r \in Records
      BY DEF Before, Existing
    <3>2. CASE r \in DOMAIN pulled
      BY <1>2, <1>3, <2>1, <3>1, <3>2 DEF IInv, Answer
    <3>3. CASE r \notin DOMAIN pulled
      <4>1. row[r].sec < local /\ r \notin passed /\ r \notin done
        BY <1>1, <1>2, <2>1, <3>3 DEF IInv, Answer
      <4>2. r \in Before(local)
        BY <4>1 DEF Before
      <4>3. Claim(local)
        BY <1>2 DEF IInv, Started, Pulling, Syncing
      <4> QED
        BY <1>3, <3>1, <4>1, <4>2, <4>3 DEF Claim
    <3> QED
      BY <3>2, <3>3
  <2>2. CASE UNCHANGED <<version, passed>>
    <3> SUFFICES ASSUME version # Ahead, NEW r \in Before(version), r \notin passed
                 PROVE  cache'[r] = Shown(r)
      BY <1>2, <2>2 DEF NoChangeMissed, Claim, Before, Existing, Shown
    <3>1. r \in Records /\ cache[r] = Shown(r)
      BY DEF IInv, NoChangeMissed, Claim, Before, Existing
    <3> QED
      BY <1>1, <1>2, <1>3, <3>1 DEF IInv, Part
  <2> QED
    BY <1>1, <2>1, <2>2
<1> QED
  BY <1>2, <1>4, <1>5, EndedInv DEF Syncing

LEMMA PageSaveInv == ASSUME IInv, PageSave PROVE IInv'
<1>1. PICK done \in SUBSET {r \in Records : row[r].edit > 0} : \E rows \in [done -> 1 .. MaxEdits] :
        /\ \A r \in done : rows[r] <= row[r].edit
        /\ Write(rows, done)
        /\ version' \in {Ahead, version}
        /\ passed' = passed \cup {r \in done : rows[r] # Shown(r)}
  BY DEF PageSave
<1>2. PICK rows \in [done -> 1 .. MaxEdits] :
        /\ Write(rows, done)
        /\ version' \in {Ahead, version}
        /\ passed' = passed \cup {r \in done : rows[r] # Shown(r)}
  BY <1>1
<1>3. UNCHANGED <<now, row, pc, local, newVersion, pulled>>
  BY DEF PageSave, server, Sync
<1>4. \A r \in Records : r \in passed' \/ cache'[r] = cache[r] \/ cache'[r] = Shown(r)
  BY <1>2 DEF Write
<1>5. TypeOK'
  <2>1. cache' \in [Records -> Contents]
    BY <1>2, ConstantsOK DEF IInv, TypeOK, Write, Contents
  <2> QED
    BY <2>1, <1>2, <1>3 DEF IInv, TypeOK
<1>6. \A v : Claim(v) => Claim(v)'
  BY <1>2, <1>3, <1>4 DEF Claim, Before, Existing, Shown
<1>7. NoChangeMissed' /\ Started'
  BY <1>2, <1>3, <1>6 DEF IInv, NoChangeMissed, Started
<1>8. Pulling' /\ Answer' /\ Part'
  BY <1>2, <1>3 DEF IInv, Pulling, Answer, Part, Before, Existing, Shown
<1> QED
  BY <1>5, <1>7, <1>8 DEF IInv

-----------------------------------------------------------------------------
(* The theorems.                                                           *)

LEMMA StutterInv == ASSUME IInv, UNCHANGED vars PROVE IInv'
BY DEF vars, server, IInv, TypeOK, NoChangeMissed, Started, Pulling, Answer, Part, Claim, Before, Existing, Shown,
       Contents, Syncing

\* Every step of the server, of the app and of its sync (sync-service.js 290-348, local-db.js
\* 448-585, sync_service.go 64-96) keeps the inductive invariant.
THEOREM StepInv == IInv /\ [Next]_vars => IInv'
<1> SUFFICES ASSUME IInv, [Next]_vars PROVE IInv'
  OBVIOUS
<1>1. CASE UNCHANGED vars
  BY <1>1, StutterInv
<1>2. CASE Next
  <2>1. CASE \E r \in Records : Change(r) \/ Switch(r) \/ Delete(r)
    BY <2>1, ChangeInv, SwitchInv, DeleteInv
  <2>2. CASE Tick \/ AppStart \/ Clear \/ PageSave \/ SyncStart
    BY <2>2, TickInv, AppStartInv, ClearInv, PageSaveInv, SyncStartInv
  <2>3. CASE StateAnswer \/ SetBack \/ AskChanges \/ PullVersion \/ PullChanges \/ SavePull
    BY <2>3, StateAnswerInv, SetBackInv, AskChangesInv, PullVersionInv, PullChangesInv, SavePullInv
  <2>4. CASE Kill \/ UpToDate \/ SyncFails
    BY <2>4, EndInv DEF Kill, UpToDate, SyncFails
  <2> QED
    BY <1>2, <2>1, <2>2, <2>3, <2>4 DEF Next
<1> QED
  BY <1>1, <1>2

\* The state stays in its types, and no version of the cache that names a second of the server
\* is later than the server's clock (getMaxUpdatedUnix, sync_service.go 114-120).
THEOREM TypeCorrect == Spec => []TypeOK
<1>1. IInv => TypeOK
  BY DEF IInv
<1> QED
  BY InitInv, StepInv, <1>1, PTL DEF Spec

\* Whatever the rows do and wherever the app is killed, a sync (sync-service.js 290-348) leaves no change
\* behind its version but one the named steps pass over, for any records, clock and contents.
THEOREM NothingElseMissed == Spec => []NoChangeMissed
<1>1. IInv => NoChangeMissed
  BY DEF IInv
<1> QED
  BY InitInv, StepInv, <1>1, PTL DEF Spec
=============================================================================
