---------------------------- MODULE OfflineSync ----------------------------
(***************************************************************************)
(* The cache of one dataset (shops, products or orders) in the phone of a   *)
(* customer: the rows on the server, the local tables, the sync of every    *)
(* launch that pulls what changed since the version of the cache, and the   *)
(* pages that cache what they have fetched themselves.                      *)
(*                                                                         *)
(* Granularity.  The statements of one save are handed to SQLite together   *)
(* and run in their order, so a save is one step of which a kill, or a      *)
(* statement that fails, leaves a part.  The server reads the version and   *)
(* the changes of an answer in two steps.  updated_at names the second of   *)
(* the statement, with a fraction: it is after that second.  The row is     *)
(* seen when its transaction commits, which may be in a later second.       *)
(***************************************************************************)
EXTENDS Naturals

CONSTANTS
  Records,
  Ahead,    \* Date.now(): milliseconds, later than every second; bounds the clock too
  MaxEdits  \* bound: contents of a row

ASSUME ConstantsOK == Ahead \in Nat /\ Ahead > 1 /\ MaxEdits \in Nat

VARIABLES
  now,        \* the clock of the server in seconds
  row,        \* the rows: latest content, second of updated_at, status
  cache,      \* the local table: the content of a record, 0 without one
  version,    \* sync_versions of the dataset
  pc,         \* of the app and of its one sync
  local,      \* the version of the cache this sync has read
  newVersion, \* the version the server has answered last
  pulled,     \* the changes the server has answered
  passed      \* history: records a change of which the client passed over

server == <<now, row>>
vars == <<server, cache, version, pc, local, newVersion, pulled, passed>>

Syncing == {"asked", "told", "pull", "versioned", "answered"}
Status == {"none", "active", "inactive", "gone"}
Contents == 0 .. MaxEdits
NoRows == [r \in {} |-> 0]

Existing == {r \in Records : row[r].status \in {"active", "inactive"}}
\* An inactive row is taken out of the cache.
Shown(r) == IF row[r].status = "active" THEN row[r].edit ELSE 0
Stale == {r \in Existing : cache[r] # Shown(r)}
Before(v) == {r \in Existing : row[r].sec < v}

Init ==
  /\ now = 1
  /\ row = [r \in Records |-> [edit |-> 0, sec |-> 0, status |-> "none"]]
  /\ cache = [r \in Records |-> 0] /\ version = 0
  /\ pc = "off" /\ local = 0 /\ newVersion = 0 /\ pulled = NoRows
  /\ passed = {}

Table == <<cache, version, pc, local, newVersion, pulled>>
Phone == <<Table, passed>>
Go(to) == pc' = to /\ IF to \in Syncing THEN UNCHANGED local
                       ELSE local' = 0 /\ newVersion' = 0 /\ pulled' = NoRows
Sync == <<pc, local, newVersion, pulled>>

-----------------------------------------------------------------------------
(* The server.                                                             *)

\* The row is seen from now on, under the second sec of the statement.
Commit(r, edit, status, sec) ==
  /\ row' = [row EXCEPT ![r] = [edit |-> edit, sec |-> sec, status |-> status]]
  /\ passed' = passed \cup IF sec < now THEN {r} ELSE {}
  /\ UNCHANGED <<now, Table>>

Change(r) ==
  /\ row[r].status # "gone" /\ row[r].edit < MaxEdits
  /\ \E sec \in 1 .. now : Commit(r, row[r].edit + 1, "active", sec)

Switch(r) ==
  /\ r \in Existing
  /\ \E sec \in 1 .. now :
       Commit(r, row[r].edit, IF row[r].status = "active" THEN "inactive" ELSE "active", sec)

\* A hard delete: no sync tells of it, and the highest updated_at may fall.
Delete(r) ==
  /\ r \in Existing
  /\ row' = [row EXCEPT ![r].status = "gone"]
  /\ UNCHANGED <<now, Phone>>

Tick == now + 1 < Ahead /\ now' = now + 1 /\ UNCHANGED <<row, Phone>>

\* MUTANTS: versions in milliseconds; whole seconds compared.
MillisecondVersions == {Ahead}
ChangesAfter(v) ==
  [r \in {x \in Existing : v = 0 \/ row[x].sec > v} |-> Shown(r)]

\* getMaxUpdatedUnix; a query that fails counts as zero.
ServerVersions ==
  {0} \cup {v \in {row[r].sec : r \in Existing} : \A r \in Existing : row[r].sec <= v}

\* getChanges: the rows after the start of the second "since", all of them since zero.
ChangesSince(v) ==
  [r \in {x \in Existing : v = 0 \/ row[x].sec >= v} |-> Shown(r)]

-----------------------------------------------------------------------------
(* The local database.                                                     *)

Write(rows, done) == cache' = [r \in Records |-> IF r \in done THEN rows[r] ELSE cache[r]]
Empty == cache' = [r \in Records |-> 0]

\* clearAllCache: the tables one after another, that of the versions last.
\* A sync under way does not learn of it.
Clear ==
  /\ pc # "off"
  /\ \/ /\ Empty \/ UNCHANGED cache
        /\ version' = 0
        /\ passed' = IF pc \in Syncing THEN Existing ELSE {}
     \/ Empty /\ version' = version /\ passed' = Existing
  /\ UNCHANGED <<server, Sync>>

\* createTables: a new SCHEMA_VERSION drops the tables before anything reads them.
AppStart ==
  /\ pc = "off"
  /\ pc' = "up"
  /\ \/ UNCHANGED <<cache, version, passed>>
     \/ Empty /\ version' = 0 /\ passed' = {}
  /\ UNCHANGED <<server, local, newVersion, pulled>>

Kill ==
  /\ pc # "off"
  /\ Go("off")
  /\ UNCHANGED <<server, cache, version, passed>>

-----------------------------------------------------------------------------
(* syncInBackground.                                                       *)

\* A version that cannot be read counts as zero.
SyncStart ==
  /\ pc = "up"
  /\ pc' = "asked" /\ local' \in {version, 0}
  /\ UNCHANGED <<server, cache, version, newVersion, pulled, passed>>

StateAnswer ==
  /\ pc = "asked"
  /\ newVersion' \in ServerVersions
  /\ pc' = "told"
  /\ UNCHANGED <<server, cache, version, local, pulled, passed>>

\* A version ahead of the server's is set back without any data.
SetBack ==
  /\ pc = "told" /\ local > newVersion
  /\ Go("done")
  /\ version' = newVersion
  /\ passed' = passed \cup IF local = Ahead THEN Stale \cap Before(newVersion) ELSE {}
  /\ UNCHANGED <<server, cache>>

UpToDate ==
  /\ pc = "told" /\ local = newVersion
  /\ Go("done")
  /\ UNCHANGED <<server, cache, version, passed>>

AskChanges ==
  /\ pc = "told" /\ local < newVersion
  /\ pc' = "pull"
  /\ UNCHANGED <<server, cache, version, local, newVersion, pulled, passed>>

\* GetSyncData reads the version before the changes.
PullVersion ==
  /\ pc = "pull"
  /\ newVersion' \in ServerVersions
  /\ pc' = "versioned"
  /\ UNCHANGED <<server, cache, version, local, pulled, passed>>

PullChanges ==
  /\ pc = "versioned"
  /\ pulled' = ChangesSince(local)
  /\ pc' = "answered"
  /\ UNCHANGED <<server, cache, version, local, newVersion, passed>>

\* saveSyncData: a row that fails does not keep back the version, a kill does.
SavePull ==
  /\ pc = "answered"
  /\ \E done \in SUBSET DOMAIN pulled :
       /\ Write(pulled, done)
       /\ \/ /\ version' = newVersion
             /\ passed' = (passed \ {r \in done : pulled[r] = Shown(r)})
                          \cup (DOMAIN pulled \ done)
          \/ UNCHANGED <<version, passed>>
  /\ Go("done")
  /\ UNCHANGED server

\* Any request or statement of the sync that fails ends it.
SyncFails ==
  /\ pc \in Syncing
  /\ Go("done")
  /\ UNCHANGED <<server, cache, version, passed>>

-----------------------------------------------------------------------------
(* getData.                                                                *)

\* What a page fetched may be as old as the copies Redis keeps for the lists,
\* and is cached with the time of the phone as its version.
PageSave ==
  /\ pc # "off"
  /\ \E done \in SUBSET {r \in Records : row[r].edit > 0} \ {{}} :
       \E rows \in [done -> 1 .. MaxEdits] :
         /\ \A r \in done : rows[r] <= row[r].edit
         /\ Write(rows, done)
         /\ version' \in {Ahead, version}
         /\ passed' = passed \cup {r \in done : rows[r] # Shown(r)}
  /\ UNCHANGED <<server, Sync>>

Next ==
  \/ \E r \in Records : Change(r) \/ Switch(r) \/ Delete(r)
  \/ Tick
  \/ AppStart \/ Kill \/ Clear \/ PageSave
  \/ SyncStart \/ StateAnswer \/ SetBack \/ UpToDate \/ AskChanges
  \/ PullVersion \/ PullChanges \/ SavePull \/ SyncFails

Spec == Init /\ [][Next]_vars

-----------------------------------------------------------------------------
(* Properties.                                                             *)

\* The types of the state; no row and no version of the server is later than its clock.
TypeOK ==
  /\ now \in 1 .. Ahead - 1
  /\ row \in [Records -> [edit : Contents, sec : 0 .. now, status : Status]]
  /\ cache \in [Records -> Contents]
  /\ version \in 0 .. now \cup {Ahead} /\ local \in 0 .. now \cup {Ahead}
  /\ newVersion \in 0 .. now
  /\ pc \in {"off", "up", "done"} \cup Syncing
  /\ DOMAIN pulled \subseteq Records /\ \A r \in DOMAIN pulled : pulled[r] \in Contents
  /\ passed \subseteq Records

\* A cache whose version names a second of the server holds every row that changed in an earlier
\* second as it is now, and no inactive one.  Whatever the rows do while a sync reads them in
\* two steps, and wherever the app is killed, only these lose a change: a version of a page
\* that is set back (sync-service.js 306-313), an old row that a page caches
\* (350-368), a row whose statement fails (local-db.js 482-521), a clearing in the middle of
\* a sync or cut short, and a change that commits in a later second than its updated_at
\* (sync_service.go 116, 142), until a sync brings the row as it is.
Claim(v) == \A r \in Before(v) : r \in passed \/ cache[r] = Shown(r)
NoChangeMissed == version # Ahead => Claim(version)
=============================================================================
