------------------------------ MODULE ZoneControl ------------------------------
(***************************************************************************)
(* The zone control plane of LightDNS: the HTTP handlers that create,      *)
(* review and delete managed zones and edit their records                  *)
(* (internal/admin/api.go), the SQLite store behind them                   *)
(* (internal/database/zones.go and the triggers of models.go), and the     *)
(* publication of the active zones to the resolver by                      *)
(* Controller.ReloadZones, which the handlers and a background ticker of   *)
(* cmd/lightdns/main.go call.                                              *)
(*                                                                         *)
(* A database transaction is one step: the store has one connection and    *)
(* opens every transaction as "immediate".  What a handler reads before    *)
(* its transaction (the session, the zone) and what it does after it (the  *)
(* reload, the answer) are steps of their own, so other handlers, the      *)
(* ticker, account changes and a crash may come in between.                *)
(*                                                                         *)
(* Definitions marked "fault" are plausible mistakes.  Nothing uses them;  *)
(* each takes the place of the definition after it to show that a property *)
(* notices.                                                                *)
(***************************************************************************)
EXTENDS Integers, FiniteSets

CONSTANTS
    Zones,        \* public ids of zones; an id is never used twice
    Names,        \* names of zones
    NameOf,       \* the name each zone is created with
    Records,      \* records: owner name, type, value and TTL
    Accepted,     \* <<record, name>>: the record is valid in a zone of that name
    Inside,       \* <<record, name>>: the owner name lies in a zone of that name
    SerialWidth,  \* SOA serials are counted modulo this (2^32 in the code)
    Users,        \* accounts
    Admins,       \* the accounts that start as administrators
    Editable,     \* the accounts an administrator edits meanwhile
    Requests,     \* goroutines serving management requests
    Refresher,    \* the goroutine of main.refreshZones
    MaxTotal,     \* zone limits of the configuration, 0 for unlimited
    MaxActive,
    MaxRejected,
    MaxCommits,   \* bound: zone changes committed in a behaviour
    None          \* no goroutine, no account

Workers == Requests \union {Refresher}

ASSUME WorkersAssumption ==
    /\ Refresher \notin Requests
    /\ None \notin Workers

ASSUME RecordsAssumption ==
    /\ NameOf \in [Zones -> Names]
    /\ Accepted \subseteq Inside
    /\ Inside \subseteq Records \X Names
    /\ SerialWidth \in Nat \ {0}

ASSUME UsersAssumption ==
    /\ Admins \subseteq Users
    /\ Admins # {}
    /\ Editable \subseteq Users
    /\ None \notin Users

ASSUME LimitsAssumption ==
    /\ MaxTotal \in Nat
    /\ MaxActive \in Nat
    /\ MaxRejected \in Nat
    /\ MaxCommits \in Nat

VARIABLES
    users,     \* table users: role and enabled flag of each account
    zones,     \* tables zones and dns_records, one row per public id
    version,   \* history: number of committed changes handlers must publish
    up,        \* the process is running
    pc,        \* where each goroutine is
    req,       \* what each handler was asked, with the principal it read
    commit,    \* history: number of the change each handler is publishing, or 0
    zoneMu,    \* holder of Controller.zoneMu
    loaded,    \* the snapshot each goroutine built from the database
    managed,   \* Resolver.managed: the snapshot queries are answered from
    acked      \* history: the latest change answered with success

store   == <<users, zones, version>>
vars    == <<users, zones, version, up, pc, req, commit, zoneMu, loaded, managed,
             acked>>

--------------------------------------------------------------------------------
(* Rows, requests and snapshots. *)

Roles          == {"admin", "user"}
Account        == [role : Roles, enabled : BOOLEAN]
EnabledAdmin   == [role |-> "admin", enabled |-> TRUE]

ReviewStatuses == {"active", "rejected", "suspended"}
Statuses       == {"absent", "pending", "deleted"} \union ReviewStatuses

\* A row exists between its insertion and its deletion, and has the integer
\* primary key row meanwhile, 0 otherwise.  The model keeps the last revision of
\* a deleted row because clients may still hold it.
Row == [row : Nat, status : Statuses, owner : Users \union {None},
        revision : Nat, records : SUBSET Records]

Exists(z)  == zones[z].status \notin {"absent", "deleted"}
Owned(u)   == {z \in Zones : Exists(z) /\ zones[z].owner = u}
OwnedIn(u, status) == {z \in Owned(u) : zones[z].status = status}

CreateRequest == [op : {"create"}, actor : Users, role : Roles, owner : Users]
ReviewRequest == [op : {"review"}, actor : Users, role : Roles, zone : Zones,
                  status : ReviewStatuses, expected : Nat]
DeleteRequest == [op : {"delete"}, actor : Users, role : Roles, zone : Zones,
                  expected : Nat]
RecordOps     == {"createRecord", "updateRecord", "deleteRecord"}
\* row is the primary key of the zone, once the handler has read it.
RecordRequest == [op : RecordOps, actor : Users, role : Roles, zone : Zones,
                  expected : Nat, row : Nat]
NoRequest     == [op |-> "none"]
Request       == CreateRequest \union ReviewRequest \union DeleteRequest
                     \union RecordRequest \union {NoRequest}

\* A revision as the 32 bits of an SOA serial, which is never 0.
Serial(n) == IF n % SerialWidth = 0 THEN 1 ELSE n % SerialWidth

\* What a query is answered from (Store.LoadActiveZones, authoritative.New): the
\* active zones only, with their records and, as SOA serial, their revision.
VisibleRow(row) == row                                            \* fault
Visible(row) == [serial |-> Serial(row.revision), records |-> row.records]
UnrejectedZones == [z \in {x \in Zones : zones[x].status \in {"active", "suspended"}}
                       |-> Visible(zones[z])]                     \* fault
ActiveZones  == [z \in {x \in Zones : zones[x].status = "active"}
                    |-> Visible(zones[z])]
Current      == [version |-> version, zones |-> ActiveZones]
\* authoritative.New refuses a zone with a record it would not accept, and with it
\* the whole snapshot.
Loadable     == \A z \in DOMAIN ActiveZones :
                    \A x \in zones[z].records : <<x, NameOf[z]>> \in Accepted
NoSnapshot   == [version |-> 0, zones |-> [z \in {} |-> 0]]

\* ZoneByPublicID: an administrator sees every zone, a user only their own.
MayTouch(q) == Exists(q.zone) /\ (q.role = "admin" \/ zones[q.zone].owner = q.actor)

Init ==
    /\ users = [u \in Users |-> [role |-> IF u \in Admins THEN "admin" ELSE "user",
                                 enabled |-> TRUE]]
    /\ zones = [z \in Zones |-> [row |-> 0, status |-> "absent", owner |-> None,
                                 revision |-> 0, records |-> {}]]
    /\ version = 0
    /\ up = TRUE
    /\ pc = [w \in Workers |-> "idle"]
    /\ req = [r \in Requests |-> NoRequest]
    /\ commit = [r \in Requests |-> 0]
    /\ zoneMu = None
    /\ loaded = [w \in Workers |-> NoSnapshot]
    /\ managed = NoSnapshot
    /\ acked = 0

--------------------------------------------------------------------------------
(***************************************************************************)
(* A request arrives.  requireRole reads the session, and the account with *)
(* it, once: the principal stays what it was at that moment.               *)
(***************************************************************************)

\* A client names a zone it was shown, at a revision it was shown.  DELETE
\* carries no revision: there, expected is what the client was looking at.
Shown(z) == 1..zones[z].revision

SendableBy(u) ==
    LET role == users[u].role
    IN  [op : {"create"}, actor : {u}, role : {role}, owner : Users]
        \union UNION {
            [op : {"review"}, actor : {u}, role : {role} \intersect {"admin"},
             zone : {z}, status : ReviewStatuses, expected : Shown(z)]
            \union
            [op : {"delete"}, actor : {u}, role : {role}, zone : {z},
             expected : {zones[z].revision} \intersect Shown(z)]
            \union
            [op : RecordOps, actor : {u}, role : {role}, zone : {z},
             expected : Shown(z), row : {0}] : z \in Zones}

Begin(r) ==
    /\ up
    /\ pc[r] = "idle"
    /\ \E u \in Users :
           /\ users[u].enabled
           /\ \E q \in SendableBy(u) : req' = [req EXCEPT ![r] = q]
    /\ pc' = [pc EXCEPT ![r] = "begun"]
    /\ UNCHANGED <<store, up, commit, zoneMu, loaded, managed, acked>>

\* The handler answers without having changed anything that must be served.
Answer(r) ==
    /\ pc' = [pc EXCEPT ![r] = "idle"]
    /\ req' = [req EXCEPT ![r] = NoRequest]
    /\ UNCHANGED <<users, version, up, commit, zoneMu, loaded, managed, acked>>

\* A guard of the handler fails, a constraint is violated, the client goes away
\* or the database reports an error: the transaction rolls back.
Fail(r) ==
    /\ pc[r] \in {"begun", "checked"}
    /\ Answer(r)
    /\ UNCHANGED zones

\* A change of zone z to the given row commits, and the handler goes on to publish
\* the zones.
Change(r, z, row) ==
    /\ version < MaxCommits
    /\ zones' = [zones EXCEPT ![z] = row]
    /\ version' = version + 1
    /\ commit' = [commit EXCEPT ![r] = version + 1]
    /\ pc' = [pc EXCEPT ![r] = "reload"]
    /\ req' = [req EXCEPT ![r] = NoRequest]
    /\ UNCHANGED <<users, up, zoneMu, loaded, managed, acked>>

--------------------------------------------------------------------------------
(* Store.CreateZoneWithLimits.  The new zone is pending, so nothing is        *)
(* published.                                                                 *)

\* SQLite gives a new row the key after the greatest one in use: zones.id is an
\* INTEGER PRIMARY KEY without AUTOINCREMENT, so the key of the latest row is free
\* again when that row is deleted.
RowIds  == {zones[z].row : z \in Zones}
NextRow == {n \in {i + 1 : i \in RowIds} : \A i \in RowIds : i < n}

AtMost(limit, set) == limit = 0 \/ Cardinality(set) <= limit      \* fault
Below(limit, set) == limit = 0 \/ Cardinality(set) < limit

CreateZone(r) ==
    LET q == req[r] IN
    /\ pc[r] = "begun"
    /\ q.op = "create"
    /\ q.role = "admin" \/ q.actor = q.owner
    /\ Below(MaxTotal, Owned(q.owner))
    /\ Below(MaxRejected, OwnedIn(q.owner, "rejected"))
    /\ \E z \in Zones :
           /\ zones[z].status = "absent"
           /\ \A x \in Zones : Exists(x) => NameOf[x] # NameOf[z]
           /\ \E n \in NextRow :
                  zones' = [zones EXCEPT ![z] =
                               [row |-> n, status |-> "pending", owner |-> q.owner,
                                revision |-> 1, records |-> {}]]
    /\ Answer(r)

\* The triggers on zones.status and zones.reviewed_by: the reviewer is an enabled
\* administrator at the moment of the update.
AnyReviewer(u) == users[u].enabled                                 \* fault
Reviewer(u) == users[u] = EnabledAdmin

\* Store.ReviewZoneWithLimits.
ReviewZone(r) ==
    LET q == req[r]
        z == q.zone
    IN
    /\ pc[r] = "begun"
    /\ q.op = "review"
    /\ Exists(z)
    /\ zones[z].revision = q.expected
    /\ q.status = "active" =>
           Below(MaxActive, OwnedIn(zones[z].owner, "active") \ {z})
    /\ Reviewer(q.actor)
    /\ Change(r, z, [zones[z] EXCEPT !.status = q.status, !.revision = @ + 1])

\* Store.DeleteZone: no revision is asked for, and the records go with it.
DeleteZone(r) ==
    LET q == req[r]
        z == q.zone
    IN
    /\ pc[r] = "begun"
    /\ q.op = "delete"
    /\ MayTouch(q)
    /\ Change(r, z, [zones[z] EXCEPT !.row = 0, !.status = "deleted", !.records = {}])

--------------------------------------------------------------------------------
(***************************************************************************)
(* Record changes.  The zone is read, and for a new record found active,   *)
(* before the transaction begins; the transaction finds it by the key that *)
(* was read and checks only the revision again (checkZoneRevision).  If    *)
(* the zone has been deleted meanwhile, the key may be another zone's.  A  *)
(* trigger counts the revision up.                                         *)
(***************************************************************************)

ReadZone(r) ==
    LET q == req[r] IN
    /\ pc[r] = "begun"
    /\ q.op \in RecordOps
    /\ MayTouch(q)
    /\ q.op = "createRecord" => zones[q.zone].status = "active"
    /\ req' = [req EXCEPT ![r].row = zones[q.zone].row]
    /\ pc' = [pc EXCEPT ![r] = "checked"]
    /\ UNCHANGED <<store, up, commit, zoneMu, loaded, managed, acked>>

AtAnyRevision(z, q) == Exists(z) /\ zones[z].row = q.row           \* fault
AtRevision(z, q) ==
    /\ Exists(z)
    /\ zones[z].row = q.row
    /\ zones[z].revision = q.expected

\* What normalizeRecord accepts for the zone that was read and the triggers
\* validate_dns_record_* let into the zone that is written.
Storable(q, z) ==
    {x \in Records : <<x, NameOf[q.zone]>> \in Accepted /\ <<x, NameOf[z]>> \in Inside}

\* The record sets that a request can turn those of zone z into.  The record of an
\* update or a deletion must be there, and a client knows it, by its public id,
\* as a record of the zone it names; no record is there twice.
EditedRecords(q, z) ==
    LET old == zones[z].records
        Own == IF q.zone = z THEN old ELSE {}
    IN  CASE q.op = "createRecord" -> {old \union {x} : x \in Storable(q, z) \ old}
          [] q.op = "updateRecord" ->
                 UNION {{(old \ {x}) \union {y} : y \in Storable(q, z) \ (old \ {x})} :
                            x \in Own}
          [] q.op = "deleteRecord" -> {old \ {x} : x \in Own}

\* The triggers dns_records_*_revision count the revision of the zone up.
CountedUnlessUpdated(z, op) ==
    zones[z].revision + (IF op = "updateRecord" THEN 0 ELSE 1)     \* fault
Counted(z, op) == zones[z].revision + 1

ChangeRecord(r) ==
    LET q == req[r] IN
    /\ pc[r] = "checked"
    /\ q.op \in RecordOps
    /\ \E z \in Zones :
           /\ AtRevision(z, q)
           /\ \E records \in EditedRecords(q, z) :
                  Change(r, z, [zones[z] EXCEPT !.records = records,
                                                !.revision = Counted(z, q.op)])

--------------------------------------------------------------------------------
(***************************************************************************)
(* Controller.ReloadZones, called by a handler after its commit and by the *)
(* ticker.  zoneMu is held from before the database is read until the      *)
(* snapshot is stored.                                                     *)
(***************************************************************************)

\* main.refreshZones.
Tick ==
    /\ up
    /\ pc[Refresher] = "idle"
    /\ pc' = [pc EXCEPT ![Refresher] = "reload"]
    /\ UNCHANGED <<store, up, req, commit, zoneMu, loaded, managed, acked>>

LockWithoutWaiting(w) ==                                           \* fault
    /\ pc[w] = "reload"
    /\ zoneMu' = w
    /\ pc' = [pc EXCEPT ![w] = "locked"]
    /\ UNCHANGED <<store, up, req, commit, loaded, managed, acked>>

Lock(w) ==
    /\ pc[w] = "reload"
    /\ zoneMu = None
    /\ zoneMu' = w
    /\ pc' = [pc EXCEPT ![w] = "locked"]
    /\ UNCHANGED <<store, up, req, commit, loaded, managed, acked>>

Load(w) ==
    /\ pc[w] = "locked"
    /\ Loadable
    /\ loaded' = [loaded EXCEPT ![w] = Current]
    /\ pc' = [pc EXCEPT ![w] = "loaded"]
    /\ UNCHANGED <<store, up, req, commit, zoneMu, managed, acked>>

\* A goroutine that is done with its change forgets it.
Forget(w) == [r \in Requests |-> IF r = w THEN 0 ELSE commit[r]]

LoadFailsWithoutUnlock(w) ==                                       \* fault
    /\ pc[w] = "locked"
    /\ pc' = [pc EXCEPT ![w] = "idle"]
    /\ commit' = Forget(w)
    /\ UNCHANGED <<store, up, req, zoneMu, loaded, managed, acked>>

LoadFailsForGood(w) ==                                             \* fault
    /\ pc[w] = "locked"
    /\ zoneMu' = None
    /\ pc' = [pc EXCEPT ![w] = IF w = Refresher THEN "returned" ELSE "idle"]
    /\ commit' = Forget(w)
    /\ UNCHANGED <<store, up, req, loaded, managed, acked>>

\* The read fails or takes longer than five seconds, or a zone is refused.  A
\* handler answers that the change was saved but is not yet active.
LoadFails(w) ==
    /\ pc[w] = "locked"
    /\ zoneMu' = None
    /\ pc' = [pc EXCEPT ![w] = "idle"]
    /\ commit' = Forget(w)
    /\ UNCHANGED <<store, up, req, loaded, managed, acked>>

\* The snapshot replaces the one being served, and a handler answers that its
\* change is in effect.
Publish(w) ==
    /\ pc[w] = "loaded"
    /\ managed' = loaded[w]
    /\ acked' = IF w \in Requests /\ commit[w] > acked THEN commit[w] ELSE acked
    /\ zoneMu' = None
    /\ loaded' = [loaded EXCEPT ![w] = NoSnapshot]
    /\ pc' = [pc EXCEPT ![w] = "idle"]
    /\ commit' = Forget(w)
    /\ UNCHANGED <<store, up, req>>

--------------------------------------------------------------------------------
(* The surroundings: accounts and the process.                                *)

\* UpdateUserAudited and DeleteUserAudited, as far as they matter here; a
\* trigger keeps the last enabled administrator.
EditUser(u) ==
    /\ u \in Editable
    /\ \E account \in Account :
           users' = [users EXCEPT ![u] = account]
    /\ \E x \in Users : users'[x] = EnabledAdmin
    /\ UNCHANGED <<zones, version, up, pc, req, commit, zoneMu, loaded, managed,
                   acked>>

\* The process ends, orderly or not.  What has been committed stays.
Crash ==
    /\ up
    /\ up' = FALSE
    /\ pc' = [w \in Workers |-> "idle"]
    /\ req' = [r \in Requests |-> NoRequest]
    /\ zoneMu' = None
    /\ loaded' = [w \in Workers |-> NoSnapshot]
    /\ commit' = [r \in Requests |-> 0]
    /\ UNCHANGED <<store, managed, acked>>

\* main reads the zones and publishes them before it starts any server.
Start ==
    /\ ~up
    /\ Loadable
    /\ up' = TRUE
    /\ managed' = Current
    /\ UNCHANGED <<store, pc, req, commit, zoneMu, loaded, acked>>

Handle(r) ==
    \/ Fail(r)
    \/ CreateZone(r)
    \/ ReviewZone(r)
    \/ DeleteZone(r)
    \/ ReadZone(r)
    \/ ChangeRecord(r)

ReloadZones(w) ==
    \/ Lock(w)
    \/ Load(w)
    \/ LoadFails(w)
    \/ Publish(w)

Next ==
    \/ \E r \in Requests : Begin(r) \/ Handle(r)
    \/ Tick
    \/ \E w \in Workers : ReloadZones(w)
    \/ \E u \in Users : EditUser(u)
    \/ Crash
    \/ Start

Spec == Init /\ [][Next]_vars

\* Every goroutine goes on; the mutex is fair to those who wait (sync.Mutex
\* hands over to a waiter after a millisecond); loading does not fail forever;
\* the ticker ticks and a stopped process is started again.
Fairness ==
    /\ \A r \in Requests : WF_vars(Handle(r))
    /\ \A w \in Workers : SF_vars(Lock(w)) /\ WF_vars(Load(w) \/ LoadFails(w))
                          /\ WF_vars(Publish(w))
    /\ SF_vars(Load(Refresher))
    /\ WF_vars(Tick)
    /\ WF_vars(Start)

FairSpec == Spec /\ Fairness

--------------------------------------------------------------------------------
(* Properties. *)

IsSnapshot(s) ==
    /\ s.version \in 0..MaxCommits
    /\ \E S \in SUBSET Zones : s.zones \in [S -> [serial : Nat, records : SUBSET Records]]

TypeOK ==
    /\ users \in [Users -> Account]
    /\ zones \in [Zones -> Row]
    /\ version \in 0..MaxCommits
    /\ up \in BOOLEAN
    /\ pc \in [Workers -> {"idle", "begun", "checked", "reload", "locked", "loaded"}]
    /\ req \in [Requests -> Request]
    /\ commit \in [Requests -> 0..MaxCommits]
    /\ zoneMu \in Workers \union {None}
    /\ DOMAIN loaded = Workers
    /\ \A w \in Workers : IsSnapshot(loaded[w])
    /\ IsSnapshot(managed)
    /\ acked \in 0..MaxCommits

\* A change whose author was told "done" is in effect: the snapshot queries are
\* answered from includes it (reviewZone, deleteZone, createRecord, updateRecord
\* and deleteRecord in api.go answer with success only after reloadZones), and
\* so it stays whatever other handlers and the ticker publish later.
AckedIsServed == acked <= managed.version

\* Once nothing newer has been committed, queries see exactly the active zones
\* of the database with their records and the serials of their revisions: no
\* pending, rejected, suspended or deleted zone, and no change that some handler
\* does not publish.
ServedIsCurrent ==
    managed.version = version =>
        /\ DOMAIN managed.zones = {z \in Zones : zones[z].status = "active"}
        /\ \A z \in DOMAIN managed.zones :
               /\ managed.zones[z].serial = Serial(zones[z].revision)
               /\ managed.zones[z].records = zones[z].records

\* Publication refines the abstract promise: what is served only advances, and
\* changes are acknowledged only when served.
Promise == INSTANCE ServedZones
               WITH committed <- version, served <- managed.version
RefinesServed == Promise!Safety

\* While a zone is served, its SOA serial never goes back, and the same serial
\* always stands for the same records (authoritative.New, the triggers
\* dns_records_*_revision), whatever is published late, again or after a restart.
\* It holds until the revision does not fit the serial any more; a zone that is
\* deleted and created again under its name is another zone and starts anew.
SerialsAdvance ==
    [][\A z \in DOMAIN managed.zones \intersect DOMAIN managed'.zones :
           zones[z].revision < SerialWidth =>
               /\ managed.zones[z].serial <= managed'.zones[z].serial
               /\ managed.zones[z].serial = managed'.zones[z].serial =>
                      managed.zones[z] = managed'.zones[z]]_vars

\* A record is added to a zone that is not active only by mistake for a deleted
\* one: createRecord looks at the status before its transaction ("zone must be
\* approved before records can be added", zones.go), a review in between changes
\* the revision, and what remains is that the zone that was read has been deleted
\* and this one has its key and the revision the client expected.
Grows(z) == zones[z].records \subseteq zones'[z].records /\ zones[z].records # zones'[z].records

Mistaken(r, z) ==
    LET q == req[r] IN
    /\ pc[r] = "checked" /\ pc'[r] = "reload"
    /\ q.op = "createRecord"
    /\ zones[q.zone].status = "deleted"
    /\ zones[z].row = q.row
    /\ zones[z].revision = q.expected

RecordsEnterActiveZones ==
    [][\A z \in Zones : Grows(z) =>
           zones[z].status = "active" \/ \E r \in Requests : Mistaken(r, z)]_vars

\* No owner ever has more zones, or more active zones, than the limits allow,
\* however creations, reviews and resumptions of suspended zones interleave.
OwnerLimits ==
    \A u \in Users :
        /\ MaxTotal > 0 => Cardinality(Owned(u)) <= MaxTotal
        /\ MaxActive > 0 => Cardinality(OwnedIn(u, "active")) <= MaxActive

\* The status of a zone is only ever decided by someone who is an enabled
\* administrator at that moment, even if the handler read the session earlier.
Decided(z) == zones'[z].status # zones[z].status /\ zones'[z].status \in ReviewStatuses

DecidedByAdmin ==
    [][\A z \in Zones : Decided(z) =>
           \E r \in Requests :
               /\ pc'[r] # pc[r]
               /\ req[r] # NoRequest
               /\ users[req[r].actor] = EnabledAdmin]_vars

\* A change is made only to a zone as its author last saw it ("Managed-zone
\* mutations apply immediately and use zone revisions to reject stale writes",
\* DESIGN.md).  DeleteZone does not have this property.
StaleWritesRejected ==
    [][\A r \in Requests : commit'[r] > commit[r] =>
           zones[req[r].zone].revision = req[r].expected]_vars

\* Every committed change is served in the end, also after reloads that failed
\* ("reconciliation will retry", api.go) and after crashes.
EventuallyServed == \A n \in 1..MaxCommits : Promise!Serves(n)

\* Every request is answered, or ends with the process: no handler waits for
\* ever, in particular not for zoneMu.
RequestsFinish == \A r \in Requests : pc[r] # "idle" ~> pc[r] = "idle"
================================================================================
