--------------------------- MODULE ZoneControlProofs ---------------------------
(***************************************************************************)
(* Theorems about ZoneControl, for every set of zones, records, accounts   *)
(* and goroutines and all limits.                                          *)
(***************************************************************************)
EXTENDS ZoneControl, TLAPS, FiniteSetTheorems

\* Handlers and the ticker are the goroutines that reload.
LEMMA RequestsAreWorkers == Requests \subseteq Workers /\ Refresher \in Workers
  BY DEF Workers

\* What a client may send is a request.
LEMMA SendableType ==
    ASSUME TypeOK, NEW u \in Users, NEW q \in SendableBy(u)
    PROVE  q \in Request /\ q # NoRequest
  <1> USE DEF TypeOK, SendableBy, Shown, Request, Row, Account, Roles
  <1>1. CASE q.op = "create"
    BY <1>1 DEF CreateRequest, NoRequest, RecordOps
  <1>2. CASE q.op = "review"
    BY <1>2 DEF ReviewRequest, NoRequest, RecordOps
  <1>3. CASE q.op = "delete"
    BY <1>3 DEF DeleteRequest, NoRequest, RecordOps
  <1>4. CASE q.op \in RecordOps
    BY <1>4 DEF RecordRequest, NoRequest, RecordOps
  <1>5. q.op \in {"create", "review", "delete"} \union RecordOps
    OBVIOUS
  <1> QED
    BY <1>1, <1>2, <1>3, <1>4, <1>5

\* Every snapshot built from the tables has the type of a snapshot, and so has
\* the empty one.
LEMMA NoSnapshotType == IsSnapshot(NoSnapshot)
  <1>1. NoSnapshot.version \in 0..MaxCommits
    BY LimitsAssumption DEF NoSnapshot
  <1>2. NoSnapshot.zones \in [{} -> [serial : Nat, records : SUBSET Records]]
    BY DEF NoSnapshot
  <1>3. {} \in SUBSET Zones
    OBVIOUS
  <1> QED
    BY <1>1, <1>2, <1>3 DEF IsSnapshot

\* A serial is a positive number, and a revision that fits is its own serial.
LEMMA SerialType ==
    ASSUME NEW n \in Nat
    PROVE  Serial(n) \in Nat /\ Serial(n) > 0
  <1>1. n % SerialWidth \in Nat
    BY RecordsAssumption
  <1> QED
    BY <1>1 DEF Serial

LEMMA SerialFits ==
    ASSUME NEW n \in Nat, 0 < n, n < SerialWidth
    PROVE  Serial(n) = n
  <1>1. n % SerialWidth = n
    BY RecordsAssumption
  <1> QED
    BY <1>1 DEF Serial

\* What LoadActiveZones reads is a snapshot, and so is the empty one.
LEMMA SnapshotType ==
    ASSUME TypeOK
    PROVE  IsSnapshot(Current)
  <1> DEFINE active == {x \in Zones : zones[x].status = "active"}
  <1>1. ActiveZones \in [active -> [serial : Nat, records : SUBSET Records]]
    BY SerialType DEF TypeOK, Row, ActiveZones, Visible
  <1>2. Current.version \in 0..MaxCommits /\ Current.zones = ActiveZones
    BY DEF TypeOK, Current
  <1>3. active \in SUBSET Zones
    OBVIOUS
  <1> HIDE DEF active
  <1> QED
    BY <1>1, <1>2, <1>3 DEF IsSnapshot

\* A committed change of one row keeps the types.
LEMMA ChangeType ==
    ASSUME TypeOK, NEW r \in Requests, NEW z \in Zones, NEW row \in Row,
           Change(r, z, row)
    PROVE  TypeOK'
  <1> USE DEF TypeOK, Change
  <1>1. zones' \in [Zones -> Row]
    OBVIOUS
  <1>2. version' \in 0..MaxCommits /\ commit' \in [Requests -> 0..MaxCommits]
    BY LimitsAssumption
  <1>3. pc' \in [Workers -> {"idle", "begun", "checked", "reload", "locked", "loaded"}]
    BY RequestsAreWorkers
  <1>4. req' \in [Requests -> Request]
    BY DEF Request
  <1> QED
    BY <1>1, <1>2, <1>3, <1>4

\* What a record request can make of a set of records is one.
LEMMA EditedType ==
    ASSUME TypeOK, NEW z \in Zones, NEW q, q.op \in RecordOps,
           NEW records \in EditedRecords(q, z)
    PROVE  records \subseteq Records
  <1> DEFINE old == zones[z].records
             Own == IF q.zone = z THEN old ELSE {}
  <1>1. old \subseteq Records
    BY DEF TypeOK, Row
  <1>2. Storable(q, z) \subseteq Records
    BY DEF Storable
  <1>3. CASE q.op = "createRecord"
    <2>1. PICK x \in Storable(q, z) : records = old \union {x}
      BY <1>3 DEF EditedRecords
    <2> QED
      BY <1>1, <1>2, <2>1
  <1>4. CASE q.op = "updateRecord"
    <2>1. PICK x \in Own : \E y \in Storable(q, z) : records = (old \ {x}) \union {y}
      BY <1>4 DEF EditedRecords
    <2> QED
      BY <1>1, <1>2, <2>1
  <1>5. CASE q.op = "deleteRecord"
    <2>1. PICK x \in Own : records = old \ {x}
      BY <1>5 DEF EditedRecords
    <2> QED
      BY <1>1, <2>1
  <1> QED
    BY <1>3, <1>4, <1>5 DEF RecordOps

\* What a review, a deletion or an edit makes of the row of a zone that exists: its
\* owner and key stay while it exists, its revision is counted up, and its status
\* is what a review decides.
RowChange(r, z, row) ==
    /\ z \in Zones /\ row \in Row
    /\ Exists(z)
    /\ Change(r, z, row)
    /\ row.owner = zones[z].owner
    /\ \/ row.status = "deleted" /\ row.revision = zones[z].revision
       \/ /\ row.revision = zones[z].revision + 1 /\ row.row = zones[z].row
          /\ \/ row.status = zones[z].status
             \/ /\ ReviewZone(r) /\ z = req[r].zone
                /\ row.status = req[r].status /\ req[r].status \in ReviewStatuses

LEMMA RequestedZone ==
    ASSUME TypeOK, NEW r \in Requests, req[r].op \in {"review", "delete"} \union RecordOps
    PROVE  req[r].zone \in Zones
  BY DEF TypeOK, Request, CreateRequest, ReviewRequest, DeleteRequest, RecordRequest,
         RecordOps, NoRequest

LEMMA ChangedRow ==
    ASSUME TypeOK, NEW r \in Requests,
           ReviewZone(r) \/ DeleteZone(r) \/ ChangeRecord(r)
    PROVE  \E z \in Zones, row \in Row : RowChange(r, z, row)
  <1> DEFINE q == req[r]
  <1>1. CASE ReviewZone(r)
    <2> DEFINE z == q.zone
               row == [zones[z] EXCEPT !.status = q.status, !.revision = @ + 1]
    <2>1. z \in Zones
      BY <1>1, RequestedZone DEF ReviewZone
    <2>2. q.status \in ReviewStatuses
      BY <1>1 DEF ReviewZone, TypeOK, Request, CreateRequest, ReviewRequest,
             DeleteRequest, RecordRequest, RecordOps, NoRequest
    <2>3. Exists(z) /\ Change(r, z, row)
      BY <1>1 DEF ReviewZone
    <2>4. zones[z] \in Row /\ zones[z].revision + 1 \in Nat
      BY <2>1 DEF TypeOK, Row
    <2> HIDE DEF z, q
    <2>5. /\ row \in Row /\ row.owner = zones[z].owner /\ row.row = zones[z].row
          /\ row.revision = zones[z].revision + 1 /\ row.status = q.status
      BY <2>2, <2>4 DEF Row, Statuses
    <2> HIDE DEF row
    <2>6. RowChange(r, z, row)
      BY <1>1, <2>1, <2>2, <2>3, <2>5 DEF RowChange, z, q
    <2> QED
      BY <2>1, <2>5, <2>6
  <1>2. CASE DeleteZone(r)
    <2> DEFINE z == q.zone
               row == [zones[z] EXCEPT !.row = 0, !.status = "deleted", !.records = {}]
    <2>1. z \in Zones
      BY <1>2, RequestedZone DEF DeleteZone
    <2>2. Exists(z) /\ Change(r, z, row)
      BY <1>2 DEF DeleteZone, MayTouch
    <2>3. zones[z] \in Row
      BY <2>1 DEF TypeOK
    <2> HIDE DEF z, q
    <2>4. /\ row \in Row /\ row.owner = zones[z].owner
          /\ row.revision = zones[z].revision /\ row.status = "deleted"
      BY <2>3 DEF Row, Statuses
    <2> HIDE DEF row
    <2>5. RowChange(r, z, row)
      BY <2>1, <2>2, <2>4 DEF RowChange
    <2> QED
      BY <2>1, <2>4, <2>5
  <1>3. CASE ChangeRecord(r)
    <2>1. PICK z \in Zones :
              /\ AtRevision(z, q)
              /\ \E records \in EditedRecords(q, z) :
                  Change(r, z, [zones[z] EXCEPT !.records = records,
                                                !.revision = Counted(z, q.op)])
      BY <1>3 DEF ChangeRecord
    <2>2. PICK records \in EditedRecords(q, z) :
              Change(r, z, [zones[z] EXCEPT !.records = records,
                                            !.revision = Counted(z, q.op)])
      BY <2>1
    <2> DEFINE row == [zones[z] EXCEPT !.records = records, !.revision = Counted(z, q.op)]
    <2>3. records \subseteq Records
      BY <1>3, EditedType DEF ChangeRecord
    <2>4. zones[z] \in Row /\ Counted(z, q.op) = zones[z].revision + 1
          /\ Counted(z, q.op) \in Nat
      BY DEF TypeOK, Row, Counted
    <2>5. Exists(z)
      BY <2>1 DEF AtRevision
    <2>6. Change(r, z, row)
      BY <2>2
    <2> HIDE DEF q
    <2>7. /\ row \in Row /\ row.owner = zones[z].owner /\ row.row = zones[z].row
          /\ row.revision = zones[z].revision + 1 /\ row.status = zones[z].status
      BY <2>3, <2>4 DEF Row
    <2> HIDE DEF row
    <2>8. RowChange(r, z, row)
      BY <2>5, <2>6, <2>7 DEF RowChange
    <2> QED
      BY <2>7, <2>8
  <1> QED
    BY <1>1, <1>2, <1>3

\* What a creation puts into the tables.
LEMMA CreatedRow ==
    ASSUME TypeOK, NEW r \in Requests, CreateZone(r)
    PROVE  \E z \in Zones, n \in NextRow :
               /\ zones[z].status = "absent"
               /\ req[r].owner \in Users
               /\ zones' = [zones EXCEPT ![z] = [row |-> n, status |-> "pending",
                                owner |-> req[r].owner, revision |-> 1, records |-> {}]]
               /\ n \in Nat /\ \A x \in Zones : zones[x].row < n
               /\ zones' \in [Zones -> Row]
  <1>1. req[r].owner \in Users
    BY DEF CreateZone, TypeOK, Request, CreateRequest, ReviewRequest,
           DeleteRequest, RecordRequest, RecordOps, NoRequest
  <1>2. PICK z \in Zones :
            /\ zones[z].status = "absent"
            /\ \E n \in NextRow :
                   zones' = [zones EXCEPT ![z] = [row |-> n, status |-> "pending",
                            owner |-> req[r].owner, revision |-> 1, records |-> {}]]
    BY DEF CreateZone
  <1>3. PICK n \in NextRow :
              zones' = [zones EXCEPT ![z] = [row |-> n, status |-> "pending",
                            owner |-> req[r].owner, revision |-> 1, records |-> {}]]
    BY <1>2
  <1>4. n \in Nat /\ \A x \in Zones : zones[x].row < n
    BY DEF NextRow, RowIds, TypeOK, Row
  <1>5. [row |-> n, status |-> "pending", owner |-> req[r].owner, revision |-> 1,
         records |-> {}] \in Row
    BY <1>1, <1>4 DEF Row, Statuses
  <1>6. zones' \in [Zones -> Row]
    BY <1>3, <1>5 DEF TypeOK
  <1> QED
    BY <1>1, <1>2, <1>3, <1>4, <1>6

\* An answer keeps the types of what it leaves and resets.
LEMMA AnswerType ==
    ASSUME TypeOK, NEW r \in Requests, Answer(r),
           zones' \in [Zones -> Row]
    PROVE  TypeOK'
  <1>1. pc' \in [Workers -> {"idle", "begun", "checked", "reload", "locked", "loaded"}]
    BY RequestsAreWorkers DEF TypeOK, Answer
  <1>2. req' \in [Requests -> Request]
    BY DEF TypeOK, Answer, Request
  <1> QED
    BY <1>1, <1>2 DEF TypeOK, Answer

\* The type invariant is inductive.
LEMMA TypeStep == TypeOK /\ [Next]_vars => TypeOK'
  <1> SUFFICES ASSUME TypeOK, [Next]_vars PROVE TypeOK'
    OBVIOUS
  <1> USE RequestsAreWorkers
  <1>1. ASSUME NEW r \in Requests, Begin(r) PROVE TypeOK'
    <2>1. req' \in [Requests -> Request]
      BY <1>1, SendableType DEF Begin, TypeOK
    <2>2. pc' \in [Workers -> {"idle", "begun", "checked", "reload", "locked", "loaded"}]
      BY <1>1 DEF Begin, TypeOK
    <2> QED
      BY <1>1, <2>1, <2>2 DEF Begin, TypeOK, store
  <1>2. ASSUME NEW r \in Requests, Fail(r) PROVE TypeOK'
    BY <1>2, AnswerType DEF Fail, TypeOK
  <1>3. ASSUME NEW r \in Requests, CreateZone(r) PROVE TypeOK'
    BY <1>3, CreatedRow, AnswerType DEF CreateZone
  <1>4. ASSUME NEW r \in Requests, ReviewZone(r) PROVE TypeOK'
    BY <1>4, ChangedRow, ChangeType DEF RowChange
  <1>5. ASSUME NEW r \in Requests, DeleteZone(r) PROVE TypeOK'
    BY <1>5, ChangedRow, ChangeType DEF RowChange
  <1>6. ASSUME NEW r \in Requests, ReadZone(r) PROVE TypeOK'
    <2>1. /\ req[r] \in RecordRequest /\ zones[req[r].zone].row \in Nat
          /\ req' = [req EXCEPT ![r] = [req[r] EXCEPT !.row = zones[req[r].zone].row]]
      <3>1. req[r] \in RecordRequest
        BY <1>6 DEF ReadZone, TypeOK, Request, CreateRequest, ReviewRequest, DeleteRequest,
               RecordRequest, RecordOps, NoRequest
      <3>2. zones[req[r].zone].row \in Nat
        BY <3>1 DEF RecordRequest, TypeOK, Row
      <3> QED
        BY <1>6, <3>1, <3>2 DEF ReadZone
    <2>2. [req[r] EXCEPT !.row = zones[req[r].zone].row] \in RecordRequest
      BY <2>1 DEF RecordRequest
    <2>3. req' \in [Requests -> Request]
      BY <2>1, <2>2 DEF TypeOK, Request
    <2>4. pc' \in [Workers -> {"idle", "begun", "checked", "reload", "locked", "loaded"}]
      BY <1>6 DEF ReadZone, TypeOK
    <2> QED
      BY <1>6, <2>3, <2>4 DEF ReadZone, TypeOK, store
  <1>7. ASSUME NEW r \in Requests, ChangeRecord(r) PROVE TypeOK'
    BY <1>7, ChangedRow, ChangeType DEF RowChange
  <1>8. CASE Tick
    BY <1>8 DEF Tick, TypeOK, store
  <1>9. ASSUME NEW w \in Workers, Lock(w) PROVE TypeOK'
    BY <1>9 DEF Lock, TypeOK, store
  <1>10. ASSUME NEW w \in Workers, Load(w) PROVE TypeOK'
    <2>1. \A v \in Workers : IsSnapshot(loaded'[v])
      BY <1>10, SnapshotType DEF Load, TypeOK
    <2>2. UNCHANGED <<users, zones, version, up, req, commit, zoneMu, managed, acked>>
      BY <1>10 DEF Load, store
    <2>3. IsSnapshot(managed')
      BY <2>2 DEF TypeOK, IsSnapshot
    <2> QED
      BY <1>10, <2>1, <2>2, <2>3 DEF Load, TypeOK, IsSnapshot
  <1>11. ASSUME NEW w \in Workers, LoadFails(w) PROVE TypeOK'
    BY <1>11, LimitsAssumption DEF LoadFails, Forget, TypeOK, store
  <1>12. ASSUME NEW w \in Workers, Publish(w) PROVE TypeOK'
    <2>1. \A v \in Workers : IsSnapshot(loaded'[v])
      BY <1>12, NoSnapshotType DEF Publish, TypeOK
    <2>2. IsSnapshot(managed')
      BY <1>12 DEF Publish, TypeOK
    <2>3. acked' \in 0..MaxCommits
      BY <1>12 DEF Publish, TypeOK
    <2>4. commit' \in [Requests -> 0..MaxCommits]
      BY <1>12, LimitsAssumption DEF Publish, Forget, TypeOK
    <2>5. DOMAIN loaded' = Workers /\ zoneMu' = None
      BY <1>12 DEF Publish, TypeOK
    <2>6. pc' \in [Workers -> {"idle", "begun", "checked", "reload", "locked", "loaded"}]
      BY <1>12 DEF Publish, TypeOK
    <2>7. UNCHANGED <<users, zones, version, up, req>>
      BY <1>12 DEF Publish, store
    <2> QED
      BY <2>1, <2>2, <2>3, <2>4, <2>5, <2>6, <2>7 DEF TypeOK
  <1>13. ASSUME NEW u \in Users, EditUser(u) PROVE TypeOK'
    BY <1>13 DEF EditUser, TypeOK
  <1>14. CASE Crash
    <2>1. \A w \in Workers : IsSnapshot(loaded'[w])
      BY <1>14, NoSnapshotType DEF Crash
    <2>2. req' \in [Requests -> Request]
      BY <1>14 DEF Crash, Request
    <2>3. /\ DOMAIN loaded' = Workers
          /\ commit' \in [Requests -> 0..MaxCommits]
      BY <1>14, LimitsAssumption DEF Crash
    <2>4. IsSnapshot(managed')
      BY <1>14 DEF Crash, TypeOK
    <2> QED
      BY <1>14, <2>1, <2>2, <2>3, <2>4 DEF Crash, TypeOK, store
  <1>15. CASE Start
    BY <1>15, SnapshotType DEF Start, TypeOK, store
  <1>16. CASE UNCHANGED vars
    BY <1>16 DEF vars, TypeOK
  <1> QED
    BY <1>1, <1>2, <1>3, <1>4, <1>5, <1>6, <1>7, <1>8, <1>9, <1>10, <1>11, <1>12,
       <1>13, <1>14, <1>15, <1>16 DEF Next, Handle, ReloadZones

\* The tables, the goroutines and the snapshots keep their types.
LEMMA TypeInit == Init => TypeOK
  <1> SUFFICES ASSUME Init PROVE TypeOK
    OBVIOUS
  <1>1. users \in [Users -> Account]
    BY DEF Init, Account, Roles
  <1>2. zones \in [Zones -> Row]
    BY DEF Init, Row, Statuses
  <1>3. req \in [Requests -> Request]
    BY DEF Init, Request
  <1>4. \A w \in Workers : IsSnapshot(loaded[w])
    BY NoSnapshotType DEF Init
  <1>5. IsSnapshot(managed)
    BY NoSnapshotType DEF Init
  <1>6. /\ version \in 0..MaxCommits
        /\ acked \in 0..MaxCommits
        /\ commit \in [Requests -> 0..MaxCommits]
    BY LimitsAssumption DEF Init
  <1>7. /\ pc \in [Workers -> {"idle", "begun", "checked", "reload", "locked", "loaded"}]
        /\ up \in BOOLEAN
        /\ zoneMu \in Workers \union {None}
        /\ DOMAIN loaded = Workers
    BY DEF Init
  <1> QED
    BY <1>1, <1>2, <1>3, <1>4, <1>5, <1>6, <1>7 DEF TypeOK

\* Every variable keeps its type: in particular a snapshot is always one of active
\* zones as LoadActiveZones reads them, and zoneMu is held by a goroutine or nobody.
THEOREM TypeCorrect == Spec => []TypeOK
  BY TypeInit, TypeStep, PTL DEF Spec

--------------------------------------------------------------------------------
(***************************************************************************)
(* Publication.  The mutex makes reading the tables and storing the        *)
(* snapshot one critical section, so a goroutine that has loaded a         *)
(* snapshot holds one at least as new as the one being served, and one     *)
(* that has loaded after its own commit holds one that includes it.        *)
(***************************************************************************)

InReload(w) == pc[w] \in {"locked", "loaded"}

MutexInv == \A w \in Workers : InReload(w) => zoneMu = w

VersionInv ==
    /\ managed.version <= version
    /\ acked <= managed.version
    /\ \A r \in Requests : commit[r] <= version
    /\ \A w \in Workers : pc[w] = "loaded" =>
           /\ managed.version <= loaded[w].version
           /\ loaded[w].version <= version
           /\ w \in Requests => commit[w] <= loaded[w].version

CurrencyInv ==
    /\ managed.version = version => managed.zones = ActiveZones
    /\ \A w \in Workers :
           pc[w] = "loaded" /\ loaded[w].version = version => loaded[w].zones = ActiveZones

\* No goroutine outlives the process.
StoppedInv == ~up => \A w \in Workers : pc[w] = "idle"

PublicationInv == TypeOK /\ StoppedInv /\ MutexInv /\ VersionInv /\ CurrencyInv

\* A stopped process has no goroutine that works, and none starts before it.
LEMMA StoppedStep == TypeOK /\ StoppedInv /\ [Next]_vars => StoppedInv'
  <1> SUFFICES ASSUME TypeOK, StoppedInv, [Next]_vars PROVE StoppedInv'
    OBVIOUS
  <1> USE RequestsAreWorkers DEF TypeOK, StoppedInv
  <1>1. ASSUME NEW r \in Requests, Begin(r) PROVE StoppedInv'
    BY <1>1 DEF Begin
  <1>2. ASSUME NEW r \in Requests, Fail(r) PROVE StoppedInv'
    BY <1>2 DEF Fail, Answer
  <1>3. ASSUME NEW r \in Requests, CreateZone(r) PROVE StoppedInv'
    BY <1>3 DEF CreateZone, Answer
  <1>4. ASSUME NEW r \in Requests, ReviewZone(r) PROVE StoppedInv'
    BY <1>4 DEF ReviewZone, Change
  <1>5. ASSUME NEW r \in Requests, DeleteZone(r) PROVE StoppedInv'
    BY <1>5 DEF DeleteZone, Change
  <1>6. ASSUME NEW r \in Requests, ReadZone(r) PROVE StoppedInv'
    BY <1>6 DEF ReadZone
  <1>7. ASSUME NEW r \in Requests, ChangeRecord(r) PROVE StoppedInv'
    BY <1>7 DEF ChangeRecord, Change
  <1>8. CASE Tick
    BY <1>8 DEF Tick
  <1>9. ASSUME NEW w \in Workers, ReloadZones(w) PROVE StoppedInv'
    BY <1>9 DEF ReloadZones, Lock, Load, LoadFails, Publish
  <1>10. ASSUME NEW u \in Users, EditUser(u) PROVE StoppedInv'
    BY <1>10 DEF EditUser
  <1>11. CASE Crash
    BY <1>11 DEF Crash
  <1>12. CASE Start
    BY <1>12 DEF Start
  <1>13. CASE UNCHANGED vars
    BY <1>13 DEF vars
  <1> QED
    BY <1>1, <1>2, <1>3, <1>4, <1>5, <1>6, <1>7, <1>8, <1>9, <1>10, <1>11, <1>12,
       <1>13 DEF Next, Handle

\* The numbers the invariant compares are natural numbers.
LEMMA Numbers ==
    ASSUME TypeOK
    PROVE  /\ version \in Nat /\ acked \in Nat /\ managed.version \in Nat
           /\ \A r \in Requests : commit[r] \in Nat
           /\ \A w \in Workers : loaded[w].version \in Nat
  BY LimitsAssumption DEF TypeOK, IsSnapshot

\* A step that leaves the tables, the snapshots and the mutex alone and takes no
\* goroutine into or out of the critical section.
LEMMA OutsideStep ==
    ASSUME PublicationInv,
           UNCHANGED <<zones, version, commit, zoneMu, loaded, managed, acked>>,
           \A w \in Workers : pc'[w] \in {"locked", "loaded"} => pc'[w] = pc[w]
    PROVE  MutexInv' /\ VersionInv' /\ CurrencyInv'
  <1> USE DEF PublicationInv, InReload
  <1>1. MutexInv'
    BY DEF MutexInv
  <1>2. VersionInv'
    BY DEF VersionInv
  <1>3. CurrencyInv'
    BY DEF CurrencyInv, ActiveZones, Visible
  <1> QED
    BY <1>1, <1>2, <1>3

\* A committed change leaves every snapshot behind.
LEMMA ChangePublication ==
    ASSUME PublicationInv, NEW r \in Requests, NEW z \in Zones, NEW row \in Row,
           Change(r, z, row)
    PROVE  MutexInv' /\ VersionInv' /\ CurrencyInv'
  <1> USE RequestsAreWorkers DEF PublicationInv
  <1>1. \A w \in Workers : pc'[w] \in {"locked", "loaded"} => pc'[w] = pc[w] /\ w # r
    BY DEF TypeOK, Change
  <1>2. /\ version' = version + 1
        /\ \A x \in Requests : commit'[x] = IF x = r THEN version + 1 ELSE commit[x]
        /\ UNCHANGED <<zoneMu, loaded, managed, acked>>
    BY DEF TypeOK, Change
  <1>3. MutexInv'
    BY <1>1, <1>2 DEF MutexInv, InReload
  <1>4. VersionInv'
    <2>1. managed'.version <= version' /\ acked' <= managed'.version
      BY <1>2, Numbers DEF VersionInv
    <2>2. \A x \in Requests : commit'[x] <= version'
      BY <1>2, Numbers DEF VersionInv
    <2>3. \A w \in Workers : pc'[w] = "loaded" =>
             /\ managed'.version <= loaded'[w].version
             /\ loaded'[w].version <= version'
             /\ w \in Requests => commit'[w] <= loaded'[w].version
      BY <1>1, <1>2, Numbers DEF VersionInv
    <2> QED
      BY <2>1, <2>2, <2>3 DEF VersionInv
  <1>5. managed'.version # version'
    BY <1>2, Numbers DEF VersionInv
  <1>6. \A w \in Workers : pc'[w] = "loaded" => loaded'[w].version # version'
    BY <1>1, <1>2, Numbers DEF VersionInv
  <1>7. CurrencyInv'
    BY <1>5, <1>6 DEF CurrencyInv
  <1> QED
    BY <1>3, <1>4, <1>7

\* Entering, leaving and passing through the critical section, and creating a
\* zone nobody is served, keep the invariant.
LEMMA PublicationStep == PublicationInv /\ [Next]_vars => PublicationInv'
  <1> SUFFICES ASSUME PublicationInv, [Next]_vars
               PROVE  MutexInv' /\ VersionInv' /\ CurrencyInv'
    BY TypeStep, StoppedStep DEF PublicationInv
  <1> USE RequestsAreWorkers
  <1> DEFINE Same == UNCHANGED <<version, commit, zoneMu, loaded, managed, acked>>
             Apart == \A w \in Workers :
                          pc'[w] \in {"locked", "loaded"} => pc'[w] = pc[w]
  <1>0. ASSUME UNCHANGED zones, Same, Apart
        PROVE  MutexInv' /\ VersionInv' /\ CurrencyInv'
    BY <1>0, OutsideStep
  <1>1. ASSUME NEW r \in Requests, Begin(r) PROVE UNCHANGED zones /\ Same /\ Apart
    BY <1>1 DEF Begin, store, PublicationInv, TypeOK
  <1>2. ASSUME NEW r \in Requests, Fail(r) PROVE UNCHANGED zones /\ Same /\ Apart
    BY <1>2 DEF Fail, Answer, PublicationInv, TypeOK
  <1>3. ASSUME NEW r \in Requests, CreateZone(r)
        PROVE  MutexInv' /\ VersionInv' /\ CurrencyInv'
    <2>1. PICK z \in Zones, n \in NextRow :
              /\ zones[z].status = "absent"
              /\ zones' = [zones EXCEPT ![z] = [row |-> n, status |-> "pending",
                               owner |-> req[r].owner, revision |-> 1, records |-> {}]]
      BY <1>3, CreatedRow DEF PublicationInv
    <2>2. ActiveZones' = ActiveZones
      <3>1. {x \in Zones : zones'[x].status = "active"} = {x \in Zones : zones[x].status = "active"}
        BY <2>1 DEF PublicationInv, TypeOK
      <3>2. \A x \in Zones : zones[x].status = "active" => zones'[x] = zones[x]
        BY <2>1 DEF PublicationInv, TypeOK
      <3> QED
        BY <3>1, <3>2 DEF ActiveZones, Visible
    <2>3. Same
      BY <1>3 DEF CreateZone, Answer
    <2>4. Apart
      BY <1>3 DEF CreateZone, Answer, PublicationInv, TypeOK
    <2>6. MutexInv' /\ VersionInv'
      BY <2>3, <2>4 DEF PublicationInv, MutexInv, VersionInv, InReload
    <2>7. CurrencyInv'
      BY <2>2, <2>3, <2>4 DEF PublicationInv, CurrencyInv
    <2> QED
      BY <2>6, <2>7
  <1>4. ASSUME NEW r \in Requests, ReviewZone(r) \/ DeleteZone(r) \/ ChangeRecord(r)
        PROVE  MutexInv' /\ VersionInv' /\ CurrencyInv'
    BY <1>4, ChangedRow, ChangePublication DEF PublicationInv, RowChange
  <1>5. ASSUME NEW r \in Requests, ReadZone(r) PROVE UNCHANGED zones /\ Same /\ Apart
    BY <1>5 DEF ReadZone, store, PublicationInv, TypeOK
  <1>6. ASSUME Tick PROVE UNCHANGED zones /\ Same /\ Apart
    BY <1>6 DEF Tick, store, PublicationInv, TypeOK
  <1>7. ASSUME NEW w \in Workers, Lock(w)
        PROVE  MutexInv' /\ VersionInv' /\ CurrencyInv'
    <2>1. /\ zoneMu = None /\ zoneMu' = w
          /\ UNCHANGED <<zones, version, commit, loaded, managed, acked>>
          /\ \A v \in Workers : pc'[v] = IF v = w THEN "locked" ELSE pc[v]
      BY <1>7 DEF Lock, store, PublicationInv, TypeOK
    <2>2. \A v \in Workers : ~InReload(v)
      BY <2>1, WorkersAssumption DEF PublicationInv, MutexInv
    <2>3. MutexInv'
      BY <2>1, <2>2 DEF MutexInv, InReload
    <2>4. \A v \in Workers : pc'[v] # "loaded"
      BY <2>1, <2>2 DEF InReload
    <2>5. VersionInv'
      BY <2>1, <2>4 DEF PublicationInv, VersionInv
    <2>6. CurrencyInv'
      BY <2>1, <2>4 DEF PublicationInv, CurrencyInv, ActiveZones, Visible
    <2> QED
      BY <2>3, <2>5, <2>6
  <1>8. ASSUME NEW w \in Workers, Load(w)
        PROVE  MutexInv' /\ VersionInv' /\ CurrencyInv'
    <2>1. /\ UNCHANGED <<zones, version, commit, zoneMu, managed, acked>>
          /\ pc[w] = "locked"
          /\ \A v \in Workers : pc'[v] = IF v = w THEN "loaded" ELSE pc[v]
          /\ \A v \in Workers : loaded'[v] = IF v = w THEN Current ELSE loaded[v]
      BY <1>8 DEF Load, store, PublicationInv, TypeOK
    <2>2. MutexInv'
      BY <2>1 DEF PublicationInv, MutexInv, InReload
    <2>3. Current.version = version /\ Current.zones = ActiveZones
      BY DEF Current
    <2>4. ActiveZones' = ActiveZones
      BY <2>1 DEF ActiveZones, Visible
    <2>5. VersionInv'
      BY <2>1, <2>3, Numbers DEF PublicationInv, VersionInv
    <2>6. CurrencyInv'
      BY <2>1, <2>3, <2>4 DEF PublicationInv, CurrencyInv
    <2> QED
      BY <2>2, <2>5, <2>6
  <1>9. ASSUME NEW w \in Workers, LoadFails(w)
        PROVE  MutexInv' /\ VersionInv' /\ CurrencyInv'
    <2>1. /\ UNCHANGED <<zones, version, loaded, managed, acked>>
          /\ pc[w] = "locked" /\ zoneMu' = None
          /\ \A v \in Workers : pc'[v] = IF v = w THEN "idle" ELSE pc[v]
          /\ \A r \in Requests : commit'[r] = IF r = w THEN 0 ELSE commit[r]
      BY <1>9 DEF LoadFails, Forget, store, PublicationInv, TypeOK
    <2>2. \A v \in Workers : ~(pc'[v] \in {"locked", "loaded"})
      BY <2>1 DEF PublicationInv, MutexInv, InReload
    <2>3. MutexInv'
      BY <2>2 DEF MutexInv, InReload
    <2>4. VersionInv'
      BY <2>1, <2>2, Numbers DEF PublicationInv, VersionInv
    <2>5. CurrencyInv'
      BY <2>1, <2>2 DEF PublicationInv, CurrencyInv, ActiveZones, Visible
    <2> QED
      BY <2>3, <2>4, <2>5
  <1>10. ASSUME NEW w \in Workers, Publish(w)
         PROVE  MutexInv' /\ VersionInv' /\ CurrencyInv'
    <2>1. /\ UNCHANGED <<zones, version>>
          /\ pc[w] = "loaded" /\ zoneMu' = None /\ managed' = loaded[w]
          /\ acked' = IF w \in Requests /\ commit[w] > acked THEN commit[w] ELSE acked
          /\ \A v \in Workers : pc'[v] = IF v = w THEN "idle" ELSE pc[v]
          /\ \A r \in Requests : commit'[r] = IF r = w THEN 0 ELSE commit[r]
      BY <1>10 DEF Publish, Forget, store, PublicationInv, TypeOK
    <2>2. \A v \in Workers : ~(pc'[v] \in {"locked", "loaded"})
      BY <2>1 DEF PublicationInv, MutexInv, InReload
    <2>3. MutexInv'
      BY <2>2 DEF MutexInv, InReload
    <2>4. VersionInv'
      BY <2>1, <2>2, Numbers DEF PublicationInv, VersionInv
    <2>5. CurrencyInv'
      BY <2>1, <2>2 DEF PublicationInv, CurrencyInv, ActiveZones, Visible
    <2> QED
      BY <2>3, <2>4, <2>5
  <1>11. ASSUME NEW u \in Users, EditUser(u) PROVE UNCHANGED zones /\ Same /\ Apart
    BY <1>11 DEF EditUser
  <1>12. CASE Crash
    <2>1. /\ UNCHANGED <<zones, version, managed, acked>>
          /\ \A v \in Workers : pc'[v] = "idle"
          /\ \A r \in Requests : commit'[r] = 0
      BY <1>12 DEF Crash, store
    <2>2. MutexInv'
      BY <2>1 DEF MutexInv, InReload
    <2>3. VersionInv'
      BY <2>1, Numbers DEF PublicationInv, VersionInv
    <2>4. CurrencyInv'
      BY <2>1 DEF PublicationInv, CurrencyInv, ActiveZones, Visible
    <2> QED
      BY <2>2, <2>3, <2>4
  <1>13. CASE Start
    <2>1. /\ UNCHANGED <<zones, version, pc, commit, zoneMu, loaded, acked>>
          /\ managed' = Current
      BY <1>13 DEF Start, store
    <2>2. \A w \in Workers : pc'[w] = "idle"
      BY <1>13, <2>1 DEF Start, PublicationInv, StoppedInv
    <2>3. Current.version = version /\ Current.zones = ActiveZones /\ ActiveZones' = ActiveZones
      BY <2>1 DEF Current, ActiveZones, Visible
    <2>4. MutexInv'
      BY <2>2 DEF MutexInv, InReload
    <2>5. VersionInv'
      BY <2>1, <2>2, <2>3, Numbers DEF PublicationInv, VersionInv
    <2>6. CurrencyInv'
      BY <2>1, <2>2, <2>3 DEF CurrencyInv
    <2> QED
      BY <2>4, <2>5, <2>6
  <1>14. CASE UNCHANGED vars
    BY <1>14, <1>0 DEF vars
  <1> HIDE DEF Same, Apart
  <1> QED
    BY <1>0, <1>1, <1>2, <1>3, <1>4, <1>5, <1>6, <1>7, <1>8, <1>9, <1>10, <1>11,
       <1>12, <1>13, <1>14 DEF Next, Handle, ReloadZones

\* Nothing is committed and the resolver serves no zone.
LEMMA PublicationInit == Init => PublicationInv
  <1> SUFFICES ASSUME Init PROVE StoppedInv /\ MutexInv /\ VersionInv /\ CurrencyInv
    BY TypeInit DEF PublicationInv
  <1>1. \A w \in Workers : pc[w] = "idle"
    BY DEF Init
  <1>2. StoppedInv /\ MutexInv
    BY <1>1 DEF StoppedInv, MutexInv, InReload
  <1>3. VersionInv
    BY <1>1 DEF Init, NoSnapshot, VersionInv
  <1>4. ActiveZones = NoSnapshot.zones
    BY DEF Init, NoSnapshot, ActiveZones
  <1>5. CurrencyInv
    BY <1>1, <1>4 DEF Init, CurrencyInv
  <1> QED
    BY <1>2, <1>3, <1>5

\* The inductive invariant holds throughout.
THEOREM Publication == Spec => []PublicationInv
  BY PublicationInit, PublicationStep, PTL DEF Spec

\* A change answered with success is being served, whatever happens later.
THEOREM AckedServed == Spec => []AckedIsServed
  <1>1. PublicationInv => AckedIsServed
    BY DEF PublicationInv, VersionInv, AckedIsServed
  <1> QED
    BY <1>1, Publication, PTL

\* What is served as of the latest change is what the tables say.
THEOREM ServedCurrent == Spec => []ServedIsCurrent
  <1>1. PublicationInv => ServedIsCurrent
    BY DEF PublicationInv, CurrencyInv, ServedIsCurrent, ActiveZones, Visible
  <1> QED
    BY <1>1, Publication, PTL
--------------------------------------------------------------------------------
(* Refinement of ServedZones.                                                  *)

\* Every step is a step of the abstract promise, or changes nothing it sees.
LEMMA ServedStep ==
    ASSUME PublicationInv, PublicationInv', [Next]_vars
    PROVE  [Promise!Next]_<<version, managed.version, acked>>
  <1> USE RequestsAreWorkers DEF PublicationInv
  <1> DEFINE Unseen == UNCHANGED <<version, managed, acked>>
  <1>1. ASSUME Unseen PROVE [Promise!Next]_<<version, managed.version, acked>>
    BY <1>1
  <1>2. ASSUME NEW r \in Requests, Begin(r) \/ Fail(r) \/ CreateZone(r) \/ ReadZone(r)
        PROVE  Unseen
    BY <1>2 DEF Begin, Fail, CreateZone, ReadZone, Answer, store
  <1>3. ASSUME NEW r \in Requests, ReviewZone(r) \/ DeleteZone(r) \/ ChangeRecord(r)
        PROVE  Promise!Commit
    <2>1. PICK z \in Zones, row \in Row : Change(r, z, row)
      BY <1>3, ChangedRow DEF RowChange
    <2> QED
      BY <2>1 DEF Change, Promise!Commit
  <1>4. ASSUME NEW w \in Workers, Lock(w) \/ Load(w) \/ LoadFails(w) PROVE Unseen
    BY <1>4 DEF Lock, Load, LoadFails, store
  <1>5. ASSUME NEW w \in Workers, Publish(w) PROVE Promise!Publish
    <2>1. /\ managed' = loaded[w] /\ version' = version /\ pc[w] = "loaded"
          /\ acked' = IF w \in Requests /\ commit[w] > acked THEN commit[w] ELSE acked
      BY <1>5 DEF Publish, store
    <2>2. managed'.version \in managed.version..version
      BY <2>1, Numbers DEF VersionInv
    <2>3. acked' \in Nat /\ acked <= acked'
      BY <2>1, Numbers
    <2>4. acked' <= managed'.version
      BY DEF VersionInv
    <2>5. acked' \in acked..managed'.version
      BY <2>2, <2>3, <2>4, Numbers
    <2> QED
      BY <2>1, <2>2, <2>5 DEF Promise!Publish
  <1>6. CASE Tick \/ (\E u \in Users : EditUser(u)) \/ Crash \/ UNCHANGED vars
    BY <1>6, <1>1 DEF Tick, EditUser, Crash, store, vars
  <1>7. ASSUME Start PROVE Promise!Publish
    <2>1. managed'.version = version /\ UNCHANGED <<version, acked>>
      BY <1>7 DEF Start, Current, store
    <2>2. managed'.version \in managed.version..version
      BY <2>1, Numbers DEF VersionInv
    <2>3. acked' \in acked..managed'.version
      BY <2>1, Numbers DEF VersionInv
    <2> QED
      BY <2>1, <2>2, <2>3 DEF Promise!Publish
  <1> HIDE DEF Unseen
  <1> QED
    BY <1>1, <1>2, <1>3, <1>4, <1>5, <1>6, <1>7
       DEF Next, Handle, ReloadZones, Promise!Next

\* The zone control plane implements the abstract promise: what is served only
\* advances, never past what is committed, and acknowledgements follow it.
THEOREM ServedRefined == Spec => RefinesServed
  <1>1. Init => Promise!Init
    BY DEF Init, NoSnapshot, Promise!Init
  <1>2. PublicationInv /\ PublicationInv' /\ [Next]_vars => [Promise!Next]_(Promise!vars)
    BY ServedStep DEF Promise!vars
  <1> QED
    BY <1>1, <1>2, Publication, PTL DEF Spec, RefinesServed, Promise!Safety

--------------------------------------------------------------------------------
(***************************************************************************)
(* Where records are added.  createRecord finds the zone active before its *)
(* transaction; inside it the zone may be decided differently, but then    *)
(* its revision has moved past the one the request names; or it may be     *)
(* gone, and then its key may be another zone's.                           *)
(***************************************************************************)

\* Zones that exist have a key each, and revisions count from the creation.
KeyInv ==
    /\ \A z \in Zones : zones[z].status = "absent" <=> zones[z].revision = 0
    /\ \A x, y \in Zones : Exists(x) /\ Exists(y) /\ zones[x].row = zones[y].row => x = y

\* Requests name zones that were there, at revisions they have had.
ShownInv == \A r \in Requests : req[r].op \in RecordOps =>
    /\ zones[req[r].zone].status # "absent"
    /\ req[r].expected <= zones[req[r].zone].revision

\* The key that was read is that of the zone while the zone exists.
ReadInv == \A r \in Requests :
    /\ pc[r] = "checked"
    /\ req[r].op \in RecordOps
    /\ Exists(req[r].zone)
    => zones[req[r].zone].row = req[r].row

StillApproved(r) ==
    \/ zones[req[r].zone].status \in {"active", "deleted"}
    \/ zones[req[r].zone].revision > req[r].expected

ApprovedInv == \A r \in Requests :
    pc[r] = "checked" /\ req[r].op = "createRecord" => StillApproved(r)

RecordInv == KeyInv /\ ShownInv /\ ReadInv /\ ApprovedInv

\* The fields of a record request.
LEMMA RecordRequestType ==
    ASSUME TypeOK, NEW r \in Requests, req[r].op \in RecordOps
    PROVE  /\ req[r].zone \in Zones /\ req[r].expected \in Nat
           /\ zones[req[r].zone] \in Row /\ zones[req[r].zone].revision \in Nat
  <1>1. req[r].zone \in Zones /\ req[r].expected \in Nat
    BY DEF TypeOK, Request, CreateRequest, ReviewRequest, DeleteRequest, RecordRequest,
           RecordOps, NoRequest
  <1> QED
    BY <1>1 DEF TypeOK, Row

\* A row that goes on: it is deleted, or keeps its key and counts its revision up,
\* or stays as it is.
GoesOn(z) ==
    \/ zones'[z].status = "deleted" /\ zones'[z].revision = zones[z].revision
    \/ /\ zones'[z].status # "absent" /\ zones'[z].row = zones[z].row
       /\ zones'[z].revision = zones[z].revision + 1
       /\ Exists(z)
    \/ zones'[z] = zones[z]

LEMMA RowsGoOn ==
    ASSUME TypeOK, NEW r \in Requests,
           CreateZone(r) \/ ReviewZone(r) \/ DeleteZone(r) \/ ChangeRecord(r)
    PROVE  /\ \A z \in Zones : zones[z].status # "absent" => GoesOn(z)
           /\ UNCHANGED <<managed, loaded>>
           /\ \A w \in Workers : pc'[w] \in {"checked", "locked", "loaded"} =>
                  pc'[w] = pc[w] /\ w # r
           /\ \A x \in Requests : req'[x] = IF x = r THEN NoRequest ELSE req[x]
  <1> USE RequestsAreWorkers DEF TypeOK
  <1>1. CASE CreateZone(r)
    BY <1>1, CreatedRow DEF CreateZone, Answer, GoesOn
  <1>2. CASE ReviewZone(r) \/ DeleteZone(r) \/ ChangeRecord(r)
    <2>1. PICK z \in Zones, row \in Row : RowChange(r, z, row)
      BY <1>2, ChangedRow
    <2>2. /\ UNCHANGED <<managed, loaded>> /\ pc' = [pc EXCEPT ![r] = "reload"]
          /\ req' = [req EXCEPT ![r] = NoRequest] /\ zones' = [zones EXCEPT ![z] = row]
      BY <2>1 DEF Change, RowChange
    <2>3. GoesOn(z)
      BY <2>1, <2>2 DEF RowChange, GoesOn, Exists, ReviewStatuses
    <2>4. \A x \in Zones : x # z => zones'[x] = zones[x]
      BY <2>2
    <2> QED
      BY <2>2, <2>3, <2>4 DEF GoesOn
  <1> QED
    BY <1>1, <1>2

\* Keys and revisions stay in order: a new key is greater than all that are used.
LEMMA KeyStep ==
    ASSUME TypeOK, KeyInv, NEW r \in Requests,
           CreateZone(r) \/ ReviewZone(r) \/ DeleteZone(r) \/ ChangeRecord(r)
    PROVE  KeyInv'
  <1>1. CASE CreateZone(r)
    <2>1. PICK z \in Zones, n \in NextRow :
               /\ zones[z].status = "absent"
               /\ zones' = [zones EXCEPT ![z] = [row |-> n, status |-> "pending",
                                owner |-> req[r].owner, revision |-> 1, records |-> {}]]
               /\ n \in Nat /\ \A x \in Zones : zones[x].row < n
      BY <1>1, CreatedRow
    <2>2. \A x \in Zones : zones[x].row \in Nat /\ zones[x].revision \in Nat
      BY DEF TypeOK, Row
    <2>3. /\ zones'[z].row = n /\ zones'[z].status = "pending" /\ zones'[z].revision = 1
          /\ \A x \in Zones : x # z => zones'[x] = zones[x]
      BY <2>1 DEF TypeOK
    <2> QED
      BY <2>1, <2>2, <2>3 DEF KeyInv, Exists
  <1>2. CASE ReviewZone(r) \/ DeleteZone(r) \/ ChangeRecord(r)
    <2>1. PICK z \in Zones, row \in Row : RowChange(r, z, row)
      BY <1>2, ChangedRow
    <2>2. /\ zones'[z] = row /\ \A x \in Zones : x # z => zones'[x] = zones[x]
          /\ zones[z].status # "absent" /\ zones[z].revision \in Nat
      BY <2>1 DEF Change, RowChange, TypeOK, Exists, Row
    <2>3. \/ row.status = "deleted" /\ row.revision = zones[z].revision
          \/ /\ row.status # "absent" /\ row.revision = zones[z].revision + 1
             /\ row.row = zones[z].row /\ Exists(z)
      BY <2>1, <2>2 DEF RowChange, ReviewStatuses
    <2> QED
      BY <2>2, <2>3 DEF KeyInv, Exists
  <1> QED
    BY <1>1, <1>2

\* Rows that go on leave the requests of other goroutines in order.
LEMMA ForwardStep ==
    ASSUME TypeOK, RecordInv, KeyInv',
           \A x \in Requests : pc'[x] = "checked" => pc[x] = "checked" /\ req'[x] = req[x],
           \A x \in Requests : req'[x] = req[x] \/ req'[x] = NoRequest,
           \A z \in Zones : zones[z].status # "absent" => GoesOn(z)
    PROVE  RecordInv'
  <1> USE DEF RecordInv
  <1>1. ShownInv'
    <2> SUFFICES ASSUME NEW r \in Requests, req'[r].op \in RecordOps
                 PROVE  /\ zones'[req'[r].zone].status # "absent"
                        /\ req'[r].expected <= zones'[req'[r].zone].revision
      BY DEF ShownInv
    <2>1. req'[r] = req[r]
      BY DEF NoRequest, RecordOps
    <2> QED
      BY <2>1, RecordRequestType DEF ShownInv, GoesOn
  <1>2. ASSUME NEW r \in Requests, pc'[r] = "checked", req'[r].op = "createRecord"
        PROVE  StillApproved(r)'
    <2>1. req'[r] = req[r] /\ pc[r] = "checked" /\ req[r].op \in RecordOps
      BY <1>2 DEF RecordOps
    <2>2. StillApproved(r) /\ zones[req[r].zone].status # "absent"
          /\ req[r].expected <= zones[req[r].zone].revision
      BY <1>2, <2>1 DEF ApprovedInv, ShownInv
    <2> QED
      BY <2>1, <2>2, RecordRequestType DEF StillApproved, GoesOn
  <1>3. ASSUME NEW r \in Requests, pc'[r] = "checked", req'[r].op \in RecordOps,
               Exists(req[r].zone)'
        PROVE  zones'[req'[r].zone].row = req'[r].row
    <2>1. req'[r] = req[r] /\ pc[r] = "checked" /\ req[r].op \in RecordOps
      BY <1>3
    <2>2. zones[req[r].zone].status # "absent" /\ req[r].zone \in Zones
      BY <2>1, RecordRequestType DEF ShownInv
    <2>3. GoesOn(req[r].zone)
      BY <2>2
    <2>4. zones'[req[r].zone].status \notin {"absent", "deleted"}
      BY <1>3, <2>1 DEF Exists
    <2>5. Exists(req[r].zone) /\ zones'[req[r].zone].row = zones[req[r].zone].row
      BY <2>3, <2>4 DEF GoesOn, Exists
    <2> QED
      BY <2>1, <2>5 DEF ReadInv
  <1>4. ApprovedInv'
    BY <1>2 DEF ApprovedInv
  <1>5. ReadInv'
    BY <1>3 DEF ReadInv
  <1> QED
    BY <1>1, <1>4, <1>5

\* A step that leaves the rows alone and takes nobody into a transaction.
LEMMA RecordsSame ==
    ASSUME TypeOK, RecordInv, zones' = zones,
           \A x \in Requests : pc'[x] = "checked" => pc[x] = "checked" /\ req'[x] = req[x],
           \A x \in Requests : req'[x] = req[x] \/ req'[x] = NoRequest
    PROVE  RecordInv'
  <1>1. KeyInv'
    BY DEF RecordInv, KeyInv, Exists
  <1> QED
    BY <1>1, ForwardStep DEF GoesOn

\* Every step keeps the requests for records in order.
LEMMA RecordStep == TypeOK /\ RecordInv /\ [Next]_vars => RecordInv'
  <1> SUFFICES ASSUME TypeOK, RecordInv, [Next]_vars PROVE RecordInv'
    OBVIOUS
  <1> USE RequestsAreWorkers
  <1>1. ASSUME NEW r \in Requests, Begin(r) PROVE RecordInv'
    <2>1. PICK u \in Users : \E q \in SendableBy(u) : req' = [req EXCEPT ![r] = q]
      BY <1>1 DEF Begin
    <2>2. PICK q \in SendableBy(u) : req' = [req EXCEPT ![r] = q]
      BY <2>1
    <2>3. q.op \in RecordOps =>
              q.zone \in Zones /\ q.expected \in 1..zones[q.zone].revision
      BY DEF SendableBy, Shown, RecordOps
    <2>4. q.op \in RecordOps =>
              /\ zones[q.zone].status # "absent"
              /\ q.expected <= zones[q.zone].revision
      BY <2>3 DEF RecordInv, KeyInv, TypeOK, Row
    <2>5. /\ zones' = zones
          /\ \A x \in Requests : req'[x] = IF x = r THEN q ELSE req[x]
          /\ \A x \in Requests : pc'[x] = "checked" => pc[x] = "checked" /\ x # r
      BY <1>1, <2>2 DEF Begin, store, TypeOK
    <2>6. ShownInv'
      BY <2>4, <2>5 DEF RecordInv, ShownInv
    <2>7. ApprovedInv' /\ ReadInv'
      BY <2>5 DEF RecordInv, ApprovedInv, ReadInv, StillApproved, Exists
    <2>8. KeyInv'
      BY <2>5 DEF RecordInv, KeyInv, Exists
    <2> QED
      BY <2>6, <2>7, <2>8 DEF RecordInv
  <1>2. ASSUME NEW r \in Requests, ReadZone(r) PROVE RecordInv'
    <2> DEFINE q == req[r]
    <2>1. /\ zones' = zones /\ req' = [req EXCEPT ![r].row = zones[q.zone].row]
          /\ q.op \in RecordOps
          /\ \A x \in Requests : pc'[x] = IF x = r THEN "checked" ELSE pc[x]
          /\ q.op = "createRecord" => zones[q.zone].status = "active"
      BY <1>2 DEF ReadZone, store, TypeOK
    <2>2. q \in RecordRequest
      BY <2>1 DEF TypeOK, Request, CreateRequest, ReviewRequest, DeleteRequest,
             RecordRequest, RecordOps, NoRequest
    <2>3. \A x \in Requests : x # r => req'[x] = req[x]
      BY <2>1 DEF TypeOK
    <2>4. req'[r] = [q EXCEPT !.row = zones[q.zone].row]
      BY <2>1 DEF TypeOK
    <2> HIDE DEF q
    <2>5. /\ req'[r].op = q.op /\ req'[r].zone = q.zone /\ req'[r].expected = q.expected
          /\ req'[r].row = zones[q.zone].row
      BY <2>2, <2>4 DEF RecordRequest
    <2>6. ShownInv'
      BY <2>1, <2>3, <2>5 DEF RecordInv, ShownInv, q
    <2>7. ReadInv'
      BY <2>1, <2>3, <2>5 DEF RecordInv, ReadInv, Exists
    <2>8. ApprovedInv'
      BY <2>1, <2>3, <2>5 DEF RecordInv, ApprovedInv, StillApproved
    <2>9. KeyInv'
      BY <2>1 DEF RecordInv, KeyInv, Exists
    <2> QED
      BY <2>6, <2>7, <2>8, <2>9 DEF RecordInv
  <1>3. ASSUME NEW r \in Requests, Fail(r) PROVE RecordInv'
    BY <1>3, RecordsSame DEF Fail, Answer, TypeOK
  <1>4. ASSUME NEW r \in Requests,
               CreateZone(r) \/ ReviewZone(r) \/ DeleteZone(r) \/ ChangeRecord(r)
        PROVE  RecordInv'
    BY <1>4, RowsGoOn, KeyStep, ForwardStep DEF RecordInv
  <1>5. ASSUME NEW w \in Workers, ReloadZones(w) PROVE RecordInv'
    BY <1>5, RecordsSame DEF ReloadZones, Lock, Load, LoadFails, Publish, store, TypeOK
  <1>6. ASSUME Tick \/ (\E u \in Users : EditUser(u)) \/ Crash \/ Start \/ UNCHANGED vars
        PROVE  RecordInv'
    BY <1>6, RecordsSame DEF Tick, EditUser, Crash, Start, store, vars, TypeOK
  <1> QED
    BY <1>1, <1>2, <1>3, <1>4, <1>5, <1>6 DEF Next, Handle

LEMMA RecordInit == Init => RecordInv
  BY DEF Init, RecordInv, KeyInv, ShownInv, ReadInv, ApprovedInv, NoRequest, RecordOps, Exists

\* An update or a deletion adds no record.
LEMMA OnlyCreationGrows ==
    ASSUME NEW z \in Zones, NEW q, q.op \in {"updateRecord", "deleteRecord"},
           NEW records \in EditedRecords(q, z), zones[z].records \subseteq records
    PROVE  records = zones[z].records
  <1> DEFINE old == zones[z].records
             Own == IF q.zone = z THEN old ELSE {}
  <1>1. CASE q.op = "updateRecord"
    <2>1. PICK x \in Own : \E y \in Storable(q, z) \ (old \ {x}) :
                               records = (old \ {x}) \union {y}
      BY <1>1 DEF EditedRecords
    <2>2. PICK y \in Storable(q, z) \ (old \ {x}) : records = (old \ {x}) \union {y}
      BY <2>1
    <2>3. x \in old
      BY <2>1
    <2>4. x = y
      BY <2>2, <2>3
    <2> QED
      BY <2>2, <2>3, <2>4
  <1>2. CASE q.op = "deleteRecord"
    <2>1. PICK x \in Own : records = old \ {x}
      BY <1>2 DEF EditedRecords
    <2>2. x \in old
      BY <2>1
    <2> QED
      BY <2>1, <2>2
  <1> QED
    BY <1>1, <1>2

\* The step that adds a record.
LEMMA RecordAdded ==
    ASSUME TypeOK, RecordInv, NEW r \in Requests, ChangeRecord(r),
           NEW z \in Zones, Grows(z)
    PROVE  zones[z].status = "active" \/ Mistaken(r, z)
  <1> DEFINE q == req[r]
  <1>1. PICK x \in Zones :
            /\ AtRevision(x, q)
            /\ \E records \in EditedRecords(q, x) :
                   Change(r, x, [zones[x] EXCEPT !.records = records,
                                                 !.revision = Counted(x, q.op)])
    BY DEF ChangeRecord
  <1>2. PICK records \in EditedRecords(q, x) :
            Change(r, x, [zones[x] EXCEPT !.records = records,
                                          !.revision = Counted(x, q.op)])
    BY <1>1
  <1>3. /\ pc[r] = "checked" /\ q.op \in RecordOps
        /\ pc'[r] = "reload"
    BY <1>2, RequestsAreWorkers DEF ChangeRecord, Change, TypeOK
  <1>4. q.zone \in Zones /\ q.expected \in Nat /\ zones[q.zone].revision \in Nat
    BY <1>3, RecordRequestType
  <1>5. /\ zones[q.zone].status # "absent"
        /\ Exists(q.zone) => zones[q.zone].row = q.row
        /\ q.op = "createRecord" => StillApproved(r)
    BY <1>3 DEF RecordInv, ShownInv, ReadInv, ApprovedInv
  <1>6. Exists(x) /\ zones[x].row = q.row /\ zones[x].revision = q.expected
    BY <1>1 DEF AtRevision
  <1> HIDE DEF q
  <1>7. x = z /\ zones'[x].records = records
    <2>1. zones' = [zones EXCEPT ![x] = [zones[x] EXCEPT !.records = records,
                                             !.revision = Counted(x, q.op)]]
      BY <1>2 DEF Change
    <2>2. zones[x] \in Row
      BY DEF TypeOK
    <2>3. zones'[x].records = records /\ \A y \in Zones : y # x => zones'[y] = zones[y]
      BY <2>1, <2>2 DEF TypeOK, Row
    <2> QED
      BY <2>3 DEF Grows
  <1>8. q.op = "createRecord"
    BY <1>2, <1>3, <1>7, OnlyCreationGrows DEF Grows, RecordOps
  <1>9. CASE Exists(q.zone)
    <2>1. q.zone = z
      BY <1>4, <1>5, <1>6, <1>7, <1>9 DEF RecordInv, KeyInv
    <2> QED
      BY <1>4, <1>5, <1>6, <1>7, <1>8, <1>9, <2>1 DEF StillApproved, Exists, q
  <1>10. CASE ~Exists(q.zone)
    <2>1. zones[q.zone].status = "deleted"
      BY <1>5, <1>10 DEF Exists
    <2> QED
      BY <1>3, <1>6, <1>7, <1>8, <2>1 DEF Mistaken, q
  <1> QED
    BY <1>9, <1>10

\* A record is added to an active zone, or to a zone that has the key of the deleted
\* zone its author meant.
THEOREM RecordsAdded == Spec => RecordsEnterActiveZones
  <1> DEFINE Step == \A z \in Zones : Grows(z) =>
                 zones[z].status = "active" \/ \E r \in Requests : Mistaken(r, z)
  <1>1. TypeOK /\ RecordInv /\ [Next]_vars => [Step]_vars
    <2> SUFFICES ASSUME TypeOK, RecordInv, Next PROVE Step
      OBVIOUS
    <2>1. ASSUME \A z \in Zones : ~Grows(z) PROVE Step
      BY <2>1
    <2>2. ASSUME NEW r \in Requests, CreateZone(r) PROVE Step
      <3>1. \A z \in Zones : zones'[z].records \in {{}, zones[z].records}
        <4>1. PICK x \in Zones, n \in NextRow :
                 zones' = [zones EXCEPT ![x] = [row |-> n, status |-> "pending",
                              owner |-> req[r].owner, revision |-> 1, records |-> {}]]
          BY <2>2, CreatedRow
        <4> QED
          BY <4>1 DEF TypeOK
      <3> QED
        BY <2>1, <3>1 DEF Grows
    <2>3. ASSUME NEW r \in Requests, ReviewZone(r) PROVE Step
      <3> DEFINE x == req[r].zone
      <3>1. x \in Zones /\ zones[x] \in Row
        BY <2>3, RequestedZone DEF TypeOK, ReviewZone
      <3>2. zones' = [zones EXCEPT ![x] = [zones[x] EXCEPT !.status = req[r].status,
                                                          !.revision = @ + 1]]
        BY <2>3 DEF ReviewZone, Change
      <3> HIDE DEF x
      <3>3. \A z \in Zones : zones'[z].records = zones[z].records
        BY <3>1, <3>2 DEF TypeOK, Row
      <3> QED
        BY <2>1, <3>3 DEF Grows
    <2>4. ASSUME NEW r \in Requests, DeleteZone(r) PROVE Step
      <3> DEFINE x == req[r].zone
      <3>1. x \in Zones /\ zones[x] \in Row
        BY <2>4, RequestedZone DEF TypeOK, DeleteZone
      <3>2. zones' = [zones EXCEPT ![x] = [zones[x] EXCEPT !.row = 0, !.status = "deleted",
                                                          !.records = {}]]
        BY <2>4 DEF DeleteZone, Change
      <3> HIDE DEF x
      <3>3. \A z \in Zones : zones'[z].records \in {{}, zones[z].records}
        BY <3>1, <3>2 DEF TypeOK, Row
      <3> QED
        BY <2>1, <3>3 DEF Grows
    <2>5. ASSUME NEW r \in Requests, ChangeRecord(r) PROVE Step
      BY <2>5, RecordAdded
    <2>6. ASSUME UNCHANGED zones PROVE Step
      BY <2>1, <2>6 DEF Grows
    <2>7. ASSUME NEW r \in Requests, Begin(r) \/ Fail(r) \/ ReadZone(r) PROVE UNCHANGED zones
      BY <2>7 DEF Begin, Fail, ReadZone, store
    <2>8. ASSUME NEW w \in Workers, ReloadZones(w) PROVE UNCHANGED zones
      BY <2>8 DEF ReloadZones, Lock, Load, LoadFails, Publish, store
    <2>9. ASSUME Tick \/ (\E u \in Users : EditUser(u)) \/ Crash \/ Start
          PROVE  UNCHANGED zones
      BY <2>9 DEF Tick, EditUser, Crash, Start, store
    <2> HIDE DEF Step
    <2> QED
      BY <2>2, <2>3, <2>4, <2>5, <2>6, <2>7, <2>8, <2>9 DEF Next, Handle
  <1>2. Spec => [](TypeOK /\ RecordInv)
    BY RecordInit, TypeInit, TypeStep, RecordStep, PTL DEF Spec
  <1> QED
    BY <1>1, <1>2, PTL DEF Spec, RecordsEnterActiveZones

--------------------------------------------------------------------------------
(* Limits.  Nothing says that there are finitely many ids of zones, so the     *)
(* invariant has to say that an owner has finitely many.                       *)

Within(limit, set) == IsFiniteSet(set) /\ (limit > 0 => Cardinality(set) <= limit)

LimitInv == \A u \in Users :
    Within(MaxTotal, Owned(u)) /\ Within(MaxActive, OwnedIn(u, "active"))

\* A part of a set is within the limit of the set.
LEMMA WithinPart ==
    ASSUME NEW limit \in Nat, NEW set, Within(limit, set), NEW part \in SUBSET set
    PROVE  Within(limit, part)
  BY FS_Subset, FS_CardinalityType DEF Within

\* Below the limit there is room for another element.
LEMMA WithinOneMore ==
    ASSUME NEW limit \in Nat, NEW set, IsFiniteSet(set), Below(limit, set), NEW x
    PROVE  Within(limit, set \union {x})
  <1>1. /\ IsFiniteSet(set \union {x})
        /\ Cardinality(set \union {x}) \in {Cardinality(set), Cardinality(set) + 1}
    BY FS_AddElement
  <1>2. Cardinality(set) \in Nat
    BY FS_CardinalityType
  <1>3. limit > 0 => Cardinality(set) < limit
    BY DEF Below
  <1> QED
    BY <1>1, <1>2, <1>3 DEF Within

\* Every step keeps owners within their limits.
LEMMA LimitStep == TypeOK /\ LimitInv /\ [Next]_vars => LimitInv'
  <1> SUFFICES ASSUME TypeOK, LimitInv, [Next]_vars PROVE LimitInv'
    OBVIOUS
  <1>1. ASSUME NEW r \in Requests, CreateZone(r) PROVE LimitInv'
    <2> SUFFICES ASSUME NEW u \in Users
                 PROVE  Within(MaxTotal, Owned(u)') /\ Within(MaxActive, OwnedIn(u, "active")')
      BY DEF LimitInv, Within
    <2> DEFINE owner == req[r].owner
    <2>1. PICK z \in Zones, n \in NextRow :
              /\ zones[z].status = "absent"
              /\ zones' = [zones EXCEPT ![z] = [row |-> n, status |-> "pending", owner |-> owner,
                                                revision |-> 1, records |-> {}]]
      BY <1>1, CreatedRow
    <2>2. OwnedIn(u, "active")' \in SUBSET OwnedIn(u, "active")
      BY <2>1 DEF OwnedIn, Owned, Exists, TypeOK
    <2>3. Within(MaxActive, OwnedIn(u, "active")')
      BY <2>2, WithinPart, LimitsAssumption DEF LimitInv
    <2>4. CASE u # owner
      <3>1. Owned(u)' \in SUBSET Owned(u)
        BY <2>1, <2>4 DEF Owned, Exists, TypeOK
      <3> QED
        BY <2>3, <3>1, WithinPart, LimitsAssumption DEF LimitInv
    <2>5. CASE u = owner
      <3>1. Owned(u)' = Owned(u) \union {z}
        BY <2>1, <2>5 DEF Owned, Exists, TypeOK
      <3>2. Below(MaxTotal, Owned(u)) /\ IsFiniteSet(Owned(u))
        BY <1>1, <2>5 DEF CreateZone, LimitInv, Within
      <3> QED
        BY <2>3, <3>1, <3>2, WithinOneMore, LimitsAssumption
    <2> QED
      BY <2>4, <2>5
  <1>2. ASSUME NEW r \in Requests, ReviewZone(r) \/ DeleteZone(r) \/ ChangeRecord(r)
        PROVE  LimitInv'
    <2> SUFFICES ASSUME NEW u \in Users
                 PROVE  Within(MaxTotal, Owned(u)') /\ Within(MaxActive, OwnedIn(u, "active")')
      BY DEF LimitInv, Within
    <2>1. PICK z \in Zones, row \in Row : RowChange(r, z, row)
      BY <1>2, ChangedRow
    <2>0. /\ Exists(z) /\ zones' = [zones EXCEPT ![z] = row] /\ zones'[z] = row
          /\ zones'[z].owner = zones[z].owner
          /\ \/ zones'[z].status \in {zones[z].status, "deleted"}
             \/ ReviewZone(r) /\ z = req[r].zone /\ zones'[z].status = req[r].status
                /\ req[r].status \in ReviewStatuses
      BY <2>1 DEF RowChange, Change, TypeOK
    <2>2. \A y \in Zones \ {z} : zones'[y] = zones[y]
      BY <2>0 DEF TypeOK
    <2>3. Owned(u)' \in SUBSET Owned(u)
      BY <2>0, <2>2 DEF Owned, Exists
    <2>4. Within(MaxTotal, Owned(u)')
      BY <2>3, WithinPart, LimitsAssumption DEF LimitInv
    <2>5. CASE z \in OwnedIn(u, "active")' /\ z \notin OwnedIn(u, "active")
      <3>1. /\ ReviewZone(r) /\ req[r].status = "active" /\ z = req[r].zone
            /\ zones[z].owner = u
        BY <2>0, <2>5 DEF OwnedIn, Owned, Exists
      <3>2. Below(MaxActive, OwnedIn(u, "active") \ {z})
        BY <3>1 DEF ReviewZone
      <3>3. IsFiniteSet(OwnedIn(u, "active") \ {z})
        BY FS_Subset DEF LimitInv, Within
      <3>4. OwnedIn(u, "active")' \in SUBSET ((OwnedIn(u, "active") \ {z}) \union {z})
        BY <2>0, <2>2 DEF OwnedIn, Owned, Exists
      <3>5. Within(MaxActive, (OwnedIn(u, "active") \ {z}) \union {z})
        BY <3>2, <3>3, WithinOneMore, LimitsAssumption
      <3> QED
        BY <2>4, <3>4, <3>5, WithinPart, LimitsAssumption
    <2>6. CASE ~ (z \in OwnedIn(u, "active")' /\ z \notin OwnedIn(u, "active"))
      <3>1. OwnedIn(u, "active")' \in SUBSET OwnedIn(u, "active")
        BY <2>0, <2>2, <2>6 DEF OwnedIn, Owned, Exists
      <3> QED
        BY <2>4, <3>1, WithinPart, LimitsAssumption DEF LimitInv
    <2> QED
      BY <2>5, <2>6
  <1>3. ASSUME UNCHANGED zones PROVE LimitInv'
    BY <1>3 DEF LimitInv, Within, OwnedIn, Owned, Exists
  <1>4. ASSUME NEW r \in Requests, Begin(r) \/ Fail(r) \/ ReadZone(r) PROVE UNCHANGED zones
    BY <1>4 DEF Begin, Fail, ReadZone, store
  <1>5. ASSUME NEW w \in Workers, ReloadZones(w) PROVE UNCHANGED zones
    BY <1>5 DEF ReloadZones, Lock, Load, LoadFails, Publish, store
  <1>6. ASSUME Tick \/ (\E u \in Users : EditUser(u)) \/ Crash \/ Start \/ UNCHANGED vars
        PROVE  UNCHANGED zones
    BY <1>6 DEF Tick, EditUser, Crash, Start, store, vars
  <1> QED
    BY <1>1, <1>2, <1>3, <1>4, <1>5, <1>6 DEF Next, Handle

\* No owner ever has more zones, or more active ones, than the limits allow
\* (CreateZoneWithLimits, ReviewZoneWithLimits).
THEOREM OwnersWithinLimits == Spec => []OwnerLimits
  <1>1. Init => LimitInv
    <2> SUFFICES ASSUME Init, NEW u \in Users
                 PROVE  Within(MaxTotal, Owned(u)) /\ Within(MaxActive, OwnedIn(u, "active"))
      BY DEF LimitInv
    <2>1. Owned(u) = {} /\ OwnedIn(u, "active") = {}
      BY DEF Init, Owned, OwnedIn, Exists
    <2> QED
      BY <2>1, FS_EmptySet, LimitsAssumption DEF Within
  <1>2. LimitInv => OwnerLimits
    BY DEF LimitInv, Within, OwnerLimits
  <1> QED
    BY <1>1, <1>2, LimitStep, TypeCorrect, PTL DEF Spec

\* Only an enabled administrator decides about a zone, at the moment of the
\* decision (the triggers validate_zone_review_*).
THEOREM AdminsDecide == Spec => DecidedByAdmin
  <1> DEFINE Step == \A z \in Zones : Decided(z) =>
                         \E r \in Requests :
                             /\ pc'[r] # pc[r]
                             /\ req[r] # NoRequest
                             /\ users[req[r].actor] = EnabledAdmin
  <1>1. TypeOK /\ [Next]_vars => Step \/ UNCHANGED vars
    <2> SUFFICES ASSUME TypeOK, Next, NEW z \in Zones, Decided(z)
                 PROVE  \E r \in Requests :
                            /\ pc'[r] # pc[r]
                            /\ req[r] # NoRequest
                            /\ users[req[r].actor] = EnabledAdmin
      BY DEF vars
    <2>1. ASSUME NEW r \in Requests, CreateZone(r) PROVE FALSE
      BY <2>1, CreatedRow DEF TypeOK, Decided, ReviewStatuses
    <2>2. ASSUME NEW r \in Requests, ReviewZone(r) \/ DeleteZone(r) \/ ChangeRecord(r)
          PROVE  ReviewZone(r)
      <3>1. PICK x \in Zones, row \in Row : RowChange(r, x, row)
        BY <2>2, ChangedRow
      <3>2. zones' = [zones EXCEPT ![x] = row]
            /\ (row.status \in {zones[x].status, "deleted"} \/ ReviewZone(r))
        BY <3>1 DEF RowChange, Change
      <3> QED
        BY <3>2 DEF Decided, ReviewStatuses, TypeOK
    <2>3. ASSUME NEW r \in Requests, ReviewZone(r)
          PROVE  pc'[r] # pc[r] /\ req[r] # NoRequest /\ users[req[r].actor] = EnabledAdmin
      <3>1. pc[r] = "begun" /\ pc' = [pc EXCEPT ![r] = "reload"] /\ req[r].op = "review"
        BY <2>3 DEF ReviewZone, Change
      <3>2. users[req[r].actor] = EnabledAdmin
        BY <2>3 DEF ReviewZone, Reviewer
      <3> QED
        BY <3>1, <3>2, RequestsAreWorkers DEF NoRequest, TypeOK
    <2>4. zones' # zones
      BY DEF Decided
    <2>5. ASSUME NEW r \in Requests, Begin(r) \/ Fail(r) \/ ReadZone(r) PROVE FALSE
      BY <2>4, <2>5 DEF Begin, Fail, ReadZone, store
    <2>6. ASSUME NEW w \in Workers, ReloadZones(w) PROVE FALSE
      BY <2>4, <2>6 DEF ReloadZones, Lock, Load, LoadFails, Publish, store
    <2>7. ASSUME Tick \/ (\E u \in Users : EditUser(u)) \/ Crash \/ Start PROVE FALSE
      BY <2>4, <2>7 DEF Tick, EditUser, Crash, Start, store
    <2> QED
      BY <2>1, <2>2, <2>3, <2>5, <2>6, <2>7 DEF Next, Handle
  <1> QED
    BY <1>1, TypeCorrect, PTL DEF Spec, DecidedByAdmin
--------------------------------------------------------------------------------
(***************************************************************************)
(* Serials.  A snapshot is behind the tables zone by zone: where it has    *)
(* the serial of the row, it has its records.  So is one snapshot behind   *)
(* another that is loaded later, and only the holder of zoneMu stores one. *)
(* All of it as long as the revision of the zone fits the serial.          *)
(***************************************************************************)

Fits(z) == zones[z].revision < SerialWidth

\* Serials in s are not later than in t, and the same ones are of the same records.
NotAhead(s, t) == \A z \in DOMAIN s \intersect DOMAIN t : Fits(z) =>
    /\ s[z].serial <= t[z].serial
    /\ s[z].serial = t[z].serial => s[z] = t[z]

\* Rows go on counting; a deleted one keeps its last revision.
NotAheadOfRow(s, z) ==
    /\ zones[z].status # "absent"
    /\ Fits(z) => /\ s[z].serial <= zones[z].revision
                  /\ Exists(z) /\ s[z].serial = zones[z].revision => s[z] = Visible(zones[z])

NotAheadOfRows(s) == \A z \in DOMAIN s : NotAheadOfRow(s, z)

SerialInv ==
    /\ NotAheadOfRows(managed.zones)
    /\ \A w \in Workers : pc[w] = "loaded" =>
           /\ NotAheadOfRows(loaded[w].zones)
           /\ NotAhead(managed.zones, loaded[w].zones)

\* What the tables hold now is behind them, and nothing loaded before is ahead.
LEMMA ActiveSerials ==
    ASSUME TypeOK, KeyInv
    PROVE  /\ NotAheadOfRows(ActiveZones)
           /\ \A s : NotAheadOfRows(s) => NotAhead(s, ActiveZones)
  <1>1. ASSUME NEW z \in DOMAIN ActiveZones
        PROVE  /\ z \in Zones /\ zones[z].status = "active"
               /\ ActiveZones[z] = Visible(zones[z])
               /\ Fits(z) => ActiveZones[z].serial = zones[z].revision
               /\ zones[z].revision \in Nat
    <2>1. z \in Zones /\ zones[z].status = "active" /\ ActiveZones[z] = Visible(zones[z])
      BY <1>1 DEF ActiveZones
    <2>2. zones[z].revision \in Nat /\ zones[z].revision # 0
      BY <2>1 DEF TypeOK, Row, KeyInv
    <2>3. Fits(z) => Serial(zones[z].revision) = zones[z].revision
      BY <2>2, SerialFits DEF Fits
    <2> QED
      BY <2>1, <2>2, <2>3 DEF Visible
  <1> HIDE DEF ActiveZones
  <1>2. NotAheadOfRows(ActiveZones)
    BY <1>1 DEF NotAheadOfRows, NotAheadOfRow
  <1>3. ASSUME NEW s, NotAheadOfRows(s)
        PROVE  NotAhead(s, ActiveZones)
    BY <1>1, <1>3 DEF NotAheadOfRows, NotAheadOfRow, NotAhead, Exists
  <1> QED
    BY <1>2, <1>3

\* A change of the rows leaves a snapshot behind.
LEMMA RowsLeaveBehind ==
    ASSUME TypeOK, NEW r \in Requests,
           CreateZone(r) \/ ReviewZone(r) \/ DeleteZone(r) \/ ChangeRecord(r),
           NEW s, DOMAIN s \subseteq Zones, \A z \in DOMAIN s : s[z].serial \in Nat,
           NotAheadOfRows(s)
    PROVE  \A z \in DOMAIN s :
               /\ zones'[z].status # "absent"
               /\ zones'[z].revision < SerialWidth =>
                      /\ Fits(z)
                      /\ s[z].serial <= zones'[z].revision
                      /\ Exists(z)' /\ s[z].serial = zones'[z].revision =>
                             s[z] = Visible(zones'[z])
  <1> SUFFICES ASSUME NEW z \in DOMAIN s
               PROVE  /\ zones'[z].status # "absent"
                      /\ zones'[z].revision < SerialWidth =>
                             /\ Fits(z)
                             /\ s[z].serial <= zones'[z].revision
                             /\ Exists(z)' /\ s[z].serial = zones'[z].revision =>
                                    s[z] = Visible(zones'[z])
    OBVIOUS
  <1>1. NotAheadOfRow(s, z)
    BY DEF NotAheadOfRows
  <1>2. z \in Zones /\ s[z].serial \in Nat /\ zones[z].revision \in Nat /\ SerialWidth \in Nat
    BY RecordsAssumption DEF TypeOK, Row
  <1>3. GoesOn(z)
    BY <1>1, <1>2, RowsGoOn DEF NotAheadOfRow
  <1>4. CASE zones'[z] = zones[z]
    BY <1>1, <1>4 DEF NotAheadOfRow, Fits, Exists
  <1>5. CASE zones'[z] # zones[z]
    BY <1>1, <1>2, <1>3, <1>5 DEF NotAheadOfRow, Fits, Exists, GoesOn
  <1> QED
    BY <1>4, <1>5

LEMMA SnapshotZones ==
    ASSUME TypeOK
    PROVE  /\ DOMAIN managed.zones \subseteq Zones
           /\ \A z \in DOMAIN managed.zones : managed.zones[z].serial \in Nat
           /\ \A w \in Workers :
                  /\ DOMAIN loaded[w].zones \subseteq Zones
                  /\ \A z \in DOMAIN loaded[w].zones : loaded[w].zones[z].serial \in Nat
  BY DEF TypeOK, IsSnapshot

\* A step that changes neither rows nor snapshots, nor loads one.
LEMMA SerialsSame ==
    ASSUME SerialInv, UNCHANGED <<zones, managed, loaded>>,
           \A w \in Workers : pc'[w] = "loaded" => pc[w] = "loaded"
    PROVE  SerialInv'
  BY DEF SerialInv, NotAheadOfRows, NotAheadOfRow, NotAhead, Fits, Exists, Visible

LEMMA SerialStep == PublicationInv /\ KeyInv /\ SerialInv /\ [Next]_vars => SerialInv'
  <1> SUFFICES ASSUME PublicationInv, KeyInv, SerialInv, [Next]_vars PROVE SerialInv'
    OBVIOUS
  <1> USE RequestsAreWorkers
  <1>0. TypeOK /\ pc \in [Workers -> {"idle", "begun", "checked", "reload", "locked", "loaded"}]
        /\ DOMAIN loaded = Workers
    BY DEF PublicationInv, TypeOK
  <1>1. ASSUME NEW r \in Requests, Begin(r) \/ Fail(r) \/ ReadZone(r) PROVE SerialInv'
    BY <1>0, <1>1, SerialsSame DEF Begin, Fail, ReadZone, Answer, store
  <1>2. ASSUME NEW r \in Requests,
               CreateZone(r) \/ ReviewZone(r) \/ DeleteZone(r) \/ ChangeRecord(r)
        PROVE  SerialInv'
    <2>1. UNCHANGED <<managed, loaded>> /\ \A w \in Workers : pc'[w] = "loaded" => pc[w] = "loaded"
      BY <1>0, <1>2, RowsGoOn
    <2>2. NotAheadOfRows(managed.zones)'
      <3> DEFINE s == managed.zones
      <3>1. s' = s /\ DOMAIN s \subseteq Zones /\ (\A z \in DOMAIN s : s[z].serial \in Nat)
            /\ NotAheadOfRows(s)
        BY <1>0, <2>1, SnapshotZones DEF SerialInv
      <3> HIDE DEF s
      <3>2. \A z \in DOMAIN s :
               /\ zones'[z].status # "absent"
               /\ zones'[z].revision < SerialWidth =>
                      /\ Fits(z)
                      /\ s[z].serial <= zones'[z].revision
                      /\ Exists(z)' /\ s[z].serial = zones'[z].revision =>
                             s[z] = Visible(zones'[z])
        BY <1>0, <1>2, <3>1, RowsLeaveBehind
      <3> QED
        BY <3>1, <3>2 DEF NotAheadOfRows, NotAheadOfRow, Fits, s
    <2>3. ASSUME NEW w \in Workers, pc'[w] = "loaded"
          PROVE  NotAheadOfRows(loaded[w].zones)' /\ NotAhead(managed.zones, loaded[w].zones)'
      <3> DEFINE s == loaded[w].zones
      <3>1. s' = s /\ DOMAIN s \subseteq Zones /\ (\A z \in DOMAIN s : s[z].serial \in Nat)
            /\ NotAheadOfRows(s) /\ NotAhead(managed.zones, s)
        BY <1>0, <2>1, <2>3, SnapshotZones DEF SerialInv
      <3> HIDE DEF s
      <3>2. \A z \in DOMAIN s :
               /\ zones'[z].status # "absent"
               /\ zones'[z].revision < SerialWidth =>
                      /\ Fits(z)
                      /\ s[z].serial <= zones'[z].revision
                      /\ Exists(z)' /\ s[z].serial = zones'[z].revision =>
                             s[z] = Visible(zones'[z])
        BY <1>0, <1>2, <3>1, RowsLeaveBehind
      <3>3. NotAheadOfRows(s)' /\ NotAhead(managed.zones, s)'
        BY <2>1, <3>1, <3>2 DEF NotAheadOfRows, NotAheadOfRow, NotAhead, Fits
      <3> QED
        BY <3>3 DEF s
    <2> QED
      BY <2>2, <2>3 DEF SerialInv
  <1>3. ASSUME NEW w \in Workers, Lock(w) \/ LoadFails(w) PROVE SerialInv'
    BY <1>0, <1>3, SerialsSame DEF Lock, LoadFails, store
  <1>4. ASSUME NEW w \in Workers, Load(w) PROVE SerialInv'
    <2>1. /\ loaded' = [loaded EXCEPT ![w] = Current] /\ pc' = [pc EXCEPT ![w] = "loaded"]
          /\ UNCHANGED <<zones, managed>>
      BY <1>4 DEF Load, store
    <2>2. NotAheadOfRows(Current.zones) /\ NotAhead(managed.zones, Current.zones)
      BY <1>0, ActiveSerials DEF SerialInv, Current
    <2>3. \A x \in Workers : pc'[x] = "loaded" =>
              NotAheadOfRows(loaded'[x].zones) /\ NotAhead(managed.zones, loaded'[x].zones)
      BY <1>0, <2>1, <2>2 DEF SerialInv
    <2> HIDE DEF Current
    <2> QED
      BY <2>1, <2>3 DEF SerialInv, NotAheadOfRows, NotAheadOfRow, NotAhead, Fits, Exists, Visible
  <1>5. ASSUME NEW w \in Workers, Publish(w) PROVE SerialInv'
    <2>1. /\ managed' = loaded[w] /\ UNCHANGED zones /\ pc[w] = "loaded"
          /\ pc' = [pc EXCEPT ![w] = "idle"]
      BY <1>5 DEF Publish, store
    <2>2. NotAheadOfRows(managed'.zones)
      BY <2>1 DEF SerialInv
    <2>3. \A x \in Workers : pc'[x] # "loaded"
      BY <1>0, <2>1 DEF PublicationInv, MutexInv, InReload
    <2> QED
      BY <2>1, <2>2, <2>3 DEF SerialInv, NotAheadOfRows, NotAheadOfRow, Fits, Exists, Visible
  <1>6. CASE Start
    <2>1. managed' = Current /\ UNCHANGED <<zones, pc>> /\ ~up
      BY <1>6 DEF Start, store
    <2>2. NotAheadOfRows(Current.zones)
      BY <1>0, ActiveSerials DEF Current
    <2>3. \A x \in Workers : pc'[x] # "loaded"
      BY <2>1 DEF PublicationInv, StoppedInv
    <2> HIDE DEF Current
    <2> QED
      BY <2>1, <2>2, <2>3 DEF SerialInv, NotAheadOfRows, NotAheadOfRow, Fits, Exists, Visible
  <1>7. CASE Crash
    BY <1>0, <1>7 DEF Crash, store, SerialInv, NotAheadOfRows, NotAheadOfRow, Fits, Exists, Visible
  <1>8. CASE Tick \/ (\E u \in Users : EditUser(u)) \/ UNCHANGED vars
    BY <1>0, <1>8, SerialsSame DEF Tick, EditUser, store, vars
  <1> QED
    BY <1>1, <1>2, <1>3, <1>4, <1>5, <1>6, <1>7, <1>8 DEF Next, Handle, ReloadZones

\* What replaces a snapshot is not behind it.
LEMMA SerialsReplaced ==
    ASSUME PublicationInv, KeyInv, SerialInv, [Next]_vars
    PROVE  managed' = managed \/ NotAhead(managed.zones, managed'.zones)
  <1>1. ASSUME NEW w \in Workers, Publish(w)
        PROVE  NotAhead(managed.zones, managed'.zones)
    BY <1>1 DEF Publish, SerialInv
  <1>2. ASSUME Start PROVE NotAhead(managed.zones, managed'.zones)
    BY <1>2, ActiveSerials DEF Start, Current, SerialInv, PublicationInv
  <1>3. ASSUME NEW r \in Requests, Begin(r) \/ Handle(r) PROVE managed' = managed
    BY <1>3 DEF Begin, Handle, Fail, CreateZone, ReviewZone, DeleteZone, ReadZone,
           ChangeRecord, Change, Answer
  <1>4. ASSUME NEW w \in Workers, Lock(w) \/ Load(w) \/ LoadFails(w) PROVE managed' = managed
    BY <1>4 DEF Lock, Load, LoadFails
  <1>5. ASSUME Tick \/ (\E u \in Users : EditUser(u)) \/ Crash \/ UNCHANGED vars
        PROVE  managed' = managed
    BY <1>5 DEF Tick, EditUser, Crash, vars
  <1> QED
    BY <1>1, <1>2, <1>3, <1>4, <1>5 DEF Next, ReloadZones

\* While a zone is served its serial does not go back, and one serial stands for
\* one set of records, as long as its revision fits the serial.
THEOREM SerialsOnlyAdvance == Spec => SerialsAdvance
  <1> DEFINE Step ==
          \A z \in DOMAIN managed.zones \intersect DOMAIN managed'.zones :
              zones[z].revision < SerialWidth =>
                  /\ managed.zones[z].serial <= managed'.zones[z].serial
                  /\ managed.zones[z].serial = managed'.zones[z].serial =>
                         managed.zones[z] = managed'.zones[z]
  <1>1. Init => SerialInv
    BY DEF Init, NoSnapshot, SerialInv, NotAheadOfRows
  <1>2. PublicationInv /\ KeyInv /\ SerialInv /\ [Next]_vars => [Step]_vars
    <2> SUFFICES ASSUME PublicationInv, KeyInv, SerialInv, [Next]_vars PROVE Step
      OBVIOUS
    <2>1. CASE managed' = managed
      BY <2>1, SnapshotZones DEF PublicationInv
    <2>2. CASE NotAhead(managed.zones, managed'.zones)
      BY <2>2 DEF NotAhead, Fits
    <2> QED
      BY <2>1, <2>2, SerialsReplaced
  <1>3. Spec => []KeyInv
    <2>1. RecordInv => KeyInv
      BY DEF RecordInv
    <2> QED
      BY <2>1, RecordInit, TypeInit, TypeStep, RecordStep, PTL DEF Spec
  <1> QED
    BY <1>1, <1>2, <1>3, SerialStep, Publication, PTL DEF Spec, SerialsAdvance
--------------------------------------------------------------------------------
(* What the promise means for clients and authors.                             *)

\* Queries are never answered from older zones than before, and no author is told
\* later that a change which is in effect is not: not after a restart either.
THEOREM NeverGoesBack ==
    Spec => [][managed'.version >= managed.version /\ acked' >= acked]_vars
  <1>1. PublicationInv /\ PublicationInv' /\ [Next]_vars =>
            [managed'.version >= managed.version /\ acked' >= acked]_vars
    <2> SUFFICES ASSUME PublicationInv, PublicationInv', [Next]_vars
                 PROVE  managed'.version >= managed.version /\ acked' >= acked
      OBVIOUS
    <2>1. [Promise!Next]_<<version, managed.version, acked>>
      BY ServedStep
    <2>2. managed.version \in Nat /\ acked \in Nat /\ managed'.version \in Nat
      BY Numbers DEF PublicationInv, TypeOK, IsSnapshot
    <2> QED
      BY <2>1, <2>2 DEF Promise!Next, Promise!Commit, Promise!Publish
  <1> QED
    BY <1>1, Publication, PTL DEF Spec

\* Whoever holds zoneMu is between reading the tables and storing what was read,
\* or failing to: it waits for nobody, so the mutex is given back.
HolderGoesOn == zoneMu # None => zoneMu \in Workers /\ pc[zoneMu] \in {"locked", "loaded"}

LEMMA HolderStep == PublicationInv /\ HolderGoesOn /\ [Next]_vars => HolderGoesOn'
  <1> SUFFICES ASSUME PublicationInv, HolderGoesOn, [Next]_vars PROVE HolderGoesOn'
    OBVIOUS
  <1> USE RequestsAreWorkers, WorkersAssumption DEF HolderGoesOn
  <1>0. pc \in [Workers -> {"idle", "begun", "checked", "reload", "locked", "loaded"}]
        /\ \A w \in Workers : pc[w] \in {"locked", "loaded"} => zoneMu = w
    BY DEF PublicationInv, TypeOK, MutexInv, InReload
  <1>1. ASSUME NEW r \in Requests, Begin(r) \/ Fail(r) \/ CreateZone(r) \/ ReadZone(r)
        PROVE  HolderGoesOn'
    BY <1>0, <1>1 DEF Begin, Fail, CreateZone, ReadZone, Answer
  <1>2. ASSUME NEW r \in Requests, ReviewZone(r) \/ DeleteZone(r) \/ ChangeRecord(r)
        PROVE  HolderGoesOn'
    <2>1. PICK z \in Zones, row \in Row : Change(r, z, row)
      BY <1>2, ChangedRow DEF PublicationInv, RowChange
    <2>2. zoneMu' = zoneMu /\ pc' = [pc EXCEPT ![r] = "reload"] /\ pc[r] \in {"begun", "checked"}
      BY <1>2, <2>1 DEF Change, ReviewZone, DeleteZone, ChangeRecord
    <2> QED
      BY <1>0, <2>2
  <1>3. ASSUME NEW w \in Workers, ReloadZones(w) PROVE HolderGoesOn'
    BY <1>0, <1>3 DEF ReloadZones, Lock, Load, LoadFails, Publish
  <1>4. CASE Tick
    BY <1>0, <1>4 DEF Tick
  <1>5. CASE (\E u \in Users : EditUser(u)) \/ Crash \/ UNCHANGED vars
    BY <1>5 DEF EditUser, Crash, vars
  <1>6. CASE Start
    BY <1>6 DEF Start
  <1> QED
    BY <1>1, <1>2, <1>3, <1>4, <1>5, <1>6 DEF Next, Handle

\* zoneMu is never left locked: not by a load that fails, nor by a crash.
THEOREM MutexIsGivenBack == Spec => []HolderGoesOn
  <1>1. Init => HolderGoesOn
    BY DEF Init, HolderGoesOn
  <1> QED
    BY <1>1, HolderStep, Publication, PTL DEF Spec
================================================================================
