# LightDNS in TLA+

LightDNS is a filtering DNS resolver with a management plane: one Go process
that answers DNS queries (from managed zones, local records, a block, a cache
or upstream servers), an HTTP API and dashboard that change what it answers,
and one SQLite database. This directory models the parts of it in which several
goroutines meet, a database and a process may disagree, or something fails
half-way; checks them with TLC; and proves the most important results with
TLAPS for every size of the system.

`PROJECT.json` lists components, runs, mutants, hazards, findings, theorems,
and for every definition the lines of source it models.

    tlc -workers 2 -config ZonePublication.cfg MCZoneControl.tla     # a run
    tlapm ZoneControlProofs.tla                                      # the proofs

## 1. The system

| Component | Code | State | Operations |
|---|---|---|---|
| Zone control plane | `internal/admin/api.go`, `internal/database/zones.go`, triggers in `models.go`, `Controller.ReloadZones` | tables `zones`, `dns_records`; `zoneMu`; `Resolver.managed` | create, review, delete a zone; create, update, delete a record; reload; the ticker `refreshZones`; start |
| Resolver settings | `internal/admin/controller.go`, `internal/database/config.go`, `main.go` | row of table `settings`; `Controller.mu`, `config`, `revision`; `Resolver.current`; `blocklist.Store` | PUT /api/settings; reload lists; the ticker `refreshBlocklists`; start |
| Access handler | `internal/resolver/access.go` | `active`, `clients` (token buckets) | `ServeDNS`, `take` |
| Resolver | `internal/resolver/resolver.go` | `current`, `managed`, blocklists, `next`, the `singleflight.Group` | `ServeDNS`, `resolve`, `Publish`, `ReplaceManaged` |
| DNS cache | `internal/cache/cache.go` | 256 shards of entries | `Get`, `Set` |
| Accounts and sessions | `internal/database/users.go`, `sessions.go`, triggers in `models.go`, `internal/admin/server.go` | tables `users`, `sessions` | sign in and out, change one's password; create, edit, reset, delete accounts; expiry and purge |
| First start | `initializeRuntime` in `main.go`, `internal/database/config.go` | row of table `settings`, table `users` | import of a settings file, the first administrator, undoing a failed start |
| Lookups | `internal/authoritative`, `records`, `blocklist` | immutable snapshots | `New`, `Parse`, `Load`, `Lookup`, `Blocked` |
| Limit on failed sign-ins | `authLimiter`, `authSlots` in `server.go` | failures of each address; slots for hashes | `limited`, `failed`, `succeeded`, `beginAuthentication` |
| Database file | `internal/database/database.go` | the file and its lock | open, pragmas, migrations |
| Others | configuration files, password hashing, DoH front end, dashboard, scripts | none of their own | |

How they interact. Queries enter through the access handler, which calls the
resolver. The resolver reads three atomic pointers: its settings (with a cache
inside), the managed zones and the blocklists. The control plane replaces each
pointer on its own: `ReloadZones` the zones, `applyRevision` the settings and
lists, `ReloadBlocklists` the lists. HTTP handlers commit to SQLite first and
publish afterwards. Two tickers repair what a failed publication or download
left undone. SQLite has one connection and starts every transaction
`IMMEDIATE`, so a transaction is atomic to everybody else.

What is hard, by component:

* Zones: between the commit and the publication of a change other handlers, the
  ticker and a crash come in; the zone and session a handler read before its
  transaction may be out of date in it, and the key it read may be another
  zone's; limits of one owner are approached from several handlers.
* Settings: a save holds `mu` over a download and a database write, any of
  which may fail; a reload works from a copy of the settings it took before; a
  restart reads back what was stored.
* Access handler: goroutines read the clock before they get the mutex, so times
  arrive out of order; slots and buckets are bounded, and a full table of buckets
  is cleared as a whole.
* Resolver: a query reads its inputs at different moments; queries of different
  settings share exchanges; answers come late; upstreams fail.
* Cache: callers read the clock before they call, so readings come out of
  order; an expired answer is removed under another lock than it was found
  under; the capacity is shared among shards that do not divide it evenly.
* Accounts: a slow hash lies between the statements of a sign-in or of a change
  of password, and the account may change meanwhile; administrators act on each
  other; a first start may fail or be interrupted between settings and account.
* Lookups: zones inside zones, names that exist only because of those below
  them, wildcards, exceptions under a blocked name, lists that are cut off.

## 2. Modules

| Module | Models | Composition |
|---|---|---|
| `ServedZones` | the promise of the zone control plane: changes are committed, served as of some committed change that only advances, acknowledged when served | abstract specification |
| `ZoneControl` | zone handlers, tables, reload, ticker, crash, start | implements `ServedZones` (`INSTANCE ... WITH`) |
| `SavedSettings` | the promise of the settings: saved one after the other, each over those its author was shown; served as saved; shown only once they are served; what waits for a restart comes with it | abstract specification |
| `SettingsControl` | saves, reloads, ticker, crash, start | implements `SavedSettings` |
| `AccessHandler` | slots and token buckets | |
| `QueryAnswers` | the promise of the resolver: a query is answered once, by what the settings it arrived under, and the zones and lists of moments since, permit | abstract specification |
| `Resolver` | `ServeDNS` and `resolve`, under replacement of all they read | implements `QueryAnswers` |
| `KeptAnswers` | the promise of a cache: answers may be forgotten; a caller gets the one kept for its key, within its time at the caller's reading and aged by it | abstract specification |
| `Cache` | shards, limits, lifetimes, `Get` and `Set` | implements `KeptAnswers` |
| `Standing` | the promise of accounts: access is given for the present standing, and ends with it | abstract specification |
| `Accounts` | accounts, sessions, the first start | implements `Standing` |
| `Lookups` | zones, local records, blocklists: how they are built and searched | |
| `MC*` | constants and symmetry for TLC | extend the module they name |
| `*Proofs` | theorems | extend the module they name, and TLAPS |

`ZoneControl` and `SettingsControl` end where `Resolver` begins: at
`Resolver.managed`, `Resolver.current` and the blocklist store. `Resolver` lets
these change arbitrarily, which includes every way the two control planes
change them; so a result about one does not depend on details of the other. In
the same way `Resolver` leaves to other modules what a lookup finds: its `Drop`
is what `StayOrGo` of `KeptAnswers` allows, its `managed` and `blocked` stand for the lookups
of `Lookups`, at one moment. `ZoneControl` has of the accounts only what zones
depend on (`EditUser`); `Accounts` has of the settings only what the accounts
depend on (whether management is served).

### ZoneControl

A transaction is one action; what precedes and what follows it are actions of
their own. A handler goes through `Begin` (session and principal are read, the
revision shown to the author is sent along), the transaction (`CreateZone`,
`ReviewZone`, `DeleteZone`, `ChangeRecord`; `ReadZone` before the last models
the look at the zone in `CreateRecordAtRevision`), `Lock`, `Load` or
`LoadFails`, `Publish` (the four lines of `ReloadZones`), `Answer`, `Forget`.
`Tick` starts the same reload in the ticker's goroutine. `EditUser` lets an
administrator demote, disable or delete an account at any moment. `Crash` loses
everything but the tables, `Start` loads and publishes before anything is
served. `version`, `commit` and `acked` are history: they number committed
changes.

`Row` is a row of `zones` with its `dns_records`. It has two keys: the public
id, by which clients name a zone, which is drawn at random and never comes
again; and the integer `row`, by which a handler finds the zone in its
transaction after it read it (`zones.go:270`, `290`, `388`). SQLite gives a new
row the key after the greatest in use (`models.go:125`, without
`AUTOINCREMENT`), so `CreateZone` may use a key of a deleted zone again, and
`ChangeRecord` looks for any zone with the key and the revision in hand. Records
are members of a set, each a name, a type, a value and a TTL: an update replaces
one by another. Names of zones are unique among those that exist. Two relations
stand for syntax: `Accepted`, which records are valid in a zone of a name
(`normalizeRecord` before the transaction, `authoritative.New` at a load, which
ask the same), and the weaker `Inside`, what the triggers let in. They differ
only for a record that was meant for another zone. A load, and a start, fail
when an active zone has a record that is not accepted (`Loadable`). CNAMEs beside
other records are refused in both places and left out here; they are in
`Lookups`. Audit events are only ever appended and listed, and left out too.

The revision of a zone becomes the serial of its SOA record (`snapshot.go:51`),
by which secondaries and caches tell whether they have the zone as it is.
`Serial` is what `New` does with it: cut to `SerialWidth` values, with 0 made 1.
`SerialsAdvance` compares what is served before and after every step: while a
zone stays served its serial never goes back, and under one serial it always
has the same records, as long as the revision fits the serial. After 2^32
changes of one zone the code wraps, and two revisions share the serial 1; the
run reaches that with its width of 4. A zone that is deleted and created again
under its old name is another zone, with another public id, and begins at 1;
across that the code promises nothing about serials.

`RecordsEnterActiveZones` says when a record is added to a zone that is not
active. A review between the look at the status and the insertion changes the
revision, and the insertion is refused. What remains is a defect: a handler has
read an active zone at revision 1 or later, the zone is deleted, another one is
created and gets its key, and that one is pending or rejected at the revision
the client expected. Then the record goes into the new zone, whose owner did not
ask for it. The clause `Mistaken` of the property says exactly this, no more, and
without it TLC finds the sequence of 16 steps in the instance of
`ZonePublication`. The comment and the message of the code
(`ErrZoneNotActive`) do not speak of keys.

### SettingsControl

A configuration is a triple: what decides the blocklists, what a save puts into
effect at once, what only a restart does. `applyRevision` is `Lock` (with the
revision check), `Prepare` (the lists are loaded if their part of the settings
changes), `Persist`, `PublishOptions`, `PublishLists`, with `Fail` for the
early returns. `BeginReload`, `LoadLists` or `LoadFails`, and `ReplaceLists`
are `ReloadBlocklists`: `mu` is held only in the first. `contents` counts how
often listed files and URLs change, so that lists loaded earlier differ from
those loaded later.

`SavedSettings` has no goroutines, no `mu` and no steps of a save. A save that
has committed but not yet published is one whose options are not in effect: the
promise lets queries be served with older options then, and lets nobody be
shown the new settings. It leaves out the lists, since a reload that began
before a save may bring replaced lists back (the finding `SettingsLists`).
`OnlyLateReloadsUnsettle` is the other side of that finding: no save, failure,
crash or start takes the served lists away from the saved settings, only a
reload that copied the settings before a save and stores its lists after it.

### AccessHandler

`Arrive` (slot taken or refused), `ReadClock`, `Take` (the critical section of
`take`: table cleanup, refill, decision), `Done`. Time is a counter, tokens are
whole numbers, one for each unit of time. Everything from `latest` on is history.
One client, `counted`, is watched; `Measure` begins the count of its queries
anew at any moment, whether or not its bucket is there, so `RateBound` speaks of
every interval and not only of those that begin with a full bucket.

The code does not keep a client to its rate whatever happens: when the table is
full of addresses seen in the last ten minutes, `take` clears it as a whole
(`access.go:63`), and every client has a full bucket again at once. So 8191 fresh
addresses let a client pass a second burst at the same moment. The model does
this, and `again` measures it: when a client whose bucket went in a full table
gets a new one, the new bucket is worth the last `Burst` units of time, and the
part of them up to the client's latest query has been counted before. `RateBound`
says that a client passes no more than a full bucket, one query for every unit of
time, and `again`. A bucket that a full table drops for its age is measured in the
same way, and regains nothing if the age was enough to fill it; one that is
dropped from a table that is not full, or filled twice for the same time, violates
the property.

### Resolver

`states` is the sequence of settings published so far, so `Resolver.current` is
the last and a query that began earlier keeps its own. `Begin`, `LookupLocal`,
`LookupBlocked`, `LookupCache`, `Join` (`Group.Do`), `Lead` (the second look
into the cache, and a turn of the counter `next`), `TryFails`, `TrySucceeds`,
`GiveUp`, `Store`, `Deliver` (the end of the call, for the leader and everybody
who waits) and `Return` are the steps of a query; a look into a pointer and
what follows from it is one step. `Publish`, `ReplaceManaged`, `ReplaceBlocked`
and `Drop` (an entry expires or makes room) happen at any moment. An answer
says where it comes from: `zone`, `local`, `blocked`, `none` (no upstreams),
`upstream` or `servfail`, and for which settings. Whether an answer is
cacheable is a choice of `Store`. `seen` is history: whether the name was
managed, and blocked, at some moment since the query arrived. `QueryAnswers`
knows neither caches nor exchanges nor the order of lookups: `Permitted` says
which answers a query may get, `Give` that those who share one get it in one
step. That includes that an answer from upstream was asked for with signatures
if the client or the query's settings want them (`SignaturesAsked`), although
it may come from the upstreams of other settings. Queries the code
refuses at once read nothing but the settings and are left out.

### Cache

Time is counted in ticks, so that seconds can be cut off. `Get` and `Set` begin
a call with the time the caller read; `Hit`, `Miss`, `Expired` are what happens
under the read lock, `Remove` and `Store` under the lock. `Store` makes room by
dropping any entries of the shard, as the walk through a map does. An answer is
the sequence of its records, and a record its kind and TTLs; `messageTTL` is
the code's loop. `KeptAnswers` ties every answer to a call: the key the caller
asked for, the time it read when it called, and, for a caller that brings an
answer, that answer. `RefinesKept` shows that no order of calls and clock readings
gives an answer kept for another key, or one whose time is over at the caller's
reading, or one whose TTLs are not lowered by exactly the whole seconds that are
over then, although a caller may remove an answer stored after the one it found
expired (then its own call still ends with nothing: `Miss`). A caller whose
reading is older than the answer has a negative age, which `uint32` makes a very
large one: it gets the answer with TTLs of 0, which the promise allows.

`Lives` states how long an answer may be kept. It has to admit what the code
does with a TTL of 0: the loop takes 0 for "no minimum yet", so TTLs 300, 0,
600 are kept for 600 seconds. No document says otherwise, hence no finding.

### Accounts

One action for each statement or transaction on the tables, with its triggers
(`AdminRemainsWith`, `Revoke`, the guard of `Insert`). `SignIn` reads the row
and checks the password, `CreateSession` is the statement that compares the row
again; a change of one's password goes through `BeginChange`, `ReadCurrent`,
`Swap`, `Renew` and `CreateSession`. `Fail` stands for every error in between.
A hash is the number of the call that made it. `LoadSettings`, `CreateFirst`,
`ServeKnown`, `StartFails` are `initializeRuntime`, and `Crash` comes between
any of them. `proof` in a session is history: what the account was when the
session was asked for.

`ResetPassword` also changes the hash of a deleted account, since its `UPDATE`
does not look at `deleted_at`; `DeletedStayOut` shows that this lets nobody in.

### Lookups

`Start` builds the stores as `main.go` does, or `StartFails`. A question then
goes through the loops of the code one candidate at a time: `FindZone`,
`NextApex`, `NoZone`; `OtherClass`, `AtName`, `AtEmptyNode`, `ClosestEncloser`;
`ExactRecord`, `NextWildcard`, `NoRecord`; `Allow`, `Block`, `Unlisted`. A name
is the sequence of its labels, with its spelling beside it, which `Normalize`
takes away; records are sets, so a CNAME that the settings give twice, which
`records.go:36` refuses, is not told apart from one; a list is a sequence of
lines, and the size of a download is counted in lines, so a limit that falls
within a line is not seen. The properties define the answer from the zones,
records and lists the process started from, without loops.

Two things the code does that a reader may not expect. A question for the NS of
an apex without NS records and without other records gets no records, although
ANY shows the NS record that `New` makes (`snapshot.go:187` may mean to answer
it). In a line of a hosts file every word after the address is a name, those of a
comment too, except the one that begins with `#`: `0.0.0.0 x # com` blocks
`com`. The modules do as the code does;
nothing in the repository says otherwise.

## 3. Runs

| Run | States | Checks |
|---|---|---|
| `ZonePublication` | 2,374,970 | `TypeOK`; `ServedIsCurrent`: what is served as of the latest change is exactly the active zones; `RefinesServed`: it implements `ServedZones`, so what was answered with success is being served (`AckedIsServed`) and what is served only advances; `SerialsAdvance`: no zone changes under a serial that was served; `RecordsEnterActiveZones`: records enter active zones, or one that took the key and revision of a deleted zone |
| `ZoneOwners` | 952,438 | `OwnerLimits`: the limits of an owner hold |
| `ZoneLiveness` | 87,164 | `EventuallyServed`: every committed change is served; `RequestsFinish`: no handler waits for ever; `DecidedByAdmin`: only enabled administrators decide about zones, also when demoted meanwhile |
| `ZoneDeletion` | violation | `StaleWritesRejected` |
| `SettingsSaves` | 113,071 | `TypeOK`; `SettingsDurable`: the process runs with what is stored when no save is under way; `StaleSavesRejected`: nobody overwrites settings not seen; `RefinesSaved`: it implements `SavedSettings`; `OnlyLateReloadsUnsettle`: nothing but a late reload brings back lists of replaced settings; `ListsRepaired`: the right lists come back, again and again; `SavesFinish` |
| `SettingsLists`, `SettingsRestart` | violation | `LiveLists`, `LiveStartup` |
| `AccessRate` | 2,976,638 | `TypeOK`; `RateBound`: from any moment on a client passes no more often than burst and rate allow, but for what the loss of its bucket in a full table gives back; `ResourcesBounded`: every slot taken belongs to a query under way, and neither slots nor buckets exceed their limits; `PatientServed`: a client that waits for its tokens is served |
| `ResolverAnswers` | 2,288,974 | `TypeOK`; `CachesApart`: no answer gets into the cache of other settings; `NoNeedlessExchange`: no upstream is asked for what the cache holds; `FailsAfterAll`: a query fails only after every upstream failed in one exchange; `AnswersOfTheirTime`: an answer agrees with zones and lists of some moment since the query arrived; `NobodyAbandoned`: whoever waits has a leader that has yet to deliver; `RefinesAnswers`: it implements `QueryAnswers` |
| `CacheAges` | 1,025,092 | `TypeOK`; `CapacityHeld`: concurrent calls exceed neither a shard's limit nor the capacity; `RefinesKept`: it implements `KeptAnswers` |
| `AccountSessions` | 394,746 | `TypeOK`; `SessionsCurrent`: a session stands for the password, role and flag its account has now; `AdminRemains`: an enabled administrator remains; `ServedWithAdmin`: management is served only with settings and an administrator; `DeletedStayOut`; `ForcedChangeStands`: a change begun before a reset does not lift the obligation to change again; `RefinesStanding`: it implements `Standing` |
| `LookupTrees` | 216,324 | `TypeOK`; `BlockedByLists`: the innermost entry above a name decides, and every line of every list counts; `AnsweredByClosest`: the innermost zone answers, as its records and wildcards say, or else the local records |

Bounds, and why they are enough:

* `ZonePublication`: two zones under names one of which lies inside the other,
  two records of which one is valid in the inner zone only, two handlers and the
  ticker, three changes, at most one zone at a time for the owner (so the second
  is created only after the first is deleted, with its key). Orders of
  publication need two publishers and two changes; the third change and the
  ticker allow a late reload to overtake. A record that mistakes a new zone for a
  deleted one needs an approval, a deletion and the record: three changes.
  Serials are counted modulo 4, so the revision wraps to the serial 1. `Loadable`
  is never false with three changes: that needs a fourth, the approval of the
  zone with the misplaced record.
* `ZoneOwners`: three zones against limits 2 (in all), 1 (active) and 1
  (rejected), so each is reached and overstepped by one in a faulty program. One
  handler suffices: limits are counted in the transaction. Creations are not
  counted by `MaxCommits`, since they publish nothing.
* `ZoneLiveness`: one zone, one handler, the ticker, two changes, with crashes
  and failing loads without bound; two administrators, one of whom may be edited
  at any moment. `EventuallyServed` is about loads that can succeed: while a
  misplaced record makes every load fail (`Loadable`), nothing is published, which
  one zone never meets.
* Settings: two savers and the ticker (one saver where one saver shows it), up
  to three revisions, one change of the lists' contents. `SettingsSaves` has
  one value of what waits for a restart, which only decides the notice to the
  author; the proof of `RefinesSaved` is for any number of values.
* `AccessRate`: three goroutines, three addresses, two slots, two buckets,
  burst 2, buckets old after one unit of time, time up to 3: two goroutines with
  clock readings out of order, a third that comes in when slots or buckets are
  gone, a table that is cleared and one that is only purged. `MaxAgain` = 2 lets
  a whole burst be regained within one count.
* `ResolverAnswers`: two goroutines, one name, clients with and without the
  wish for signatures, settings with no, one and two upstreams, with and
  without DNSSEC, with a local record, two states of the settings, and a
  counter that wraps at 2. Two goroutines make leader and waiter, two leaders
  of different keys, and exchanges of old and new settings; names never meet
  except through their keys. The counter of the code wraps at 2^64, which no
  process reaches; `FailsAfterAll` holds whatever it wraps at, since an
  exchange reads it once.
* `CacheAges`: two goroutines, three keys in two shards (two keys meet), made
  for 0, 1 or 3 answers: shards without room, one with and one without, and two
  and one of three; two ticks to the second, lifetimes from one second to two, so
  that one answer's is raised and another's is lowered, and readings out of order
  lie within and beyond a second; answers with an OPT record, with an SOA whose
  minimum counts, that may not be kept.
* `AccountSessions`: two workers, two accounts, three tokens, three passwords:
  an administrator and an account that is edited, two administrators who edit
  each other, two sign-ins or a sign-in and a change; the third password lets a
  reset come between the reading of a row and its replacement.
* `LookupTrees`: one zone with up to three of seven records, alone or around
  another, two unrelated zones, what `New` refuses; names of up to three labels
  and some of four; exceptions at, above and below what is blocked; lists of
  their full size and longer ones.

The cfg of `CacheAges` wraps seconds at 2^16 instead of 2^32: both are far
beyond the run's TTLs, and the proofs hold for any width larger than `MaxTTL`.

Every property of a passing run has a mutant: a plausible mistake in a modelled
definition (marked "fault" in the modules) under which TLC finds the property
violated.

Fairness. `ZoneLiveness`: goroutines that can go on do (weak fairness of
handlers, loads and publications); a goroutine that waits for `zoneMu` gets it
(strong fairness of `Lock`: `sync.Mutex` hands over to waiters that starve); a
load that can succeed again and again does succeed at last in the ticker's
goroutine, which tries every 30 seconds (`main.go:360`), and the process is
started again (`compose.yaml:5`, `restart: unless-stopped`). Nothing says that
a handler is spared a crash, or that its load succeeds. `SettingsSaves` assumes
the same of saves, the ticker of `refreshBlocklists`, which keeps the lists
when a download fails and tries again (`main.go:388`), and the start; it
assumes that a refresh interval is configured, without which
`refreshBlocklists` never reloads. No fairness is assumed of administrators, of
changes of contents or of failures. The other modules have no liveness
property: their goroutines wait for nobody but for a mutex held for a few
lines, and in `Resolver` for a leader, which `NobodyAbandoned` says is there
and whose exchanges end by a timeout.

Deadlock is checked in every run but `LookupTrees`, where a process that cannot
build its stores ends.

## 4. Findings

* `ZoneDeletion`: `DELETE` of a zone carries no revision, so a deletion commits
  although the zone changed since its author saw it; `DESIGN.md:33` says zone
  revisions reject stale writes.
* `SettingsLists`: a reload that copied the settings before a save stores its
  lists after it, so queries are filtered with the lists of replaced settings
  although the author was told "applied live" (`app.js:1255`).
* `SettingsRestart`: `restartRequired` compares with the settings saved before,
  not with those the process runs with: after two saves the dashboard says
  "applied live" while a listener still waits for a restart.

Two more things a maintainer should know, which contradict no document and are
therefore part of properties that hold: a record may get into a new zone that has
the key of a deleted one (`RecordsEnterActiveZones`, under ZoneControl), after
which all publications may fail until it is deleted (`Loadable`); and a full
table of clients gives everybody a full bucket (`RateBound`, under
AccessHandler).

## 5. Proofs

Constants are arbitrary under the modules' named assumptions:
`WorkersAssumption`, `RecordsAssumption`, `UsersAssumption`, `LimitsAssumption`
(distinct goroutines, what is accepted lies inside, at least one serial, accounts
that exist, natural numbers as limits);
`SettingsAssumption`; the assumptions of `AccessHandler` about its bounds;
`SettingsShape`, `BoundsAssumption`, `NoneAssumption` of `Resolver` (upstreams
form a sequence, `None` is nothing else); `ConstantsAssumption`,
`MessagesAssumption` and `NoneAssumption` of `Cache` (finitely many keys, at
least one shard, `MinTTL` at most `MaxTTL`, and that below 2^32);
`HashesAssumption` and `NoneAssumption` of `Accounts`; `ConstantsAssumption`
and `InputsAssumption` of `Lookups` (inputs have their shapes). TLC evaluates
all of them.

* `ZoneControlProofs`: `TypeCorrect`; `Publication`, the inductive invariant
  `PublicationInv` = types, a stopped process has no goroutines, whoever is in
  a reload holds `zoneMu`, a snapshot loaded or served is not newer than the
  tables, and one loaded by the holder of `zoneMu` is not older than what is
  served and includes the change its loader committed. From it `AckedServed`,
  `ServedCurrent` and `ServedRefined` (every step is a step of `ServedZones` or
  a stutter). `AckedIsServed` alone is not inductive: it says nothing of a
  snapshot on its way. `RecordInv` gives `RecordsAdded`: keys are unique while
  they are in use and no revision of a row that exists is 0 (`KeyInv`), no client
  expects a revision higher than the zone's (`ShownInv`), a handler that has read
  its zone holds the key the zone has or had (`ReadInv`), and if it found the zone
  active and the zone still has the revision expected, it is active still
  (`ApprovedInv`). So at the insertion the zone with key and revision is active,
  or the one that was read is gone.
  `NeverGoesBack`: the versions served and acknowledged never decrease.
  `SerialInv` compares the same zone in any two of the tables, the snapshots
  under way and the one that is served: the older version has no higher serial,
  and equal serials mean equal records, as long as the revision in the table fits
  the serial. It needs all pairs, since a snapshot is
  loaded from the tables, published over another, and all may differ. It gives
  `SerialsOnlyAdvance`. `MutexIsGivenBack`: whoever holds `zoneMu` is at a step
  that waits for nobody, so the mutex is given back.
  `LimitInv` counts an owner's zones by cardinality; it has to say that they
  are finitely many, since nothing bounds the identifiers. It gives
  `OwnersWithinLimits`. `AdminsDecide` follows from the transactions.
* `SettingsControlProofs`: `SettingsInv` says which goroutine holds `mu` and
  what it carries at each point of a save; from it `SettingsAreDurable`,
  `StaleSavesAreRejected` and, one step at a time, `SavedIsRefined`. `ListsInv`
  adds which lists a saver has loaded before it publishes; it gives
  `OnlyLateReloads`.
* `AccessHandlerProofs`: `RateInv` weighs the tokens of a bucket against the
  queries that passed, the time (with `last`, which may lie behind the latest
  reading) and what was counted twice; a client that has asked before and has no
  bucket lost it in a full table. From it `RateBounded`, `PatientClientsServed`. Slots are
  counted by a cardinality (`SlotsCorrect`), as are buckets
  (`BucketsStayBounded`); both make `ResourcesStayBounded`.
* `ResolverProofs`: `Flights` (a leader holds the place of its key, and whoever
  holds a place leads) gives `NobodyIsAbandoned`. `CacheInv` adds what a
  goroutine has in hand at each point; because two leaders never share a key,
  nobody stores for the key of an exchange under way, which gives
  `NoExchangeIsNeedless`, `CachesAreApart` and `SignaturesAreAsked`. `Seen`
  says that who passed zones or lists saw the name absent from them at that
  moment, that what was seen stays seen; it gives `AnswersAreOfTheirTime`.
  `FailuresInv` says which upstreams have failed at each turn of an exchange;
  that turns modulo the number of upstreams reach every one (`AllReached`)
  makes it `FailuresAreOfAll`. `AnswersInv` says who may be on its way to the
  upstreams and where what a leader has in hand comes from. With all of these,
  every step is one of `QueryAnswers` or a stutter (`AnswersArePermitted`): the
  answers of one delivery are permitted to everybody who waits because they
  share a key, and what was permitted when they got past zones and lists is
  permitted still, because what was seen stays seen.
* `CacheProofs`: `CacheInv` bounds the time entries expire at: an age never
  reaches 2^32 seconds while it is served. The limits of the shards add up to
  the capacity (`Shares`, `TotalBounded`), and the loop of `messageTTL` returns
  one of `Lives`; both are inductions over a number, by the least
  counterexample (`Least`). From these `CapacityIsHeld` and `KeptIsRefined`.
* `AccountsProofs`: `AccountInv` = types, current sessions, deleted accounts
  plain and disabled, and an administrator kept. A deleted account has no
  session because a current session is that of an enabled account, so
  `DeletedStaysOut` needs both. `StartInv` says how far a start has come and
  what it left in the tables (`NeverServedWithoutAdmin`); `RowsInv` compares
  the row a worker read with the one in the table: hashes are never made twice,
  so as long as the hash is the same, an obligation in the table is one the
  worker read (`ForcedChangesStand`). `StandingRefined` follows from the first.
  `EditsAsZonesAssume` joins two modules: once there are accounts, every change
  that `Accounts` makes to their roles and flags is one that `EditUser` of
  `ZoneControl` makes, so the results about zones hold under the accounts that there are.
* `LookupsProofs`: `Built` says what the stores hold, `Passed` what each loop
  has seen so far: no zone, node, record or entry at the candidates it left
  behind. At the end of a loop this is the definition of the closest; names
  above a name of a given length are unique (`SubDomainUnique`). They give
  `ListsDecide` and `ClosestAnswers`. `LookupsEnd` takes the place of liveness:
  every step of a loop lowers a measure, whatever the zones and lists are.

Every safety property of a passing run is proved. Only model-checked: liveness
(`EventuallyServed`, `RequestsFinish`, `ListsRepaired`, `SavesFinish`), which
the provers do not reach.

## 6. Not modelled

* The limit on failed sign-ins counts a failure after the slow hash, so
  attempts under way are not counted yet. No document, comment or test says how
  many there may be, so there is no bound to state.
* The database file: it is opened, locked and migrated by one process before it
  serves anybody. With `synchronous=NORMAL` a power failure (not a crash of the
  process) may undo commits that were acknowledged; the crashes modelled here
  keep what was committed.
* Waiting: while lists are downloaded under `mu`, readers of the settings
  (every zone request among them) wait for the download, up to its timeout. And
  between the publication of options and that of lists, queries see the new
  options with the old lists; `LiveLists` speaks of the time after the save.
* Configuration parsing and validation, password hashing, the syntax of names,
  of DNS messages and of the lines of a list: pure functions of strings,
  without state. The modules take any result of them.
* The client that downloads lists: one request, whose failure is `LoadFails`,
  or a list that does not load in `Lookups`.
* The DoH front end: one HTTP request becomes one call of the access handler.
* The dashboard and the scripts, which are not part of the process.
