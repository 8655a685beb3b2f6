-------------------------------- MODULE Lookups --------------------------------
(***************************************************************************)
(* Where a question finds its answer before any upstream is asked: managed *)
(* zones (internal/authoritative/snapshot.go), local records               *)
(* (internal/records/records.go), blocklists                               *)
(* (internal/blocklist/blocklist.go), in the order of Resolver.ServeDNS,   *)
(* with the stores as main.go builds them.                                 *)
(*                                                                         *)
(* All three walk up the labels of the name.  A name is the sequence of    *)
(* its labels, the root's left out; its spelling (case, spaces, final dot) *)
(* is what the normalisations of the code take away.  Each loop is a       *)
(* sequence of steps; "at" is the label where the candidate begins.        *)
(*                                                                         *)
(* Definitions marked "fault" are plausible mistakes.  Nothing uses them;  *)
(* each takes the place of the definition after it to show that a property *)
(* notices.                                                                *)
(***************************************************************************)
EXTENDS Integers, Sequences, FiniteSets

CONSTANTS
    Labels, Star,    \* labels of names; the one that stands for any
    Types,           \* record types: those of records.Parse
    Data,            \* what tells records of one name and type apart
    Own,             \* the data of a record that New makes
    ZoneInputs,      \* lists of zones the database may hold
    RecordInputs,    \* sets of local records the settings may hold
    ListInputs,      \* blocklists the settings may name
    Questions,       \* what clients ask
    MaxLines,        \* the download size, as a number of lines
    None             \* no zone, no question, no answer

Names    == Seq(Labels)
Spelled  == [labels : Names, plain : BOOLEAN]
Record   == [name : Spelled, type : Types, data : Data, parses : BOOLEAN]
Zone     == [name : Spelled, revision : Int, records : SUBSET Record]
Word     == [name : Spelled, valid : BOOLEAN, skip : BOOLEAN]
Line     == [kind : {"except", "block", "hosts", "word", "other"}, words : Seq(Word)]
Source   == [readable : BOOLEAN, lines : Seq(Line)]
Lists    == [block : SUBSET Spelled, allow : SUBSET Spelled, sources : Seq(Source)]
Question == [name : Spelled, type : Types \union {"SOA", "ANY"}, class : {"IN", "other"}]

ASSUME ConstantsAssumption ==
    /\ Star \in Labels
    /\ {"CNAME", "NS"} \subseteq Types /\ {"SOA", "ANY"} \cap Types = {}
    /\ Own \notin Data
    /\ MaxLines \in Nat

ASSUME InputsAssumption ==
    /\ ZoneInputs \subseteq Seq(Zone)
    /\ RecordInputs \subseteq SUBSET Record
    /\ ListInputs \subseteq Lists
    /\ Questions \subseteq Question
    /\ None \notin Question /\ None \notin Names

VARIABLES
    zoneInput, recordInput, listInput,  \* what the process starts from
    snapshot,  \* the zones: a function from their apexes
    store,     \* the local records
    blocked, allowed,  \* the names of the matcher
    pc,        \* where the lookup is
    question,  \* the question, or None
    at,        \* the label where the candidate begins
    apex,      \* the zone that was found, or None
    answer     \* the answer, or None

inputs == <<zoneInput, recordInput, listInput>>
stores == <<snapshot, store, blocked, allowed>>
vars   == <<zoneInput, recordInput, listInput, snapshot, store, blocked, allowed,
            pc, question, at, apex, answer>>

--------------------------------------------------------------------------------
(* Names.                                                                      *)

Normalize(name) == name.labels

\* The name that is left when those before label i are dropped.
From(name, i) == SubSeq(name, i, Len(name))

IsSubDomain(parent, name) ==
    /\ Len(parent) <= Len(name)
    /\ From(name, Len(name) - Len(parent) + 1) = parent

Wildcard(name) == <<Star>> \o name

--------------------------------------------------------------------------------
(* Records, as both stores keep them.                                          *)

RR == [name : Names, type : Types, data : Data]

Parsed(records) ==
    {[name |-> Normalize(r.name), type |-> r.type, data |-> r.data] : r \in records}

\* records.Parse: the root has no records.
Parses(records) == \A r \in records : r.parses /\ Normalize(r.name) # <<>>

At(rrs, name) == {rr \in rrs : rr.name = name}

\* An alias has no other records beside it.
AliasAlone(rrs) == \A rr \in rrs : rr.type = "CNAME" => At(rrs, rr.name) = {rr}

AcceptableRecords(records) == Parses(records) /\ AliasAlone(Parsed(records))

--------------------------------------------------------------------------------
(* authoritative.New.                                                          *)

AcceptableZone(z) ==
    LET top == Normalize(z.name) IN
    /\ top # <<>>
    /\ z.revision > 0
    /\ Parses(z.records)
    /\ \A rr \in Parsed(z.records) :
           /\ IsSubDomain(top, rr.name)
           /\ rr.name = top => rr.type # "CNAME"
           /\ rr.name # top => rr.type # "NS"
    /\ AliasAlone(Parsed(z.records))

AcceptableZones(zones) ==
    /\ \A i \in DOMAIN zones : AcceptableZone(zones[i])
    /\ \A i, j \in DOMAIN zones : Normalize(zones[i].name) = Normalize(zones[j].name) => i = j

\* A name and those above it, up to the apex.
Upwards(name, top) == {From(name, i) : i \in 1..(Len(name) - Len(top) + 1)}

OwnersOnly(rrs, top) == {top} \union {rr.name : rr \in rrs}        \* fault

Existing(rrs, top) == {top} \union UNION {Upwards(rr.name, top) : rr \in rrs}

BuildZone(z) ==
    LET top == Normalize(z.name)
        rrs == Parsed(z.records)
    IN
    [owners    |-> rrs,
     existing  |-> Existing(rrs, top),
     defaultNS |-> \A rr \in At(rrs, top) : rr.type # "NS"]

BuildSnapshot(zones) ==
    [top \in {Normalize(zones[i].name) : i \in DOMAIN zones} |->
        BuildZone(zones[CHOOSE i \in DOMAIN zones : Normalize(zones[i].name) = top])]

--------------------------------------------------------------------------------
(* Loader.Load: the lists of the settings, then every file and download.       *)

AdblockDomain(words) == {words[i].name : i \in {j \in DOMAIN words : words[j].valid}}

\* In a hosts file only "localhost" and what starts with "#" are skipped.
HostDomains(words) == {words[i].name : i \in {j \in DOMAIN words : ~words[j].skip}}

BlocksOf(line) ==
    CASE line.kind = "block" -> AdblockDomain(line.words)
      [] line.kind = "hosts" -> HostDomains(line.words)
      [] line.kind = "word"  -> AdblockDomain(line.words)
      [] OTHER               -> {}

AllowsOf(line) == IF line.kind = "except" THEN AdblockDomain(line.words) ELSE {}

\* The reader stops one byte behind the download size.
ReadLines(source) ==
    {source.lines[i] : i \in {j \in DOMAIN source.lines : j <= MaxLines + 1}}

LinesOf(lists) == UNION {ReadLines(lists.sources[i]) : i \in DOMAIN lists.sources}

LoadsCut(source) == source.readable                                \* fault

\* What is cut off is no list.
Loads(source) == source.readable /\ Len(source.lines) <= MaxLines

LoadedLists(lists) == \A i \in DOMAIN lists.sources : Loads(lists.sources[i])

\* blocklist.New: the empty name is dropped.
Entries(names) == {Normalize(n) : n \in names} \ {<<>>}

LoadBlocked(lists) == Entries(lists.block \union UNION {BlocksOf(l) : l \in LinesOf(lists)})
LoadAllowed(lists) == Entries(lists.allow \union UNION {AllowsOf(l) : l \in LinesOf(lists)})

--------------------------------------------------------------------------------

Init ==
    /\ zoneInput \in ZoneInputs
    /\ recordInput \in RecordInputs
    /\ listInput \in ListInputs
    /\ snapshot = [top \in {} |-> None]
    /\ store = {}
    /\ blocked = {} /\ allowed = {}
    /\ pc = "start"
    /\ question = None
    /\ at = 1
    /\ apex = None
    /\ answer = None

\* The process builds the stores, or ends.
Start ==
    /\ pc = "start"
    /\ LoadedLists(listInput)
    /\ AcceptableRecords(recordInput)
    /\ AcceptableZones(zoneInput)
    /\ blocked' = LoadBlocked(listInput)
    /\ allowed' = LoadAllowed(listInput)
    /\ store' = Parsed(recordInput)
    /\ snapshot' = BuildSnapshot(zoneInput)
    /\ pc' = "idle"
    /\ UNCHANGED <<inputs, question, at, apex, answer>>

StartFails ==
    /\ pc = "start"
    /\ ~ (LoadedLists(listInput) /\ AcceptableRecords(recordInput) /\ AcceptableZones(zoneInput))
    /\ pc' = "stopped"
    /\ UNCHANGED <<inputs, stores, question, at, apex, answer>>

Ask(q) ==
    /\ pc = "idle"
    /\ question' = q
    /\ answer' = None
    /\ at' = 1
    /\ pc' = "zone"
    /\ UNCHANGED <<inputs, stores, apex>>

Name      == Normalize(question.name)
Candidate == From(Name, at)

LastBehind == at > Len(Name)                                       \* fault

\* No label is left behind the candidate.
Last == at >= Len(Name)

Reply(a) ==
    /\ answer' = a
    /\ pc' = "idle"
    /\ at' = 1
    /\ apex' = None
    /\ UNCHANGED <<inputs, stores, question>>

\* The next candidate of the same loop, or another loop from the start.
Shorten  == at' = at + 1 /\ UNCHANGED <<inputs, stores, pc, question, apex, answer>>
Loop(l)  == pc' = l /\ at' = 1 /\ UNCHANGED <<inputs, stores, question, apex, answer>>

\* Records whose type answers the question; an alias answers all.
Matching(q, rrs) ==
    {[type |-> rr.type, data |-> rr.data] :
        rr \in {r \in rrs : q.type \in {"ANY", r.type} \/ r.type = "CNAME"}}

Made(type) == [type |-> type, data |-> Own]

Managed(rcode, records) ==
    [from |-> "zone", rcode |-> rcode, records |-> records, soa |-> records = {} /\ rcode # "notimp"]

--------------------------------------------------------------------------------
(* Snapshot.Lookup.                                                            *)

FindZone ==
    /\ pc = "zone"
    /\ Candidate \in DOMAIN snapshot
    /\ apex' = Candidate
    /\ pc' = "managed"
    /\ UNCHANGED <<inputs, stores, question, at, answer>>

NextApex == pc = "zone" /\ Candidate \notin DOMAIN snapshot /\ ~Last /\ Shorten
NoZone   == pc = "zone" /\ Candidate \notin DOMAIN snapshot /\ Last /\ Loop("record")

\* zone.answer.
ReplyRecords(rrs) ==
    Reply(Managed("success",
        Matching(question, rrs) \union
            {Made(t) : t \in {u \in {"SOA", "NS"} :
                /\ Name = apex
                /\ u = "NS" => snapshot[apex].defaultNS
                /\ question.type \in {u, "ANY"}}}))

OtherClass ==
    /\ pc = "managed"
    /\ question.class # "IN"
    /\ Reply(Managed("notimp", {}))

AtName ==
    LET owned == At(snapshot[apex].owners, Name) IN
    /\ pc = "managed"
    /\ question.class = "IN"
    /\ \/ Name = apex /\ question.type \in {"SOA", "ANY"}
       \/ owned # {}
    /\ ReplyRecords(owned)

AtEmptyNode ==
    /\ pc = "managed"
    /\ question.class = "IN"
    /\ ~ (Name = apex /\ question.type \in {"SOA", "ANY"})
    /\ At(snapshot[apex].owners, Name) = {}
    /\ IF Name \in snapshot[apex].existing
       THEN Reply(Managed("success", {}))
       ELSE Loop("closest")

\* The loop leaves out the name itself, and finds the apex at the latest.
ClosestEncloser ==
    /\ pc = "closest"
    /\ LET closest == From(Name, at + 1)
           owned   == At(snapshot[apex].owners, Wildcard(closest))
       IN
       IF closest \notin snapshot[apex].existing THEN Shorten
       ELSE IF owned # {} THEN ReplyRecords(owned)
       ELSE Reply(Managed("nxdomain", {}))

--------------------------------------------------------------------------------
(* records.Store.Lookup.                                                       *)

ReplyLocal(rrs) ==
    Reply([from |-> "local", rcode |-> "success", records |-> Matching(question, rrs), soa |-> FALSE])

ExactRecord ==
    /\ pc = "record"
    /\ IF At(store, Name) # {} THEN ReplyLocal(At(store, Name)) ELSE Loop("wildcard")

NextWildcard ==
    /\ pc = "wildcard"
    /\ ~Last
    /\ LET rrs == At(store, Wildcard(From(Name, at + 1))) IN
       IF rrs # {} THEN ReplyLocal(rrs) ELSE Shorten

NoRecord == pc = "wildcard" /\ Last /\ Loop("list")

--------------------------------------------------------------------------------
(* Matcher.Blocked.                                                            *)

Outcome(from) == Reply([from |-> from, rcode |-> "none", records |-> {}, soa |-> FALSE])

Allow == pc = "list" /\ Candidate \in allowed /\ Outcome("pass")
Block == pc = "list" /\ Candidate \notin allowed /\ Candidate \in blocked /\ Outcome("block")
Unlisted ==
    /\ pc = "list"
    /\ Candidate \notin allowed /\ Candidate \notin blocked
    /\ IF Last THEN Outcome("pass") ELSE Shorten

Next ==
    \/ Start \/ StartFails
    \/ \E q \in Questions : Ask(q)
    \/ FindZone \/ NextApex \/ NoZone
    \/ OtherClass \/ AtName \/ AtEmptyNode \/ ClosestEncloser
    \/ ExactRecord \/ NextWildcard \/ NoRecord
    \/ Allow \/ Block \/ Unlisted

Spec == Init /\ [][Next]_vars

--------------------------------------------------------------------------------
(* Properties. *)

Answer ==
    [from    : {"zone", "local", "block", "pass"},
     rcode   : {"success", "nxdomain", "notimp", "none"},
     records : SUBSET [type : Types \union {"SOA"}, data : Data \union {Own}],
     soa     : BOOLEAN]

TypeOK ==
    /\ zoneInput \in ZoneInputs /\ recordInput \in RecordInputs /\ listInput \in ListInputs
    /\ DOMAIN snapshot \subseteq Names
    /\ \A top \in DOMAIN snapshot :
           snapshot[top] \in [owners : SUBSET RR, existing : SUBSET Names, defaultNS : BOOLEAN]
    /\ store \subseteq RR
    /\ blocked \subseteq Names /\ allowed \subseteq Names
    /\ pc \in {"start", "stopped", "idle", "zone", "managed", "closest", "record", "wildcard", "list"}
    /\ question \in Questions \union {None}
    /\ pc \notin {"start", "stopped", "idle"} => question # None
    /\ at \in Nat \ {0}
    /\ question # None => at = 1 \/ at <= Len(Name)
    /\ apex \in DOMAIN snapshot \union {None}
    /\ pc \in {"managed", "closest"} => apex # None
    /\ answer \in Answer \union {None}

Answered == pc = "idle" /\ answer # None

\* A name is blocked if the lists block it or a name above it, and except none
\* at or below that one; of every list that was named, each line counts.
Lines(lists) == UNION {{s.lines[i] : i \in DOMAIN s.lines} :
                          s \in {lists.sources[j] : j \in DOMAIN lists.sources}}
Blocks(lists)  == Entries(lists.block \union UNION {BlocksOf(l) : l \in Lines(lists)})
Excepts(lists) == Entries(lists.allow \union UNION {AllowsOf(l) : l \in Lines(lists)})

BlockedAmong(lists, name) ==
    \E b \in Blocks(lists) :
        /\ IsSubDomain(b, name)
        /\ \A e \in Excepts(lists) : IsSubDomain(e, name) => Len(e) < Len(b)

BlockedByLists ==
    Answered /\ answer.from \in {"block", "pass"} =>
        (answer.from = "block" <=> BlockedAmong(listInput, Name))

\* Of the records found at a name: its alias, or those of the type asked for.
Answers(q, found) ==
    {[type |-> rr.type, data |-> rr.data] :
        rr \in {r \in found : IF \E alias \in found : alias.type = "CNAME" THEN r.type = "CNAME"
                              ELSE q.type \in {"ANY", r.type}}}

\* What a zone consists of.  The NS made for it is not told to those who ask for
\* NS, unless the apex has other records.
Content(z, q) ==
    LET top   == Normalize(z.name)
        given == Parsed(z.records)
        NSToo == /\ \A rr \in At(given, top) : rr.type # "NS"
                 /\ At(given, top) # {} \/ q.type = "ANY"
    IN
    given \union {[name |-> top, type |-> t, data |-> Own] : t \in {u \in {"SOA", "NS"} : u = "NS" => NSToo}}

\* A name exists where it or one below it has records.
Exists(content, name) == \E rr \in content : IsSubDomain(name, rr.name)

\* The closest name above that exists begins at this label.
Encloser(content, name, i) ==
    /\ Exists(content, From(name, i))
    /\ \A j \in 2..(i - 1) : ~Exists(content, From(name, j))

\* RFC 1034 and 4592: a name that exists answers with its records, others with
\* those of the wildcard at the closest name above that exists.
AnsweredByZone(z, q, a) ==
    LET name    == Normalize(q.name)
        content == Content(z, q)
        exists  == Exists(content, name)
        source  == IF exists THEN name
                   ELSE Wildcard(From(name, CHOOSE i \in 2..Len(name) : Encloser(content, name, i)))
        found   == At(content, source)
    IN
    IF q.class # "IN" THEN a.rcode = "notimp" /\ a.records = {}
    ELSE /\ a.records = Answers(q, found)
         /\ a.rcode = IF exists \/ found # {} THEN "success" ELSE "nxdomain"
         /\ a.soa <=> a.records = {}

\* A local record covers the name it has, or those below its wildcard.
Covers(owner, name) == owner = name \/ \E i \in 2..Len(name) : owner = Wildcard(From(name, i))

AnsweredLocally(records, q, a) ==
    LET name     == Normalize(q.name)
        covering == {rr \in Parsed(records) : Covers(rr.name, name)}
        found    == IF At(covering, name) # {} THEN At(covering, name)
                    ELSE {rr \in covering : \A other \in covering : Len(other.name) <= Len(rr.name)}
    IN
    /\ a.from = "local" <=> covering # {}
    /\ a.from = "local" => a.records = Answers(q, found)

AnsweredFrom(zones, records, q, a) ==
    LET top(i) == Normalize(zones[i].name)
        around == {i \in DOMAIN zones : IsSubDomain(top(i), Normalize(q.name))}
    IN
    /\ a.from = "zone" <=> around # {}
    /\ \A i \in around :
           (\A j \in around : Len(top(j)) <= Len(top(i))) => AnsweredByZone(zones[i], q, a)
    /\ around = {} => AnsweredLocally(records, q, a)

\* The innermost zone around a name answers for it, and nothing else does; where
\* there is none the local records do, an exact one before the closest wildcard.
AnsweredByClosest == Answered => AnsweredFrom(zoneInput, recordInput, question, answer)
================================================================================
