----------------------------- MODULE LookupsProofs -----------------------------
(***************************************************************************)
(* What Lookups answers, for any zones, records, lists and questions.      *)
(***************************************************************************)
EXTENDS Lookups, TLAPS, SequenceTheorems

--------------------------------------------------------------------------------
(* Names.                                                                      *)

LEMMA FromName ==
    ASSUME NEW name \in Names, NEW i \in 1..(Len(name) + 1)
    PROVE  /\ From(name, i) \in Names
           /\ Len(From(name, i)) = Len(name) - i + 1
           /\ \A j \in 1..Len(From(name, i)) : From(name, i)[j] = name[i + j - 1]
BY SubSeqProperties DEF From, Names

\* A name is its own end.
LEMMA FromFirst ==
    ASSUME NEW name \in Names
    PROVE  From(name, 1) = name
<1>1. /\ From(name, 1) \in Names
      /\ Len(From(name, 1)) = Len(name)
      /\ \A j \in 1..Len(name) : From(name, 1)[j] = name[j]
  BY FromName DEF Names
<1> QED
  BY <1>1 DEF Names

LEMMA WildcardName ==
    ASSUME NEW name \in Names
    PROVE  /\ Wildcard(name) \in Names
           /\ Len(Wildcard(name)) = Len(name) + 1
           /\ \A i \in 1..Len(name) : Wildcard(name)[i + 1] = name[i]
<1>1. <<Star>> \in Seq(Labels) /\ Len(<<Star>>) = 1
  BY ConstantsAssumption
<1> QED
  BY <1>1, ConcatProperties DEF Wildcard, Names

\* The names above a name are its ends.
LEMMA SubDomainIsEnd ==
    ASSUME NEW parent \in Names, NEW name \in Names, IsSubDomain(parent, name)
    PROVE  /\ Len(name) - Len(parent) + 1 \in 1..(Len(name) + 1)
           /\ parent = From(name, Len(name) - Len(parent) + 1)
BY DEF IsSubDomain, Names

LEMMA EndIsSubDomain ==
    ASSUME NEW name \in Names, NEW i \in 1..(Len(name) + 1)
    PROVE  IsSubDomain(From(name, i), name)
<1>1. Len(From(name, i)) = Len(name) - i + 1 /\ Len(name) \in Nat
  BY FromName DEF Names
<1>2. Len(name) - Len(From(name, i)) + 1 = i
  BY <1>1
<1> QED
  BY <1>1, <1>2 DEF IsSubDomain

LEMMA FromFrom ==
    ASSUME NEW name \in Names, NEW i \in 1..(Len(name) + 1), NEW k \in 1..(Len(name) - i + 2)
    PROVE  From(From(name, i), k) = From(name, i + k - 1)
<1> DEFINE n == From(name, i)
           m == From(name, i + k - 1)
<1>1. Len(name) \in Nat /\ i \in Nat /\ k \in Nat /\ i + k - 1 \in 1..(Len(name) + 1)
  BY DEF Names
<1>2. n \in Names /\ Len(n) = Len(name) - i + 1 /\ \A j \in 1..Len(n) : n[j] = name[i + j - 1]
  BY FromName
<1>3. k \in 1..(Len(n) + 1)
  BY <1>1, <1>2
<1>4. /\ From(n, k) \in Names /\ Len(From(n, k)) = Len(n) - k + 1
      /\ \A j \in 1..Len(From(n, k)) : From(n, k)[j] = n[k + j - 1]
  BY <1>2, <1>3, FromName
<1>5. /\ m \in Names /\ Len(m) = Len(name) - (i + k - 1) + 1
      /\ \A j \in 1..Len(m) : m[j] = name[(i + k - 1) + j - 1]
  BY <1>1, FromName
<1>6. Len(From(n, k)) = Len(m)
  BY <1>1, <1>2, <1>4, <1>5
<1>7. ASSUME NEW j \in 1..Len(m)
      PROVE  From(n, k)[j] = m[j]
  <2>1. k + j - 1 \in 1..Len(n) /\ i + (k + j - 1) - 1 = (i + k - 1) + j - 1
    BY <1>1, <1>2, <1>5
  <2>2. n[k + j - 1] = name[i + (k + j - 1) - 1]
    BY <1>2, <2>1
  <2> QED
    BY <1>4, <1>5, <1>6, <2>1, <2>2
<1> HIDE DEF n, m
<1>8. From(n, k) = m
  BY <1>4, <1>5, <1>6, <1>7 DEF Names
<1> QED
  BY <1>8 DEF n, m

\* What is above a name and below another one.
LEMMA EndAbove ==
    ASSUME NEW top \in Names, NEW name \in Names, IsSubDomain(top, name),
           NEW i \in 1..(Len(name) - Len(top) + 1)
    PROVE  /\ i \in 1..(Len(name) + 1)
           /\ IsSubDomain(top, From(name, i))
<1>1. Len(top) \in Nat /\ Len(name) \in Nat /\ Len(top) <= Len(name)
  BY DEF IsSubDomain, Names
<1>2. i \in 1..(Len(name) + 1)
  BY <1>1
<1> DEFINE n == From(name, i)
           k == Len(n) - Len(top) + 1
<1>3. Len(n) = Len(name) - i + 1
  BY <1>2, FromName
<1>4. Len(top) <= Len(n) /\ k \in 1..(Len(name) - i + 2) /\ i + k - 1 = Len(name) - Len(top) + 1
  BY <1>1, <1>3
<1>5. From(n, k) = From(name, i + k - 1)
  BY <1>2, <1>4, FromFrom
<1>6. From(n, k) = top
  BY <1>4, <1>5 DEF IsSubDomain
<1> QED
  BY <1>2, <1>4, <1>6 DEF IsSubDomain

\* Of the names above a name, one of each length.
LEMMA SubDomainUnique ==
    ASSUME NEW m, NEW n, NEW name,
           IsSubDomain(m, name), IsSubDomain(n, name), Len(m) = Len(n)
    PROVE  m = n
BY DEF IsSubDomain

--------------------------------------------------------------------------------
(* The stores.                                                                 *)

LEMMA ParsedTypes ==
    ASSUME NEW records \in SUBSET Record
    PROVE  Parsed(records) \in SUBSET RR
BY DEF Parsed, Record, RR, Normalize, Spelled

LEMMA ZoneTypes ==
    ASSUME NEW z \in Zone, AcceptableZone(z)
    PROVE  /\ Normalize(z.name) \in Names /\ Normalize(z.name) # <<>>
           /\ Parsed(z.records) \in SUBSET RR
           /\ BuildZone(z) \in [owners : SUBSET RR, existing : SUBSET Names, defaultNS : BOOLEAN]
<1> DEFINE top == Normalize(z.name)
           rrs == Parsed(z.records)
<1>1. top \in Names /\ top # <<>>
  BY DEF Zone, Spelled, Normalize, AcceptableZone
<1>2. rrs \in SUBSET RR
  BY ParsedTypes DEF Zone
<1>3. ASSUME NEW rr \in rrs
      PROVE  Upwards(rr.name, top) \in SUBSET Names
  <2>1. rr.name \in Names /\ IsSubDomain(top, rr.name)
    BY <1>2 DEF RR, AcceptableZone
  <2>2. \A i \in 1..(Len(rr.name) - Len(top) + 1) : i \in 1..(Len(rr.name) + 1)
    BY <1>1, <2>1, EndAbove
  <2>3. \A i \in 1..(Len(rr.name) - Len(top) + 1) : From(rr.name, i) \in Names
    BY <2>1, <2>2, FromName
  <2> QED
    BY <2>3 DEF Upwards
<1>4. Existing(rrs, top) \in SUBSET Names
  BY <1>1, <1>3 DEF Existing
<1>5. BuildZone(z) = [owners |-> rrs, existing |-> Existing(rrs, top),
                      defaultNS |-> \A rr \in At(rrs, top) : rr.type # "NS"]
  BY DEF BuildZone
<1> QED
  BY <1>1, <1>2, <1>4, <1>5

LEMMA SnapshotOf ==
    ASSUME NEW zones \in Seq(Zone), AcceptableZones(zones)
    PROVE  /\ DOMAIN BuildSnapshot(zones) = {Normalize(zones[i].name) : i \in DOMAIN zones}
           /\ DOMAIN BuildSnapshot(zones) \in SUBSET Names
           /\ \A i \in DOMAIN zones :
                  BuildSnapshot(zones)[Normalize(zones[i].name)] = BuildZone(zones[i])
           /\ \A i \in DOMAIN zones : zones[i] \in Zone /\ AcceptableZone(zones[i])
<1>1. \A i \in DOMAIN zones : zones[i] \in Zone /\ AcceptableZone(zones[i])
  BY DEF AcceptableZones
<1>2. \A i \in DOMAIN zones : Normalize(zones[i].name) \in Names
  BY <1>1, ZoneTypes
<1>3. DOMAIN BuildSnapshot(zones) = {Normalize(zones[i].name) : i \in DOMAIN zones}
  BY DEF BuildSnapshot
<1>4. ASSUME NEW i \in DOMAIN zones
      PROVE  BuildSnapshot(zones)[Normalize(zones[i].name)] = BuildZone(zones[i])
  <2> DEFINE top  == Normalize(zones[i].name)
             pick == CHOOSE j \in DOMAIN zones : Normalize(zones[j].name) = top
  <2>1. pick \in DOMAIN zones /\ Normalize(zones[pick].name) = top
    OBVIOUS
  <2>2. pick = i
    BY <2>1 DEF AcceptableZones
  <2>3. top \in {Normalize(zones[j].name) : j \in DOMAIN zones}
    OBVIOUS
  <2>4. BuildSnapshot(zones)[top] = BuildZone(zones[pick])
    BY <2>3 DEF BuildSnapshot
  <2> QED
    BY <2>2, <2>4
<1> QED
  BY <1>1, <1>2, <1>3, <1>4

LEMMA ListsOf ==
    ASSUME NEW lists \in Lists
    PROVE  /\ Blocks(lists) \in SUBSET (Names \ {<<>>})
           /\ Excepts(lists) \in SUBSET (Names \ {<<>>})
           /\ LoadedLists(lists) => LoadBlocked(lists) = Blocks(lists) /\ LoadAllowed(lists) = Excepts(lists)
<1>1. \A i \in DOMAIN lists.sources : lists.sources[i] \in Source
  BY DEF Lists
<1>2. \A l \in Lines(lists) : l \in Line
  BY <1>1 DEF Lines, Source
<1>3. \A l \in Line : BlocksOf(l) \in SUBSET Spelled /\ AllowsOf(l) \in SUBSET Spelled
  <2> SUFFICES ASSUME NEW l \in Line
               PROVE  BlocksOf(l) \in SUBSET Spelled /\ AllowsOf(l) \in SUBSET Spelled
    OBVIOUS
  <2>1. \A i \in DOMAIN l.words : l.words[i].name \in Spelled
    <3>1. l.words \in Seq(Word)
      BY DEF Line
    <3>2. \A i \in DOMAIN l.words : l.words[i] \in Word
      BY <3>1
    <3> QED
      BY <3>2 DEF Word
  <2>2. AdblockDomain(l.words) \in SUBSET Spelled /\ HostDomains(l.words) \in SUBSET Spelled
    BY <2>1 DEF AdblockDomain, HostDomains
  <2> QED
    BY <2>2 DEF BlocksOf, AllowsOf
<1>4. \A S \in SUBSET Spelled : Entries(S) \in SUBSET (Names \ {<<>>})
  BY DEF Entries, Spelled, Normalize
<1>5. lists.block \in SUBSET Spelled /\ lists.allow \in SUBSET Spelled
  BY DEF Lists
<1>6. /\ lists.block \union UNION {BlocksOf(l) : l \in Lines(lists)} \in SUBSET Spelled
      /\ lists.allow \union UNION {AllowsOf(l) : l \in Lines(lists)} \in SUBSET Spelled
  BY <1>2, <1>3, <1>5
<1>7. ASSUME LoadedLists(lists)
      PROVE  LinesOf(lists) = Lines(lists)
  <2>1. ASSUME NEW i \in DOMAIN lists.sources
        PROVE  ReadLines(lists.sources[i])
                   = {lists.sources[i].lines[j] : j \in DOMAIN lists.sources[i].lines}
    <3> DEFINE s == lists.sources[i]
    <3>1. s.lines \in Seq(Line) /\ Len(s.lines) <= MaxLines /\ MaxLines \in Nat
      BY <1>1, <1>7, ConstantsAssumption DEF LoadedLists, Loads, Source
    <3>2. DOMAIN s.lines = 1..Len(s.lines) /\ Len(s.lines) \in Nat
      BY <3>1
    <3>3. \A j \in DOMAIN s.lines : j <= MaxLines + 1
      BY <3>1, <3>2
    <3> HIDE DEF s
    <3>4. ReadLines(s) = {s.lines[j] : j \in DOMAIN s.lines}
      BY <3>3 DEF ReadLines
    <3> QED
      BY <3>4 DEF s
  <2> QED
    BY <2>1 DEF LinesOf, Lines
<1> QED
  BY <1>4, <1>6, <1>7 DEF Blocks, Excepts, LoadBlocked, LoadAllowed


--------------------------------------------------------------------------------
(* Zones, and what they consist of.                                            *)

\* The names that New marks are those that exist.
LEMMA ExistingExist ==
    ASSUME NEW z \in Zone, AcceptableZone(z), NEW q, NEW n \in Names,
           IsSubDomain(Normalize(z.name), n)
    PROVE  n \in BuildZone(z).existing <=> Exists(Content(z, q), n)
<1> DEFINE top   == Normalize(z.name)
           given == Parsed(z.records)
<1>1. /\ top \in Names /\ Len(top) \in Nat /\ Len(n) \in Nat
      /\ Len(top) <= Len(n)
      /\ \A rr \in given : rr.name \in Names /\ Len(rr.name) \in Nat /\ IsSubDomain(top, rr.name)
  <2>1. given \in SUBSET RR /\ top \in Names
    BY ZoneTypes
  <2>2. \A m \in Names : Len(m) \in Nat
    BY DEF Names
  <2>3. \A rr \in given : rr.name \in Names
    <3> HIDE DEF given
    <3> QED
      BY <2>1 DEF RR
  <2>4. \A rr \in given : IsSubDomain(top, rr.name)
    BY DEF AcceptableZone
  <2>5. Len(top) <= Len(n)
    BY DEF IsSubDomain
  <2> QED
    BY <2>1, <2>2, <2>3, <2>4, <2>5
<1>2. BuildZone(z).existing = Existing(given, top)
  BY DEF BuildZone
<1>3. /\ \A rr \in given : rr \in Content(z, q)
      /\ \A rr \in Content(z, q) : rr \in given \/ rr.name = top
      /\ \E rr \in Content(z, q) : rr.name = top
  <2>1. [name |-> top, type |-> "SOA", data |-> Own] \in Content(z, q)
    BY DEF Content
  <2> QED
    BY <2>1 DEF Content
<1>4. ASSUME n \in Existing(given, top)
      PROVE  Exists(Content(z, q), n)
  <2>1. CASE n = top
    <3>1. IsSubDomain(top, top)
      BY <1>1, FromFirst DEF IsSubDomain
    <3> QED
      BY <1>3, <2>1, <3>1 DEF Exists
  <2>2. CASE \E rr \in given : n \in Upwards(rr.name, top)
    <3>1. PICK rr \in given : n \in Upwards(rr.name, top)
      BY <2>2
    <3>2. PICK i \in 1..(Len(rr.name) - Len(top) + 1) : n = From(rr.name, i)
      BY <3>1 DEF Upwards
    <3>3. i \in 1..(Len(rr.name) + 1)
      BY <1>1, <3>2
    <3>4. IsSubDomain(n, rr.name)
      BY <1>1, <3>2, <3>3, EndIsSubDomain
    <3> QED
      BY <1>3, <3>4 DEF Exists
  <2> QED
    BY <1>4, <2>1, <2>2 DEF Existing
<1>5. ASSUME Exists(Content(z, q), n)
      PROVE  n \in Existing(given, top)
  <2>1. PICK rr \in Content(z, q) : IsSubDomain(n, rr.name)
    BY <1>5 DEF Exists
  <2>2. CASE rr \in given
    <3> DEFINE i == Len(rr.name) - Len(n) + 1
    <3>1. n = From(rr.name, i) /\ Len(n) <= Len(rr.name)
      BY <2>1 DEF IsSubDomain
    <3>2. i \in 1..(Len(rr.name) - Len(top) + 1)
      <4>1. Len(rr.name) \in Nat /\ Len(n) \in Nat /\ Len(top) \in Nat /\ Len(top) <= Len(n)
        BY <1>1, <2>2
      <4>2. \A a, b, c \in Nat : c <= b /\ b <= a => a - b + 1 \in 1..(a - c + 1)
        OBVIOUS
      <4> QED
        BY <3>1, <4>1, <4>2
    <3>3. n \in Upwards(rr.name, top)
      <4> HIDE DEF i
      <4> QED
        BY <3>1, <3>2 DEF Upwards, i
    <3> QED
      BY <2>2, <3>3 DEF Existing
  <2>3. CASE rr.name = top
    <3>1. Len(n) = Len(top) /\ n = From(top, 1)
      BY <1>1, <2>1, <2>3 DEF IsSubDomain
    <3> QED
      BY <1>1, <3>1, FromFirst DEF Existing
  <2> QED
    BY <1>3, <2>1, <2>2, <2>3
<1> QED
  BY <1>2, <1>4, <1>5

LEMMA ContentElsewhere ==
    ASSUME NEW z \in Zone, NEW q, NEW n, n # Normalize(z.name)
    PROVE  At(Content(z, q), n) = At(Parsed(z.records), n)
BY DEF At, Content

\* Where aliases stand alone, the records that match are those that answer.
LEMMA MatchingAnswers ==
    ASSUME NEW rrs, AliasAlone(rrs), NEW q, NEW n
    PROVE  Matching(q, At(rrs, n)) = Answers(q, At(rrs, n))
<1> DEFINE found == At(rrs, n)
<1>1. CASE \E alias \in found : alias.type = "CNAME"
  <2>1. PICK alias \in found : alias.type = "CNAME"
    BY <1>1
  <2>2. found = {alias}
    BY <2>1 DEF AliasAlone, At
  <2>3. \A r \in found : r.type = "CNAME"
    BY <2>1, <2>2
  <2>4. {r \in found : q.type \in {"ANY", r.type} \/ r.type = "CNAME"} = found
    BY <2>3
  <2>5. {r \in found : IF \E a \in found : a.type = "CNAME" THEN r.type = "CNAME"
                       ELSE q.type \in {"ANY", r.type}} = found
    BY <1>1, <2>3
  <2> QED
    BY <2>4, <2>5 DEF Matching, Answers
<1>2. CASE ~ \E alias \in found : alias.type = "CNAME"
  <2>1. {r \in found : q.type \in {"ANY", r.type} \/ r.type = "CNAME"}
            = {r \in found : IF \E a \in found : a.type = "CNAME" THEN r.type = "CNAME"
                             ELSE q.type \in {"ANY", r.type}}
    BY <1>2
  <2> QED
    BY <2>1 DEF Matching, Answers
<1> QED
  BY <1>1, <1>2

\* The records New makes, as zone.answer adds them.
OwnMatching(z, q) ==
    {Made(t) : t \in {u \in {"SOA", "NS"} :
        /\ u = "NS" => BuildZone(z).defaultNS
        /\ q.type \in {u, "ANY"}}}

LEMMA AnswersAtApex ==
    ASSUME NEW z \in Zone, AcceptableZone(z), NEW q \in Question
    PROVE  LET top   == Normalize(z.name)
               given == Parsed(z.records)
               found == At(Content(z, q), top)
           IN
           /\ q.type \in {"SOA", "ANY"} \/ At(given, top) # {} =>
                  Answers(q, found) = Matching(q, At(given, top)) \union OwnMatching(z, q)
           /\ ~ (q.type \in {"SOA", "ANY"}) /\ At(given, top) = {} => Answers(q, found) = {}
<1> DEFINE top   == Normalize(z.name)
           given == Parsed(z.records)
           atTop == At(given, top)
           found == At(Content(z, q), top)
           noNS  == \A rr \in atTop : rr.type # "NS"
           NSToo == noNS /\ (atTop # {} \/ q.type = "ANY")
           own   == {[name |-> top, type |-> t, data |-> Own] : t \in {u \in {"SOA", "NS"} : u = "NS" => NSToo}}
<1>1. found = atTop \union own
  BY DEF At, Content
<1>2. \A rr \in atTop : rr.type # "CNAME"
  BY DEF At, AcceptableZone
<1>3. \A rr \in found : rr.type # "CNAME"
  BY <1>1, <1>2
<1>4. BuildZone(z).defaultNS = noNS
  BY DEF BuildZone
<1> DEFINE pair(rr) == [type |-> rr.type, data |-> rr.data]
           right(r) == q.type \in {"ANY", r.type}
<1>5. Answers(q, found) = {pair(rr) : rr \in {r \in found : right(r)}}
  <2>1. {r \in found : IF \E alias \in found : alias.type = "CNAME" THEN r.type = "CNAME"
                       ELSE right(r)} = {r \in found : right(r)}
    BY <1>3
  <2> QED
    BY <2>1 DEF Answers
<1>6. Matching(q, atTop) = {pair(rr) : rr \in {r \in atTop : right(r)}}
  <2>1. {r \in atTop : right(r) \/ r.type = "CNAME"} = {r \in atTop : right(r)}
    BY <1>2
  <2> QED
    BY <2>1 DEF Matching
<1>7. Answers(q, found) = Matching(q, atTop) \union {pair(rr) : rr \in {r \in own : right(r)}}
  <2> HIDE DEF found, atTop, own, right, pair
  <2> QED
    BY <1>1, <1>5, <1>6
<1>8. {pair(rr) : rr \in {r \in own : right(r)}}
          = {Made(t) : t \in {u \in {"SOA", "NS"} : (u = "NS" => NSToo) /\ q.type \in {u, "ANY"}}}
  <2> DEFINE K      == {u \in {"SOA", "NS"} : u = "NS" => NSToo}
             rec(t) == [name |-> top, type |-> t, data |-> Own]
  <2>1. own = {rec(t) : t \in K}
    OBVIOUS
  <2>2. \A t : pair(rec(t)) = Made(t) /\ (right(rec(t)) <=> q.type \in {t, "ANY"})
    BY DEF Made
  <2>3. {u \in {"SOA", "NS"} : (u = "NS" => NSToo) /\ q.type \in {u, "ANY"}}
            = {u \in K : q.type \in {u, "ANY"}}
    <3> HIDE DEF NSToo
    <3> QED
      OBVIOUS
  <2> HIDE DEF K, rec, own, pair, right
  <2>4. {pair(rr) : rr \in {r \in own : right(r)}} = {pair(rec(t)) : t \in {u \in K : right(rec(u))}}
    BY <2>1
  <2> QED
    BY <2>2, <2>3, <2>4
<1>9. CASE q.type \in {"SOA", "ANY"} \/ atTop # {}
  <2>1. {u \in {"SOA", "NS"} : (u = "NS" => NSToo) /\ q.type \in {u, "ANY"}}
            = {u \in {"SOA", "NS"} : (u = "NS" => noNS) /\ q.type \in {u, "ANY"}}
    BY <1>9
  <2> QED
    BY <1>4, <1>7, <1>8, <1>9, <2>1 DEF OwnMatching
<1>10. CASE ~ (q.type \in {"SOA", "ANY"} \/ atTop # {})
  <2>1. {u \in {"SOA", "NS"} : (u = "NS" => NSToo) /\ q.type \in {u, "ANY"}} = {}
    BY <1>10
  <2>2. Matching(q, atTop) = {}
    BY <1>10 DEF Matching
  <2>3. Answers(q, found) = {}
    BY <1>7, <1>8, <2>1, <2>2
  <2> QED
    BY <1>10, <2>3
<1> QED
  BY <1>9, <1>10


--------------------------------------------------------------------------------
(* The invariant.  What the loops have passed is no answer.                    *)

Built ==
    IF pc \in {"start", "stopped"}
    THEN question = None /\ at = 1 /\ apex = None /\ answer = None
    ELSE /\ AcceptableRecords(recordInput) /\ AcceptableZones(zoneInput)
         /\ blocked = Blocks(listInput) /\ allowed = Excepts(listInput)
         /\ store = Parsed(recordInput)
         /\ snapshot = BuildSnapshot(zoneInput)

Innermost(top) ==
    /\ IsSubDomain(top, Name)
    /\ \A other \in DOMAIN snapshot : IsSubDomain(other, Name) => Len(other) <= Len(top)

PassedZones == pc = "zone" => \A i \in 1..(at - 1) : From(Name, i) \notin DOMAIN snapshot

PassedNodes ==
    /\ pc \in {"managed", "closest"} => Innermost(apex)
    /\ pc = "closest" =>
           /\ question.class = "IN"
           /\ Name \notin snapshot[apex].existing
           /\ \A i \in 2..at : From(Name, i) \notin snapshot[apex].existing

PassedRecords ==
    /\ pc \in {"record", "wildcard", "list"} => \A top \in DOMAIN snapshot : ~IsSubDomain(top, Name)
    /\ pc = "wildcard" =>
           /\ At(store, Name) = {}
           /\ \A i \in 2..at : At(store, Wildcard(From(Name, i))) = {}

PassedEntries ==
    pc = "list" =>
        /\ \A rr \in store : ~Covers(rr.name, Name)
        /\ \A i \in 1..(at - 1) : From(Name, i) \notin blocked \union allowed

Passed == PassedZones /\ PassedNodes /\ PassedRecords /\ PassedEntries

Inv == TypeOK /\ Built /\ Passed /\ BlockedByLists /\ AnsweredByClosest

Walking == {"zone", "managed", "closest", "record", "wildcard", "list"}

LEMMA InitInv == Init => Inv
<1> SUFFICES ASSUME Init
             PROVE  Inv
  OBVIOUS
<1>1. pc = "start" /\ question = None /\ answer = None /\ at = 1 /\ apex = None
      /\ DOMAIN snapshot = {} /\ store = {} /\ blocked = {} /\ allowed = {}
  BY DEF Init
<1>2. TypeOK
  BY <1>1 DEF Init, TypeOK
<1>3. Built /\ Passed
  BY <1>1 DEF Built, Passed, PassedZones, PassedNodes, PassedRecords, PassedEntries
<1>4. BlockedByLists /\ AnsweredByClosest
  BY <1>1 DEF BlockedByLists, AnsweredByClosest, Answered
<1> QED
  BY <1>2, <1>3, <1>4 DEF Inv

LEMMA StartInv ==
    ASSUME Inv, Start \/ StartFails
    PROVE  Inv'
<1>1. /\ zoneInput \in Seq(Zone) /\ recordInput \in SUBSET Record /\ listInput \in Lists
  BY InputsAssumption DEF Inv, TypeOK
<1>2. CASE Start
  <2>1. /\ LoadedLists(listInput) /\ AcceptableRecords(recordInput) /\ AcceptableZones(zoneInput)
        /\ blocked' = LoadBlocked(listInput) /\ allowed' = LoadAllowed(listInput)
        /\ store' = Parsed(recordInput) /\ snapshot' = BuildSnapshot(zoneInput)
        /\ pc = "start" /\ pc' = "idle"
        /\ UNCHANGED <<zoneInput, recordInput, listInput, question, at, apex, answer>>
    BY <1>2 DEF Start, inputs
  <2>2. blocked' = Blocks(listInput) /\ allowed' = Excepts(listInput)
        /\ blocked' \in SUBSET Names /\ allowed' \in SUBSET Names
    BY <1>1, <2>1, ListsOf
  <2>3. store' \in SUBSET RR
    BY <1>1, <2>1, ParsedTypes
  <2>4. DOMAIN snapshot' \in SUBSET Names
    BY <1>1, <2>1, SnapshotOf
  <2>5. ASSUME NEW top \in DOMAIN snapshot'
        PROVE  snapshot'[top] \in [owners : SUBSET RR, existing : SUBSET Names, defaultNS : BOOLEAN]
    <3>1. PICK i \in DOMAIN zoneInput : top = Normalize(zoneInput[i].name)
      BY <1>1, <2>1, SnapshotOf
    <3>2. snapshot'[top] = BuildZone(zoneInput[i]) /\ zoneInput[i] \in Zone /\ AcceptableZone(zoneInput[i])
      BY <1>1, <2>1, <3>1, SnapshotOf
    <3> QED
      BY <3>2, ZoneTypes
  <2>6. question = None /\ at = 1 /\ apex = None /\ answer = None
    BY <2>1 DEF Inv, Built
  <2>7. TypeOK'
    BY <2>1, <2>2, <2>3, <2>4, <2>5, <2>6 DEF Inv, TypeOK
  <2>8. Built'
    BY <2>1, <2>2 DEF Built
  <2>9. Passed' /\ BlockedByLists' /\ AnsweredByClosest'
    BY <2>1, <2>6 DEF Passed, PassedZones, PassedNodes, PassedRecords, PassedEntries,
                      BlockedByLists, AnsweredByClosest, Answered
  <2> QED
    BY <2>7, <2>8, <2>9 DEF Inv
<1>3. CASE StartFails
  <2>1. /\ pc = "start" /\ pc' = "stopped"
        /\ UNCHANGED <<zoneInput, recordInput, listInput, snapshot, store, blocked, allowed,
                       question, at, apex, answer>>
    BY <1>3 DEF StartFails, inputs, stores
  <2>2. question = None /\ at = 1 /\ apex = None /\ answer = None
    BY <2>1 DEF Inv, Built
  <2>3. TypeOK'
    BY <2>1, <2>2 DEF Inv, TypeOK
  <2>4. Built'
    BY <2>1, <2>2 DEF Built
  <2>5. Passed' /\ BlockedByLists' /\ AnsweredByClosest'
    BY <2>1 DEF Passed, PassedZones, PassedNodes, PassedRecords, PassedEntries,
                BlockedByLists, AnsweredByClosest, Answered
  <2> QED
    BY <2>3, <2>4, <2>5 DEF Inv
<1> QED
  BY <1>2, <1>3


\* A step of a walk.
LEMMA Moves ==
    ASSUME Inv, pc \in Walking, pc' \in Walking, question' = question, answer' = answer,
           UNCHANGED <<zoneInput, recordInput, listInput, snapshot, store, blocked, allowed>>,
           at' \in Nat \ {0}, at' = 1 \/ at' <= Len(Name),
           apex' \in DOMAIN snapshot \union {None}, pc' \in {"managed", "closest"} => apex' # None,
           Passed'
    PROVE  Inv'
<1>1. TypeOK /\ Built
  BY DEF Inv
<1>2. TypeOK'
  <2>1. Name' = Name
    BY DEF Name
  <2>2. question # None
    BY <1>1 DEF TypeOK, Walking
  <2> QED
    BY <1>1, <2>1, <2>2 DEF TypeOK, Walking
<1>3. Built'
  BY <1>1 DEF Built, Walking
<1>4. BlockedByLists' /\ AnsweredByClosest'
  BY DEF BlockedByLists, AnsweredByClosest, Answered, Walking
<1> QED
  BY <1>2, <1>3, <1>4 DEF Inv

\* The end of a walk.
LEMMA Replies ==
    ASSUME Inv, pc \in Walking, NEW a \in Answer, Reply(a),
           AnsweredFrom(zoneInput, recordInput, question, a),
           a.from \in {"block", "pass"} => (a.from = "block" <=> BlockedAmong(listInput, Name))
    PROVE  Inv'
<1>1. TypeOK /\ Built /\ question # None
  BY DEF Inv, TypeOK, Walking
<1>2. /\ answer' = a /\ pc' = "idle" /\ at' = 1 /\ apex' = None /\ question' = question
      /\ UNCHANGED <<zoneInput, recordInput, listInput, snapshot, store, blocked, allowed>>
  BY DEF Reply, inputs, stores
<1>3. Name' = Name
  BY <1>2 DEF Name
<1>4. TypeOK'
  BY <1>1, <1>2 DEF TypeOK
<1>5. Built'
  BY <1>1, <1>2 DEF Built, Walking
<1>6. Passed'
  BY <1>2 DEF Passed, PassedZones, PassedNodes, PassedRecords, PassedEntries
<1>7. BlockedByLists'
  BY <1>2, <1>3 DEF BlockedByLists
<1>8. AnsweredByClosest'
  BY <1>2 DEF AnsweredByClosest
<1> QED
  BY <1>4, <1>5, <1>6, <1>7, <1>8 DEF Inv

\* What is known on the way.
LEMMA Known ==
    ASSUME Inv, pc \in Walking
    PROVE  /\ zoneInput \in Seq(Zone) /\ recordInput \in SUBSET Record /\ listInput \in Lists
           /\ question \in Question /\ Name \in Names /\ Len(Name) \in Nat
           /\ at \in Nat \ {0} /\ (at = 1 \/ at <= Len(Name)) /\ at <= Len(Name) + 1
           /\ AcceptableRecords(recordInput) /\ AcceptableZones(zoneInput)
           /\ blocked = Blocks(listInput) /\ allowed = Excepts(listInput)
           /\ store = Parsed(recordInput) /\ store \in SUBSET RR
           /\ snapshot = BuildSnapshot(zoneInput)
           /\ DOMAIN snapshot \in SUBSET Names
<1>1. zoneInput \in Seq(Zone) /\ recordInput \in SUBSET Record /\ listInput \in Lists
  BY InputsAssumption DEF Inv, TypeOK
<1>2. question \in Question /\ at \in Nat \ {0} /\ (at = 1 \/ at <= Len(Name))
  BY InputsAssumption DEF Inv, TypeOK, Walking
<1>3. Name \in Names
  <2>1. question.name \in Spelled
    BY <1>2 DEF Question
  <2> QED
    BY <2>1 DEF Name, Normalize, Spelled
<1>4. Len(Name) \in Nat
  BY <1>3 DEF Names
<1>5. /\ AcceptableRecords(recordInput) /\ AcceptableZones(zoneInput)
      /\ blocked = Blocks(listInput) /\ allowed = Excepts(listInput)
      /\ store = Parsed(recordInput) /\ snapshot = BuildSnapshot(zoneInput)
  BY DEF Inv, Built, Walking
<1>6. store \in SUBSET RR /\ DOMAIN snapshot \in SUBSET Names
  BY DEF Inv, TypeOK
<1>7. at <= Len(Name) + 1
  BY <1>2, <1>4
<1> QED
  BY <1>1, <1>2, <1>3, <1>4, <1>5, <1>6, <1>7

LEMMA AskInv ==
    ASSUME Inv, NEW q \in Questions, Ask(q)
    PROVE  Inv'
<1>1. /\ pc = "idle" /\ question' = q /\ answer' = None /\ at' = 1 /\ pc' = "zone" /\ apex' = apex
      /\ UNCHANGED <<zoneInput, recordInput, listInput, snapshot, store, blocked, allowed>>
  BY DEF Ask, inputs, stores
<1>2. TypeOK'
  <2>1. question' \in Questions /\ question' # None
    BY <1>1, InputsAssumption
  <2> QED
    BY <1>1, <2>1 DEF Inv, TypeOK
<1>3. Built'
  BY <1>1 DEF Inv, Built
<1>4. Passed'
  BY <1>1 DEF Passed, PassedZones, PassedNodes, PassedRecords, PassedEntries
<1>5. BlockedByLists' /\ AnsweredByClosest'
  BY <1>1 DEF BlockedByLists, AnsweredByClosest, Answered
<1> QED
  BY <1>2, <1>3, <1>4, <1>5 DEF Inv

--------------------------------------------------------------------------------
(* The zone.                                                                   *)

\* A name above this one that the loop has not passed is no longer.
LEMMA Longest ==
    ASSUME NEW m \in Names, NEW name \in Names, IsSubDomain(m, name),
           NEW i \in 1..(Len(name) + 1),
           \A j \in 1..(i - 1) : m # From(name, j)
    PROVE  Len(m) <= Len(From(name, i))
<1> DEFINE k == Len(name) - Len(m) + 1
<1>1. k \in 1..(Len(name) + 1) /\ m = From(name, k)
  BY SubDomainIsEnd
<1>2. k >= i
  <2> HIDE DEF k
  <2> QED
    BY <1>1
<1>3. Len(From(name, i)) = Len(name) - i + 1 /\ Len(m) \in Nat /\ Len(name) \in Nat
  BY FromName DEF Names
<1> QED
  BY <1>2, <1>3

LEMMA FindZoneInv ==
    ASSUME Inv, FindZone \/ NextApex \/ NoZone
    PROVE  Inv'
<1>0. pc = "zone" /\ pc \in Walking
  BY DEF FindZone, NextApex, NoZone, Walking
<1>1. \A i \in 1..(at - 1) : From(Name, i) \notin DOMAIN snapshot
  BY <1>0 DEF Inv, Passed, PassedZones
<1>2. /\ Name \in Names /\ Len(Name) \in Nat /\ at \in Nat \ {0} /\ at <= Len(Name) + 1
      /\ DOMAIN snapshot \in SUBSET Names /\ apex \in DOMAIN snapshot \union {None}
  BY <1>0, Known DEF Inv, TypeOK
<1>3. at \in 1..(Len(Name) + 1)
  BY <1>2
<1>4. CASE FindZone
  <2>1. /\ Candidate \in DOMAIN snapshot /\ apex' = Candidate /\ pc' = "managed"
        /\ at' = at /\ question' = question /\ answer' = answer
        /\ UNCHANGED <<zoneInput, recordInput, listInput, snapshot, store, blocked, allowed>>
    BY <1>4 DEF FindZone, inputs, stores
  <2>2. Candidate = From(Name, at) /\ IsSubDomain(Candidate, Name)
    BY <1>2, <1>3, EndIsSubDomain DEF Candidate
  <2>3. ASSUME NEW other \in DOMAIN snapshot, IsSubDomain(other, Name)
        PROVE  Len(other) <= Len(Candidate)
    <3>1. other \in Names /\ \A j \in 1..(at - 1) : other # From(Name, j)
      BY <1>1, <1>2
    <3> QED
      BY <1>2, <1>3, <2>2, <2>3, <3>1, Longest
  <2>4. Innermost(Candidate)
    BY <2>2, <2>3 DEF Innermost
  <2>5. Innermost(apex)'
    BY <2>1, <2>4 DEF Innermost, Name
  <2>6. Passed'
    BY <2>1, <2>5 DEF Passed, PassedZones, PassedNodes, PassedRecords, PassedEntries
  <2>7. apex' # None
    BY <1>2, <2>1, InputsAssumption
  <2>8. at = 1 \/ at <= Len(Name)
    BY <1>0, Known
  <2> QED
    BY <1>0, <1>2, <2>1, <2>6, <2>7, <2>8, Moves DEF Walking
<1>5. CASE NextApex
  <2>1. /\ Candidate \notin DOMAIN snapshot /\ ~Last /\ at' = at + 1 /\ pc' = pc /\ apex' = apex
        /\ question' = question /\ answer' = answer
        /\ UNCHANGED <<zoneInput, recordInput, listInput, snapshot, store, blocked, allowed>>
    BY <1>5 DEF NextApex, Shorten, inputs, stores
  <2>2. at + 1 <= Len(Name) /\ at + 1 \in Nat \ {0}
    BY <1>2, <2>1 DEF Last
  <2>3. \A i \in 1..((at + 1) - 1) : From(Name, i) \notin DOMAIN snapshot
    BY <1>1, <1>2, <2>1 DEF Candidate
  <2>4. Passed'
    BY <1>0, <2>1, <2>3 DEF Passed, PassedZones, PassedNodes, PassedRecords, PassedEntries, Name
  <2> QED
    BY <1>0, <1>2, <2>1, <2>2, <2>4, Moves DEF Walking
<1>6. CASE NoZone
  <2>1. /\ Candidate \notin DOMAIN snapshot /\ Last /\ at' = 1 /\ pc' = "record" /\ apex' = apex
        /\ question' = question /\ answer' = answer
        /\ UNCHANGED <<zoneInput, recordInput, listInput, snapshot, store, blocked, allowed>>
    BY <1>6 DEF NoZone, Loop, inputs, stores
  <2>2. ASSUME NEW top \in DOMAIN snapshot, IsSubDomain(top, Name)
        PROVE  FALSE
    <3>1. top \in Names /\ top # <<>>
      <4>1. PICK i \in DOMAIN zoneInput : top = Normalize(zoneInput[i].name)
        BY <1>0, Known, SnapshotOf
      <4>2. zoneInput[i] \in Zone /\ AcceptableZone(zoneInput[i])
        BY <1>0, <4>1, Known, SnapshotOf
      <4> QED
        BY <4>1, <4>2, ZoneTypes
    <3>2. Len(top) \in Nat \ {0}
      BY <3>1 DEF Names
    <3> DEFINE k == Len(Name) - Len(top) + 1
    <3>3. top = From(Name, k) /\ k \in 1..Len(Name)
      BY <1>2, <2>2, <3>1, <3>2 DEF IsSubDomain
    <3>4. k <= at
      <4>1. at >= Len(Name)
        BY <2>1 DEF Last
      <4> HIDE DEF k
      <4> QED
        BY <1>2, <3>3, <4>1
    <3>5. k = at \/ k \in 1..(at - 1)
      <4> HIDE DEF k
      <4> QED
        BY <1>2, <3>3, <3>4
    <3> HIDE DEF k
    <3> QED
      BY <1>1, <2>1, <2>2, <3>3, <3>5 DEF Candidate
  <2>3. Passed'
    BY <2>1, <2>2 DEF Passed, PassedZones, PassedNodes, PassedRecords, PassedEntries, Name
  <2> QED
    BY <1>0, <1>2, <2>1, <2>3, Moves DEF Walking
<1> QED
  BY <1>4, <1>5, <1>6


LEMMA TheZone ==
    ASSUME Inv, pc \in {"managed", "closest"}
    PROVE  \E i \in DOMAIN zoneInput :
               /\ zoneInput[i] \in Zone /\ AcceptableZone(zoneInput[i])
               /\ Normalize(zoneInput[i].name) = apex
               /\ snapshot[apex] = BuildZone(zoneInput[i])
<1>1. apex \in DOMAIN snapshot
  BY DEF Inv, TypeOK
<1>2. /\ zoneInput \in Seq(Zone) /\ AcceptableZones(zoneInput) /\ snapshot = BuildSnapshot(zoneInput)
  BY Known DEF Walking
<1>3. PICK i \in DOMAIN zoneInput : apex = Normalize(zoneInput[i].name)
  BY <1>1, <1>2, SnapshotOf
<1> QED
  BY <1>2, <1>3, SnapshotOf

\* What the zone answers is the answer.
LEMMA ZoneReplies ==
    ASSUME Inv, pc \in {"managed", "closest"}, NEW a \in Answer, a.from = "zone", Reply(a),
           NEW i \in DOMAIN zoneInput, Normalize(zoneInput[i].name) = apex,
           AnsweredByZone(zoneInput[i], question, a)
    PROVE  Inv'
<1> DEFINE top(j) == Normalize(zoneInput[j].name)
           around == {j \in DOMAIN zoneInput : IsSubDomain(top(j), Normalize(question.name))}
<1>1. /\ zoneInput \in Seq(Zone) /\ AcceptableZones(zoneInput) /\ snapshot = BuildSnapshot(zoneInput)
      /\ DOMAIN snapshot \in SUBSET Names
  BY Known DEF Walking
<1>2. Innermost(apex)
  BY DEF Inv, Passed, PassedNodes
<1>3. i \in around
  BY <1>2 DEF Innermost, Name
<1>4. ASSUME NEW j \in around, \A k \in around : Len(top(k)) <= Len(top(j))
      PROVE  j = i
  <2>1. top(j) \in DOMAIN snapshot /\ apex \in DOMAIN snapshot
    BY <1>1, SnapshotOf
  <2>2. IsSubDomain(top(j), Name) /\ IsSubDomain(apex, Name)
    BY <1>2 DEF Innermost, Name
  <2>3. Len(top(j)) <= Len(apex) /\ Len(apex) <= Len(top(j))
    BY <1>2, <1>3, <1>4, <2>1, <2>2 DEF Innermost
  <2>4. Len(top(j)) \in Nat /\ Len(apex) \in Nat
    BY <1>1, <2>1 DEF Names
  <2>5. top(j) = apex
    BY <2>2, <2>3, <2>4, SubDomainUnique
  <2> QED
    BY <1>1, <2>5 DEF AcceptableZones
<1>5. AnsweredFrom(zoneInput, recordInput, question, a)
  BY <1>3, <1>4 DEF AnsweredFrom
<1> QED
  BY <1>5, Replies DEF Walking

LEMMA AnsweredHere ==
    ASSUME NEW z, NEW q, NEW a, q.class = "IN",
           Exists(Content(z, q), Normalize(q.name)),
           a.records = Answers(q, At(Content(z, q), Normalize(q.name))),
           a.rcode = "success", a.soa <=> a.records = {}
    PROVE  AnsweredByZone(z, q, a)
BY DEF AnsweredByZone

LEMMA AnsweredAbove ==
    ASSUME NEW z, NEW q, NEW a, q.class = "IN", NEW name, name = Normalize(q.name), Len(name) \in Nat,
           ~Exists(Content(z, q), name),
           NEW i \in 2..Len(name), Encloser(Content(z, q), name, i),
           a.records = Answers(q, At(Content(z, q), Wildcard(From(name, i)))),
           a.rcode = IF At(Content(z, q), Wildcard(From(name, i))) # {} THEN "success" ELSE "nxdomain",
           a.soa <=> a.records = {}
    PROVE  AnsweredByZone(z, q, a)
<1> DEFINE pick == CHOOSE j \in 2..Len(name) : Encloser(Content(z, q), name, j)
<1>1. pick \in 2..Len(name) /\ Encloser(Content(z, q), name, pick)
  OBVIOUS
<1>2. pick = i
  <2>1. ~ (pick < i)
    BY <1>1 DEF Encloser
  <2>2. ~ (i < pick)
    BY <1>1 DEF Encloser
  <2> HIDE DEF pick
  <2> QED
    BY <1>1, <2>1, <2>2
<1> QED
  BY <1>2 DEF AnsweredByZone

LEMMA ManagedType ==
    ASSUME NEW rcode \in {"success", "nxdomain", "notimp"},
           NEW records \in SUBSET [type : Types \union {"SOA"}, data : Data \union {Own}]
    PROVE  Managed(rcode, records) \in Answer /\ Managed(rcode, records).from = "zone"
           /\ Managed(rcode, records).rcode = rcode /\ Managed(rcode, records).records = records
           /\ (rcode # "notimp" => (Managed(rcode, records).soa <=> records = {}))
BY DEF Managed, Answer

LEMMA MatchingTypes ==
    ASSUME NEW rrs \in SUBSET RR, NEW q
    PROVE  Matching(q, rrs) \in SUBSET [type : Types \union {"SOA"}, data : Data \union {Own}]
BY DEF Matching, RR

LEMMA MadeTypes ==
    ASSUME NEW K \in SUBSET {"SOA", "NS"}
    PROVE  {Made(t) : t \in K} \in SUBSET [type : Types \union {"SOA"}, data : Data \union {Own}]
BY ConstantsAssumption DEF Made

\* The records of zone.answer: at the apex with those New makes.
LEMMA Replied ==
    ASSUME Inv, pc \in {"managed", "closest"}, NEW rrs \in SUBSET RR, ReplyRecords(rrs),
           NEW i \in DOMAIN zoneInput, Normalize(zoneInput[i].name) = apex,
           snapshot[apex] = BuildZone(zoneInput[i])
    PROVE  \E records \in SUBSET [type : Types \union {"SOA"}, data : Data \union {Own}] :
               /\ Reply(Managed("success", records))
               /\ Name = apex => records = Matching(question, rrs) \union OwnMatching(zoneInput[i], question)
               /\ Name # apex => records = Matching(question, rrs)
<1> DEFINE K   == {u \in {"SOA", "NS"} : /\ Name = apex
                                         /\ u = "NS" => snapshot[apex].defaultNS
                                         /\ question.type \in {u, "ANY"}}
           own == {Made(t) : t \in K}
           records == Matching(question, rrs) \union own
<1>1. Reply(Managed("success", records))
  BY DEF ReplyRecords
<1>2. records \in SUBSET [type : Types \union {"SOA"}, data : Data \union {Own}]
  <2>1. own \in SUBSET [type : Types \union {"SOA"}, data : Data \union {Own}]
    BY MadeTypes
  <2> HIDE DEF own
  <2> QED
    BY <2>1, MatchingTypes
<1>3. Name = apex => own = OwnMatching(zoneInput[i], question)
  BY DEF OwnMatching
<1>4. Name # apex => own = {}
  OBVIOUS
<1> HIDE DEF own
<1> QED
  BY <1>1, <1>2, <1>3, <1>4


LEMMA OtherClassInv ==
    ASSUME Inv, OtherClass
    PROVE  Inv'
<1>1. pc \in {"managed", "closest"} /\ question.class # "IN" /\ Reply(Managed("notimp", {}))
  BY DEF OtherClass
<1>2. PICK i \in DOMAIN zoneInput : Normalize(zoneInput[i].name) = apex
  BY <1>1, TheZone
<1> DEFINE a == Managed("notimp", {})
<1>3. a \in Answer /\ a.from = "zone" /\ a.rcode = "notimp" /\ a.records = {}
  BY ManagedType
<1>4. AnsweredByZone(zoneInput[i], question, a)
  BY <1>1, <1>3 DEF AnsweredByZone
<1> HIDE DEF a
<1> QED
  BY <1>1, <1>2, <1>3, <1>4, ZoneReplies DEF a

\* Where there are records, or the apex.
LEMMA ExistsHere ==
    ASSUME NEW z \in Zone, AcceptableZone(z), NEW q, NEW n \in Names,
           n = Normalize(z.name) \/ At(Parsed(z.records), n) # {}
    PROVE  Exists(Content(z, q), n)
<1>1. IsSubDomain(n, n)
  <2>1. Len(n) \in Nat
    BY DEF Names
  <2> QED
    BY <2>1, FromFirst DEF IsSubDomain
<1>2. CASE n = Normalize(z.name)
  <2>1. [name |-> n, type |-> "SOA", data |-> Own] \in Content(z, q)
    BY <1>2 DEF Content
  <2> QED
    BY <1>1, <2>1 DEF Exists
<1>3. CASE At(Parsed(z.records), n) # {}
  <2>1. PICK rr \in Parsed(z.records) : rr.name = n
    BY <1>3 DEF At
  <2>2. rr \in Content(z, q)
    BY DEF Content
  <2> QED
    BY <1>1, <2>1, <2>2 DEF Exists
<1> QED
  BY <1>2, <1>3

LEMMA AtNameInv ==
    ASSUME Inv, AtName
    PROVE  Inv'
<1> DEFINE owned == At(snapshot[apex].owners, Name)
<1>1. /\ pc \in {"managed", "closest"} /\ pc \in Walking /\ question.class = "IN"
      /\ (Name = apex /\ question.type \in {"SOA", "ANY"}) \/ owned # {}
      /\ ReplyRecords(owned)
  BY DEF AtName, Walking
<1>2. PICK i \in DOMAIN zoneInput :
          /\ zoneInput[i] \in Zone /\ AcceptableZone(zoneInput[i])
          /\ Normalize(zoneInput[i].name) = apex
          /\ snapshot[apex] = BuildZone(zoneInput[i])
  BY <1>1, TheZone
<1> DEFINE z == zoneInput[i]
           rrs == Parsed(z.records)
<1>3. snapshot[apex].owners = rrs /\ rrs \in SUBSET RR /\ AliasAlone(rrs)
  BY <1>2, ZoneTypes DEF BuildZone, AcceptableZone
<1>4. owned = At(rrs, Name) /\ owned \in SUBSET RR
  BY <1>3 DEF At
<1>5. question \in Question /\ Name \in Names /\ Normalize(question.name) = Name
  BY <1>1, Known DEF Name
<1>6. PICK records \in SUBSET [type : Types \union {"SOA"}, data : Data \union {Own}] :
          /\ Reply(Managed("success", records))
          /\ Name = apex => records = Matching(question, owned) \union OwnMatching(z, question)
          /\ Name # apex => records = Matching(question, owned)
  <2> HIDE DEF owned
  <2> QED
    BY <1>1, <1>2, <1>4, Replied
<1>7. records = Answers(question, At(Content(z, question), Name))
  <2>1. CASE Name = apex
    <3>1. question.type \in {"SOA", "ANY"} \/ At(rrs, Name) # {}
      BY <1>1, <1>4
    <3>2. Answers(question, At(Content(z, question), Name))
              = Matching(question, At(rrs, Name)) \union OwnMatching(z, question)
      BY <1>2, <1>5, <2>1, <3>1, AnswersAtApex
    <3> QED
      BY <1>4, <1>6, <2>1, <3>2
  <2>2. CASE Name # apex
    <3>1. At(Content(z, question), Name) = At(rrs, Name)
      BY <1>2, <2>2, ContentElsewhere
    <3>2. Matching(question, At(rrs, Name)) = Answers(question, At(rrs, Name))
      BY <1>3, MatchingAnswers
    <3> QED
      BY <1>4, <1>6, <2>2, <3>1, <3>2
  <2> QED
    BY <2>1, <2>2
<1>8. Exists(Content(z, question), Name)
  BY <1>1, <1>2, <1>4, <1>5, ExistsHere
<1> DEFINE a == Managed("success", records)
<1>9. a \in Answer /\ a.from = "zone" /\ a.rcode = "success" /\ a.records = records
      /\ (a.soa <=> records = {})
  BY ManagedType
<1>10. AnsweredByZone(z, question, a)
  <2> HIDE DEF a, z
  <2> QED
    BY <1>1, <1>5, <1>7, <1>8, <1>9, AnsweredHere
<1> HIDE DEF a
<1> QED
  BY <1>1, <1>2, <1>6, <1>9, <1>10, ZoneReplies DEF a

LEMMA AtEmptyNodeInv ==
    ASSUME Inv, AtEmptyNode
    PROVE  Inv'
<1>1. /\ pc = "managed" /\ pc \in {"managed", "closest"} /\ pc \in Walking /\ question.class = "IN"
      /\ ~ (Name = apex /\ question.type \in {"SOA", "ANY"})
      /\ At(snapshot[apex].owners, Name) = {}
  BY DEF AtEmptyNode, Walking
<1>2. PICK i \in DOMAIN zoneInput :
          /\ zoneInput[i] \in Zone /\ AcceptableZone(zoneInput[i])
          /\ Normalize(zoneInput[i].name) = apex
          /\ snapshot[apex] = BuildZone(zoneInput[i])
  BY <1>1, TheZone
<1> DEFINE z == zoneInput[i]
           rrs == Parsed(z.records)
<1>3. snapshot[apex].owners = rrs /\ At(rrs, Name) = {}
  BY <1>1, <1>2 DEF BuildZone
<1>4. question \in Question /\ Name \in Names /\ Normalize(question.name) = Name
  BY <1>1, Known DEF Name
<1>5. Innermost(apex)
  BY <1>1 DEF Inv, Passed, PassedNodes
<1>6. CASE Name \in snapshot[apex].existing
  <2> DEFINE a == Managed("success", {})
  <2>1. Reply(a)
    BY <1>6 DEF AtEmptyNode
  <2>2. a \in Answer /\ a.from = "zone" /\ a.rcode = "success" /\ a.records = {} /\ (a.soa <=> a.records = {})
    BY ManagedType
  <2>3. Exists(Content(z, question), Name)
    <3>1. IsSubDomain(apex, Name)
      BY <1>5 DEF Innermost
    <3> QED
      BY <1>2, <1>4, <1>6, <3>1, ExistingExist
  <2>4. Answers(question, At(Content(z, question), Name)) = {}
    <3>1. CASE Name = apex
      BY <1>1, <1>2, <1>3, <1>4, <3>1, AnswersAtApex
    <3>2. CASE Name # apex
      <4>1. At(Content(z, question), Name) = {}
        BY <1>2, <1>3, <3>2, ContentElsewhere
      <4> QED
        BY <4>1 DEF Answers
    <3> QED
      BY <3>1, <3>2
  <2>5. AnsweredByZone(z, question, a)
    <3> HIDE DEF a, z
    <3> QED
      BY <1>1, <1>4, <2>2, <2>3, <2>4, AnsweredHere
  <2> HIDE DEF a
  <2> QED
    BY <1>1, <1>2, <2>1, <2>2, <2>5, ZoneReplies
<1>7. CASE Name \notin snapshot[apex].existing
  <2>1. /\ pc' = "closest" /\ at' = 1 /\ question' = question /\ answer' = answer /\ apex' = apex
        /\ UNCHANGED <<zoneInput, recordInput, listInput, snapshot, store, blocked, allowed>>
    BY <1>7 DEF AtEmptyNode, Loop, inputs, stores
  <2>2. Innermost(apex)'
    BY <1>5, <2>1 DEF Innermost, Name
  <2>3. Passed'
    <3>1. PassedNodes'
      BY <1>1, <1>7, <2>1, <2>2 DEF PassedNodes, Name
    <3> QED
      BY <2>1, <3>1 DEF Passed, PassedZones, PassedRecords, PassedEntries
  <2>4. apex' \in DOMAIN snapshot \union {None} /\ apex' # None
    BY <1>1, <2>1 DEF Inv, TypeOK
  <2> QED
    BY <1>1, <2>1, <2>3, <2>4, Moves DEF Walking
<1> QED
  BY <1>6, <1>7

LEMMA ClosestEncloserInv ==
    ASSUME Inv, ClosestEncloser
    PROVE  Inv'
<1> DEFINE closest == From(Name, at + 1)
           owned   == At(snapshot[apex].owners, Wildcard(closest))
<1>1. /\ pc = "closest" /\ pc \in {"managed", "closest"} /\ pc \in Walking
  BY DEF ClosestEncloser, Walking
<1>2. PICK i \in DOMAIN zoneInput :
          /\ zoneInput[i] \in Zone /\ AcceptableZone(zoneInput[i])
          /\ Normalize(zoneInput[i].name) = apex
          /\ snapshot[apex] = BuildZone(zoneInput[i])
  BY <1>1, TheZone
<1> DEFINE z == zoneInput[i]
           rrs == Parsed(z.records)
           content == Content(z, question)
<1>3. snapshot[apex].owners = rrs /\ rrs \in SUBSET RR /\ AliasAlone(rrs) /\ apex \in Names
  BY <1>2, ZoneTypes DEF BuildZone, AcceptableZone
<1>4. question \in Question /\ Name \in Names /\ Normalize(question.name) = Name /\ Len(Name) \in Nat
      /\ at \in Nat \ {0}
  BY <1>1, Known DEF Name
<1>5. /\ IsSubDomain(apex, Name) /\ question.class = "IN"
      /\ Name \notin snapshot[apex].existing
      /\ \A j \in 2..at : From(Name, j) \notin snapshot[apex].existing
      /\ Innermost(apex)
  BY <1>1 DEF Inv, Passed, PassedNodes, Innermost
\* The apex is still to come.
<1> DEFINE k == Len(Name) - Len(apex) + 1
<1>6. apex = From(Name, k) /\ k \in 1..(Len(Name) + 1) /\ apex \in snapshot[apex].existing /\ k \in 1..Len(Name)
  <2>1. apex \in snapshot[apex].existing
    BY <1>2 DEF BuildZone, Existing
  <2>2. apex # <<>>
    BY <1>2, ZoneTypes
  <2>3. Len(apex) \in Nat \ {0}
    BY <1>3, <2>2 DEF Names
  <2>4. apex = From(Name, k) /\ k \in 1..(Len(Name) + 1)
    BY <1>3, <1>4, <1>5, SubDomainIsEnd
  <2> QED
    BY <1>4, <2>1, <2>3, <2>4
<1>7. at + 1 <= k /\ at + 1 \in 2..Len(Name) /\ k \in Nat
  <2>1. k # 1
    BY <1>4, <1>5, <1>6, FromFirst
  <2>2. k \notin 2..at
    BY <1>5, <1>6
  <2> HIDE DEF k
  <2> QED
    BY <1>4, <1>6, <2>1, <2>2
<1>8. \A j \in 2..(at + 1) : /\ From(Name, j) \in Names
                             /\ IsSubDomain(apex, From(Name, j))
  <2> SUFFICES ASSUME NEW j \in 2..(at + 1)
               PROVE  From(Name, j) \in Names /\ IsSubDomain(apex, From(Name, j))
    OBVIOUS
  <2>1. j \in 1..k
    <3> HIDE DEF k
    <3> QED
      BY <1>4, <1>7
  <2>2. j \in 1..(Len(Name) + 1) /\ IsSubDomain(apex, From(Name, j))
    BY <1>3, <1>4, <1>5, <2>1, EndAbove
  <2> QED
    BY <1>4, <2>2, FromName
<1>9. \A j \in 2..(at + 1) : From(Name, j) \in snapshot[apex].existing <=> Exists(content, From(Name, j))
  BY <1>2, <1>8, ExistingExist
<1>10. ~Exists(content, Name)
  BY <1>2, <1>4, <1>5, ExistingExist
<1>11. at + 1 \in 2..(at + 1)
  BY <1>4
<1>12. CASE closest \notin snapshot[apex].existing
  <2>1. /\ at' = at + 1 /\ pc' = pc /\ question' = question /\ answer' = answer /\ apex' = apex
        /\ UNCHANGED <<zoneInput, recordInput, listInput, snapshot, store, blocked, allowed>>
    BY <1>12 DEF ClosestEncloser, Shorten, inputs, stores
  <2>2. \A j \in 2..(at + 1) : From(Name, j) \notin snapshot[apex].existing
    BY <1>4, <1>5, <1>12
  <2>3. PassedNodes'
    BY <1>1, <1>5, <2>1, <2>2 DEF PassedNodes, Name, Innermost
  <2>4. Passed'
    BY <1>1, <2>1, <2>3 DEF Passed, PassedZones, PassedRecords, PassedEntries
  <2>5. apex' \in DOMAIN snapshot \union {None} /\ apex' # None
    BY <1>1, <2>1 DEF Inv, TypeOK
  <2>6. at' \in Nat \ {0} /\ at' <= Len(Name)
    BY <1>4, <1>7, <2>1
  <2> QED
    BY <1>1, <2>1, <2>4, <2>5, <2>6, Moves DEF Walking
<1>13. CASE closest \in snapshot[apex].existing
  <2>1. Encloser(content, Name, at + 1)
    <3>1. \A j \in 2..((at + 1) - 1) : j \in 2..at /\ j \in 2..(at + 1)
      BY <1>4
    <3> QED
      BY <1>5, <1>9, <1>11, <1>13, <3>1 DEF Encloser
  <2>2. /\ closest \in Names /\ IsSubDomain(apex, closest)
    BY <1>8, <1>11
  <2>3. Wildcard(closest) # apex
    <3>1. Len(Wildcard(closest)) = Len(closest) + 1 /\ Len(closest) \in Nat /\ Len(apex) <= Len(closest)
      BY <2>2, WildcardName DEF Names, IsSubDomain
    <3>2. Len(apex) \in Nat
      BY <1>3 DEF Names
    <3> HIDE DEF closest
    <3> QED
      BY <3>1, <3>2
  <2>4. At(content, Wildcard(closest)) = owned
    BY <1>2, <1>3, <2>3, ContentElsewhere
  <2>5. Name # apex
    BY <1>5, <1>6
  <2>6. owned = At(rrs, Wildcard(closest)) /\ owned \in SUBSET RR
    BY <1>3 DEF At
  <2>7. Matching(question, owned) = Answers(question, owned)
    BY <1>3, <2>6, MatchingAnswers
  <2>8. CASE owned # {}
    <3>1. ReplyRecords(owned)
      BY <1>13, <2>8 DEF ClosestEncloser
    <3>2. PICK records \in SUBSET [type : Types \union {"SOA"}, data : Data \union {Own}] :
              /\ Reply(Managed("success", records))
              /\ records = Matching(question, owned)
      <4> HIDE DEF owned
      <4> QED
        BY <1>1, <1>2, <2>5, <2>6, <3>1, Replied
    <3> DEFINE a == Managed("success", records)
    <3>3. a \in Answer /\ a.from = "zone" /\ a.rcode = "success" /\ a.records = records
          /\ (a.soa <=> records = {})
      BY ManagedType
    <3>4. AnsweredByZone(z, question, a)
      <4> HIDE DEF a, z, owned, content
      <4> QED
        BY <1>4, <1>5, <1>7, <1>10, <2>1, <2>4, <2>7, <2>8, <3>2, <3>3, AnsweredAbove DEF content
    <3> HIDE DEF a
    <3> QED
      BY <1>1, <1>2, <3>2, <3>3, <3>4, ZoneReplies DEF a
  <2>9. CASE owned = {}
    <3> DEFINE a == Managed("nxdomain", {})
    <3>1. Reply(a)
      BY <1>13, <2>9 DEF ClosestEncloser
    <3>2. a \in Answer /\ a.from = "zone" /\ a.rcode = "nxdomain" /\ a.records = {}
          /\ (a.soa <=> a.records = {})
      BY ManagedType
    <3>3. Answers(question, owned) = {}
      BY <2>9 DEF Answers
    <3>4. AnsweredByZone(z, question, a)
      <4> HIDE DEF a, z, owned, content
      <4> QED
        BY <1>4, <1>5, <1>7, <1>10, <2>1, <2>4, <2>9, <3>2, <3>3, AnsweredAbove DEF content
    <3> HIDE DEF a
    <3> QED
      BY <1>1, <1>2, <3>1, <3>2, <3>4, ZoneReplies
  <2> QED
    BY <2>8, <2>9
<1> QED
  BY <1>12, <1>13


--------------------------------------------------------------------------------
(* Local records.                                                              *)

\* Where no zone is around the name, the local records answer, or none does.
LEMMA NoZoneAround ==
    ASSUME Inv, pc \in {"record", "wildcard", "list"}, NEW a, a.from # "zone",
           AnsweredLocally(recordInput, question, a)
    PROVE  AnsweredFrom(zoneInput, recordInput, question, a)
<1>1. zoneInput \in Seq(Zone) /\ AcceptableZones(zoneInput) /\ snapshot = BuildSnapshot(zoneInput)
  BY Known DEF Walking
<1>2. \A top \in DOMAIN snapshot : ~IsSubDomain(top, Name)
  BY DEF Inv, Passed, PassedRecords
<1>3. \A i \in DOMAIN zoneInput : ~IsSubDomain(Normalize(zoneInput[i].name), Normalize(question.name))
  BY <1>1, <1>2, SnapshotOf DEF Name
<1> QED
  BY <1>3 DEF AnsweredFrom

LEMMA LocalReplies ==
    ASSUME Inv, pc \in {"record", "wildcard"}, NEW rrs \in SUBSET RR, ReplyLocal(rrs),
           AnsweredLocally(recordInput, question,
               [from |-> "local", rcode |-> "success", records |-> Matching(question, rrs), soa |-> FALSE])
    PROVE  Inv'
<1> DEFINE a == [from |-> "local", rcode |-> "success", records |-> Matching(question, rrs), soa |-> FALSE]
<1>1. Reply(a)
  BY DEF ReplyLocal
<1>2. a.from = "local"
  OBVIOUS
<1>3. a \in Answer
  BY MatchingTypes DEF Answer
<1>4. AnsweredFrom(zoneInput, recordInput, question, a)
  <2> HIDE DEF a
  <2> QED
    BY <1>2, NoZoneAround DEF a
<1> HIDE DEF a
<1> QED
  BY <1>1, <1>2, <1>3, <1>4, Replies DEF Walking

LEMMA ExactRecordInv ==
    ASSUME Inv, ExactRecord
    PROVE  Inv'
<1>1. pc = "record" /\ pc \in {"record", "wildcard"} /\ pc \in Walking
  BY DEF ExactRecord, Walking
<1>2. /\ store = Parsed(recordInput) /\ store \in SUBSET RR /\ AliasAlone(store)
      /\ Name \in Names /\ Normalize(question.name) = Name /\ Len(Name) \in Nat
  BY <1>1, Known DEF Name, AcceptableRecords
<1>3. CASE At(store, Name) # {}
  <2> DEFINE a == [from |-> "local", rcode |-> "success",
                   records |-> Matching(question, At(store, Name)), soa |-> FALSE]
             covering == {rr \in Parsed(recordInput) : Covers(rr.name, Name)}
  <2>1. At(covering, Name) = At(store, Name)
    BY <1>2 DEF At, Covers
  <2>2. covering # {}
    BY <1>3, <2>1 DEF At
  <2>3. a.records = Answers(question, At(covering, Name))
    BY <1>2, <2>1, MatchingAnswers
  <2>4. AnsweredLocally(recordInput, question, a)
    BY <1>2, <1>3, <2>1, <2>2, <2>3 DEF AnsweredLocally
  <2>5. At(store, Name) \in SUBSET RR
    BY <1>2 DEF At
  <2>6. ReplyLocal(At(store, Name))
    BY <1>3 DEF ExactRecord
  <2> QED
    BY <1>1, <2>4, <2>5, <2>6, LocalReplies
<1>4. CASE At(store, Name) = {}
  <2>1. /\ pc' = "wildcard" /\ at' = 1 /\ question' = question /\ answer' = answer /\ apex' = apex
        /\ UNCHANGED <<zoneInput, recordInput, listInput, snapshot, store, blocked, allowed>>
    BY <1>4 DEF ExactRecord, Loop, inputs, stores
  <2>2. PassedRecords'
    BY <1>1, <1>4, <2>1 DEF PassedRecords, Name, Inv, Passed
  <2>3. Passed'
    BY <2>1, <2>2 DEF Passed, PassedZones, PassedNodes, PassedEntries
  <2>4. apex' \in DOMAIN snapshot \union {None}
    BY <2>1 DEF Inv, TypeOK
  <2> QED
    BY <1>1, <2>1, <2>3, <2>4, Moves DEF Walking
<1> QED
  BY <1>3, <1>4

LEMMA WildcardInv ==
    ASSUME Inv, NextWildcard \/ NoRecord
    PROVE  Inv'
<1>1. pc = "wildcard" /\ pc \in {"record", "wildcard"} /\ pc \in Walking
  BY DEF NextWildcard, NoRecord, Walking
<1>2. /\ store = Parsed(recordInput) /\ store \in SUBSET RR /\ AliasAlone(store)
      /\ Name \in Names /\ Normalize(question.name) = Name /\ Len(Name) \in Nat /\ at \in Nat \ {0}
  BY <1>1, Known DEF Name, AcceptableRecords
<1>3. /\ At(store, Name) = {}
      /\ \A i \in 2..at : At(store, Wildcard(From(Name, i))) = {}
  BY <1>1 DEF Inv, Passed, PassedRecords
<1>4. apex \in DOMAIN snapshot \union {None}
  BY DEF Inv, TypeOK
<1>5. CASE NextWildcard
  <2> DEFINE rrs == At(store, Wildcard(From(Name, at + 1)))
  <2>1. at + 1 <= Len(Name) /\ at + 1 \in 2..Len(Name)
    BY <1>2, <1>5 DEF NextWildcard, Last
  <2>2. CASE rrs # {}
    <3> DEFINE a == [from |-> "local", rcode |-> "success", records |-> Matching(question, rrs), soa |-> FALSE]
               covering == {rr \in Parsed(recordInput) : Covers(rr.name, Name)}
               longest  == {rr \in covering : \A other \in covering : Len(other.name) <= Len(rr.name)}
    <3>1. At(covering, Name) = {}
      BY <1>2, <1>3 DEF At
    <3>2. \A rr \in rrs : rr \in covering /\ rr.name = Wildcard(From(Name, at + 1))
      BY <1>2, <2>1 DEF At, Covers
    <3>3. \A i \in 2..Len(Name) : Len(Wildcard(From(Name, i))) = Len(Name) - i + 2
      <4> SUFFICES ASSUME NEW i \in 2..Len(Name)
                   PROVE  Len(Wildcard(From(Name, i))) = Len(Name) - i + 2
        OBVIOUS
      <4>1. i \in 1..(Len(Name) + 1)
        BY <1>2
      <4>2. From(Name, i) \in Names /\ Len(From(Name, i)) = Len(Name) - i + 1
        BY <1>2, <4>1, FromName
      <4>3. Len(Wildcard(From(Name, i))) = Len(From(Name, i)) + 1
        BY <4>2, WildcardName
      <4> QED
        BY <1>2, <4>2, <4>3
    <3>4. ASSUME NEW rr \in covering
          PROVE  \E i \in (at + 1)..Len(Name) : rr.name = Wildcard(From(Name, i))
      <4>1. rr \in store /\ rr.name # Name
        BY <1>2, <1>3 DEF At
      <4>2. PICK i \in 2..Len(Name) : rr.name = Wildcard(From(Name, i))
        BY <4>1 DEF Covers
      <4>3. i \notin 2..at
        BY <1>3, <4>1, <4>2 DEF At
      <4>4. i \in (at + 1)..Len(Name)
        BY <1>2, <4>3
      <4> QED
        BY <4>2, <4>4
    <3>5. ASSUME NEW rr \in covering
          PROVE  Len(rr.name) <= Len(Wildcard(From(Name, at + 1)))
      <4>1. PICK i \in (at + 1)..Len(Name) : rr.name = Wildcard(From(Name, i))
        BY <3>4
      <4>2. i \in 2..Len(Name)
        BY <1>2
      <4> QED
        BY <1>2, <2>1, <3>3, <4>1, <4>2
    <3>6. rrs \in SUBSET longest
      BY <3>2, <3>5
    <3>7. ASSUME NEW rr \in longest
          PROVE  rr \in rrs
      <4>1. PICK i \in (at + 1)..Len(Name) : rr.name = Wildcard(From(Name, i))
        BY <3>4
      <4>2. i \in 2..Len(Name)
        BY <1>2
      <4>3. PICK other \in rrs : TRUE
        BY <2>2
      <4>4. Len(Wildcard(From(Name, at + 1))) <= Len(rr.name)
        BY <3>2, <3>7, <4>3
      <4>5. i = at + 1
        BY <1>2, <2>1, <3>3, <4>1, <4>2, <4>4
      <4> QED
        BY <1>2, <4>1, <4>5 DEF At
    <3>8. longest = rrs
      BY <3>6, <3>7
    <3>9. a.records = Answers(question, rrs)
      BY <1>2, MatchingAnswers
    <3>10. covering # {}
      BY <2>2, <3>2
    <3>11. AnsweredLocally(recordInput, question, a)
      <4>1. a.from = "local"
        OBVIOUS
      <4> HIDE DEF rrs, a
      <4> QED
        BY <1>2, <3>1, <3>8, <3>9, <3>10, <4>1 DEF AnsweredLocally
    <3>12. rrs \in SUBSET RR
      BY <1>2 DEF At
    <3>13. ReplyLocal(rrs)
      BY <1>5, <2>2 DEF NextWildcard
    <3> HIDE DEF rrs
    <3> QED
      BY <1>1, <3>11, <3>12, <3>13, LocalReplies
  <2>3. CASE rrs = {}
    <3>1. /\ at' = at + 1 /\ pc' = pc /\ question' = question /\ answer' = answer /\ apex' = apex
          /\ UNCHANGED <<zoneInput, recordInput, listInput, snapshot, store, blocked, allowed>>
      BY <1>5, <2>3 DEF NextWildcard, Shorten, inputs, stores
    <3>2. \A i \in 2..(at + 1) : At(store, Wildcard(From(Name, i))) = {}
      BY <1>2, <1>3, <2>3
    <3>3. PassedRecords'
      BY <1>1, <1>3, <3>1, <3>2 DEF PassedRecords, Name, Inv, Passed
    <3>4. Passed'
      BY <1>1, <3>1, <3>3 DEF Passed, PassedZones, PassedNodes, PassedEntries
    <3> QED
      BY <1>1, <1>2, <1>4, <2>1, <3>1, <3>4, Moves DEF Walking
  <2> QED
    BY <2>2, <2>3
<1>6. CASE NoRecord
  <2>1. /\ pc' = "list" /\ at' = 1 /\ question' = question /\ answer' = answer /\ apex' = apex
        /\ UNCHANGED <<zoneInput, recordInput, listInput, snapshot, store, blocked, allowed>>
    BY <1>6 DEF NoRecord, Loop, inputs, stores
  <2>2. at >= Len(Name)
    BY <1>6 DEF NoRecord, Last
  <2>3. ASSUME NEW rr \in store
        PROVE  ~Covers(rr.name, Name)
    <3>1. rr.name # Name
      BY <1>3 DEF At
    <3>2. ASSUME NEW i \in 2..Len(Name), rr.name = Wildcard(From(Name, i))
          PROVE  FALSE
      <4>1. i \in 2..at
        BY <1>2, <2>2
      <4> QED
        BY <1>3, <3>2, <4>1 DEF At
    <3> QED
      BY <3>1, <3>2 DEF Covers
  <2>4. PassedRecords' /\ PassedEntries'
    BY <1>1, <2>1, <2>3 DEF PassedRecords, PassedEntries, Name, Inv, Passed
  <2>5. Passed'
    BY <2>1, <2>4 DEF Passed, PassedZones, PassedNodes
  <2> QED
    BY <1>1, <1>4, <2>1, <2>5, Moves DEF Walking
<1> QED
  BY <1>5, <1>6

--------------------------------------------------------------------------------
(* The lists.                                                                  *)

LEMMA Outcomes ==
    ASSUME Inv, pc = "list", NEW from \in {"block", "pass"}, Outcome(from),
           from = "block" <=> BlockedAmong(listInput, Name)
    PROVE  Inv'
<1> DEFINE a == [from |-> from, rcode |-> "none", records |-> {}, soa |-> FALSE]
<1>1. Reply(a) /\ a.from = from /\ a \in Answer
  BY DEF Outcome, Answer
<1>2. store = Parsed(recordInput)
  BY Known DEF Walking
<1>3. {rr \in Parsed(recordInput) : Covers(rr.name, Normalize(question.name))} = {}
  BY <1>2 DEF Inv, Passed, PassedEntries, Name
<1>4. AnsweredLocally(recordInput, question, a)
  BY <1>1, <1>3 DEF AnsweredLocally
<1>5. AnsweredFrom(zoneInput, recordInput, question, a)
  BY <1>1, <1>4, NoZoneAround
<1> HIDE DEF a
<1> QED
  BY <1>1, <1>5, Replies DEF Walking

LEMMA ListInv ==
    ASSUME Inv, Allow \/ Block \/ Unlisted
    PROVE  Inv'
<1>1. pc = "list" /\ pc \in Walking
  BY DEF Allow, Block, Unlisted, Walking
<1>2. /\ Name \in Names /\ Len(Name) \in Nat /\ at \in Nat \ {0} /\ at <= Len(Name) + 1
      /\ at \in 1..(Len(Name) + 1)
      /\ blocked = Blocks(listInput) /\ allowed = Excepts(listInput)
      /\ listInput \in Lists
  BY <1>1, Known
<1>3. blocked \in SUBSET (Names \ {<<>>}) /\ allowed \in SUBSET (Names \ {<<>>})
  BY <1>2, ListsOf
<1>4. \A i \in 1..(at - 1) : From(Name, i) \notin blocked \union allowed
  BY <1>1 DEF Inv, Passed, PassedEntries
<1>5. Candidate = From(Name, at) /\ Candidate \in Names /\ IsSubDomain(Candidate, Name)
      /\ Len(Candidate) \in Nat
  BY <1>2, FromName, EndIsSubDomain DEF Candidate, Names
<1>6. ASSUME NEW n \in blocked \union allowed, IsSubDomain(n, Name)
      PROVE  Len(n) <= Len(Candidate) /\ Len(n) \in Nat
  <2>1. n \in Names /\ \A j \in 1..(at - 1) : n # From(Name, j)
    BY <1>3, <1>4
  <2> QED
    BY <1>2, <1>5, <1>6, <2>1, Longest DEF Names
<1>7. CASE Allow
  <2>1. Candidate \in allowed /\ Outcome("pass")
    BY <1>7 DEF Allow
  <2>2. ~BlockedAmong(listInput, Name)
    <3> SUFFICES ASSUME NEW b \in blocked, IsSubDomain(b, Name),
                        \A e \in allowed : IsSubDomain(e, Name) => Len(e) < Len(b)
                 PROVE  FALSE
      BY <1>2 DEF BlockedAmong
    <3>1. Len(Candidate) < Len(b)
      BY <1>5, <2>1
    <3>2. Len(b) <= Len(Candidate) /\ Len(b) \in Nat
      BY <1>6
    <3> QED
      BY <1>5, <3>1, <3>2
  <2> QED
    BY <1>1, <2>1, <2>2, Outcomes
<1>8. CASE Block
  <2>1. Candidate \notin allowed /\ Candidate \in blocked /\ Outcome("block")
    BY <1>8 DEF Block
  <2>2. ASSUME NEW e \in allowed, IsSubDomain(e, Name)
        PROVE  Len(e) < Len(Candidate)
    <3>1. Len(e) <= Len(Candidate) /\ Len(e) \in Nat
      BY <1>6, <2>2
    <3>2. Len(e) # Len(Candidate)
      BY <1>5, <2>1, <2>2, SubDomainUnique
    <3> QED
      BY <1>5, <3>1, <3>2
  <2>3. BlockedAmong(listInput, Name)
    BY <1>2, <1>5, <2>1, <2>2 DEF BlockedAmong
  <2> QED
    BY <1>1, <2>1, <2>3, Outcomes
<1>9. CASE Unlisted
  <2>1. Candidate \notin allowed /\ Candidate \notin blocked
    BY <1>9 DEF Unlisted
  <2>2. CASE Last
    <3>1. Outcome("pass")
      BY <1>9, <2>2 DEF Unlisted
    <3>2. ~BlockedAmong(listInput, Name)
      <4> SUFFICES ASSUME NEW b \in blocked, IsSubDomain(b, Name)
                   PROVE  FALSE
        BY <1>2 DEF BlockedAmong
      <4>1. Len(b) <= Len(Candidate) /\ Len(b) \in Nat
        BY <1>6
      <4>2. b # <<>> /\ b \in Names
        BY <1>3
      <4>3. Len(b) >= 1
        BY <4>1, <4>2 DEF Names
      <4>4. Len(Candidate) <= 1
        <5>1. Len(Candidate) = Len(Name) - at + 1
          BY <1>2, <1>5, FromName
        <5> QED
          BY <1>2, <2>2, <5>1 DEF Last
      <4>5. Len(b) = Len(Candidate)
        BY <1>5, <4>1, <4>3, <4>4
      <4>6. b = Candidate
        BY <1>5, <4>5, SubDomainUnique
      <4> QED
        BY <2>1, <4>6
    <3> QED
      BY <1>1, <3>1, <3>2, Outcomes
  <2>3. CASE ~Last
    <3>1. /\ at' = at + 1 /\ pc' = pc /\ question' = question /\ answer' = answer /\ apex' = apex
          /\ UNCHANGED <<zoneInput, recordInput, listInput, snapshot, store, blocked, allowed>>
      BY <1>9, <2>3 DEF Unlisted, Shorten, inputs, stores
    <3>2. \A i \in 1..((at + 1) - 1) : From(Name, i) \notin blocked \union allowed
      BY <1>2, <1>4, <1>5, <2>1
    <3>3. PassedEntries' /\ PassedRecords'
      BY <1>1, <3>1, <3>2 DEF PassedEntries, PassedRecords, Name, Inv, Passed
    <3>4. Passed'
      BY <1>1, <3>1, <3>3 DEF Passed, PassedZones, PassedNodes
    <3>5. at + 1 <= Len(Name) /\ at + 1 \in Nat \ {0}
      BY <1>2, <2>3 DEF Last
    <3>6. apex \in DOMAIN snapshot \union {None}
      BY DEF Inv, TypeOK
    <3> QED
      BY <1>1, <3>1, <3>4, <3>5, <3>6, Moves DEF Walking
  <2> QED
    BY <2>2, <2>3
<1> QED
  BY <1>7, <1>8, <1>9

--------------------------------------------------------------------------------

LEMMA NextInv == Inv /\ [Next]_vars => Inv'
<1> SUFFICES ASSUME Inv, [Next]_vars
             PROVE  Inv'
  OBVIOUS
<1>1. CASE UNCHANGED vars
  BY <1>1 DEF vars, Inv, TypeOK, Built, Passed, PassedZones, PassedNodes, PassedRecords, PassedEntries,
              Innermost, BlockedByLists, AnsweredByClosest, Answered, Name
<1>2. CASE Start \/ StartFails
  BY <1>2, StartInv
<1>3. CASE \E q \in Questions : Ask(q)
  BY <1>3, AskInv
<1>4. CASE FindZone \/ NextApex \/ NoZone
  BY <1>4, FindZoneInv
<1>5. CASE OtherClass \/ AtName \/ AtEmptyNode \/ ClosestEncloser
  BY <1>5, OtherClassInv, AtNameInv, AtEmptyNodeInv, ClosestEncloserInv
<1>6. CASE ExactRecord \/ NextWildcard \/ NoRecord
  BY <1>6, ExactRecordInv, WildcardInv
<1>7. CASE Allow \/ Block \/ Unlisted
  BY <1>7, ListInv
<1> QED
  BY <1>1, <1>2, <1>3, <1>4, <1>5, <1>6, <1>7 DEF Next

\* Every variable keeps its type, and no walk leaves the name.
THEOREM TypeCorrect == Spec => []TypeOK
<1>1. Inv => TypeOK
  BY DEF Inv
<1> QED
  BY InitInv, NextInv, <1>1, PTL DEF Spec

\* Whether a name is blocked follows from all lines of all lists, the entry that
\* is closest to the name deciding, an exception before a block (Loader.Load,
\* Matcher.Blocked).
THEOREM ListsDecide == Spec => []BlockedByLists
<1>1. Inv => BlockedByLists
  BY DEF Inv
<1> QED
  BY InitInv, NextInv, <1>1, PTL DEF Spec

\* The innermost zone around a name answers for it as RFC 1034 and 4592 say, else
\* the local record closest to it does (New, Lookup, findZone, Store.Lookup).
THEOREM ClosestAnswers == Spec => []AnsweredByClosest
<1>1. Inv => AnsweredByClosest
  BY DEF Inv
<1> QED
  BY InitInv, NextInv, <1>1, PTL DEF Spec
--------------------------------------------------------------------------------
(* Lookups end.  TLC has no fairness to assume here; this takes its place.     *)

\* How many loops are left, with the present one and the answer.
Loops == [zone |-> 7, managed |-> 6, closest |-> 5, record |-> 4, wildcard |-> 3, list |-> 2,
          idle |-> 1]

\* Loops that are left, and candidates in the present one.
Left == Loops[pc] * (Len(Name) + 2) - at

LEMMA LeftIsThere ==
    ASSUME Inv, pc \in Walking
    PROVE  Left \in 1..(7 * (Len(Name) + 2))
<1> DEFINE n == Len(Name)
<1>1. n \in Nat /\ at \in 1..(n + 1)
  BY Known
<1>2. Left = Loops[pc] * (n + 2) - at
  BY DEF Left
<1> HIDE DEF n
<1>3. /\ pc = "zone" => Left = 7 * (n + 2) - at
      /\ pc = "managed" => Left = 6 * (n + 2) - at
      /\ pc = "closest" => Left = 5 * (n + 2) - at
      /\ pc = "record" => Left = 4 * (n + 2) - at
      /\ pc = "wildcard" => Left = 3 * (n + 2) - at
      /\ pc = "list" => Left = 2 * (n + 2) - at
  BY <1>2 DEF Loops
<1>4. Left \in 1..(7 * (n + 2))
  BY <1>1, <1>3 DEF Walking
<1> QED
  BY <1>4 DEF n

\* What the steps of a lookup have in common: the next candidate, a later loop,
\* or the answer.
LEMMA Advances ==
    ASSUME Inv, pc \in Walking, question' = question,
           \/ pc' = pc /\ at' = at + 1
           \/ /\ pc' \in DOMAIN Loops
              /\ Loops[pc'] < Loops[pc]
              /\ at' = 1 \/ at' = at
    PROVE  Left' < Left
<1> DEFINE n == Len(Name)
<1>1. n \in Nat /\ at \in 1..(n + 1) /\ n' = n
  BY Known DEF Name
<1>2. Left = Loops[pc] * (n + 2) - at /\ Left' = Loops[pc'] * (n + 2) - at'
  BY <1>1 DEF Left, Loops
<1>3. Loops[pc] \in Nat
  BY DEF Walking, Loops
<1> HIDE DEF n
<1>4. CASE pc' = pc /\ at' = at + 1
  <2>1. Loops[pc] * (n + 2) \in Nat
    BY <1>1, <1>3
  <2> QED
    BY <1>1, <1>2, <1>4, <2>1
<1>5. CASE pc' \in DOMAIN Loops /\ Loops[pc'] < Loops[pc] /\ (at' = 1 \/ at' = at)
  <2>1. Loops[pc'] \in Nat
    BY <1>5 DEF Loops
  <2>2. Loops[pc'] * (n + 2) + (n + 2) <= Loops[pc] * (n + 2)
    <3>1. \A i, j, k \in Nat : i < j => i * k + k <= j * k
      OBVIOUS
    <3> QED
      BY <1>1, <1>3, <1>5, <2>1, <3>1
  <2>3. Loops[pc] * (n + 2) \in Int /\ Loops[pc'] * (n + 2) \in Int
    BY <1>1, <1>3, <2>1
  <2> QED
    BY <1>1, <1>2, <1>5, <2>2, <2>3
<1> QED
  BY <1>4, <1>5

LEMMA StepAdvances ==
    ASSUME Inv, [Next]_vars, ~UNCHANGED vars, pc \in Walking
    PROVE  question' = question /\ Left' < Left
<1> USE DEF Reply, Shorten, Loop, Loops, Walking, inputs, stores
<1>1. CASE FindZone \/ NextApex \/ NoZone
  BY <1>1, Advances DEF FindZone, NextApex, NoZone
<1>2. CASE OtherClass \/ AtName \/ AtEmptyNode \/ ClosestEncloser
  BY <1>2, Advances DEF OtherClass, AtName, AtEmptyNode, ClosestEncloser, ReplyRecords
<1>3. CASE ExactRecord \/ NextWildcard \/ NoRecord
  BY <1>3, Advances DEF ExactRecord, NextWildcard, NoRecord, ReplyLocal
<1>4. CASE Allow \/ Block \/ Unlisted
  BY <1>4, Advances DEF Allow, Block, Unlisted, Outcome
<1>5. ~(Start \/ StartFails \/ \E q \in Questions : Ask(q))
  BY DEF Start, StartFails, Ask
<1> QED
  BY <1>1, <1>2, <1>3, <1>4, <1>5 DEF Next

\* Every step of a lookup brings it nearer to its answer: a question for a name of
\* n labels takes fewer than 7 * (n + 2) of them, whatever the zones, records and
\* lists are (findZone, Lookup, Store.Lookup and Blocked return).
THEOREM LookupsEnd ==
    Spec => /\ [](pc \in Walking => Left \in 1..(7 * (Len(Name) + 2)))
            /\ [][(pc \in Walking => question' = question /\ Left' < Left)]_vars
<1>1. Inv => (pc \in Walking => Left \in 1..(7 * (Len(Name) + 2)))
  BY LeftIsThere
<1>2. Inv /\ [Next]_vars => [(pc \in Walking => question' = question /\ Left' < Left)]_vars
  BY StepAdvances
<1> QED
  BY InitInv, NextInv, <1>1, <1>2, PTL DEF Spec
================================================================================
