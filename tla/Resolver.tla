-------------------------------- MODULE Resolver --------------------------------
(***************************************************************************)
(* How a query is answered: Resolver.ServeDNS and Resolver.resolve of      *)
(* internal/resolver/resolver.go, while the control plane replaces the     *)
(* settings (Publish), the managed zones (ReplaceManaged) and the          *)
(* blocklists (Store.Replace) underneath.                                  *)
(*                                                                         *)
(* A query reads each of the three once.  Queries with the same cache key  *)
(* share one exchange with the upstreams (singleflight), also when they    *)
(* arrived under different settings; every state of the settings has a     *)
(* cache of its own.  What a name resolves to is left out: an answer says  *)
(* where it comes from.                                                    *)
(*                                                                         *)
(* Definitions marked "fault" are plausible mistakes.  Nothing uses them;  *)
(* each takes the place of the definition after it to show that a property *)
(* notices.                                                                *)
(***************************************************************************)
EXTENDS Integers, Sequences

CONSTANTS
    Goroutines,  \* goroutines of the DNS servers
    Names,       \* question names
    Wishes,      \* whether clients ask for signatures: some of BOOLEAN
    Upstreams,   \* upstream servers
    Settings,    \* the settings that may be published
    MaxStates,   \* bound: how many states are published
    MaxTurns,    \* bound: the counter "next" wraps here, instead of at 2^64
    None         \* no goroutine, no entry, no answer

ASSUME SettingsShape ==
    \A s \in Settings :
        /\ s.upstreams \in Seq(Upstreams)
        /\ s.records \subseteq Names
        /\ s.dnssec \in BOOLEAN

ASSUME BoundsAssumption ==
    /\ Wishes \subseteq BOOLEAN
    /\ MaxStates \in Nat \ {0}
    /\ MaxTurns \in Nat \ {0}

VARIABLES
    states,   \* the settings published so far; the last is Resolver.current
    managed,  \* Resolver.managed: the names in managed zones
    blocked,  \* blocklist.Store: the names that are blocked
    caches,   \* the cache of each state: the answer kept for each key, or None
    flight,   \* singleflight.Group: the leader of each key, or None
    next,     \* Resolver.next
    pc,       \* where each goroutine is
    query,    \* what each goroutine was asked
    state,    \* the state each goroutine serves its query with
    start,    \* the turn with which the leader began its exchange
    tried,    \* how many upstreams the leader has tried
    result,   \* what a leader has to deliver, what a query was answered with
    seen      \* history: whether the name was managed, and blocked, at some
              \* moment since the query arrived

plane  == <<states, managed, blocked>>
locals == <<query, state, start, tried, result>>
vars   == <<states, managed, blocked, caches, flight, next, pc, query, state, start,
            tried, result, seen>>

Question == [name : Names, wish : Wishes]
Key      == [name : Names, do : BOOLEAN]

\* Where an answer comes from: a managed zone, a local record, the block, the
\* absence of upstreams, or the upstreams of some state; for the latter, whether
\* the signatures were asked for, and who failed.
Answer(kind, n, do, failed) == [kind |-> kind, state |-> n, do |-> do, failed |-> failed]
Here(kind, n) == Answer(kind, n, FALSE, {})

Response == [kind : {"zone", "local", "blocked", "none", "servfail", "upstream"},
             state : 1..MaxStates, do : BOOLEAN, failed : SUBSET Upstreams]

\* What was true of a name at some moment of a query.
Moments == [managed : SUBSET BOOLEAN, blocked : SUBSET BOOLEAN]

\* A query under way: its question, and the state of the settings it is served with.
Asking == [question : Question, state : 1..MaxStates]

ASSUME NoneAssumption ==
    /\ None \notin Goroutines
    /\ None \notin Question /\ None \notin Asking /\ None \notin Moments
    /\ None \notin Response

Upstream(n) == states[n].upstreams
Facts(name) == [managed |-> {(name \in managed)}, blocked |-> {(name \in blocked)}]

Init ==
    /\ \E s \in Settings : states = <<s>>
    /\ managed = {}
    /\ blocked = {}
    /\ caches = [n \in 1..MaxStates |-> [k \in Key |-> None]]
    /\ flight = [k \in Key |-> None]
    /\ next = 0
    /\ pc = [g \in Goroutines |-> "idle"]
    /\ query = [g \in Goroutines |-> None]
    /\ state = [g \in Goroutines |-> 0]
    /\ start = [g \in Goroutines |-> 0]
    /\ tried = [g \in Goroutines |-> 0]
    /\ result = [g \in Goroutines |-> None]
    /\ seen = [g \in Goroutines |-> None]

--------------------------------------------------------------------------------
(* ServeDNS, up to the cache.                                                  *)

Goto(g, label) == pc' = [pc EXCEPT ![g] = label]

\* The query is answered.
Reply(g, answer) ==
    /\ result' = [result EXCEPT ![g] = answer]
    /\ Goto(g, "answered")

\* A well-formed query for one question; the others are refused and read nothing
\* but the settings.
Begin(g) ==
    /\ pc[g] = "idle"
    /\ \E q \in Question :
           /\ query' = [query EXCEPT ![g] = q]
           /\ seen' = [seen EXCEPT ![g] = Facts(q.name)]
    /\ state' = [state EXCEPT ![g] = Len(states)]
    /\ Goto(g, "arrived")
    /\ UNCHANGED <<plane, caches, flight, next, start, tried, result>>

\* Managed zones come first, then the local records of the settings.
LookupLocal(g) ==
    LET name == query[g].name
        n    == state[g]
    IN
    /\ pc[g] = "arrived"
    /\ \/ /\ name \in managed
          /\ Reply(g, Here("zone", n))
       \/ /\ name \notin managed
          /\ name \in states[n].records
          /\ Reply(g, Here("local", n))
       \/ /\ name \notin managed \union states[n].records
          /\ Goto(g, "foreign")
          /\ UNCHANGED result
    /\ UNCHANGED <<plane, caches, flight, next, query, state, start, tried, seen>>

LookupUnblocked(g) ==                                              \* fault
    /\ pc[g] = "foreign"
    /\ Goto(g, "lookup")
    /\ UNCHANGED <<plane, caches, flight, next, locals, seen>>

\* Then the blocklists.
LookupBlocked(g) ==
    LET name == query[g].name
        n    == state[g]
    IN
    /\ pc[g] = "foreign"
    /\ \/ /\ name \in blocked
          /\ Reply(g, Here("blocked", n))
       \/ /\ name \notin blocked
          /\ Upstream(n) = <<>>
          /\ Reply(g, Here("none", n))
       \/ /\ name \notin blocked
          /\ Upstream(n) # <<>>
          /\ Goto(g, "lookup")
          /\ UNCHANGED result
    /\ UNCHANGED <<plane, caches, flight, next, query, state, start, tried, seen>>

--------------------------------------------------------------------------------
(* The cache and the shared exchange.                                          *)

\* Signatures are asked for if the client or the settings want them.
Do(g) == query[g].wish \/ states[state[g]].dnssec

WishedKey(g) == [name |-> query[g].name, do |-> query[g].wish]     \* fault
CacheKey(g)  == [name |-> query[g].name, do |-> Do(g)]

Cached(g) == caches[state[g]][CacheKey(g)]

LookupCache(g) ==
    /\ pc[g] = "lookup"
    /\ IF Cached(g) # None
       THEN Reply(g, Cached(g))
       ELSE Goto(g, "missed") /\ UNCHANGED result
    /\ UNCHANGED <<plane, caches, flight, next, query, state, start, tried, seen>>

\* Group.Do: the first with a key leads, the others wait for its result.
Join(g) ==
    LET k == CacheKey(g) IN
    /\ pc[g] = "missed"
    /\ \/ /\ flight[k] = None
          /\ flight' = [flight EXCEPT ![k] = g]
          /\ Goto(g, "leading")
       \/ /\ flight[k] # None
          /\ Goto(g, "waiting")
          /\ UNCHANGED flight
    /\ UNCHANGED <<plane, caches, next, locals, seen>>

TakeTurn(g) ==
    /\ result' = [result EXCEPT ![g] = Answer("servfail", state[g], Do(g), {})]
    /\ start' = [start EXCEPT ![g] = next]
    /\ next' = IF next + 1 = MaxTurns THEN 0 ELSE next + 1
    /\ tried' = [tried EXCEPT ![g] = 0]
    /\ Goto(g, "exchange")

LeadAtOnce(g) ==                                                   \* fault
    /\ pc[g] = "leading"
    /\ TakeTurn(g)
    /\ UNCHANGED <<plane, caches, flight, query, state, seen>>

\* The leader looks into the cache again: an earlier leader may have filled it.
Lead(g) ==
    /\ pc[g] = "leading"
    /\ IF Cached(g) # None
       THEN /\ result' = [result EXCEPT ![g] = Cached(g)]
            /\ Goto(g, "delivering")
            /\ UNCHANGED <<next, start, tried>>
       ELSE TakeTurn(g)
    /\ UNCHANGED <<plane, caches, flight, query, state, seen>>

\* The upstream whose turn it is.
CandidateOf(g, turn) ==
    LET servers == Upstream(state[g]) IN servers[(turn % Len(servers)) + 1]

CandidateByNext(g) == CandidateOf(g, next + tried[g])              \* fault
Candidate(g) == CandidateOf(g, start[g] + tried[g])

\* An exchange fails: no answer in time, or one that does not fit the question.
TryFails(g) ==
    /\ pc[g] = "exchange"
    /\ tried[g] < Len(Upstream(state[g]))
    /\ result' = [result EXCEPT ![g].failed = @ \union {Candidate(g)}]
    /\ tried' = [tried EXCEPT ![g] = @ + 1]
    /\ UNCHANGED <<plane, caches, flight, next, pc, query, state, start, seen>>

ForgetTurn(g) ==
    /\ start' = [start EXCEPT ![g] = 0]
    /\ tried' = [tried EXCEPT ![g] = 0]

\* An exchange succeeds.
TrySucceeds(g) ==
    /\ pc[g] = "exchange"
    /\ tried[g] < Len(Upstream(state[g]))
    /\ result' = [result EXCEPT ![g] = Answer("upstream", state[g], Do(g), {})]
    /\ Goto(g, "storing")
    /\ ForgetTurn(g)
    /\ UNCHANGED <<plane, caches, flight, next, query, state, seen>>

\* All have failed.
GiveUp(g) ==
    /\ pc[g] = "exchange"
    /\ tried[g] = Len(Upstream(state[g]))
    /\ Goto(g, "delivering")
    /\ ForgetTurn(g)
    /\ UNCHANGED <<plane, caches, flight, next, query, state, result, seen>>

StoreInCurrent(g) ==                                               \* fault
    /\ pc[g] = "storing"
    /\ caches' = [caches EXCEPT ![Len(states)][CacheKey(g)] = result[g]]
    /\ Goto(g, "delivering")
    /\ UNCHANGED <<plane, flight, next, locals, seen>>

\* The answer is kept in the cache of the leader's settings, if it is cacheable.
Store(g) ==
    /\ pc[g] = "storing"
    /\ \/ caches' = [caches EXCEPT ![state[g]][CacheKey(g)] = result[g]]
       \/ UNCHANGED caches
    /\ Goto(g, "delivering")
    /\ UNCHANGED <<plane, flight, next, locals, seen>>

Waiters(k) == {w \in Goroutines : pc[w] = "waiting" /\ CacheKey(w) = k}

DeliverToLeader(g) ==                                              \* fault
    LET k == CacheKey(g) IN
    /\ pc[g] = "delivering"
    /\ flight' = [flight EXCEPT ![k] = None]
    /\ pc' = [w \in Goroutines |-> IF w \in Waiters(k) \union {g} THEN "answered" ELSE pc[w]]
    /\ UNCHANGED <<plane, caches, next, locals, seen>>

DeliverAnswersOnly(g) ==                                           \* fault
    LET k      == CacheKey(g)
        served == IF result[g].kind = "servfail" THEN {g} ELSE Waiters(k) \union {g}
    IN
    /\ pc[g] = "delivering"
    /\ flight' = [flight EXCEPT ![k] = None]
    /\ result' = [w \in Goroutines |-> IF w \in served THEN result[g] ELSE result[w]]
    /\ pc' = [w \in Goroutines |-> IF w \in served THEN "answered" ELSE pc[w]]
    /\ UNCHANGED <<plane, caches, next, query, state, start, tried, seen>>

\* The call ends, and everybody who waited for it has the result.
Deliver(g) ==
    LET k      == CacheKey(g)
        served == Waiters(k) \union {g}
    IN
    /\ pc[g] = "delivering"
    /\ flight' = [flight EXCEPT ![k] = None]
    /\ result' = [w \in Goroutines |-> IF w \in served THEN result[g] ELSE result[w]]
    /\ pc' = [w \in Goroutines |-> IF w \in served THEN "answered" ELSE pc[w]]
    /\ UNCHANGED <<plane, caches, next, query, state, start, tried, seen>>

\* ServeDNS returns.
Return(g) ==
    /\ pc[g] = "answered"
    /\ Goto(g, "idle")
    /\ query' = [query EXCEPT ![g] = None]
    /\ state' = [state EXCEPT ![g] = 0]
    /\ result' = [result EXCEPT ![g] = None]
    /\ seen' = [seen EXCEPT ![g] = None]
    /\ UNCHANGED <<plane, caches, flight, next, start, tried>>

--------------------------------------------------------------------------------
(* The control plane, and time.                                                *)

\* New settings come with an empty cache.
Publish ==
    /\ Len(states) < MaxStates
    /\ \E s \in Settings : states' = Append(states, s)
    /\ UNCHANGED <<managed, blocked, caches, flight, next, pc, locals, seen>>

\* What the queries under way could have seen.
Witnessed ==
    seen' = [g \in Goroutines |->
                IF pc[g] = "idle" THEN None
                ELSE [managed |-> seen[g].managed \union {(query[g].name \in managed')},
                      blocked |-> seen[g].blocked \union {(query[g].name \in blocked')}]]

ReplaceManaged ==
    /\ managed' \in SUBSET Names
    /\ UNCHANGED <<states, blocked, caches, flight, next, pc, locals>>
    /\ Witnessed

ReplaceBlocked ==
    /\ blocked' \in SUBSET Names
    /\ UNCHANGED <<states, managed, caches, flight, next, pc, locals>>
    /\ Witnessed

\* An entry expires or has to make room for another.
Drop(n, k) ==
    /\ caches[n][k] # None
    /\ caches' = [caches EXCEPT ![n][k] = None]
    /\ UNCHANGED <<plane, flight, next, pc, locals, seen>>

Serve(g) ==
    \/ LookupLocal(g)
    \/ LookupBlocked(g)
    \/ LookupCache(g)
    \/ Join(g)
    \/ Lead(g)
    \/ TryFails(g)
    \/ TrySucceeds(g)
    \/ GiveUp(g)
    \/ Store(g)
    \/ Deliver(g)

Next ==
    \/ \E g \in Goroutines : Begin(g) \/ Serve(g) \/ Return(g)
    \/ Publish
    \/ ReplaceManaged
    \/ ReplaceBlocked
    \/ \E n \in 1..MaxStates, k \in Key : Drop(n, k)

Spec == Init /\ [][Next]_vars

--------------------------------------------------------------------------------
(* Properties. *)

\* What a goroutine has at which point.
Equipped ==
    \A g \in Goroutines :
        /\ pc[g] # "idle" =>
               query[g] # None /\ state[g] \in DOMAIN states /\ seen[g] # None
        /\ pc[g] \in {"exchange", "storing", "delivering", "answered"} => result[g] # None

TypeOK ==
    /\ states \in Seq(Settings)
    /\ Len(states) \in 1..MaxStates
    /\ managed \subseteq Names
    /\ blocked \subseteq Names
    /\ caches \in [1..MaxStates -> [Key -> Response \union {None}]]
    /\ flight \in [Key -> Goroutines \union {None}]
    /\ next \in 0..(MaxTurns - 1)
    /\ pc \in [Goroutines -> {"idle", "arrived", "foreign", "lookup", "missed", "waiting",
                              "leading", "exchange", "storing", "delivering", "answered"}]
    /\ query \in [Goroutines -> Question \union {None}]
    /\ state \in [Goroutines -> 0..MaxStates]
    /\ start \in [Goroutines -> 0..(MaxTurns - 1)]
    /\ tried \in [Goroutines -> Nat]
    /\ result \in [Goroutines -> Response \union {None}]
    /\ Equipped
    /\ seen \in [Goroutines -> Moments \union {None}]

\* What a cache holds was answered to its own settings, for its own key: an
\* exchange that began before new settings were published does not spoil their
\* cache, though queries with these settings may wait for it.
CachesApart ==
    \A n \in 1..MaxStates, k \in Key :
        caches[n][k] # None =>
            caches[n][k].kind = "upstream" /\ caches[n][k].state = n /\ caches[n][k].do = k.do

\* No upstream is asked for what the cache holds: an answer cached between a
\* miss and the exchange is found by the second look into the cache.
NoNeedlessExchange ==
    \A g \in Goroutines : pc[g] = "exchange" => Cached(g) = None

\* A query fails only after every upstream has failed in one and the same
\* exchange, however many exchanges take turns at the upstreams.
FailsAfterAll ==
    \A g \in Goroutines : pc[g] = "answered" /\ result[g].kind = "servfail" =>
        LET servers == Upstream(result[g].state)
        IN  result[g].failed = {servers[i] : i \in DOMAIN servers}

\* Settings with DNSSEC never get an answer without signatures from upstream,
\* not even by sharing the exchange of a query under other settings.
SignaturesAsked ==
    \A g \in Goroutines : pc[g] = "answered" /\ result[g].kind = "upstream" =>
        (states[state[g]].dnssec => result[g].do)

\* An answer agrees with the zones, and with the lists, of some moment since the
\* query arrived: nothing cached or exchanged earlier takes precedence over a
\* zone or a block that has been there all the time
\* (TestManagedZoneOverridesLegacyRecordsAndBlocklists).
AnswersOfTheirTime ==
    \A g \in Goroutines : pc[g] = "answered" =>
        /\ (result[g].kind = "zone") \in seen[g].managed
        /\ result[g].kind \notin {"zone", "local"} =>
               (result[g].kind = "blocked") \in seen[g].blocked

\* Nobody waits for an exchange that is over: the one waited for is led by a
\* goroutine that has yet to deliver, to this key (and every step of a leader can
\* be taken: exchanges end, with an answer or their timeout).
NobodyAbandoned ==
    \A g \in Goroutines : pc[g] = "waiting" =>
        \E leader \in Goroutines :
            /\ pc[leader] \in {"leading", "exchange", "storing", "delivering"}
            /\ CacheKey(leader) = CacheKey(g)

\* Every answer is one that QueryAnswers permits, given once, to a query that is
\* under way: whatever is cached, shared or replaced meanwhile.
Asked == [g \in Goroutines |->
             IF pc[g] = "idle" THEN None ELSE [question |-> query[g], state |-> state[g]]]
Given == [g \in Goroutines |-> IF pc[g] = "answered" THEN result[g] ELSE None]

Promise == INSTANCE QueryAnswers WITH asked <- Asked, given <- Given

RefinesAnswers == Promise!Safety
=================================================================================
