----------------------------- MODULE ResolverProofs -----------------------------
(***************************************************************************)
(* Proofs about Resolver: who leads an exchange, what the caches hold,     *)
(* what answers agree with, and when queries fail.                         *)
(***************************************************************************)
EXTENDS Resolver, TLAPS

\* A query under way has a question, a state of the settings and a key.
LEMMA UnderWay ==
    ASSUME TypeOK, NEW g \in Goroutines, pc[g] # "idle"
    PROVE  /\ query[g] \in Question
           /\ state[g] \in DOMAIN states /\ state[g] \in 1..MaxStates
           /\ states[state[g]] \in Settings
           /\ Do(g) \in BOOLEAN
           /\ CacheKey(g) \in Key
           /\ Upstream(state[g]) \in Seq(Upstreams)
  <1>1. query[g] \in Question /\ state[g] \in DOMAIN states
    <2>1. Equipped /\ query[g] \in Question \union {None}
      BY DEF TypeOK
    <2> QED
      BY <2>1 DEF Equipped
  <1>2. state[g] \in 1..MaxStates
    BY <1>1, BoundsAssumption DEF TypeOK
  <1>3. states[state[g]] \in Settings
    BY <1>1 DEF TypeOK
  <1>4. Upstream(state[g]) \in Seq(Upstreams) /\ states[state[g]].dnssec \in BOOLEAN
    BY <1>3, SettingsShape DEF Upstream
  <1>5. query[g].wish \in BOOLEAN /\ query[g].name \in Names
    BY <1>1, BoundsAssumption DEF Question
  <1>6. Do(g) \in BOOLEAN
    BY <1>4, <1>5 DEF Do
  <1>7. CacheKey(g) \in Key
    BY <1>5, <1>6 DEF CacheKey, Key
  <1> QED
    BY <1>1, <1>2, <1>3, <1>4, <1>6, <1>7

\* The upstream whose turn it is exists.
LEMMA CandidateType ==
    ASSUME TypeOK, NEW g \in Goroutines, pc[g] = "exchange",
           tried[g] < Len(Upstream(state[g]))
    PROVE  Candidate(g) \in Upstreams
  <1> DEFINE servers == Upstream(state[g])
             turn    == start[g] + tried[g]
  <1>1. servers \in Seq(Upstreams) /\ turn \in Nat /\ Len(servers) \in Nat /\ Len(servers) > 0
    BY UnderWay, BoundsAssumption DEF TypeOK
  <1> HIDE DEF servers, turn
  <1>2. turn % Len(servers) \in 0..(Len(servers) - 1)
    BY <1>1
  <1>3. (turn % Len(servers)) + 1 \in DOMAIN servers
    BY <1>1, <1>2
  <1>4. servers[(turn % Len(servers)) + 1] \in Upstreams
    BY <1>1, <1>3
  <1> QED
    BY <1>4 DEF Candidate, CandidateOf, servers, turn

\* The facts about a moment since a query arrived.
LEMMA FactsType ==
    ASSUME NEW name
    PROVE  Facts(name) \in Moments
  BY DEF Facts, Moments

\* Whatever an answer is made of, it is one.
LEMMA AnswerType ==
    ASSUME NEW kind \in {"zone", "local", "blocked", "none", "servfail", "upstream"},
           NEW n \in 1..MaxStates, NEW do \in BOOLEAN, NEW failed \in SUBSET Upstreams
    PROVE  Answer(kind, n, do, failed) \in Response
  BY DEF Answer, Response

\* An answer given here, without the upstreams, is an answer.
LEMMA HereType ==
    ASSUME NEW kind \in {"zone", "local", "blocked", "none"}, NEW n \in 1..MaxStates
    PROVE  Here(kind, n) \in Response
  BY AnswerType DEF Here

\* Begin keeps the types.
LEMMA BeginType ==
    ASSUME TypeOK, NEW g \in Goroutines, Begin(g)
    PROVE  TypeOK'
  <1>1. PICK q \in Question :
           /\ query' = [query EXCEPT ![g] = q]
           /\ seen' = [seen EXCEPT ![g] = Facts(q.name)]
    BY DEF Begin
  <1>2. /\ state' = [state EXCEPT ![g] = Len(states)]
        /\ pc' = [pc EXCEPT ![g] = "arrived"]
        /\ UNCHANGED <<plane, caches, flight, next, start, tried, result>>
    BY DEF Begin, Goto
  <1>3. Facts(q.name) \in Moments
    BY FactsType
  <1>4. q # None /\ Facts(q.name) # None
    BY <1>3, NoneAssumption
  <1>5. Equipped'
    BY <1>1, <1>2, <1>4 DEF TypeOK, Equipped, plane
  <1> QED
    BY <1>1, <1>2, <1>3, <1>5, BoundsAssumption DEF TypeOK, plane

\* Every step of a query keeps the types.
LEMMA ServeType ==
    ASSUME TypeOK, NEW g \in Goroutines, Serve(g)
    PROVE  TypeOK'
  <1>1. /\ pc[g] # "idle"
        /\ state[g] \in 1..MaxStates
        /\ CacheKey(g) \in Key
        /\ Do(g) \in BOOLEAN
        /\ Upstream(state[g]) \in Seq(Upstreams)
    <2>1. pc[g] # "idle"
      BY DEF Serve, LookupLocal, LookupBlocked, LookupCache, Join, Lead, TryFails, TrySucceeds,
             GiveUp, Store, Deliver
    <2> QED
      BY <2>1, UnderWay
  <1>2. Cached(g) \in Response \union {None}
    BY <1>1 DEF Cached, TypeOK
  <1>3. UNCHANGED <<plane, query, state, seen>>
    BY DEF Serve, LookupLocal, LookupBlocked, LookupCache, Join, Lead, TryFails, TrySucceeds,
           GiveUp, Store, Deliver, locals
  <1>4. CASE LookupLocal(g)
    <2>1. Here("zone", state[g]) \in Response /\ Here("local", state[g]) \in Response
      BY <1>1, HereType
    <2>2. Equipped'
      BY <1>4, <1>3, <2>1, NoneAssumption DEF LookupLocal, Reply, Goto, TypeOK, Equipped, plane
    <2> QED
      BY <1>4, <1>3, <2>1, <2>2 DEF LookupLocal, Reply, Goto, TypeOK, plane
  <1>5. CASE LookupBlocked(g)
    <2>1. Here("blocked", state[g]) \in Response /\ Here("none", state[g]) \in Response
      BY <1>1, HereType
    <2>2. Equipped'
      BY <1>5, <1>3, <2>1, NoneAssumption DEF LookupBlocked, Reply, Goto, TypeOK, Equipped, plane
    <2> QED
      BY <1>5, <1>3, <2>1, <2>2 DEF LookupBlocked, Reply, Goto, TypeOK, plane
  <1>6. CASE LookupCache(g)
    <2>1. Equipped'
      BY <1>6, <1>3, <1>2 DEF LookupCache, Reply, Goto, TypeOK, Equipped, plane
    <2> QED
      BY <1>6, <1>3, <1>2, <2>1 DEF LookupCache, Reply, Goto, TypeOK, plane
  <1>7. CASE Join(g)
    <2>1. Equipped'
      BY <1>7, <1>3 DEF Join, Goto, TypeOK, Equipped, plane, locals
    <2> QED
      BY <1>7, <1>3, <1>1, <2>1 DEF Join, Goto, TypeOK, plane, locals
  <1>8. CASE Lead(g)
    <2>1. Answer("servfail", state[g], Do(g), {}) \in Response
      BY <1>1, AnswerType
    <2>2. CASE Cached(g) # None
      <3>1. Equipped'
        BY <1>8, <2>2, <1>3, <1>2 DEF Lead, Goto, TypeOK, Equipped, plane
      <3> QED
        BY <1>8, <2>2, <1>3, <1>2, <3>1 DEF Lead, Goto, TypeOK, plane
    <2>3. CASE Cached(g) = None
      <3>1. TakeTurn(g) /\ UNCHANGED <<plane, caches, flight, query, state, seen>>
        BY <1>8, <2>3 DEF Lead
      <3>2. PICK answer \in Response : result' = [result EXCEPT ![g] = answer]
        BY <3>1, <2>1 DEF TakeTurn
      <3>3. pc' = [pc EXCEPT ![g] = "exchange"]
        BY <3>1 DEF TakeTurn, Goto
      <3>4. Equipped'
        BY <1>1, <1>3, <3>2, <3>3, NoneAssumption DEF TypeOK, Equipped, plane
      <3>5. next' \in 0..(MaxTurns - 1)
        BY <3>1, BoundsAssumption DEF TakeTurn, TypeOK
      <3> QED
        BY <3>1, <3>2, <3>3, <3>4, <3>5 DEF TakeTurn, TypeOK, plane
    <2> QED
      BY <2>2, <2>3
  <1>9. CASE TryFails(g)
    <2>1. Candidate(g) \in Upstreams
      BY <1>9, CandidateType DEF TryFails
    <2>2. result[g] \in Response
      BY <1>9 DEF TryFails, TypeOK, Equipped
    <2>3. [result[g] EXCEPT !.failed = @ \union {Candidate(g)}] \in Response
      BY <2>1, <2>2 DEF Response
    <2>4. result' = [result EXCEPT ![g] = [result[g] EXCEPT !.failed = @ \union {Candidate(g)}]]
      BY <1>9 DEF TryFails, TypeOK
    <2>5. Equipped'
      BY <1>9, <1>3, <2>3, <2>4, NoneAssumption DEF TryFails, TypeOK, Equipped, plane
    <2> QED
      BY <1>9, <1>3, <2>3, <2>4, <2>5 DEF TryFails, TypeOK, plane
  <1>10. CASE TrySucceeds(g)
    <2>1. Answer("upstream", state[g], Do(g), {}) \in Response
      BY <1>1, AnswerType
    <2>2. Equipped'
      BY <1>10, <1>3, <2>1, NoneAssumption DEF TrySucceeds, Goto, ForgetTurn, TypeOK, Equipped, plane
    <2> QED
      BY <1>10, <1>3, <2>1, <2>2, BoundsAssumption DEF TrySucceeds, Goto, ForgetTurn, TypeOK, plane
  <1>11. CASE GiveUp(g)
    <2>1. Equipped'
      BY <1>11, <1>3 DEF GiveUp, Goto, ForgetTurn, TypeOK, Equipped, plane
    <2> QED
      BY <1>11, <1>3, <2>1, BoundsAssumption DEF GiveUp, Goto, ForgetTurn, TypeOK, plane
  <1>12. CASE Store(g)
    <2>1. Equipped'
      BY <1>12, <1>3 DEF Store, Goto, TypeOK, Equipped, plane, locals
    <2>2. result[g] \in Response
      BY <1>12 DEF Store, TypeOK, Equipped
    <2>3. [caches[state[g]] EXCEPT ![CacheKey(g)] = result[g]] \in [Key -> Response \union {None}]
      BY <1>1, <2>2 DEF TypeOK
    <2>4. \/ caches' = [caches EXCEPT ![state[g]] =
                            [caches[state[g]] EXCEPT ![CacheKey(g)] = result[g]]]
          \/ caches' = caches
      BY <1>12, <1>1 DEF Store, TypeOK
    <2>5. caches' \in [1..MaxStates -> [Key -> Response \union {None}]]
      BY <2>3, <2>4, <1>1 DEF TypeOK
    <2> QED
      BY <1>12, <1>3, <2>1, <2>5 DEF Store, Goto, TypeOK, plane, locals
  <1>13. CASE Deliver(g)
    <2>1. result[g] \in Response
      BY <1>13 DEF Deliver, TypeOK, Equipped
    <2>2. Equipped'
      BY <1>13, <1>3, <2>1, NoneAssumption DEF Deliver, Waiters, TypeOK, Equipped, plane
    <2> QED
      BY <1>13, <1>3, <1>1, <2>1, <2>2 DEF Deliver, TypeOK, plane
  <1> QED
    BY <1>4, <1>5, <1>6, <1>7, <1>8, <1>9, <1>10, <1>11, <1>12, <1>13 DEF Serve

\* What the queries under way have seen keeps its type.
LEMMA WitnessedType ==
    ASSUME TypeOK, UNCHANGED <<states, pc, query, state, result>>, Witnessed
    PROVE  seen' \in [Goroutines -> Moments \union {None}] /\ Equipped'
  <1> DEFINE after(g) == [managed |-> seen[g].managed \union {(query[g].name \in managed')},
                          blocked |-> seen[g].blocked \union {(query[g].name \in blocked')}]
  <1>1. ASSUME NEW g \in Goroutines, pc[g] # "idle"
        PROVE  after(g) \in Moments
    <2>1. seen[g] \in Moments
      BY <1>1 DEF TypeOK, Equipped
    <2>2. seen[g].managed \subseteq BOOLEAN /\ seen[g].blocked \subseteq BOOLEAN
      BY <2>1 DEF Moments
    <2>3. \A S \in SUBSET BOOLEAN, b \in BOOLEAN : S \union {b} \in SUBSET BOOLEAN
      OBVIOUS
    <2>4. (query[g].name \in managed') \in BOOLEAN /\ (query[g].name \in blocked') \in BOOLEAN
      OBVIOUS
    <2>5. /\ seen[g].managed \union {(query[g].name \in managed')} \in SUBSET BOOLEAN
          /\ seen[g].blocked \union {(query[g].name \in blocked')} \in SUBSET BOOLEAN
      BY <2>2, <2>3, <2>4, Zenon
    <2> QED
      BY <2>5 DEF Moments
  <1>2. seen' = [g \in Goroutines |-> IF pc[g] = "idle" THEN None ELSE after(g)]
    BY DEF Witnessed
  <1> HIDE DEF after
  <1>3. seen' \in [Goroutines -> Moments \union {None}]
    BY <1>1, <1>2
  <1>4. \A g \in Goroutines : pc[g] # "idle" => seen'[g] # None
    BY <1>1, <1>2, NoneAssumption
  <1>5. Equipped'
    BY <1>4 DEF TypeOK, Equipped
  <1> QED
    BY <1>3, <1>5

\* Every step keeps the types.
LEMMA TypeStep ==
    ASSUME TypeOK, [Next]_vars
    PROVE  TypeOK'
  <1>1. CASE \E g \in Goroutines : Begin(g)
    BY <1>1, BeginType
  <1>2. CASE \E g \in Goroutines : Serve(g)
    BY <1>2, ServeType
  <1>3. ASSUME NEW g \in Goroutines, Return(g)
        PROVE  TypeOK'
    <2>1. Equipped'
      BY <1>3 DEF Return, Goto, TypeOK, Equipped, plane
    <2> QED
      BY <1>3, <2>1, BoundsAssumption DEF Return, Goto, TypeOK, plane
  <1>4. CASE Publish
    <2>1. PICK s \in Settings : states' = Append(states, s)
      BY <1>4 DEF Publish
    <2>2. states' \in Seq(Settings) /\ Len(states') \in 1..MaxStates /\ DOMAIN states \subseteq DOMAIN states'
      BY <1>4, <2>1, BoundsAssumption DEF Publish, TypeOK
    <2>3. Equipped'
      BY <1>4, <2>2 DEF Publish, TypeOK, Equipped, locals
    <2> QED
      BY <1>4, <2>2, <2>3 DEF Publish, TypeOK, locals
  <1>5. CASE ReplaceManaged
    <2>1. managed' \in SUBSET Names /\ Witnessed
      BY <1>5 DEF ReplaceManaged
    <2>2. UNCHANGED <<states, blocked, caches, flight, next, pc, locals>>
      BY <1>5 DEF ReplaceManaged
    <2>3. seen' \in [Goroutines -> Moments \union {None}] /\ Equipped'
      BY <2>1, <2>2, WitnessedType DEF TypeOK, locals
    <2> QED
      BY <2>1, <2>2, <2>3 DEF TypeOK, locals
  <1>6. CASE ReplaceBlocked
    <2>1. blocked' \in SUBSET Names /\ Witnessed
      BY <1>6 DEF ReplaceBlocked
    <2>2. UNCHANGED <<states, managed, caches, flight, next, pc, locals>>
      BY <1>6 DEF ReplaceBlocked
    <2>3. seen' \in [Goroutines -> Moments \union {None}] /\ Equipped'
      BY <2>1, <2>2, WitnessedType DEF TypeOK, locals
    <2> QED
      BY <2>1, <2>2, <2>3 DEF TypeOK, locals
  <1>7. ASSUME NEW n \in 1..MaxStates, NEW k \in Key, Drop(n, k)
        PROVE  TypeOK'
    <2>1. caches' = [caches EXCEPT ![n] = [caches[n] EXCEPT ![k] = None]]
      BY <1>7 DEF Drop, TypeOK
    <2>2. [caches[n] EXCEPT ![k] = None] \in [Key -> Response \union {None}]
      BY DEF TypeOK
    <2>3. caches' \in [1..MaxStates -> [Key -> Response \union {None}]]
      BY <2>1, <2>2 DEF TypeOK
    <2> QED
      BY <1>7, <2>3 DEF Drop, TypeOK, plane, locals, Equipped
  <1>8. CASE UNCHANGED vars
    BY <1>8 DEF vars, TypeOK, Equipped
  <1> QED
    BY <1>1, <1>2, <1>3, <1>4, <1>5, <1>6, <1>7, <1>8 DEF Next

\* The variables have their types at the start.
LEMMA TypeInit == Init => TypeOK
  <1> SUFFICES ASSUME Init PROVE TypeOK
    OBVIOUS
  <1>1. PICK s \in Settings : states = <<s>>
    BY DEF Init
  <1>2. states \in Seq(Settings) /\ Len(states) \in 1..MaxStates
    BY <1>1, BoundsAssumption
  <1> QED
    BY <1>2, BoundsAssumption DEF Init, TypeOK, Equipped

\* Every variable keeps its type, and a query under way has what its next step
\* reads: a question, a published state of the settings, something to deliver.
THEOREM TypeCorrect == Spec => []TypeOK
  BY TypeInit, TypeStep, PTL DEF Spec

--------------------------------------------------------------------------------
(* Who leads an exchange.                                                      *)

\* A query keeps its question, its settings and its key until it has returned.
LEMMA Carried ==
    ASSUME TypeOK, [Next]_vars, NEW g \in Goroutines, pc[g] # "idle", pc'[g] # "idle"
    PROVE  /\ query'[g] = query[g] /\ state'[g] = state[g]
           /\ states'[state[g]] = states[state[g]]
           /\ Do(g)' = Do(g) /\ CacheKey(g)' = CacheKey(g)
  <1>1. query'[g] = query[g] /\ state'[g] = state[g]
    <2>1. ASSUME NEW h \in Goroutines, Begin(h) PROVE query'[g] = query[g] /\ state'[g] = state[g]
      BY <2>1 DEF Begin, TypeOK
    <2>2. ASSUME NEW h \in Goroutines, Return(h) PROVE query'[g] = query[g] /\ state'[g] = state[g]
      BY <2>2 DEF Return, Goto, TypeOK
    <2>3. ASSUME NEW h \in Goroutines, Serve(h) PROVE UNCHANGED <<query, state>>
      BY <2>3 DEF Serve, LookupLocal, LookupBlocked, LookupCache, Join, Lead, TryFails, TrySucceeds,
                  GiveUp, Store, Deliver, locals
    <2>4. ASSUME Publish \/ ReplaceManaged \/ ReplaceBlocked PROVE UNCHANGED <<query, state>>
      BY <2>4 DEF Publish, ReplaceManaged, ReplaceBlocked, locals
    <2>5. ASSUME NEW n \in 1..MaxStates, NEW k \in Key, Drop(n, k) PROVE UNCHANGED <<query, state>>
      BY <2>5 DEF Drop, locals
    <2>6. CASE UNCHANGED vars
      BY <2>6 DEF vars
    <2> QED
      BY <2>1, <2>2, <2>3, <2>4, <2>5, <2>6 DEF Next
  <1>2. states' = states \/ \E s \in Settings : states' = Append(states, s)
    BY DEF Next, Begin, Return, Serve, LookupLocal, LookupBlocked, LookupCache, Join, Lead, TryFails,
           TrySucceeds, GiveUp, Store, Deliver, Publish, ReplaceManaged, ReplaceBlocked, Drop, vars, plane
  <1>3. states \in Seq(Settings) /\ state[g] \in DOMAIN states
    BY UnderWay DEF TypeOK
  <1>4. states'[state[g]] = states[state[g]]
    BY <1>2, <1>3
  <1> QED
    BY <1>1, <1>4 DEF Do, CacheKey

Leading == {"leading", "exchange", "storing", "delivering"}

\* Whoever leads holds the place of its key, whoever holds the place of a key
\* leads with that key, and who waits, waits for somebody.
Led     == \A g \in Goroutines : pc[g] \in Leading => flight[CacheKey(g)] = g
Manned  == \A k \in Key, g \in Goroutines : flight[k] = g =>
               pc[g] \in Leading /\ CacheKey(g) = k
Awaited == \A g \in Goroutines : pc[g] = "waiting" => flight[CacheKey(g)] # None
Flights == Led /\ Manned /\ Awaited

\* What neither begins nor ends an exchange nor makes anybody wait changes nothing.
LEMMA FlightsQuiet ==
    ASSUME TypeOK, TypeOK', Flights, [Next]_vars, flight' = flight,
           \A h \in Goroutines : /\ (pc'[h] \in Leading) = (pc[h] \in Leading)
                                 /\ (pc'[h] = "waiting") = (pc[h] = "waiting")
    PROVE  Flights'
  <1>1. ASSUME NEW h \in Goroutines, pc[h] \in Leading \union {"waiting"}
        PROVE  CacheKey(h)' = CacheKey(h)
    BY <1>1, Carried DEF Leading
  <1>2. Led' /\ Awaited'
    BY <1>1 DEF Led, Awaited, Flights
  <1>3. Manned'
    BY <1>1 DEF Manned, Flights, TypeOK
  <1> QED
    BY <1>2, <1>3 DEF Flights

\* Every step keeps the places of the keys in order.
LEMMA FlightsStep ==
    ASSUME TypeOK, TypeOK', Flights, [Next]_vars
    PROVE  Flights'
  <1>1. ASSUME NEW g \in Goroutines, Begin(g) \/ Return(g) PROVE Flights'
    <2>1. flight' = flight
      BY <1>1 DEF Begin, Return
    <2>2. \A h \in Goroutines : /\ (pc'[h] \in Leading) = (pc[h] \in Leading)
                                /\ (pc'[h] = "waiting") = (pc[h] = "waiting")
      BY <1>1 DEF Begin, Return, Goto, Leading, TypeOK
    <2> QED
      BY <2>1, <2>2, FlightsQuiet
  <1>2. ASSUME NEW g \in Goroutines, LookupLocal(g) \/ LookupBlocked(g) \/ LookupCache(g) PROVE Flights'
    <2>1. flight' = flight
      BY <1>2 DEF LookupLocal, LookupBlocked, LookupCache
    <2>2. \A h \in Goroutines : /\ (pc'[h] \in Leading) = (pc[h] \in Leading)
                                /\ (pc'[h] = "waiting") = (pc[h] = "waiting")
      BY <1>2 DEF LookupLocal, LookupBlocked, LookupCache, Reply, Goto, Leading, TypeOK
    <2> QED
      BY <2>1, <2>2, FlightsQuiet
  <1>3. ASSUME NEW g \in Goroutines,
               Lead(g) \/ TryFails(g) \/ TrySucceeds(g) \/ GiveUp(g) \/ Store(g)
        PROVE  Flights'
    <2>1. flight' = flight
      BY <1>3 DEF Lead, TryFails, TrySucceeds, GiveUp, Store
    <2>2. /\ pc[g] \in Leading
          /\ pc' = pc \/ \E label \in Leading : pc' = [pc EXCEPT ![g] = label]
      BY <1>3 DEF Lead, TakeTurn, TryFails, TrySucceeds, GiveUp, Store, Goto, Leading
    <2>3. \A h \in Goroutines : /\ (pc'[h] \in Leading) = (pc[h] \in Leading)
                                /\ (pc'[h] = "waiting") = (pc[h] = "waiting")
      <3> SUFFICES ASSUME NEW h \in Goroutines
                   PROVE  /\ (pc'[h] \in Leading) = (pc[h] \in Leading)
                          /\ (pc'[h] = "waiting") = (pc[h] = "waiting")
        OBVIOUS
      <3>1. pc'[h] = pc[h] \/ (pc'[h] \in Leading /\ pc[h] \in Leading)
        BY <2>2 DEF TypeOK
      <3> QED
        BY <3>1 DEF Leading
    <2> QED
      BY <2>1, <2>3, FlightsQuiet
  <1>4. ASSUME NEW g \in Goroutines, Join(g) PROVE Flights'
    <2> DEFINE k == CacheKey(g)
    <2>1. k \in Key /\ pc[g] = "missed"
      BY <1>4, UnderWay DEF Join
    <2>2. ASSUME NEW h \in Goroutines PROVE CacheKey(h)' = CacheKey(h)
      BY <1>4 DEF Join, locals, plane, CacheKey, Do
    <2>3. CASE flight[k] = None /\ flight' = [flight EXCEPT ![k] = g] /\ pc' = [pc EXCEPT ![g] = "leading"]
      <3>1. Led'
        <4> SUFFICES ASSUME NEW h \in Goroutines, pc'[h] \in Leading
                     PROVE  flight'[CacheKey(h)'] = h
          BY DEF Led
        <4>1. CASE h = g
          BY <4>1, <2>1, <2>2, <2>3 DEF TypeOK
        <4>2. CASE h # g
          <5>1. pc[h] \in Leading /\ flight[CacheKey(h)] = h
            BY <4>2, <2>3 DEF TypeOK, Led, Flights
          <5>2. CacheKey(h) \in Key /\ CacheKey(h) # k
            BY <5>1, <2>3, UnderWay, NoneAssumption DEF Leading
          <5> QED
            BY <5>1, <5>2, <2>2, <2>3 DEF TypeOK
        <4> QED
          BY <4>1, <4>2
      <3>2. Manned'
        BY <2>1, <2>2, <2>3 DEF Manned, Flights, Leading, TypeOK
      <3>3. Awaited'
        <4> SUFFICES ASSUME NEW h \in Goroutines, pc'[h] = "waiting"
                     PROVE  flight'[CacheKey(h)'] # None
          BY DEF Awaited
        <4>1. pc[h] = "waiting" /\ flight[CacheKey(h)] # None
          BY <2>3 DEF Awaited, Flights, TypeOK
        <4>2. CacheKey(h) \in Key
          BY <4>1, UnderWay
        <4> QED
          BY <4>1, <4>2, <2>2, <2>3, NoneAssumption DEF TypeOK
      <3> QED
        BY <3>1, <3>2, <3>3 DEF Flights
    <2>4. CASE flight[k] # None /\ flight' = flight /\ pc' = [pc EXCEPT ![g] = "waiting"]
      <3>1. Led'
        BY <2>1, <2>2, <2>4 DEF Led, Flights, Leading, TypeOK
      <3>2. Manned'
        BY <2>1, <2>2, <2>4 DEF Manned, Flights, Leading, TypeOK
      <3>3. Awaited'
        BY <2>1, <2>2, <2>4 DEF Awaited, Flights, TypeOK
      <3> QED
        BY <3>1, <3>2, <3>3 DEF Flights
    <2> QED
      BY <1>4, <2>3, <2>4 DEF Join, Goto
  <1>5. ASSUME NEW g \in Goroutines, Deliver(g) PROVE Flights'
    <2> DEFINE k == CacheKey(g)
               served == Waiters(k) \union {g}
    <2>1. k \in Key /\ pc[g] = "delivering" /\ flight[k] = g
      BY <1>5, UnderWay DEF Deliver, Flights, Led, Leading
    <2>2. ASSUME NEW h \in Goroutines PROVE CacheKey(h)' = CacheKey(h)
      BY <1>5 DEF Deliver, plane, CacheKey, Do
    <2>3. /\ flight' = [flight EXCEPT ![k] = None]
          /\ \A h \in Goroutines : pc'[h] = IF h \in served THEN "answered" ELSE pc[h]
      BY <1>5 DEF Deliver
    <2>4. Led'
      BY <2>1, <2>2, <2>3 DEF Led, Flights, Leading, TypeOK
    <2>5. Manned'
      <3> SUFFICES ASSUME NEW j \in Key, NEW h \in Goroutines, flight'[j] = h
                   PROVE  pc'[h] \in Leading /\ CacheKey(h)' = j
        BY DEF Manned
      <3>1. j # k /\ flight[j] = h
        BY <2>1, <2>3, NoneAssumption DEF TypeOK
      <3>2. pc[h] \in Leading /\ CacheKey(h) = j
        BY <3>1 DEF Manned, Flights
      <3>3. h \notin served
        BY <3>1, <3>2 DEF Waiters, Leading
      <3> QED
        BY <2>2, <2>3, <3>1, <3>2, <3>3
    <2>6. Awaited'
      <3> SUFFICES ASSUME NEW h \in Goroutines, pc'[h] = "waiting"
                   PROVE  flight'[CacheKey(h)'] # None
        BY DEF Awaited
      <3>1. pc[h] = "waiting" /\ h \notin served
        BY <2>3
      <3>2. CacheKey(h) # k /\ CacheKey(h)' = CacheKey(h) /\ CacheKey(h) \in Key
        BY <3>1, <2>2, UnderWay DEF Waiters
      <3> QED
        BY <2>3, <3>1, <3>2 DEF Awaited, Flights, TypeOK
    <2> QED
      BY <2>4, <2>5, <2>6 DEF Flights
  <1>6. ASSUME \/ Publish \/ ReplaceManaged \/ ReplaceBlocked \/ UNCHANGED vars
               \/ \E n \in 1..MaxStates, k \in Key : Drop(n, k)
        PROVE  Flights'
    <2>1. flight' = flight /\ pc' = pc
      BY <1>6 DEF Publish, ReplaceManaged, ReplaceBlocked, Drop, vars
    <2> QED
      BY <2>1, FlightsQuiet
  <1> QED
    BY <1>1, <1>2, <1>3, <1>4, <1>5, <1>6 DEF Next, Serve

\* At the start nobody leads and nobody waits.
LEMMA FlightsInit == Init => Flights
  BY NoneAssumption DEF Init, Flights, Led, Manned, Awaited, Leading

\* Nobody waits for an exchange that is over.
THEOREM NobodyIsAbandoned == Spec => []NobodyAbandoned
  <1>1. TypeOK /\ Flights => NobodyAbandoned
    <2> SUFFICES ASSUME TypeOK, Flights, NEW g \in Goroutines, pc[g] = "waiting"
                 PROVE  \E leader \in Goroutines :
                            /\ pc[leader] \in Leading
                            /\ CacheKey(leader) = CacheKey(g)
      BY DEF NobodyAbandoned, Leading
    <2>1. CacheKey(g) \in Key /\ flight[CacheKey(g)] # None
      BY UnderWay DEF Flights, Awaited
    <2>2. flight[CacheKey(g)] \in Goroutines
      BY <2>1 DEF TypeOK
    <2> QED
      BY <2>1, <2>2 DEF Flights, Manned
  <1> QED
    BY <1>1, FlightsInit, TypeInit, TypeStep, FlightsStep, PTL DEF Spec

--------------------------------------------------------------------------------
(* What the caches hold.                                                       *)

\* What a goroutine has in hand belongs to its key: an answer from upstream was
\* asked for with the signatures the key says, and one about to be stored was
\* asked for under the goroutine's own settings.
InHand(g) ==
    /\ pc[g] = "exchange" => result[g].kind = "servfail"
    /\ pc[g] = "storing" =>
           result[g].kind = "upstream" /\ result[g].state = state[g] /\ result[g].do = Do(g)
    /\ pc[g] = "delivering" => result[g].kind \in {"servfail", "upstream"}
    /\ pc[g] \in {"delivering", "answered"} /\ result[g].kind = "upstream" =>
           result[g].do = Do(g)
Deliverable == \A g \in Goroutines : InHand(g)

CacheInv == CachesApart /\ NoNeedlessExchange /\ Deliverable

\* What the cache gives was kept for the question asked.
LEMMA CachedAnswer ==
    ASSUME TypeOK, CachesApart, NEW g \in Goroutines, pc[g] # "idle", Cached(g) # None
    PROVE  /\ Cached(g) \in Response
           /\ Cached(g).kind = "upstream" /\ Cached(g).state = state[g] /\ Cached(g).do = Do(g)
  <1>1. state[g] \in 1..MaxStates /\ CacheKey(g) \in Key /\ CacheKey(g).do = Do(g)
    BY UnderWay DEF CacheKey
  <1>2. Cached(g) \in Response
    BY <1>1 DEF TypeOK, Cached
  <1> QED
    BY <1>1, <1>2 DEF CachesApart, Cached

\* Which steps change a cache.
LEMMA CacheChanges ==
    ASSUME [Next]_vars, caches' # caches
    PROVE  \/ \E g \in Goroutines : Store(g)
           \/ \E n \in 1..MaxStates, k \in Key : Drop(n, k)
  BY DEF Next, Begin, Return, Serve, LookupLocal, LookupBlocked, LookupCache, Join, Lead, TryFails,
         TrySucceeds, GiveUp, Deliver, Publish, ReplaceManaged, ReplaceBlocked, vars

\* An answer is stored for the key and the settings of its leader, and nothing
\* else in the caches changes.
LEMMA Stored ==
    ASSUME TypeOK, NEW g \in Goroutines, Store(g),
           NEW n \in 1..MaxStates, NEW k \in Key, caches'[n][k] # caches[n][k]
    PROVE  n = state[g] /\ k = CacheKey(g) /\ caches'[n][k] = result[g]
  <1>1. state[g] \in 1..MaxStates /\ CacheKey(g) \in Key
    BY UnderWay DEF Store
  <1>2. caches' = [caches EXCEPT ![state[g]] = [caches[state[g]] EXCEPT ![CacheKey(g)] = result[g]]]
    BY <1>1 DEF Store, TypeOK
  <1>3. caches[n] \in [Key -> Response \union {None}]
    BY DEF TypeOK
  <1> QED
    BY <1>1, <1>2, <1>3 DEF TypeOK

\* What is dropped is gone, and nothing else in the caches changes.
LEMMA Dropped ==
    ASSUME TypeOK, NEW m \in 1..MaxStates, NEW j \in Key, Drop(m, j),
           NEW n \in 1..MaxStates, NEW k \in Key, caches'[n][k] # None
    PROVE  caches'[n][k] = caches[n][k]
  <1>1. caches' = [caches EXCEPT ![m] = [caches[m] EXCEPT ![j] = None]]
    BY DEF Drop, TypeOK
  <1>2. caches[n] \in [Key -> Response \union {None}]
    BY DEF TypeOK
  <1> QED
    BY <1>1, <1>2 DEF TypeOK

\* Every step keeps the caches apart.
LEMMA CachesApartStep ==
    ASSUME TypeOK, CacheInv, [Next]_vars
    PROVE  CachesApart'
  <1> SUFFICES ASSUME NEW n \in 1..MaxStates, NEW k \in Key, caches'[n][k] # None
               PROVE  /\ caches'[n][k].kind = "upstream"
                      /\ caches'[n][k].state = n
                      /\ caches'[n][k].do = k.do
    BY DEF CachesApart
  <1>1. CASE caches'[n][k] = caches[n][k]
    BY <1>1 DEF CacheInv, CachesApart
  <1>2. CASE caches'[n][k] # caches[n][k]
    <2>1. PICK g \in Goroutines : Store(g)
      BY <1>2, CacheChanges, Dropped
    <2>2. n = state[g] /\ k = CacheKey(g) /\ caches'[n][k] = result[g]
      BY <1>2, <2>1, Stored
    <2>3. k.do = Do(g)
      BY <2>2 DEF CacheKey
    <2> QED
      BY <2>1, <2>2, <2>3 DEF Store, CacheInv, Deliverable, InHand
  <1> QED
    BY <1>1, <1>2

\* Only Lead begins an exchange, and only after a look into the cache.
LEMMA ExchangeBegins ==
    ASSUME TypeOK, [Next]_vars, NEW g \in Goroutines, pc'[g] = "exchange", pc[g] # "exchange"
    PROVE  Lead(g) /\ Cached(g) = None
  <1>1. ASSUME NEW h \in Goroutines, Begin(h) \/ Return(h) PROVE FALSE
    BY <1>1 DEF Begin, Return, Goto, TypeOK
  <1>2. ASSUME NEW h \in Goroutines, LookupLocal(h) \/ LookupBlocked(h) \/ LookupCache(h) \/ Join(h)
        PROVE  FALSE
    BY <1>2 DEF LookupLocal, LookupBlocked, LookupCache, Join, Reply, Goto, TypeOK
  <1>3. ASSUME NEW h \in Goroutines, TryFails(h) \/ TrySucceeds(h) \/ GiveUp(h) \/ Store(h) \/ Deliver(h)
        PROVE  FALSE
    BY <1>3 DEF TryFails, TrySucceeds, GiveUp, Store, Deliver, Goto, TypeOK
  <1>4. ASSUME \/ Publish \/ ReplaceManaged \/ ReplaceBlocked \/ UNCHANGED vars
               \/ \E n \in 1..MaxStates, k \in Key : Drop(n, k)
        PROVE  FALSE
    BY <1>4 DEF Publish, ReplaceManaged, ReplaceBlocked, Drop, vars
  <1>5. ASSUME NEW h \in Goroutines, Lead(h) PROVE h = g /\ Cached(g) = None
    BY <1>5 DEF Lead, TakeTurn, Goto, TypeOK
  <1> QED
    BY <1>1, <1>2, <1>3, <1>4, <1>5 DEF Next, Serve

\* Every step keeps exchanges and caches apart: who stores for a key is its leader,
\* and has no exchange any more.
LEMMA NoNeedlessExchangeStep ==
    ASSUME TypeOK, TypeOK', Flights, CacheInv, [Next]_vars
    PROVE  NoNeedlessExchange'
  <1> SUFFICES ASSUME NEW g \in Goroutines, pc'[g] = "exchange"
               PROVE  caches'[state'[g]][CacheKey(g)'] = None
    BY DEF NoNeedlessExchange, Cached
  <1>1. pc[g] # "idle" /\ Cached(g) = None
    <2>1. CASE pc[g] = "exchange"
      BY <2>1 DEF CacheInv, NoNeedlessExchange
    <2>2. CASE pc[g] # "exchange"
      BY <2>2, ExchangeBegins DEF Lead
    <2> QED
      BY <2>1, <2>2
  <1>2. /\ state'[g] = state[g] /\ CacheKey(g)' = CacheKey(g)
        /\ state[g] \in 1..MaxStates /\ CacheKey(g) \in Key
    BY <1>1, Carried, UnderWay
  <1> DEFINE n == state[g]
             k == CacheKey(g)
  <1>3. CASE caches'[n][k] = caches[n][k]
    BY <1>1, <1>2, <1>3 DEF Cached
  <1>4. CASE caches'[n][k] # caches[n][k] /\ caches'[n][k] # None
    <2>1. PICK h \in Goroutines : Store(h)
      BY <1>2, <1>4, CacheChanges, Dropped
    <2>2. k = CacheKey(h) /\ pc[h] = "storing"
      BY <1>2, <1>4, <2>1, Stored DEF Store
    <2>3. pc[g] \in Leading
      <3>1. CASE pc[g] = "exchange"
        BY <3>1 DEF Leading
      <3>2. CASE pc[g] # "exchange"
        BY <3>2, ExchangeBegins DEF Lead, Leading
      <3> QED
        BY <3>1, <3>2
    <2>4. g = h
      BY <2>2, <2>3 DEF Flights, Led, Leading
    <2>5. pc'[g] = "delivering"
      BY <2>1, <2>4 DEF Store, Goto, TypeOK
    <2> QED
      BY <2>5
  <1> QED
    BY <1>2, <1>3, <1>4

\* Whoever does not move keeps what it has in hand.
LEMMA HandKept ==
    ASSUME TypeOK, Deliverable, [Next]_vars, NEW g \in Goroutines,
           pc'[g] = pc[g], result'[g] = result[g]
    PROVE  InHand(g)'
  <1>1. CASE pc[g] = "idle"
    BY <1>1 DEF InHand
  <1>2. CASE pc[g] # "idle"
    <2>1. state'[g] = state[g] /\ Do(g)' = Do(g)
      BY <1>2, Carried
    <2> QED
      BY <2>1 DEF Deliverable, InHand
  <1> QED
    BY <1>1, <1>2

\* A query that looks around, or returns, has something in hand only when it is answered.
LEMMA HandLooking ==
    ASSUME TypeOK, CacheInv, [Next]_vars, NEW g \in Goroutines,
           Begin(g) \/ Return(g) \/ LookupLocal(g) \/ LookupBlocked(g) \/ LookupCache(g) \/ Join(g)
    PROVE  InHand(g)'
  <1>1. CASE Begin(g) \/ Return(g) \/ Join(g)
    <2>1. pc'[g] \in {"arrived", "idle", "leading", "waiting"}
      BY <1>1 DEF Begin, Return, Join, Goto, TypeOK
    <2> QED
      BY <2>1 DEF InHand
  <1>2. CASE LookupLocal(g)
    <2>1. \/ pc'[g] = "foreign"
          \/ pc'[g] = "answered" /\ result'[g].kind \in {"zone", "local"}
      BY <1>2 DEF LookupLocal, Reply, Goto, Here, Answer, TypeOK
    <2> QED
      BY <2>1 DEF InHand
  <1>3. CASE LookupBlocked(g)
    <2>1. \/ pc'[g] = "lookup"
          \/ pc'[g] = "answered" /\ result'[g].kind \in {"blocked", "none"}
      BY <1>3 DEF LookupBlocked, Reply, Goto, Here, Answer, TypeOK
    <2> QED
      BY <2>1 DEF InHand
  <1>4. CASE LookupCache(g)
    <2>1. \/ pc'[g] = "missed"
          \/ pc'[g] = "answered" /\ Cached(g) # None /\ result'[g] = Cached(g)
      BY <1>4 DEF LookupCache, Reply, Goto, TypeOK
    <2>2. pc[g] = "lookup" /\ Do(g)' = Do(g)
      BY <1>4, <2>1, Carried DEF LookupCache
    <2> QED
      BY <2>1, <2>2, CachedAnswer DEF CacheInv, InHand
  <1> QED
    BY <1>1, <1>2, <1>3, <1>4

\* A leader has in hand what it asked for.
LEMMA HandLeading ==
    ASSUME TypeOK, CacheInv, [Next]_vars, NEW g \in Goroutines,
           Lead(g) \/ TryFails(g) \/ TrySucceeds(g) \/ GiveUp(g) \/ Store(g)
    PROVE  InHand(g)'
  <1>1. pc[g] \in Leading /\ pc'[g] \in Leading
    BY DEF Lead, TakeTurn, TryFails, TrySucceeds, GiveUp, Store, Goto, Leading, TypeOK
  <1>2. state'[g] = state[g] /\ Do(g)' = Do(g)
    BY <1>1, Carried DEF Leading
  <1>3. InHand(g)
    BY DEF CacheInv, Deliverable
  <1>4. CASE Lead(g)
    <2>1. \/ pc'[g] = "exchange" /\ result'[g].kind = "servfail"
          \/ pc'[g] = "delivering" /\ Cached(g) # None /\ result'[g] = Cached(g)
      BY <1>4 DEF Lead, TakeTurn, Goto, Answer, TypeOK
    <2>2. pc[g] = "leading"
      BY <1>4 DEF Lead
    <2> QED
      BY <1>2, <2>1, <2>2, CachedAnswer DEF CacheInv, InHand
  <1>5. CASE TryFails(g)
    <2>1. result[g] \in Response /\ pc[g] = "exchange"
      BY <1>5 DEF TryFails, TypeOK, Equipped
    <2>2. pc'[g] = "exchange" /\ result'[g].kind = result[g].kind
      BY <1>5, <2>1 DEF TryFails, TypeOK, Response
    <2> QED
      BY <1>3, <2>1, <2>2 DEF InHand
  <1>6. CASE TrySucceeds(g)
    <2>1. /\ pc'[g] = "storing"
          /\ result'[g].kind = "upstream" /\ result'[g].state = state[g] /\ result'[g].do = Do(g)
      BY <1>6 DEF TrySucceeds, Goto, Answer, TypeOK
    <2> QED
      BY <1>2, <2>1 DEF InHand
  <1>7. CASE GiveUp(g)
    <2>1. pc[g] = "exchange" /\ pc'[g] = "delivering" /\ result'[g] = result[g]
      BY <1>7 DEF GiveUp, Goto, TypeOK
    <2> QED
      BY <1>3, <2>1 DEF InHand
  <1>8. CASE Store(g)
    <2>1. pc[g] = "storing" /\ pc'[g] = "delivering" /\ result'[g] = result[g]
      BY <1>8 DEF Store, Goto, TypeOK, locals
    <2> QED
      BY <1>2, <1>3, <2>1 DEF InHand
  <1> QED
    BY <1>4, <1>5, <1>6, <1>7, <1>8

\* Every step leaves everybody with an answer to its own key.
LEMMA DeliverableStep ==
    ASSUME TypeOK, CacheInv, [Next]_vars
    PROVE  Deliverable'
  <1> SUFFICES ASSUME NEW h \in Goroutines PROVE InHand(h)'
    BY DEF Deliverable
  <1>0. Deliverable
    BY DEF CacheInv
  <1>1. ASSUME NEW g \in Goroutines,
               \/ Begin(g) \/ Return(g) \/ LookupLocal(g) \/ LookupBlocked(g) \/ LookupCache(g) \/ Join(g)
               \/ Lead(g) \/ TryFails(g) \/ TrySucceeds(g) \/ GiveUp(g) \/ Store(g)
        PROVE  InHand(h)'
    <2>1. CASE g = h
      BY <1>1, <2>1, HandLooking, HandLeading
    <2>2. CASE g # h
      <3>1. pc'[h] = pc[h]
        BY <1>1, <2>2 DEF Begin, Return, LookupLocal, LookupBlocked, LookupCache, Join, Lead, TakeTurn,
                          TryFails, TrySucceeds, GiveUp, Store, Reply, Goto, TypeOK
      <3>2. result'[h] = result[h]
        BY <1>1, <2>2 DEF Begin, Return, LookupLocal, LookupBlocked, LookupCache, Join, Lead, TakeTurn,
                          TryFails, TrySucceeds, GiveUp, Store, Reply, TypeOK, locals
      <3> QED
        BY <1>0, <3>1, <3>2, HandKept
    <2> QED
      BY <2>1, <2>2
  <1>2. ASSUME NEW g \in Goroutines, Deliver(g)
        PROVE  InHand(h)'
    <2> DEFINE served == Waiters(CacheKey(g)) \union {g}
    <2>1. CASE h \in served
      <3>1. pc'[h] = "answered" /\ result'[h] = result[g] /\ pc[g] = "delivering"
        BY <1>2, <2>1 DEF Deliver
      <3>2. pc[h] # "idle" /\ CacheKey(h) = CacheKey(g)
        BY <2>1, <3>1 DEF Waiters
      <3>3. Do(h)' = Do(h) /\ Do(h) = Do(g)
        BY <3>1, <3>2, Carried DEF CacheKey
      <3> QED
        BY <1>0, <3>1, <3>3 DEF Deliverable, InHand
    <2>2. CASE h \notin served
      <3>1. pc'[h] = pc[h] /\ result'[h] = result[h]
        BY <1>2, <2>2 DEF Deliver
      <3> QED
        BY <1>0, <3>1, HandKept
    <2> QED
      BY <2>1, <2>2
  <1>3. ASSUME \/ Publish \/ ReplaceManaged \/ ReplaceBlocked \/ UNCHANGED vars
               \/ \E n \in 1..MaxStates, k \in Key : Drop(n, k)
        PROVE  InHand(h)'
    <2>1. pc' = pc /\ result' = result
      BY <1>3 DEF Publish, ReplaceManaged, ReplaceBlocked, Drop, vars, locals
    <2> QED
      BY <1>0, <2>1, HandKept
  <1> QED
    BY <1>1, <1>2, <1>3 DEF Next, Serve

\* At the start the caches are empty and nobody has anything in hand.
LEMMA CacheInit == Init => CacheInv
  <1> SUFFICES ASSUME Init PROVE CacheInv
    OBVIOUS
  <1>1. CachesApart
    BY DEF Init, CachesApart
  <1>2. NoNeedlessExchange /\ Deliverable
    BY DEF Init, NoNeedlessExchange, Deliverable, InHand
  <1> QED
    BY <1>1, <1>2 DEF CacheInv

\* The caches, and what goroutines have in hand, belong to the keys and settings
\* they were asked for.
LEMMA CacheCorrect == Spec => []CacheInv
  <1>1. TypeOK /\ TypeOK' /\ Flights /\ CacheInv /\ [Next]_vars => CacheInv'
    BY CachesApartStep, NoNeedlessExchangeStep, DeliverableStep DEF CacheInv
  <1> QED
    BY <1>1, CacheInit, FlightsInit, TypeInit, TypeStep, FlightsStep, PTL DEF Spec

\* What a cache holds was answered to its own settings, for its own key.
THEOREM CachesAreApart == Spec => []CachesApart
  <1>1. CacheInv => CachesApart
    BY DEF CacheInv
  <1> QED
    BY <1>1, CacheCorrect, PTL

\* No upstream is asked for what the cache holds.
THEOREM NoExchangeIsNeedless == Spec => []NoNeedlessExchange
  <1>1. CacheInv => NoNeedlessExchange
    BY DEF CacheInv
  <1> QED
    BY <1>1, CacheCorrect, PTL

\* A query under settings with DNSSEC gets no answer from upstream without signatures.
THEOREM SignaturesAreAsked == Spec => []SignaturesAsked
  <1>1. TypeOK /\ CacheInv => SignaturesAsked
    <2> SUFFICES ASSUME TypeOK, CacheInv, NEW g \in Goroutines, pc[g] = "answered",
                        result[g].kind = "upstream", states[state[g]].dnssec
                 PROVE  result[g].do
      BY DEF SignaturesAsked
    <2>1. result[g].do = Do(g)
      BY DEF CacheInv, Deliverable, InHand
    <2>2. Do(g)
      BY DEF Do
    <2> QED
      BY <2>1, <2>2
  <1> QED
    BY <1>1, TypeInit, TypeStep, CacheCorrect, PTL DEF Spec

--------------------------------------------------------------------------------
(* What answers agree with.                                                    *)

\* What is true of a name now has been seen; who got past the zones saw the name
\* in none of them, who got past the lists saw it on none of them; and an answer
\* agrees with what was seen.
Current(g) ==
    /\ (query[g].name \in managed) \in seen[g].managed
    /\ (query[g].name \in blocked) \in seen[g].blocked
Passed(g) ==
    /\ pc[g] \notin {"arrived", "answered"} => FALSE \in seen[g].managed
    /\ pc[g] \notin {"arrived", "foreign", "answered"} => FALSE \in seen[g].blocked
Agrees(g) ==
    pc[g] = "answered" =>
        /\ (result[g].kind = "zone") \in seen[g].managed
        /\ result[g].kind \notin {"zone", "local"} =>
               (result[g].kind = "blocked") \in seen[g].blocked
Honest(g) == Current(g) /\ Passed(g) /\ Agrees(g)
Seen == \A g \in Goroutines : pc[g] # "idle" => Honest(g)

\* What was seen stays seen, and what becomes true is seen.
LEMMA SeenGrows ==
    ASSUME TypeOK, Seen, [Next]_vars, NEW g \in Goroutines, pc[g] # "idle", pc'[g] # "idle"
    PROVE  /\ seen[g].managed \subseteq seen'[g].managed
           /\ seen[g].blocked \subseteq seen'[g].blocked
           /\ Current(g)'
  <1>1. query'[g] = query[g] /\ Current(g)
    BY Carried DEF Seen, Honest
  <1>2. CASE seen'[g] = seen[g] /\ UNCHANGED <<managed, blocked>>
    BY <1>1, <1>2 DEF Current
  <1>3. CASE Witnessed
    <2>1. seen'[g] = [managed |-> seen[g].managed \union {(query[g].name \in managed')},
                      blocked |-> seen[g].blocked \union {(query[g].name \in blocked')}]
      BY <1>3 DEF Witnessed
    <2>2. /\ seen'[g].managed = seen[g].managed \union {(query[g].name \in managed')}
          /\ seen'[g].blocked = seen[g].blocked \union {(query[g].name \in blocked')}
      BY <2>1
    <2>3. /\ (query[g].name \in managed') \in seen'[g].managed
          /\ (query[g].name \in blocked') \in seen'[g].blocked
      BY <2>2, Zenon
    <2> QED
      BY <1>1, <2>2, <2>3 DEF Current
  <1>4. ASSUME NEW h \in Goroutines, Begin(h)
        PROVE  seen'[g] = seen[g] /\ UNCHANGED <<managed, blocked>>
    BY <1>4 DEF Begin, TypeOK, plane
  <1>5. ASSUME NEW h \in Goroutines, Return(h)
        PROVE  seen'[g] = seen[g] /\ UNCHANGED <<managed, blocked>>
    BY <1>5 DEF Return, Goto, TypeOK, plane
  <1>6. ASSUME NEW h \in Goroutines, Serve(h)
        PROVE  seen'[g] = seen[g] /\ UNCHANGED <<managed, blocked>>
    BY <1>6 DEF Serve, LookupLocal, LookupBlocked, LookupCache, Join, Lead, TryFails, TrySucceeds,
                GiveUp, Store, Deliver, plane
  <1>7. ASSUME \/ Publish \/ UNCHANGED vars \/ \E n \in 1..MaxStates, k \in Key : Drop(n, k)
        PROVE  seen'[g] = seen[g] /\ UNCHANGED <<managed, blocked>>
    BY <1>7 DEF Publish, Drop, vars, plane
  <1>8. CASE ReplaceManaged \/ ReplaceBlocked
    BY <1>8, <1>3 DEF ReplaceManaged, ReplaceBlocked
  <1> QED
    BY <1>2, <1>4, <1>5, <1>6, <1>7, <1>8 DEF Next

\* Who does not move, and who stays past the lists unanswered, still agrees with
\* what it has seen.
LEMMA SeenKept ==
    ASSUME TypeOK, Seen, [Next]_vars, NEW g \in Goroutines, pc[g] # "idle",
           \/ pc'[g] = pc[g] /\ result'[g] = result[g]
           \/ /\ pc[g] \notin {"arrived", "foreign", "answered"}
              /\ pc'[g] \notin {"idle", "answered"}
    PROVE  Honest(g)'
  <1>1. /\ seen[g].managed \subseteq seen'[g].managed
        /\ seen[g].blocked \subseteq seen'[g].blocked
        /\ Current(g)'
    BY SeenGrows
  <1>2. Passed(g) /\ Agrees(g)
    BY DEF Seen, Honest
  <1>3. Passed(g)'
    BY <1>1, <1>2 DEF Passed
  <1>4. Agrees(g)'
    <2>1. CASE pc'[g] = pc[g] /\ result'[g] = result[g] /\ pc[g] = "answered"
      BY <1>1, <1>2, <2>1 DEF Agrees
    <2>2. CASE pc'[g] # "answered"
      BY <2>2 DEF Agrees
    <2> QED
      BY <2>1, <2>2
  <1> QED
    BY <1>1, <1>3, <1>4 DEF Honest

\* An answer from upstream, or a failure, agrees with what was seen: the name was
\* neither managed nor blocked when the query got past.
LEMMA SeenAnswered ==
    ASSUME TypeOK, Seen, [Next]_vars, NEW g \in Goroutines,
           pc[g] \notin {"idle", "arrived", "foreign", "answered"},
           pc'[g] = "answered", result'[g].kind \in {"servfail", "upstream"}
    PROVE  Honest(g)'
  <1>1. /\ seen[g].managed \subseteq seen'[g].managed
        /\ seen[g].blocked \subseteq seen'[g].blocked
        /\ Current(g)'
    BY SeenGrows
  <1>2. FALSE \in seen'[g].managed /\ FALSE \in seen'[g].blocked
    BY <1>1 DEF Seen, Honest, Passed
  <1>3. (result'[g].kind = "zone") = FALSE /\ (result'[g].kind = "blocked") = FALSE
    OBVIOUS
  <1>4. Agrees(g)'
    BY <1>2, <1>3 DEF Agrees
  <1>5. Passed(g)'
    BY DEF Passed
  <1> QED
    BY <1>1, <1>4, <1>5 DEF Honest

\* A query that arrives, or looks into the zones, the records and the lists,
\* agrees with them.
LEMMA SeenLooking ==
    ASSUME TypeOK, TypeOK', Seen, [Next]_vars, NEW g \in Goroutines,
           Begin(g) \/ LookupLocal(g) \/ LookupBlocked(g)
    PROVE  Honest(g)'
  <1>1. CASE Begin(g)
    <2>1. PICK q \in Question : query'[g] = q /\ seen'[g] = Facts(q.name)
      BY <1>1 DEF Begin, TypeOK
    <2>2. pc'[g] = "arrived" /\ UNCHANGED <<managed, blocked>>
      BY <1>1 DEF Begin, Goto, TypeOK, plane
    <2>3. seen'[g].managed = {(q.name \in managed)} /\ seen'[g].blocked = {(q.name \in blocked)}
      <3>1. /\ Facts(q.name).managed = {(q.name \in managed)}
            /\ Facts(q.name).blocked = {(q.name \in blocked)}
        BY DEF Facts
      <3>2. seen'[g].managed = Facts(q.name).managed /\ seen'[g].blocked = Facts(q.name).blocked
        BY <2>1
      <3> QED
        BY <3>1, <3>2, Zenon
    <2>4. (q.name \in managed) \in {(q.name \in managed)} /\ (q.name \in blocked) \in {(q.name \in blocked)}
      BY Zenon
    <2>5. Current(g)'
      BY <2>1, <2>2, <2>3, <2>4, Zenon DEF Current
    <2> QED
      BY <2>2, <2>5 DEF Honest, Passed, Agrees
  <1>2. CASE LookupLocal(g)
    <2>1. pc[g] = "arrived" /\ pc'[g] # "idle" /\ seen'[g] = seen[g] /\ UNCHANGED managed
      BY <1>2 DEF LookupLocal, Reply, Goto, TypeOK, plane
    <2>2. Current(g)' /\ Current(g)
      BY <2>1, SeenGrows DEF Seen, Honest
    <2>3. CASE query[g].name \in managed
      <3>1. pc'[g] = "answered" /\ result'[g].kind = "zone"
        BY <1>2, <2>3 DEF LookupLocal, Reply, Goto, Here, Answer, TypeOK
      <3>2. TRUE \in seen'[g].managed
        <4>1. (query[g].name \in managed) = TRUE
          BY <2>3
        <4> QED
          BY <4>1, <2>1, <2>2, Zenon DEF Current
      <3>3. (result'[g].kind = "zone") = TRUE
        BY <3>1
      <3> QED
        BY <2>2, <3>1, <3>2, <3>3 DEF Honest, Passed, Agrees
    <2>4. CASE query[g].name \notin managed
      <3>1. \/ pc'[g] = "foreign"
            \/ pc'[g] = "answered" /\ result'[g].kind = "local"
        BY <1>2, <2>4 DEF LookupLocal, Reply, Goto, Here, Answer, TypeOK
      <3>2. FALSE \in seen'[g].managed
        <4>1. (query[g].name \in managed) = FALSE
          BY <2>4
        <4> QED
          BY <4>1, <2>1, <2>2, Zenon DEF Current
      <3>3. result'[g].kind = "local" => (result'[g].kind = "zone") = FALSE
        OBVIOUS
      <3> QED
        BY <2>2, <3>1, <3>2, <3>3 DEF Honest, Passed, Agrees
    <2> QED
      BY <2>3, <2>4
  <1>3. CASE LookupBlocked(g)
    <2>1. pc[g] = "foreign" /\ pc'[g] # "idle" /\ seen'[g] = seen[g] /\ UNCHANGED blocked
      BY <1>3 DEF LookupBlocked, Reply, Goto, TypeOK, plane
    <2>2. Current(g)' /\ Current(g) /\ FALSE \in seen'[g].managed
      BY <2>1, SeenGrows DEF Seen, Honest, Passed
    <2>3. CASE query[g].name \in blocked
      <3>1. pc'[g] = "answered" /\ result'[g].kind = "blocked"
        BY <1>3, <2>3 DEF LookupBlocked, Reply, Goto, Here, Answer, TypeOK
      <3>2. TRUE \in seen'[g].blocked
        <4>1. (query[g].name \in blocked) = TRUE
          BY <2>3
        <4> QED
          BY <4>1, <2>1, <2>2, Zenon DEF Current
      <3>3. (result'[g].kind = "blocked") = TRUE /\ (result'[g].kind = "zone") = FALSE
        BY <3>1
      <3> QED
        BY <2>2, <3>1, <3>2, <3>3 DEF Honest, Passed, Agrees
    <2>4. CASE query[g].name \notin blocked
      <3>1. \/ pc'[g] = "lookup"
            \/ pc'[g] = "answered" /\ result'[g].kind = "none"
        BY <1>3, <2>4 DEF LookupBlocked, Reply, Goto, Here, Answer, TypeOK
      <3>2. FALSE \in seen'[g].blocked
        <4>1. (query[g].name \in blocked) = FALSE
          BY <2>4
        <4> QED
          BY <4>1, <2>1, <2>2, Zenon DEF Current
      <3>3. result'[g].kind = "none" =>
                (result'[g].kind = "blocked") = FALSE /\ (result'[g].kind = "zone") = FALSE
        OBVIOUS
      <3> QED
        BY <2>2, <3>1, <3>2, <3>3 DEF Honest, Passed, Agrees
    <2> QED
      BY <2>3, <2>4
  <1> QED
    BY <1>1, <1>2, <1>3

\* Every step leaves answers in agreement with what was seen.
LEMMA SeenStep ==
    ASSUME TypeOK, TypeOK', CacheInv, Seen, [Next]_vars
    PROVE  Seen'
  <1> SUFFICES ASSUME NEW h \in Goroutines, pc'[h] # "idle" PROVE Honest(h)'
    BY DEF Seen
  <1>1. ASSUME NEW g \in Goroutines, Begin(g) \/ LookupLocal(g) \/ LookupBlocked(g)
        PROVE  Honest(h)'
    <2>1. CASE g = h
      BY <1>1, <2>1, SeenLooking
    <2>2. CASE g # h
      <3>1. pc'[h] = pc[h] /\ result'[h] = result[h]
        BY <1>1, <2>2 DEF Begin, LookupLocal, LookupBlocked, Reply, Goto, TypeOK
      <3> QED
        BY <3>1, SeenKept
    <2> QED
      BY <2>1, <2>2
  <1>2. ASSUME NEW g \in Goroutines, LookupCache(g)
        PROVE  Honest(h)'
    <2>1. CASE g = h /\ Cached(g) # None
      <3>1. pc[h] = "lookup" /\ pc'[h] = "answered" /\ result'[h] = Cached(h)
        BY <1>2, <2>1 DEF LookupCache, Reply, Goto, TypeOK
      <3> QED
        BY <2>1, <3>1, CachedAnswer, SeenAnswered DEF CacheInv
    <2>2. CASE g = h /\ Cached(g) = None
      <3>1. pc[h] = "lookup" /\ pc'[h] = "missed"
        BY <1>2, <2>2 DEF LookupCache, Goto, TypeOK
      <3> QED
        BY <3>1, SeenKept
    <2>3. CASE g # h
      <3>1. pc'[h] = pc[h] /\ result'[h] = result[h]
        BY <1>2, <2>3 DEF LookupCache, Reply, Goto, TypeOK
      <3> QED
        BY <3>1, SeenKept
    <2> QED
      BY <2>1, <2>2, <2>3
  <1>3. ASSUME NEW g \in Goroutines,
               Join(g) \/ Lead(g) \/ TryFails(g) \/ TrySucceeds(g) \/ GiveUp(g) \/ Store(g)
        PROVE  Honest(h)'
    <2>1. CASE g = h
      <3>1. /\ pc[h] \notin {"idle", "arrived", "foreign", "answered"}
            /\ pc'[h] # "answered"
        BY <1>3, <2>1 DEF Join, Lead, TakeTurn, TryFails, TrySucceeds, GiveUp, Store, Goto, TypeOK
      <3> QED
        BY <3>1, SeenKept
    <2>2. CASE g # h
      <3>1. pc'[h] = pc[h]
        BY <1>3, <2>2 DEF Join, Lead, TakeTurn, TryFails, TrySucceeds, GiveUp, Store, Goto, TypeOK
      <3>2. result'[h] = result[h]
        BY <1>3, <2>2 DEF Join, Lead, TakeTurn, TryFails, TrySucceeds, GiveUp, Store, TypeOK, locals
      <3> QED
        BY <3>1, <3>2, SeenKept
    <2> QED
      BY <2>1, <2>2
  <1>4. ASSUME NEW g \in Goroutines, Deliver(g)
        PROVE  Honest(h)'
    <2> DEFINE served == Waiters(CacheKey(g)) \union {g}
    <2>1. CASE h \in served
      <3>1. pc'[h] = "answered" /\ result'[h] = result[g] /\ pc[g] = "delivering"
        BY <1>4, <2>1 DEF Deliver
      <3>2. pc[h] \in {"waiting", "delivering"}
        BY <2>1, <3>1 DEF Waiters
      <3>3. result[g].kind \in {"servfail", "upstream"}
        BY <3>1 DEF CacheInv, Deliverable, InHand
      <3> QED
        BY <3>1, <3>2, <3>3, SeenAnswered
    <2>2. CASE h \notin served
      <3>1. pc'[h] = pc[h] /\ result'[h] = result[h]
        BY <1>4, <2>2 DEF Deliver
      <3> QED
        BY <3>1, SeenKept
    <2> QED
      BY <2>1, <2>2
  <1>5. ASSUME NEW g \in Goroutines, Return(g)
        PROVE  Honest(h)'
    <2>1. g # h /\ pc'[h] = pc[h] /\ result'[h] = result[h]
      BY <1>5 DEF Return, Goto, TypeOK
    <2> QED
      BY <2>1, SeenKept
  <1>6. ASSUME \/ Publish \/ ReplaceManaged \/ ReplaceBlocked \/ UNCHANGED vars
               \/ \E n \in 1..MaxStates, k \in Key : Drop(n, k)
        PROVE  Honest(h)'
    <2>1. pc' = pc /\ result' = result
      BY <1>6 DEF Publish, ReplaceManaged, ReplaceBlocked, Drop, vars, locals
    <2> QED
      BY <2>1, SeenKept
  <1> QED
    BY <1>1, <1>2, <1>3, <1>4, <1>5, <1>6 DEF Next, Serve

\* An answer agrees with the zones, and with the lists, of some moment since the
\* query arrived.
THEOREM AnswersAreOfTheirTime == Spec => []AnswersOfTheirTime
  <1>1. Init => Seen
    BY DEF Init, Seen
  <1>2. Seen => AnswersOfTheirTime
    BY DEF Seen, Honest, Agrees, AnswersOfTheirTime
  <1> QED
    BY <1>1, <1>2, TypeInit, TypeStep, CacheCorrect, SeenStep, PTL DEF Spec

--------------------------------------------------------------------------------
(* Failures.  An exchange takes its turns at the upstreams one after the       *)
(* other, from a start that only depends on the counter; as many turns as      *)
(* there are upstreams reach all of them.                                      *)

LEMMA Remainder ==
    ASSUME NEW q \in Int, NEW n \in Nat, NEW c \in 0..(n - 1)
    PROVE  (q * n + c) % n = c
  <1> DEFINE x == q * n + c
             d == q - x \div n
  <1>1. x \in Int /\ n > 0
    BY SMT
  <1>2. x = (x \div n) * n + (x % n) /\ x \div n \in Int /\ x % n \in 0..(n - 1)
    BY <1>1, Z3T(30)
  <1>3. d \in Int /\ d * n = (x % n) - c
    BY <1>2, SMT
  <1>4. d = 0
    <2> HIDE DEF x, d
    <2>1. (x % n) - c < n /\ (x % n) - c > -n
      BY <1>1, <1>2
    <2>2. CASE d >= 1
      <3>1. d * n >= n
        BY <1>1, <1>3, <2>2, Z3T(30)
      <3> QED
        BY <1>3, <2>1, <3>1
    <2>3. CASE d <= -1
      <3>1. d * n <= -n
        BY <1>1, <1>3, <2>3, Z3T(30)
      <3> QED
        BY <1>3, <2>1, <3>1
    <2> QED
      BY <1>3, <2>2, <2>3
  <1> QED
    BY <1>2, <1>3, <1>4

\* Some turn after the start falls on every place.
LEMMA TurnOf ==
    ASSUME NEW s \in Nat, NEW n \in Nat, NEW c \in 0..(n - 1)
    PROVE  \E j \in 0..(n - 1) : (s + j) % n = c
  <1> DEFINE q == s \div n
             r == s % n
  <1>1. q \in Int /\ r \in 0..(n - 1) /\ s = q * n + r
    BY Z3T(30)
  <1> HIDE DEF q, r
  <1>2. CASE c >= r
    <2>1. c - r \in 0..(n - 1) /\ s + (c - r) = q * n + c
      BY <1>1, <1>2
    <2> QED
      BY <1>1, <2>1, Remainder
  <1>3. CASE c < r
    <2>1. c - r + n \in 0..(n - 1) /\ s + (c - r + n) = (q + 1) * n + c /\ q + 1 \in Int
      BY <1>1, <1>3, Z3T(30)
    <2>2. ((q + 1) * n + c) % n = c
      BY <2>1, Remainder
    <2> QED
      BY <2>1, <2>2
  <1> QED
    BY <1>1, <1>2, <1>3

Servers(n)   == {Upstream(n)[i] : i \in DOMAIN Upstream(n)}
Reached(g, count) == {CandidateOf(g, start[g] + j) : j \in 0..(count - 1)}

\* What a goroutine knows of failures: during an exchange those of the turns it
\* took, afterwards those of all upstreams of the settings it asked under.
Failing(g) ==
    /\ pc[g] = "exchange" =>
           /\ result[g].state = state[g]
           /\ tried[g] <= Len(Upstream(state[g]))
           /\ result[g].failed = Reached(g, tried[g])
    /\ pc[g] \in {"delivering", "answered"} /\ result[g].kind = "servfail" =>
           /\ result[g].state \in DOMAIN states
           /\ result[g].failed = Servers(result[g].state)
FailuresInv == \A g \in Goroutines : Failing(g)

\* One turn for each upstream reaches all.
LEMMA AllReached ==
    ASSUME TypeOK, NEW g \in Goroutines, pc[g] # "idle"
    PROVE  Reached(g, Len(Upstream(state[g]))) = Servers(state[g])
  <1> DEFINE servers == Upstream(state[g])
             n == Len(servers)
             s == start[g]
  <1>1. servers \in Seq(Upstreams) /\ n \in Nat /\ s \in Nat /\ DOMAIN servers = 1..n
    BY UnderWay, BoundsAssumption DEF TypeOK
  <1>2. Reached(g, n) = {servers[((s + j) % n) + 1] : j \in 0..(n - 1)}
    BY DEF Reached, CandidateOf
  <1>3. Servers(state[g]) = {servers[i] : i \in 1..n}
    BY <1>1 DEF Servers
  <1> HIDE DEF servers, n, s
  <1>4. ASSUME NEW j \in 0..(n - 1) PROVE ((s + j) % n) + 1 \in 1..n
    BY <1>1
  <1>5. ASSUME NEW i \in 1..n PROVE \E j \in 0..(n - 1) : ((s + j) % n) + 1 = i
    <2>1. i - 1 \in 0..(n - 1)
      BY <1>1
    <2>2. PICK j \in 0..(n - 1) : (s + j) % n = i - 1
      BY <1>1, <2>1, TurnOf
    <2> QED
      BY <2>1, <2>2
  <1>6. {servers[((s + j) % n) + 1] : j \in 0..(n - 1)} = {servers[i] : i \in 1..n}
    BY <1>4, <1>5, Zenon
  <1> QED
    BY <1>2, <1>3, <1>6 DEF n, servers

\* Settings that were published stay what they were.
LEMMA StatesKept ==
    ASSUME TypeOK, [Next]_vars, NEW n \in DOMAIN states
    PROVE  n \in DOMAIN states' /\ Upstream(n)' = Upstream(n) /\ Servers(n)' = Servers(n)
  <1>1. states' = states \/ \E s \in Settings : states' = Append(states, s)
    BY DEF Next, Begin, Return, Serve, LookupLocal, LookupBlocked, LookupCache, Join, Lead, TryFails,
           TrySucceeds, GiveUp, Store, Deliver, Publish, ReplaceManaged, ReplaceBlocked, Drop, vars, plane
  <1>2. states \in Seq(Settings)
    BY DEF TypeOK
  <1>3. n \in DOMAIN states' /\ states'[n] = states[n]
    BY <1>1, <1>2
  <1> QED
    BY <1>3 DEF Upstream, Servers

\* Whoever does not move knows what it knew.
LEMMA FailingKept ==
    ASSUME TypeOK, FailuresInv, [Next]_vars, NEW g \in Goroutines,
           pc'[g] = pc[g], result'[g] = result[g],
           pc[g] = "exchange" => start'[g] = start[g] /\ tried'[g] = tried[g]
    PROVE  Failing(g)'
  <1>1. CASE pc[g] = "exchange"
    <2>1. state'[g] = state[g] /\ state[g] \in DOMAIN states
      BY <1>1, Carried, UnderWay
    <2>2. Upstream(state[g])' = Upstream(state[g])
      BY <2>1, StatesKept
    <2>3. Reached(g, tried[g])' = Reached(g, tried[g])
      BY <1>1, <2>1, <2>2 DEF Reached, CandidateOf, Upstream
    <2> QED
      BY <1>1, <2>1, <2>2, <2>3 DEF FailuresInv, Failing, Upstream
  <1>2. CASE pc[g] \in {"delivering", "answered"} /\ result[g].kind = "servfail"
    <2>1. result[g].state \in DOMAIN states /\ result[g].failed = Servers(result[g].state)
      BY <1>2 DEF FailuresInv, Failing
    <2>2. result[g].state \in DOMAIN states' /\ Servers(result[g].state)' = Servers(result[g].state)
      BY <2>1, StatesKept
    <2> QED
      BY <1>2, <2>1, <2>2 DEF Failing, Servers, Upstream
  <1>3. CASE pc[g] # "exchange" /\ ~ (pc[g] \in {"delivering", "answered"} /\ result[g].kind = "servfail")
    BY <1>3 DEF Failing
  <1> QED
    BY <1>1, <1>2, <1>3

\* A query fails only in an exchange: no lookup fails.
LEMMA FailingLooking ==
    ASSUME TypeOK, CacheInv, NEW g \in Goroutines,
           Begin(g) \/ Return(g) \/ LookupLocal(g) \/ LookupBlocked(g) \/ LookupCache(g) \/ Join(g)
    PROVE  Failing(g)'
  <1>1. CASE Begin(g) \/ Return(g) \/ Join(g)
    <2>1. pc'[g] \in {"arrived", "idle", "leading", "waiting"}
      BY <1>1 DEF Begin, Return, Join, Goto, TypeOK
    <2> QED
      BY <2>1 DEF Failing
  <1>2. CASE LookupLocal(g) \/ LookupBlocked(g)
    <2>1. \/ pc'[g] \in {"foreign", "lookup"}
          \/ pc'[g] = "answered" /\ result'[g].kind \in {"zone", "local", "blocked", "none"}
      BY <1>2 DEF LookupLocal, LookupBlocked, Reply, Goto, Here, Answer, TypeOK
    <2> QED
      BY <2>1 DEF Failing
  <1>3. CASE LookupCache(g)
    <2>1. \/ pc'[g] = "missed"
          \/ pc'[g] = "answered" /\ Cached(g) # None /\ result'[g] = Cached(g) /\ pc[g] # "idle"
      BY <1>3 DEF LookupCache, Reply, Goto, TypeOK
    <2> QED
      BY <2>1, CachedAnswer DEF CacheInv, Failing
  <1> QED
    BY <1>1, <1>2, <1>3

\* A leader has failed at the upstreams whose turn it was, and gives up after all.
LEMMA FailingLeading ==
    ASSUME TypeOK, CacheInv, FailuresInv, [Next]_vars, NEW g \in Goroutines,
           Lead(g) \/ TryFails(g) \/ TrySucceeds(g) \/ GiveUp(g) \/ Store(g)
    PROVE  Failing(g)'
  <1>1. pc[g] # "idle" /\ pc'[g] # "idle"
    BY DEF Lead, TakeTurn, TryFails, TrySucceeds, GiveUp, Store, Goto, TypeOK
  <1>2. state'[g] = state[g] /\ state[g] \in DOMAIN states /\ states' = states
    <2>1. states' = states
      BY DEF Lead, TryFails, TrySucceeds, GiveUp, Store, plane
    <2> QED
      BY <1>1, <2>1, Carried, UnderWay
  <1>3. CASE Lead(g)
    <2>1. CASE Cached(g) # None
      <3>1. pc'[g] = "delivering" /\ result'[g].kind = "upstream"
        BY <1>1, <1>3, <2>1, CachedAnswer DEF Lead, Goto, CacheInv, TypeOK
      <3> QED
        BY <3>1 DEF Failing
    <2>2. CASE Cached(g) = None
      <3>1. /\ pc'[g] = "exchange" /\ tried'[g] = 0
            /\ result'[g].state = state[g] /\ result'[g].failed = {}
        BY <1>3, <2>2 DEF Lead, TakeTurn, Goto, Answer, TypeOK
      <3>2. Len(Upstream(state[g])) \in Nat
        BY <1>1, UnderWay
      <3>3. Reached(g, tried[g])' = {}
        BY <3>1 DEF Reached
      <3> QED
        BY <1>2, <3>1, <3>2, <3>3 DEF Failing, Upstream
    <2> QED
      BY <2>1, <2>2
  <1>4. CASE TryFails(g)
    <2>1. /\ pc[g] = "exchange" /\ result[g] \in Response
          /\ tried[g] < Len(Upstream(state[g])) /\ tried[g] \in Nat /\ start[g] \in Nat
      BY <1>4, BoundsAssumption DEF TryFails, TypeOK, Equipped
    <2>2. /\ pc'[g] = "exchange" /\ start'[g] = start[g] /\ tried'[g] = tried[g] + 1
          /\ result'[g].state = result[g].state
          /\ result'[g].failed = result[g].failed \union {Candidate(g)}
      BY <1>4, <2>1 DEF TryFails, TypeOK, Response
    <2>3. Reached(g, tried[g])' = Reached(g, tried[g] + 1)
      BY <1>2, <2>2 DEF Reached, CandidateOf, Upstream
    <2>4. 0..((tried[g] + 1) - 1) = (0..(tried[g] - 1)) \union {tried[g]}
      BY <2>1
    <2>5. Reached(g, tried[g] + 1) = Reached(g, tried[g]) \union {Candidate(g)}
      BY <2>4, Zenon DEF Reached, Candidate
    <2>6. tried[g] + 1 <= Len(Upstream(state[g]))
      BY <1>1, <2>1, UnderWay
    <2> QED
      BY <1>2, <2>1, <2>2, <2>3, <2>5, <2>6 DEF Failing, FailuresInv, Upstream
  <1>5. CASE TrySucceeds(g)
    <2>1. pc'[g] = "storing"
      BY <1>5 DEF TrySucceeds, Goto, TypeOK
    <2> QED
      BY <2>1 DEF Failing
  <1>6. CASE GiveUp(g)
    <2>1. /\ pc[g] = "exchange" /\ tried[g] = Len(Upstream(state[g]))
          /\ pc'[g] = "delivering" /\ result'[g] = result[g]
      BY <1>6 DEF GiveUp, Goto, TypeOK
    <2>2. result[g].state = state[g] /\ result[g].failed = Servers(state[g])
      BY <1>1, <2>1, AllReached DEF FailuresInv, Failing
    <2> QED
      BY <1>2, <2>1, <2>2 DEF Failing, Servers, Upstream
  <1>7. CASE Store(g)
    <2>1. pc'[g] = "delivering" /\ result'[g].kind = "upstream"
      BY <1>7 DEF Store, Goto, TypeOK, locals, CacheInv, Deliverable, InHand
    <2> QED
      BY <2>1 DEF Failing
  <1> QED
    BY <1>3, <1>4, <1>5, <1>6, <1>7

\* Every step keeps what is known of failures.
LEMMA FailuresStep ==
    ASSUME TypeOK, CacheInv, FailuresInv, [Next]_vars
    PROVE  FailuresInv'
  <1> SUFFICES ASSUME NEW h \in Goroutines PROVE Failing(h)'
    BY DEF FailuresInv
  <1>1. ASSUME NEW g \in Goroutines,
               \/ Begin(g) \/ Return(g) \/ LookupLocal(g) \/ LookupBlocked(g) \/ LookupCache(g) \/ Join(g)
               \/ Lead(g) \/ TryFails(g) \/ TrySucceeds(g) \/ GiveUp(g) \/ Store(g)
        PROVE  Failing(h)'
    <2>1. CASE g = h
      BY <1>1, <2>1, FailingLooking, FailingLeading
    <2>2. CASE g # h
      <3>1. pc'[h] = pc[h] /\ start'[h] = start[h] /\ tried'[h] = tried[h]
        BY <1>1, <2>2 DEF Begin, Return, LookupLocal, LookupBlocked, LookupCache, Join, Lead, TakeTurn,
                          TryFails, TrySucceeds, GiveUp, ForgetTurn, Store, Reply, Goto, TypeOK, locals
      <3>2. result'[h] = result[h]
        BY <1>1, <2>2 DEF Begin, Return, LookupLocal, LookupBlocked, LookupCache, Join, Lead, TakeTurn,
                          TryFails, TrySucceeds, GiveUp, Store, Reply, TypeOK, locals
      <3> QED
        BY <3>1, <3>2, FailingKept
    <2> QED
      BY <2>1, <2>2
  <1>2. ASSUME NEW g \in Goroutines, Deliver(g)
        PROVE  Failing(h)'
    <2> DEFINE served == Waiters(CacheKey(g)) \union {g}
    <2>1. CASE h \in served
      <3>1. pc'[h] = "answered" /\ result'[h] = result[g] /\ pc[g] = "delivering"
        BY <1>2, <2>1 DEF Deliver
      <3>2. CASE result[g].kind = "servfail"
        <4>1. result[g].state \in DOMAIN states /\ result[g].failed = Servers(result[g].state)
          BY <3>1, <3>2 DEF FailuresInv, Failing
        <4>2. \A n \in DOMAIN states : n \in DOMAIN states' /\ Servers(n)' = Servers(n)
          BY StatesKept
        <4>3. result'[h].state \in DOMAIN states' /\ result'[h].failed = Servers(result[h].state)'
          BY <3>1, <4>1, <4>2 DEF Servers, Upstream
        <4> QED
          BY <3>1, <4>3 DEF Failing
      <3>3. CASE result[g].kind # "servfail"
        BY <3>1, <3>3 DEF Failing
      <3> QED
        BY <3>2, <3>3
    <2>2. CASE h \notin served
      <3>1. pc'[h] = pc[h] /\ result'[h] = result[h] /\ start' = start /\ tried' = tried
        BY <1>2, <2>2 DEF Deliver
      <3> QED
        BY <3>1, FailingKept
    <2> QED
      BY <2>1, <2>2
  <1>3. ASSUME \/ Publish \/ ReplaceManaged \/ ReplaceBlocked \/ UNCHANGED vars
               \/ \E n \in 1..MaxStates, k \in Key : Drop(n, k)
        PROVE  Failing(h)'
    <2>1. pc' = pc /\ result' = result /\ start' = start /\ tried' = tried
      BY <1>3 DEF Publish, ReplaceManaged, ReplaceBlocked, Drop, vars, locals
    <2> QED
      BY <2>1, FailingKept
  <1> QED
    BY <1>1, <1>2, <1>3 DEF Next, Serve

\* A query fails only after every upstream of its settings has failed in one and
\* the same exchange (resolve), whatever other exchanges do to the counter.
THEOREM FailuresAreOfAll == Spec => []FailsAfterAll
  <1>1. Init => FailuresInv
    BY DEF Init, FailuresInv, Failing
  <1>2. FailuresInv => FailsAfterAll
    BY DEF FailuresInv, Failing, Servers, FailsAfterAll
  <1> QED
    BY <1>1, <1>2, FailuresStep, TypeCorrect, CacheCorrect, PTL DEF Spec

--------------------------------------------------------------------------------
(* The answers permitted: Resolver implements QueryAnswers.                    *)

\* Who got past the local records is asked for none of them; who got past the
\* lists has upstreams; and what a leader has in hand comes from settings that
\* have upstreams.
Unrecorded(g) == pc[g] \notin {"idle", "arrived", "answered"} =>
    query[g].name \notin states[state[g]].records
Forwarded(g) == pc[g] \notin {"idle", "arrived", "foreign", "answered"} =>
    Upstream(state[g]) # <<>>
Sourced(g) == pc[g] \in {"exchange", "storing", "delivering"} =>
    result[g].state \in DOMAIN states /\ Upstream(result[g].state) # <<>>
Outbound(g) == Unrecorded(g) /\ Forwarded(g) /\ Sourced(g)
AnswersInv == \A g \in Goroutines : Outbound(g)

\* Whoever does not move, and whoever waits, stays where it may be.
LEMMA OutboundKept ==
    ASSUME TypeOK, AnswersInv, [Next]_vars, NEW g \in Goroutines,
           pc'[g] = pc[g] /\ result'[g] = result[g]
    PROVE  Outbound(g)'
  <1>1. CASE pc[g] \in {"idle", "answered"}
    BY <1>1 DEF Outbound, Unrecorded, Forwarded, Sourced
  <1>2. CASE pc[g] \notin {"idle", "answered"}
    <2>1. /\ query'[g] = query[g] /\ state'[g] = state[g]
          /\ states'[state[g]] = states[state[g]] /\ state[g] \in DOMAIN states
      BY <1>2, Carried, UnderWay
    <2>2. Unrecorded(g)' /\ Forwarded(g)'
      BY <2>1 DEF AnswersInv, Outbound, Unrecorded, Forwarded, Upstream
    <2>3. Sourced(g)'
      <3>1. CASE pc[g] \in {"exchange", "storing", "delivering"}
        <4>1. result[g].state \in DOMAIN states /\ Upstream(result[g].state) # <<>>
          BY <3>1 DEF AnswersInv, Outbound, Sourced
        <4>2. result[g].state \in DOMAIN states' /\ Upstream(result[g].state)' # <<>>
          BY <4>1, StatesKept
        <4> QED
          BY <4>2 DEF Sourced, Upstream
      <3>2. CASE pc[g] \notin {"exchange", "storing", "delivering"}
        BY <3>2 DEF Sourced
      <3> QED
        BY <3>1, <3>2
    <2> QED
      BY <2>2, <2>3 DEF Outbound
  <1> QED
    BY <1>1, <1>2

\* A query gets past the records and the lists only if they leave it to the upstreams.
LEMMA OutboundLooking ==
    ASSUME TypeOK, AnswersInv, [Next]_vars, NEW g \in Goroutines,
           \/ Begin(g) \/ Return(g) \/ LookupLocal(g) \/ LookupBlocked(g) \/ LookupCache(g)
           \/ Join(g) \/ Deliver(g)
    PROVE  Outbound(g)'
  <1>0. Outbound(g)
    BY DEF AnswersInv
  <1>1. CASE pc'[g] \in {"idle", "arrived", "answered"}
    BY <1>1 DEF Outbound, Unrecorded, Forwarded, Sourced
  <1>2. CASE pc'[g] \notin {"idle", "arrived", "answered"}
    <2>1. /\ LookupLocal(g) \/ LookupBlocked(g) \/ LookupCache(g) \/ Join(g)
          /\ pc'[g] \in {"foreign", "lookup", "missed", "leading", "waiting"}
      BY <1>2 DEF Begin, Return, LookupLocal, LookupBlocked, LookupCache, Join, Deliver, Reply,
                  Goto, TypeOK
    <2>2. pc[g] # "idle" /\ pc'[g] # "idle"
      BY <2>1 DEF LookupLocal, LookupBlocked, LookupCache, Join
    <2>3. /\ query'[g] = query[g] /\ state'[g] = state[g]
          /\ states'[state[g]] = states[state[g]]
      BY <2>2, Carried
    <2>4. query[g].name \notin states[state[g]].records
      BY <1>0, <1>2, <2>1 DEF LookupLocal, LookupBlocked, LookupCache, Join, Reply, Goto, TypeOK,
                              Outbound, Unrecorded
    <2>5. pc'[g] # "foreign" => Upstream(state[g]) # <<>>
      BY <1>0, <1>2, <2>1 DEF LookupLocal, LookupBlocked, LookupCache, Join, Reply, Goto, TypeOK,
                              Outbound, Forwarded
    <2> QED
      BY <2>1, <2>3, <2>4, <2>5 DEF Outbound, Unrecorded, Forwarded, Sourced, Upstream
  <1> QED
    BY <1>1, <1>2

\* A leader has in hand what comes from its own settings.
LEMMA OutboundLeading ==
    ASSUME TypeOK, CacheInv, FailuresInv, AnswersInv, [Next]_vars, NEW g \in Goroutines,
           Lead(g) \/ TryFails(g) \/ TrySucceeds(g) \/ GiveUp(g) \/ Store(g)
    PROVE  Outbound(g)'
  <1>0. Outbound(g) /\ InHand(g) /\ Failing(g)
    BY DEF AnswersInv, CacheInv, Deliverable, FailuresInv
  <1>1. pc[g] \in Leading /\ pc'[g] \in Leading
    BY DEF Lead, TakeTurn, TryFails, TrySucceeds, GiveUp, Store, Goto, Leading, TypeOK
  <1>2. /\ query'[g] = query[g] /\ state'[g] = state[g]
        /\ states'[state[g]] = states[state[g]] /\ state[g] \in DOMAIN states
    BY <1>1, Carried, UnderWay DEF Leading
  <1>3. states' = states
    BY DEF Lead, TryFails, TrySucceeds, GiveUp, Store, plane
  <1>4. query[g].name \notin states[state[g]].records /\ Upstream(state[g]) # <<>>
    BY <1>0, <1>1 DEF Outbound, Unrecorded, Forwarded, Leading
  <1>5. result'[g].state = state[g]
    <2>1. CASE Lead(g)
      <3>1. pc[g] # "idle"
        BY <1>1 DEF Leading
      <3> QED
        BY <2>1, <3>1, CachedAnswer DEF Lead, TakeTurn, Answer, TypeOK, CacheInv
    <2>2. CASE TryFails(g)
      <3>1. pc[g] = "exchange" /\ result[g] \in Response
        BY <2>2 DEF TryFails, TypeOK, Equipped
      <3>2. result'[g].state = result[g].state
        BY <2>2, <3>1 DEF TryFails, TypeOK, Response
      <3> QED
        BY <1>0, <3>1, <3>2 DEF Failing
    <2>3. CASE TrySucceeds(g)
      BY <2>3 DEF TrySucceeds, Answer, TypeOK
    <2>4. CASE GiveUp(g)
      BY <2>4, <1>0 DEF GiveUp, Failing
    <2>5. CASE Store(g)
      BY <2>5, <1>0 DEF Store, InHand, locals
    <2> QED
      BY <2>1, <2>2, <2>3, <2>4, <2>5
  <1> QED
    BY <1>2, <1>3, <1>4, <1>5 DEF Outbound, Unrecorded, Forwarded, Sourced, Upstream

\* Every step keeps queries where they may be.
LEMMA AnswersStep ==
    ASSUME TypeOK, CacheInv, FailuresInv, AnswersInv, [Next]_vars
    PROVE  AnswersInv'
  <1> SUFFICES ASSUME NEW h \in Goroutines PROVE Outbound(h)'
    BY DEF AnswersInv
  <1>1. ASSUME NEW g \in Goroutines,
               \/ Begin(g) \/ Return(g) \/ LookupLocal(g) \/ LookupBlocked(g) \/ LookupCache(g) \/ Join(g)
               \/ Lead(g) \/ TryFails(g) \/ TrySucceeds(g) \/ GiveUp(g) \/ Store(g)
        PROVE  Outbound(h)'
    <2>1. CASE g = h
      BY <1>1, <2>1, OutboundLooking, OutboundLeading
    <2>2. CASE g # h
      <3>1. pc'[h] = pc[h]
        BY <1>1, <2>2 DEF Begin, Return, LookupLocal, LookupBlocked, LookupCache, Join, Lead, TakeTurn,
                          TryFails, TrySucceeds, GiveUp, Store, Reply, Goto, TypeOK
      <3>2. result'[h] = result[h]
        BY <1>1, <2>2 DEF Begin, Return, LookupLocal, LookupBlocked, LookupCache, Join, Lead, TakeTurn,
                          TryFails, TrySucceeds, GiveUp, Store, Reply, TypeOK, locals
      <3> QED
        BY <3>1, <3>2, OutboundKept
    <2> QED
      BY <2>1, <2>2
  <1>2. ASSUME NEW g \in Goroutines, Deliver(g)
        PROVE  Outbound(h)'
    <2>1. CASE pc'[h] = "answered"
      BY <2>1 DEF Outbound, Unrecorded, Forwarded, Sourced
    <2>2. CASE pc'[h] # "answered"
      <3>1. pc'[h] = pc[h] /\ result'[h] = result[h]
        BY <1>2, <2>2 DEF Deliver
      <3> QED
        BY <3>1, OutboundKept
    <2> QED
      BY <2>1, <2>2
  <1>3. ASSUME \/ Publish \/ ReplaceManaged \/ ReplaceBlocked \/ UNCHANGED vars
               \/ \E n \in 1..MaxStates, k \in Key : Drop(n, k)
        PROVE  Outbound(h)'
    <2>1. pc' = pc /\ result' = result
      BY <1>3 DEF Publish, ReplaceManaged, ReplaceBlocked, Drop, vars, locals
    <2> QED
      BY <2>1, OutboundKept
  <1> QED
    BY <1>1, <1>2, <1>3 DEF Next, Serve

\* What comes from the upstreams is permitted to whoever was on its way to them.
LEMMA PermittedFar ==
    ASSUME TypeOK, Seen, AnswersInv,
           NEW g \in Goroutines, pc[g] \notin {"idle", "arrived", "foreign", "answered"},
           NEW a \in Response, a.state \in DOMAIN states, Upstream(a.state) # <<>>,
           \/ a.kind = "upstream" /\ a.do = Do(g)
           \/ a.kind = "servfail" /\ a.failed = Servers(a.state)
    PROVE  Promise!Permitted(g, a)
  <1>1. Asked[g].question = query[g] /\ Asked[g].state = state[g]
    BY DEF Asked
  <1>2. FALSE \in seen[g].managed /\ FALSE \in seen[g].blocked
    BY DEF Seen, Honest, Passed
  <1>3. query[g].name \notin states[state[g]].records /\ states[state[g]].upstreams # <<>>
    BY DEF AnswersInv, Outbound, Unrecorded, Forwarded, Upstream
  <1>4. Promise!Exchanged(query[g], states[state[g]], a)
    BY DEF Promise!Exchanged, Upstream, Servers, Do
  <1> QED
    BY <1>1, <1>2, <1>3, <1>4 DEF Promise!Permitted

\* What is answered at once is permitted by what has been seen.
LEMMA PermittedHere ==
    ASSUME TypeOK, Seen, AnswersInv, NEW g \in Goroutines,
           LookupLocal(g) \/ LookupBlocked(g), pc'[g] = "answered"
    PROVE  Promise!Permitted(g, result'[g])
  <1>0. pc[g] # "idle" /\ Honest(g)
    BY DEF LookupLocal, LookupBlocked, Seen
  <1>1. Asked[g].question = query[g] /\ Asked[g].state = state[g]
    BY <1>0 DEF Asked
  <1> DEFINE name == query[g].name
             own  == states[state[g]]
  <1>2. /\ name \in managed => TRUE \in seen[g].managed
        /\ name \notin managed => FALSE \in seen[g].managed
        /\ name \in blocked => TRUE \in seen[g].blocked
        /\ name \notin blocked => FALSE \in seen[g].blocked
    <2>1. ASSUME NEW P \in BOOLEAN, NEW B, P \in B
          PROVE  (P => TRUE \in B) /\ (~ P => FALSE \in B)
      <3>1. P = TRUE \/ P = FALSE
        BY <2>1
      <3> QED
        BY <2>1, <3>1, Zenon
    <2>2. (name \in managed) \in seen[g].managed /\ (name \in blocked) \in seen[g].blocked
      BY <1>0 DEF Honest, Current
    <2>3. (name \in managed) \in BOOLEAN /\ (name \in blocked) \in BOOLEAN
      OBVIOUS
    <2> HIDE DEF name
    <2> QED
      BY <2>1, <2>2, <2>3, Zenon
  <1>3. CASE LookupLocal(g)
    <2>1. \/ name \in managed /\ result'[g].kind = "zone"
          \/ name \notin managed /\ name \in own.records /\ result'[g].kind = "local"
      BY <1>3 DEF LookupLocal, Reply, Goto, Here, Answer, TypeOK
    <2> QED
      BY <1>1, <1>2, <2>1 DEF Promise!Permitted
  <1>4. CASE LookupBlocked(g)
    <2>1. pc[g] = "foreign"
      BY <1>4 DEF LookupBlocked
    <2>2. \/ name \in blocked /\ result'[g].kind = "blocked"
          \/ name \notin blocked /\ own.upstreams = <<>> /\ result'[g].kind = "none"
      BY <1>4 DEF LookupBlocked, Reply, Goto, Here, Answer, TypeOK, Upstream
    <2>3. FALSE \in seen[g].managed /\ name \notin own.records
      BY <1>0, <2>1 DEF Honest, Passed, AnswersInv, Outbound, Unrecorded
    <2> QED
      BY <1>1, <1>2, <2>2, <2>3 DEF Promise!Permitted
  <1> QED
    BY <1>3, <1>4

\* A step that gives no answer, or gives those it answers one that is permitted,
\* is the promise's.
LEMMA GiveStep ==
    ASSUME TypeOK, TypeOK', UNCHANGED <<plane, seen, query, state>>,
           \A g \in Goroutines :
               /\ pc[g] = "idle" <=> pc'[g] = "idle"
               /\ pc[g] = "answered" => pc'[g] = "answered" /\ result'[g] = result[g]
               /\ pc[g] # "answered" /\ pc'[g] = "answered" => Promise!Permitted(g, result'[g]),
           \A g, h \in Goroutines :
               pc[g] # "answered" /\ pc'[g] = "answered" /\ pc[h] # "answered" /\ pc'[h] = "answered"
                   => result'[g] = result'[h]
    PROVE  Promise!Give
  <1>1. UNCHANGED <<states, managed, blocked, seen>>
    BY DEF plane
  <1>2. Asked' = Asked
    BY DEF Asked
  <1>3. /\ DOMAIN Given' = Goroutines
        /\ \A g \in Goroutines :
              /\ Given[g] = IF pc[g] = "answered" THEN result[g] ELSE None
              /\ Given'[g] = IF pc'[g] = "answered" THEN result'[g] ELSE None
    BY DEF Given
  <1>4. ASSUME NEW g \in Goroutines, Given'[g] # Given[g]
        PROVE  /\ pc[g] # "answered" /\ pc'[g] = "answered" /\ Given'[g] = result'[g]
               /\ Given[g] = None /\ Asked[g] # None
    <2>1. pc[g] # "answered" /\ pc'[g] = "answered" /\ Given'[g] = result'[g] /\ Given[g] = None
      BY <1>3, <1>4
    <2>2. Asked[g] = [question |-> query[g], state |-> state[g]] /\ pc[g] # "idle"
      BY <2>1 DEF Asked
    <2>3. Asked[g] \in Asking
      BY <2>2, UnderWay DEF Asking
    <2> QED
      BY <2>1, <2>3, NoneAssumption
  <1>5. ASSUME NEW g \in Goroutines, Given'[g] # Given[g]
        PROVE  Promise!Permitted(g, Given'[g])
    BY <1>4, <1>5
  <1>6. ASSUME NEW g \in Goroutines, NEW h \in Goroutines,
               Given'[g] # Given[g], Given'[h] # Given[h]
        PROVE  Given'[h] = Given'[g]
    BY <1>4, <1>6
  <1> HIDE DEF Given, Asked
  <1> QED
    BY <1>1, <1>2, <1>3, <1>4, <1>5, <1>6 DEF Promise!Give, Promise!world

\* Where somebody goes without an answer, the promise stands still.
LEMMA QuietStep ==
    ASSUME TypeOK, TypeOK', UNCHANGED <<plane, seen, query, state>>, NEW g \in Goroutines,
           pc[g] \notin {"idle", "answered"}, pc'[g] \notin {"idle", "answered"},
           \A h \in Goroutines \ {g} : pc'[h] = pc[h] /\ result'[h] = result[h]
    PROVE  Promise!Give
  BY GiveStep

\* A lookup, or an exchange that is under way, is the promise's step.
LEMMA ServePromised ==
    ASSUME TypeOK, TypeOK', CacheInv, Seen, FailuresInv, AnswersInv, [Next]_vars,
           NEW g \in Goroutines, Serve(g), ~ Deliver(g)
    PROVE  Promise!Give
  <1>1. /\ UNCHANGED <<plane, seen, query, state>>
        /\ pc[g] \notin {"idle", "answered"} /\ pc'[g] # "idle"
    BY DEF Serve, LookupLocal, LookupBlocked, LookupCache, Join, Lead, TakeTurn, TryFails, TrySucceeds,
           GiveUp, Store, Reply, Goto, TypeOK, locals
  <1>2. \A h \in Goroutines \ {g} : pc'[h] = pc[h]
    BY DEF Serve, LookupLocal, LookupBlocked, LookupCache, Join, Lead, TakeTurn, TryFails, TrySucceeds,
           GiveUp, Store, Reply, Goto, TypeOK
  <1>3. \A h \in Goroutines \ {g} : result'[h] = result[h]
    BY DEF Serve, LookupLocal, LookupBlocked, LookupCache, Join, Lead, TakeTurn, TryFails, TrySucceeds,
           GiveUp, Store, Reply, TypeOK, locals
  <1>4. CASE pc'[g] # "answered"
    BY <1>1, <1>2, <1>3, <1>4, QuietStep
  <1>5. CASE pc'[g] = "answered"
    <2>1. Promise!Permitted(g, result'[g])
      <3>1. LookupLocal(g) \/ LookupBlocked(g) \/ LookupCache(g)
        BY <1>5 DEF Serve, Join, Lead, TakeTurn, TryFails, TrySucceeds, GiveUp, Store, Goto, TypeOK
      <3>2. CASE LookupCache(g)
        <4>1. pc[g] = "lookup" /\ Cached(g) # None /\ result'[g] = Cached(g)
          BY <1>5, <3>2 DEF LookupCache, Reply, Goto, TypeOK
        <4>2. /\ Cached(g) \in Response
              /\ Cached(g).kind = "upstream" /\ Cached(g).state = state[g] /\ Cached(g).do = Do(g)
          BY <4>1, CachedAnswer DEF CacheInv
        <4>3. state[g] \in DOMAIN states /\ Upstream(state[g]) # <<>>
          BY <4>1, UnderWay DEF AnswersInv, Outbound, Forwarded
        <4> QED
          BY <4>1, <4>2, <4>3, PermittedFar
      <3>3. CASE LookupLocal(g) \/ LookupBlocked(g)
        BY <1>5, <3>3, PermittedHere
      <3> QED
        BY <3>1, <3>2, <3>3
    <2> QED
      BY <1>1, <1>2, <1>3, <1>5, <2>1, GiveStep
  <1> QED
    BY <1>4, <1>5

\* What a leader delivers is permitted to itself and to everybody who waits.
LEMMA DeliverPromised ==
    ASSUME TypeOK, TypeOK', CacheInv, Seen, FailuresInv, AnswersInv, [Next]_vars,
           NEW g \in Goroutines, Deliver(g)
    PROVE  Promise!Give
  <1> DEFINE served == Waiters(CacheKey(g)) \union {g}
             a      == result[g]
  <1>1. /\ UNCHANGED <<plane, seen, query, state>> /\ pc[g] = "delivering"
        /\ \A h \in served : pc'[h] = "answered" /\ result'[h] = a
        /\ \A h \in Goroutines \ served : pc'[h] = pc[h] /\ result'[h] = result[h]
    BY DEF Deliver, Waiters
  <1>2. a \in Response /\ a.state \in DOMAIN states /\ Upstream(a.state) # <<>>
    BY <1>1 DEF TypeOK, Equipped, AnswersInv, Outbound, Sourced
  <1>3. \/ a.kind = "upstream" /\ a.do = Do(g)
        \/ a.kind = "servfail" /\ a.failed = Servers(a.state)
    BY <1>1 DEF CacheInv, Deliverable, InHand, FailuresInv, Failing
  <1>4. ASSUME NEW h \in served PROVE h \in Goroutines /\ pc[h] \in {"waiting", "delivering"} /\ Do(h) = Do(g)
    BY <1>1 DEF Waiters, CacheKey
  <1>5. ASSUME NEW h \in served PROVE Promise!Permitted(h, a)
    BY <1>2, <1>3, <1>4, PermittedFar
  <1>6. \A h \in Goroutines :
            /\ pc[h] = "idle" <=> pc'[h] = "idle"
            /\ pc[h] = "answered" => pc'[h] = "answered" /\ result'[h] = result[h]
            /\ pc[h] # "answered" /\ pc'[h] = "answered" =>
                   result'[h] = a /\ Promise!Permitted(h, result'[h])
    <2> SUFFICES ASSUME NEW h \in Goroutines
                 PROVE  /\ pc[h] = "idle" <=> pc'[h] = "idle"
                        /\ pc[h] = "answered" => pc'[h] = "answered" /\ result'[h] = result[h]
                        /\ pc[h] # "answered" /\ pc'[h] = "answered" =>
                               result'[h] = a /\ Promise!Permitted(h, result'[h])
      OBVIOUS
    <2>1. CASE h \in served
      BY <1>1, <1>4, <1>5, <2>1
    <2>2. CASE h \notin served
      BY <1>1, <2>2
    <2> QED
      BY <2>1, <2>2
  <1> HIDE DEF served, a
  <1> QED
    BY <1>1, <1>6, GiveStep

\* A query arrives.
LEMMA BeginPromised ==
    ASSUME TypeOK, NEW g \in Goroutines, Begin(g)
    PROVE  Promise!Ask(g)
  <1>1. PICK q \in Question :
           /\ query' = [query EXCEPT ![g] = q]
           /\ seen' = [seen EXCEPT ![g] = Facts(q.name)]
    BY DEF Begin
  <1>2. /\ state' = [state EXCEPT ![g] = Len(states)]
        /\ pc[g] = "idle" /\ pc' = [pc EXCEPT ![g] = "arrived"]
        /\ UNCHANGED <<states, managed, blocked, result>>
    BY DEF Begin, Goto, plane
  <1>3. Asked[g] = None /\ Asked' = [Asked EXCEPT ![g] = [question |-> q, state |-> Len(states)]]
    BY <1>1, <1>2 DEF Asked, TypeOK
  <1>4. Given' = Given
    BY <1>2 DEF Given, TypeOK
  <1> QED
    BY <1>1, <1>2, <1>3, <1>4 DEF Promise!Ask, Promise!Question, Promise!world, Question, Facts

\* An answered query returns.
LEMMA ReturnPromised ==
    ASSUME TypeOK, NEW g \in Goroutines, Return(g)
    PROVE  Promise!Finish(g)
  <1>1. /\ pc[g] = "answered" /\ pc' = [pc EXCEPT ![g] = "idle"]
        /\ query' = [query EXCEPT ![g] = None] /\ state' = [state EXCEPT ![g] = 0]
        /\ result' = [result EXCEPT ![g] = None] /\ seen' = [seen EXCEPT ![g] = None]
        /\ UNCHANGED <<states, managed, blocked>>
    BY DEF Return, Goto, plane
  <1>2. Given[g] # None
    BY <1>1 DEF Given, TypeOK, Equipped
  <1>3. Asked' = [Asked EXCEPT ![g] = None]
    BY <1>1 DEF Asked, TypeOK
  <1>4. Given' = [Given EXCEPT ![g] = None]
    BY <1>1 DEF Given, TypeOK
  <1> QED
    BY <1>1, <1>2, <1>3, <1>4 DEF Promise!Finish, Promise!world

\* The control plane replaces zones or lists.
LEMMA ReplacePromised ==
    ASSUME TypeOK, ReplaceManaged \/ ReplaceBlocked
    PROVE  Promise!Replace
  <1>1. /\ managed' \in SUBSET Names /\ blocked' \in SUBSET Names
        /\ UNCHANGED <<states, pc, query, state, result>> /\ Witnessed
    BY DEF ReplaceManaged, ReplaceBlocked, TypeOK, locals
  <1>2. Asked' = Asked /\ Given' = Given
    BY <1>1 DEF Asked, Given
  <1>3. \A g \in Goroutines :
            IF pc[g] = "idle" THEN Asked[g] = None
            ELSE Asked[g] # None /\ Asked[g].question = query[g]
    <2> SUFFICES ASSUME NEW g \in Goroutines, pc[g] # "idle"
                 PROVE  Asked[g] # None /\ Asked[g].question = query[g]
      BY DEF Asked
    <2>1. Asked[g] = [question |-> query[g], state |-> state[g]]
      BY DEF Asked
    <2>2. Asked[g] \in Asking
      BY <2>1, UnderWay DEF Asking
    <2> QED
      BY <2>1, <2>2, NoneAssumption
  <1>4. seen' = [g \in Goroutines |->
                   IF Asked[g] = None THEN None
                   ELSE [managed |-> seen[g].managed \union {(Asked[g].question.name \in managed')},
                         blocked |-> seen[g].blocked \union {(Asked[g].question.name \in blocked')}]]
    BY <1>1, <1>3 DEF Witnessed
  <1> HIDE DEF Asked, Given
  <1> QED
    BY <1>1, <1>2, <1>4 DEF Promise!Replace

\* Every step is one of the promise's, or none.
LEMMA RefinementStep ==
    ASSUME TypeOK, TypeOK', CacheInv, Seen, FailuresInv, AnswersInv, [Next]_vars
    PROVE  [Promise!Next]_(Promise!vars)
  <1>1. ASSUME NEW g \in Goroutines, Begin(g) PROVE Promise!Next
    BY <1>1, BeginPromised DEF Promise!Next
  <1>2. ASSUME NEW g \in Goroutines, Serve(g) PROVE Promise!Next
    BY <1>2, ServePromised, DeliverPromised DEF Promise!Next
  <1>3. ASSUME NEW g \in Goroutines, Return(g) PROVE Promise!Next
    BY <1>3, ReturnPromised DEF Promise!Next
  <1>4. CASE Publish
    <2>1. /\ \E s \in Settings : states' = Append(states, s)
          /\ UNCHANGED <<managed, blocked, pc, query, state, result, seen>>
      BY <1>4 DEF Publish, locals
    <2>2. Asked' = Asked /\ Given' = Given
      BY <2>1 DEF Asked, Given
    <2> QED
      BY <2>1, <2>2 DEF Promise!Publish, Promise!Next
  <1>5. CASE ReplaceManaged \/ ReplaceBlocked
    BY <1>5, ReplacePromised DEF Promise!Next
  <1>6. ASSUME UNCHANGED vars \/ \E n \in 1..MaxStates, k \in Key : Drop(n, k)
        PROVE  UNCHANGED Promise!vars
    <2>1. UNCHANGED <<states, managed, blocked, pc, query, state, result, seen>>
      BY <1>6 DEF Drop, vars, plane, locals
    <2>2. Asked' = Asked /\ Given' = Given
      BY <2>1 DEF Asked, Given
    <2> QED
      BY <2>1, <2>2 DEF Promise!vars, Promise!world
  <1> QED
    BY <1>1, <1>2, <1>3, <1>4, <1>5, <1>6 DEF Next

\* Whatever is cached, shared, replaced or published meanwhile (ServeDNS, Publish,
\* ReplaceManaged, Store.Replace): a query is answered once, by what the settings
\* it arrived under, and the zones and lists since, permit.
THEOREM AnswersArePermitted == Spec => RefinesAnswers
  <1>1. Init => FailuresInv /\ AnswersInv /\ Seen
    BY DEF Init, FailuresInv, Failing, AnswersInv, Outbound, Unrecorded, Forwarded, Sourced, Seen
  <1>2. Init => Promise!Init
    <2> SUFFICES ASSUME Init PROVE Promise!Init
      OBVIOUS
    <2>1. Asked = [g \in Goroutines |-> None] /\ Given = [g \in Goroutines |-> None]
      BY DEF Init, Asked, Given
    <2> QED
      BY <2>1 DEF Init, Promise!Init
  <1>3. TypeOK /\ TypeOK' /\ CacheInv /\ Seen /\ FailuresInv /\ AnswersInv /\ [Next]_vars
        => [Promise!Next]_(Promise!vars)
    BY RefinementStep
  <1> QED
    BY <1>1, <1>2, <1>3, TypeInit, TypeStep, CacheCorrect, SeenStep, FailuresStep, AnswersStep, PTL
    DEF Spec, RefinesAnswers, Promise!Safety
================================================================================
