------------------------------ MODULE QueryAnswers ------------------------------
(***************************************************************************)
(* What LightDNS promises about its answers, without caches, exchanges or  *)
(* the order of lookups: a query is answered once, with an answer that the *)
(* settings it arrived under, and the zones and blocklists of moments      *)
(* since, permit.  Queries may share an answer.                            *)
(*                                                                         *)
(* Resolver implements it (RefinesAnswers).                                *)
(***************************************************************************)
EXTENDS Integers, Sequences

CONSTANTS Goroutines, Names, Wishes, Settings, None

VARIABLES
    states,   \* the settings published so far
    managed,  \* the names in managed zones
    blocked,  \* the names that are blocked
    asked,    \* the question of each query under way, and the settings it meets
    seen,     \* whether its name was managed, and blocked, at some moment since
    given     \* its answer, or None

world == <<states, managed, blocked>>
vars  == <<world, asked, seen, given>>

Question == [name : Names, wish : Wishes]

Init ==
    /\ \E s \in Settings : states = <<s>>
    /\ managed = {}
    /\ blocked = {}
    /\ asked = [g \in Goroutines |-> None]
    /\ seen = [g \in Goroutines |-> None]
    /\ given = [g \in Goroutines |-> None]

Ask(g) ==
    /\ asked[g] = None
    /\ \E q \in Question :
           /\ asked' = [asked EXCEPT ![g] = [question |-> q, state |-> Len(states)]]
           /\ seen' = [seen EXCEPT ![g] = [managed |-> {(q.name \in managed)},
                                           blocked |-> {(q.name \in blocked)}]]
    /\ UNCHANGED <<world, given>>

\* The upstreams of some settings are asked, with DO if the client or the
\* settings of the query want signatures; a query fails once all have failed.
Exchanged(q, own, answer) ==
    /\ answer.state \in DOMAIN states
    /\ LET servers == states[answer.state].upstreams IN
           /\ servers # <<>>
           /\ \/ /\ answer.kind = "upstream"
                 /\ answer.do = (q.wish \/ own.dnssec)
              \/ /\ answer.kind = "servfail"
                 /\ answer.failed = {servers[i] : i \in DOMAIN servers}

\* Zones come before local records, these before blocks, these before upstreams.
Permitted(g, answer) ==
    LET q   == asked[g].question
        own == states[asked[g].state]
    IN
    \/ /\ answer.kind = "zone"
       /\ TRUE \in seen[g].managed
    \/ /\ FALSE \in seen[g].managed
       /\ \/ /\ q.name \in own.records
             /\ answer.kind = "local"
          \/ /\ q.name \notin own.records
             /\ \/ /\ TRUE \in seen[g].blocked
                   /\ answer.kind = "blocked"
                \/ /\ FALSE \in seen[g].blocked
                   /\ \/ own.upstreams = <<>> /\ answer.kind = "none"
                      \/ own.upstreams # <<>> /\ Exchanged(q, own, answer)

\* Some of those who wait are answered, all with the same answer.
Give ==
    /\ UNCHANGED <<world, seen, asked>>
    /\ DOMAIN given' = Goroutines
    /\ LET served == {g \in Goroutines : given'[g] # given[g]} IN
       \A g \in served :
           /\ asked[g] # None
           /\ given[g] = None
           /\ Permitted(g, given'[g])
           /\ \A h \in served : given'[h] = given'[g]

Finish(g) ==
    /\ given[g] # None
    /\ asked' = [asked EXCEPT ![g] = None]
    /\ seen' = [seen EXCEPT ![g] = None]
    /\ given' = [given EXCEPT ![g] = None]
    /\ UNCHANGED world

Publish ==
    /\ \E s \in Settings : states' = Append(states, s)
    /\ UNCHANGED <<managed, blocked, asked, seen, given>>

\* Zones and blocklists are replaced, and whoever is under way may have seen it.
Replace ==
    /\ managed' \in SUBSET Names
    /\ blocked' \in SUBSET Names
    /\ seen' = [g \in Goroutines |->
                  IF asked[g] = None THEN None
                  ELSE LET name == asked[g].question.name
                       IN  [managed |-> seen[g].managed \union {(name \in managed')},
                            blocked |-> seen[g].blocked \union {(name \in blocked')}]]
    /\ UNCHANGED <<states, asked, given>>

Next ==
    \/ Give
    \/ \E g \in Goroutines : Ask(g) \/ Finish(g)
    \/ Publish
    \/ Replace

Safety == Init /\ [][Next]_vars
=================================================================================
