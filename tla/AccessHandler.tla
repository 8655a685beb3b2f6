----------------------------- MODULE AccessHandler -----------------------------
(***************************************************************************)
(* The gate in front of the resolver: internal/resolver/access.go.  A      *)
(* query takes one of MaxInFlight slots, then a token from the bucket of   *)
(* its client, and gives the slot back when it has been answered.          *)
(*                                                                         *)
(* Time is counted in the time it takes to gain one token, 1/rate seconds, *)
(* so that tokens are integers.  A goroutine reads the clock before it     *)
(* waits for the mutex of the buckets: buckets may be asked with times     *)
(* that are out of order.                                                  *)
(*                                                                         *)
(* Definitions marked "fault" are plausible mistakes.  Nothing uses them;  *)
(* each takes the place of the definition after it to show that a property *)
(* notices.                                                                *)
(***************************************************************************)
EXTENDS Integers, FiniteSets

CONSTANTS
    Goroutines,   \* goroutines of the DNS servers
    Clients,      \* source addresses
    Burst,        \* tokens of a full bucket
    MaxInFlight,  \* capacity of the channel "active"
    MaxClients,   \* buckets kept at most, 8192
    Stale,        \* age from which a bucket may be dropped, 10 minutes
    MaxTime,      \* bound: the last moment of a behaviour
    MaxAgain,     \* bound: how much time is counted twice between measurements
    None          \* no client

ASSUME AccessAssumption ==
    /\ Burst \in Nat \ {0}
    /\ MaxInFlight \in Nat \ {0}
    /\ MaxClients \in Nat \ {0}
    /\ Stale \in Nat
    /\ MaxTime \in Nat
    /\ MaxAgain \in Nat
    /\ None \notin Clients
    /\ IsFiniteSet(Goroutines)
    /\ IsFiniteSet(Clients)

VARIABLES
    time,     \* the clock
    pc,       \* where each goroutine is
    client,   \* whose query each goroutine serves
    now,      \* what each goroutine read from the clock
    active,   \* AccessHandler.active: slots taken
    clients,  \* AccessHandler.clients: the buckets, for some of the clients
    latest,   \* history: the latest time each client asked with, or -1
    counted,  \* history: the client whose queries somebody counts
    passed,   \* history: its queries let through since the count began
    since,    \* history: the time up to which its bucket was filled then
    lost,     \* history: its bucket went when the table was full
    again     \* history: how much time its buckets have counted twice for this

history == <<latest, counted, passed, since, lost, again>>
vars    == <<time, pc, client, now, active, clients, history>>

Bucket == [tokens : Int, last : 0..MaxTime, seen : 0..MaxTime]

Init ==
    /\ time = 0
    /\ pc = [g \in Goroutines |-> "idle"]
    /\ client = [g \in Goroutines |-> None]
    /\ now = [g \in Goroutines |-> 0]
    /\ active = 0
    /\ clients = [c \in {} |-> 0]
    /\ latest = [c \in Clients |-> -1]
    /\ counted \in Clients
    /\ passed = 0
    /\ since = 0
    /\ lost = FALSE
    /\ again = 0

--------------------------------------------------------------------------------

Pass ==
    /\ time < MaxTime
    /\ time' = time + 1
    /\ UNCHANGED <<pc, client, now, active, clients, history>>

ArriveFromAnywhere(g) ==                                           \* fault
    /\ pc[g] = "idle"
    /\ active < MaxInFlight
    /\ active' = active + 1
    /\ \E c \in Clients \union {None} : client' = [client EXCEPT ![g] = c]
    /\ pc' = [pc EXCEPT ![g] = "arrived"]
    /\ UNCHANGED <<time, now, clients, history>>

\* A query from a known source arrives and finds a slot.  Without either it is
\* refused at once, which changes nothing.
Arrive(g) ==
    /\ pc[g] = "idle"
    /\ active < MaxInFlight
    /\ active' = active + 1
    /\ \E c \in Clients : client' = [client EXCEPT ![g] = c]
    /\ pc' = [pc EXCEPT ![g] = "arrived"]
    /\ UNCHANGED <<time, now, clients, history>>

ReadClock(g) ==
    /\ pc[g] = "arrived"
    /\ now' = [now EXCEPT ![g] = time]
    /\ pc' = [pc EXCEPT ![g] = "timed"]
    /\ UNCHANGED <<time, client, active, clients, history>>

\* When the buckets are too many, those not seen for long are dropped, and all
\* of them if these are not enough.
Dropped(bs, t) == {c \in DOMAIN bs : t - bs[c].seen > Stale}

Full(bs) == Cardinality(DOMAIN bs) >= MaxClients

PurgedEarly(bs, t) ==                                              \* fault
    [c \in DOMAIN bs \ Dropped(bs, t) |-> bs[c]]

Purged(bs, t) ==
    IF ~Full(bs) THEN bs
    ELSE LET kept == [c \in DOMAIN bs \ Dropped(bs, t) |-> bs[c]]
         IN  IF Full(kept) THEN [c \in {} |-> 0] ELSE kept

AtMost(n, limit) == IF n > limit THEN limit ELSE n

FilledForward(b, t) ==                                             \* fault
    [tokens |-> IF t > b.last THEN AtMost(b.tokens + (t - b.last), Burst) ELSE b.tokens,
     last |-> t, seen |-> t]

FilledNeverBack(b, t) ==                                           \* fault
    [tokens |-> AtMost(b.tokens + (t - b.last), Burst),
     last |-> IF t > b.last THEN t ELSE b.last, seen |-> t]

\* A bucket gains what the time brings, up to Burst.  A time before the last one
\* takes away what the next one gives back.
Filled(b, t) ==
    [tokens |-> AtMost(b.tokens + (t - b.last), Burst), last |-> t, seen |-> t]

FullBucket(t) == [tokens |-> Burst, last |-> t, seen |-> t]

\* History.  A full bucket at t is worth the time from t - Burst on.  For a client
\* whose bucket was lost, the part of it up to latest has been counted before.
Lost(kept) == lost \/ (Full(clients) /\ counted \in DOMAIN clients \ DOMAIN kept)

CountedTwice(t, kept) ==
    IF counted \notin DOMAIN kept /\ Lost(kept) /\ latest[counted] + Burst > t
    THEN latest[counted] + Burst - t
    ELSE 0

Count(c, t, kept, allow) ==
    /\ latest' = [latest EXCEPT ![c] = IF @ > t THEN @ ELSE t]
    /\ lost' = (c # counted /\ Lost(kept))
    /\ IF c = counted
       THEN /\ passed' = passed + (IF allow THEN 1 ELSE 0)
            /\ since' = IF latest[c] = -1 THEN t ELSE since
            /\ again' = again + CountedTwice(t, kept)
            /\ again' <= MaxAgain
       ELSE UNCHANGED <<passed, since, again>>
    /\ UNCHANGED counted

LeaveWithSlot(g) ==                                                \* fault
    /\ pc' = [pc EXCEPT ![g] = "idle"]
    /\ client' = [client EXCEPT ![g] = None]
    /\ now' = [now EXCEPT ![g] = 0]
    /\ UNCHANGED active

\* The slot is given back, whatever the answer.
Leave(g) ==
    /\ pc' = [pc EXCEPT ![g] = "idle"]
    /\ client' = [client EXCEPT ![g] = None]
    /\ now' = [now EXCEPT ![g] = 0]
    /\ active' = active - 1

Take(g) ==
    LET c      == client[g]
        t      == now[g]
        kept   == Purged(clients, t)
        filled == IF c \in DOMAIN kept THEN Filled(kept[c], t) ELSE FullBucket(t)
        allow  == filled.tokens >= 1
        left   == IF allow THEN [filled EXCEPT !.tokens = @ - 1] ELSE filled
    IN
    /\ pc[g] = "timed"
    /\ clients' = [x \in DOMAIN kept \union {c} |-> IF x = c THEN left ELSE kept[x]]
    /\ Count(c, t, kept, allow)
    /\ IF allow
       THEN /\ pc' = [pc EXCEPT ![g] = "serving"]
            /\ UNCHANGED <<client, now, active>>
       ELSE Leave(g)
    /\ UNCHANGED time

\* The resolver has answered.
Done(g) ==
    /\ pc[g] = "serving"
    /\ Leave(g)
    /\ UNCHANGED <<time, clients, history>>

\* Not of the program: the count begins anew.
Measure ==
    /\ latest[counted] # -1
    /\ passed' = 0
    /\ since' = IF counted \in DOMAIN clients THEN clients[counted].last ELSE latest[counted]
    /\ again' = 0
    /\ UNCHANGED <<time, pc, client, now, active, clients, latest, counted, lost>>

Next ==
    \/ Pass
    \/ \E g \in Goroutines : Arrive(g) \/ ReadClock(g) \/ Take(g) \/ Done(g)
    \/ Measure

Spec == Init /\ [][Next]_vars

--------------------------------------------------------------------------------
(* Properties. *)

Busy == {g \in Goroutines : pc[g] # "idle"}

TypeOK ==
    /\ time \in 0..MaxTime
    /\ pc \in [Goroutines -> {"idle", "arrived", "timed", "serving"}]
    /\ client \in [Goroutines -> Clients \union {None}]
    /\ \A g \in Busy : client[g] \in Clients
    /\ now \in [Goroutines -> 0..MaxTime]
    /\ active \in Int
    /\ DOMAIN clients \subseteq Clients
    /\ \A c \in DOMAIN clients : clients[c] \in Bucket
    /\ latest \in [Clients -> -1..MaxTime]
    /\ counted \in Clients
    /\ passed \in Nat
    /\ since \in 0..MaxTime
    /\ lost \in BOOLEAN
    /\ again \in 0..MaxAgain

\* From whatever query on one counts, a client gets no more queries through than a
\* full bucket and one for every unit of time since, except for the time that is
\* counted twice because the table was full and its bucket was lost with it (take
\* clears all buckets then): goroutines that ask with times out of order do not
\* fill a bucket twice for the same time, and a bucket goes for no other reason.
\* What a client regains by a loss is what it would have had to wait for.
RateBound == passed <= Burst + (time - since) + again

\* The slots in use are those of the goroutines that serve a query, never more
\* than MaxInFlight: none is lost by a refused query, none given back twice.
SlotsAccounted == active = Cardinality(Busy) /\ active <= MaxInFlight

\* However many addresses send queries, the table of buckets stays bounded.
BucketsBounded == Cardinality(DOMAIN clients) <= MaxClients

\* Neither queries nor addresses use up what ServeDNS and take share out.
ResourcesBounded == SlotsAccounted /\ BucketsBounded

\* A client who has waited for one unit of time since its last query is never
\* refused for its rate, not even when earlier queries were counted out of order.
PatientServed ==
    [][\A g \in Goroutines :
           pc[g] = "timed" /\ pc'[g] = "idle" => now[g] <= latest[client[g]]]_vars
================================================================================
