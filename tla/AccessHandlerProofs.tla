-------------------------- MODULE AccessHandlerProofs --------------------------
(***************************************************************************)
(* Theorems about AccessHandler, for every number of goroutines, clients,  *)
(* slots, buckets and tokens.                                              *)
(***************************************************************************)
EXTENDS AccessHandler, FiniteSetTheorems, TLAPS

\* What Take works with: the buckets it keeps, and what it finds in the one of
\* its client.
Kept(g)   == Purged(clients, now[g])
Found(g)  == IF client[g] \in DOMAIN Kept(g) THEN Filled(Kept(g)[client[g]], now[g])
             ELSE FullBucket(now[g])
Allow(g)  == Found(g).tokens >= 1
Left(g)   == IF Allow(g) THEN [Found(g) EXCEPT !.tokens = @ - 1] ELSE Found(g)

\* Buckets are dropped, never changed, by the purge, and only when the table is
\* full; one more fits after it.
LEMMA PurgeKeeps ==
    ASSUME NEW bs, NEW t, IsFiniteSet(DOMAIN bs)
    PROVE  /\ DOMAIN Purged(bs, t) \subseteq DOMAIN bs
           /\ \A c \in DOMAIN Purged(bs, t) : Purged(bs, t)[c] = bs[c]
           /\ Cardinality(DOMAIN Purged(bs, t)) < MaxClients
           /\ Full(bs) \/ DOMAIN Purged(bs, t) = DOMAIN bs
  <1> DEFINE kept == [c \in DOMAIN bs \ Dropped(bs, t) |-> bs[c]]
             empty == [c \in {} |-> 0]
  <1>1. Purged(bs, t) \in {bs, kept, empty} /\ ~Full(Purged(bs, t))
    <2>1. ~Full(empty)
      BY FS_EmptySet, AccessAssumption DEF Full
    <2> QED
      BY <2>1 DEF Purged
  <1>2. /\ DOMAIN Purged(bs, t) \subseteq DOMAIN bs
        /\ \A c \in DOMAIN Purged(bs, t) : Purged(bs, t)[c] = bs[c]
    BY <1>1
  <1>3. Cardinality(DOMAIN Purged(bs, t)) \in Nat
    BY <1>2, FS_Subset, FS_CardinalityType
  <1>4. Full(bs) \/ DOMAIN Purged(bs, t) = DOMAIN bs
    BY DEF Purged
  <1> QED
    BY <1>1, <1>2, <1>3, <1>4, AccessAssumption DEF Full

\* Take in terms of the above.
LEMMA TakeStep ==
    ASSUME TypeOK, NEW g \in Goroutines, Take(g)
    PROVE  /\ client[g] \in Clients /\ now[g] \in 0..MaxTime /\ pc[g] = "timed"
           /\ DOMAIN Kept(g) \subseteq DOMAIN clients
           /\ \A c \in DOMAIN Kept(g) : Kept(g)[c] = clients[c]
           /\ Cardinality(DOMAIN Kept(g)) < MaxClients
           /\ Full(clients) \/ DOMAIN Kept(g) = DOMAIN clients
           /\ DOMAIN clients' = DOMAIN Kept(g) \union {client[g]}
           /\ clients'[client[g]] = Left(g)
           /\ \A c \in DOMAIN Kept(g) : c # client[g] => clients'[c] = clients[c]
           /\ Found(g) \in Bucket
           /\ Left(g) = [tokens |-> Found(g).tokens - (IF Allow(g) THEN 1 ELSE 0),
                         last |-> now[g], seen |-> now[g]]
           /\ time' = time
           /\ Count(client[g], now[g], Kept(g), Allow(g))
           /\ latest'[client[g]] = IF latest[client[g]] > now[g] THEN latest[client[g]] ELSE now[g]
           /\ \A c \in Clients : c # client[g] => latest'[c] = latest[c]
  <1> DEFINE c == client[g]
             t == now[g]
  <1>1. c \in Clients /\ t \in 0..MaxTime /\ t \in Nat /\ pc[g] = "timed" /\ time' = time
    BY AccessAssumption DEF Take, TypeOK, Busy
  <1>2. IsFiniteSet(DOMAIN clients)
    BY AccessAssumption, FS_Subset DEF TypeOK
  <1>3. /\ DOMAIN Kept(g) \subseteq DOMAIN clients
        /\ \A x \in DOMAIN Kept(g) : Kept(g)[x] = clients[x]
        /\ Cardinality(DOMAIN Kept(g)) < MaxClients
        /\ Full(clients) \/ DOMAIN Kept(g) = DOMAIN clients
    BY <1>2, PurgeKeeps DEF Kept
  <1>4. clients' = [x \in DOMAIN Kept(g) \union {c} |->
                       IF x = c THEN Left(g) ELSE Kept(g)[x]]
    BY DEF Take, Kept, Found, Allow, Left
  <1>5. Found(g) \in Bucket /\ Found(g).last = t /\ Found(g).seen = t
    <2>1. CASE c \in DOMAIN Kept(g)
      <3>1. Kept(g)[c] \in Bucket
        BY <1>3, <2>1 DEF TypeOK
      <3>2. Found(g) = Filled(Kept(g)[c], t)
        BY <2>1 DEF Found
      <3> HIDE DEF c, t
      <3> QED
        BY <1>1, <3>1, <3>2, AccessAssumption DEF Filled, AtMost, Bucket
    <2>2. CASE c \notin DOMAIN Kept(g)
      BY <1>1, <2>2, AccessAssumption DEF Found, FullBucket, Bucket
    <2> QED
      BY <2>1, <2>2
  <1>6. Left(g) = [tokens |-> Found(g).tokens - (IF Allow(g) THEN 1 ELSE 0),
                   last |-> t, seen |-> t]
    BY <1>5 DEF Left, Bucket
  <1> HIDE DEF c, t
  <1>7. /\ DOMAIN clients' = DOMAIN Kept(g) \union {c}
        /\ clients'[c] = Left(g)
        /\ \A x \in DOMAIN Kept(g) : x # c => clients'[x] = clients[x]
    BY <1>3, <1>4
  <1>8. Count(client[g], now[g], Kept(g), Allow(g))
    BY DEF Take, Kept, Found, Allow
  <1>9. /\ latest'[client[g]] = IF latest[client[g]] > now[g] THEN latest[client[g]] ELSE now[g]
        /\ \A x \in Clients : x # client[g] => latest'[x] = latest[x]
    <2>1. latest' = [latest EXCEPT ![client[g]] = IF @ > now[g] THEN @ ELSE now[g]]
      BY <1>8 DEF Count
    <2> QED
      BY <1>1, <2>1 DEF TypeOK, c
  <1> QED
    BY <1>1, <1>3, <1>5, <1>6, <1>7, <1>8, <1>9 DEF c, t

\* The tables and the goroutines keep their types.
LEMMA TypeStep == TypeOK /\ [Next]_vars => TypeOK'
  <1> SUFFICES ASSUME TypeOK, [Next]_vars PROVE TypeOK'
    OBVIOUS
  <1>1. CASE Pass
    BY <1>1, AccessAssumption DEF Pass, TypeOK, Busy, history
  <1>2. ASSUME NEW g \in Goroutines, Arrive(g) PROVE TypeOK'
    BY <1>2 DEF Arrive, TypeOK, Busy, history
  <1>3. ASSUME NEW g \in Goroutines, ReadClock(g) PROVE TypeOK'
    BY <1>3 DEF ReadClock, TypeOK, Busy, history
  <1>4. ASSUME NEW g \in Goroutines, Take(g) PROVE TypeOK'
    <2>1. DOMAIN clients' \subseteq Clients /\ \A c \in DOMAIN clients' : clients'[c] \in Bucket
      <3>1. Left(g) \in Bucket
        <4>1. Found(g).tokens \in Int /\ now[g] \in 0..MaxTime
          BY <1>4, TakeStep DEF Bucket
        <4>2. Left(g) = [tokens |-> Found(g).tokens - (IF Allow(g) THEN 1 ELSE 0),
                         last |-> now[g], seen |-> now[g]]
          BY <1>4, TakeStep
        <4> QED
          BY <4>1, <4>2 DEF Bucket
      <3>2. /\ client[g] \in Clients
            /\ DOMAIN Kept(g) \subseteq DOMAIN clients
            /\ DOMAIN clients' = DOMAIN Kept(g) \union {client[g]}
            /\ clients'[client[g]] = Left(g)
            /\ \A x \in DOMAIN Kept(g) : x # client[g] => clients'[x] = clients[x]
        BY <1>4, TakeStep
      <3>3. \A x \in DOMAIN clients : x \in Clients /\ clients[x] \in Bucket
        BY DEF TypeOK
      <3> QED
        BY <3>1, <3>2, <3>3
    <2>2. /\ latest' \in [Clients -> -1..MaxTime]
          /\ counted' \in Clients
          /\ passed' \in Nat
          /\ since' \in 0..MaxTime
          /\ lost' \in BOOLEAN
          /\ again' \in 0..MaxAgain
      <3> DEFINE c == client[g]
                 t == now[g]
      <3>1. c \in Clients /\ t \in 0..MaxTime /\ Count(c, t, Kept(g), Allow(g))
        BY <1>4, TakeStep
      <3>2. CountedTwice(t, Kept(g)) \in Nat
        BY <3>1, AccessAssumption DEF CountedTwice, TypeOK
      <3>3. lost' \in BOOLEAN
        BY <3>1, Zenon DEF Count
      <3> HIDE DEF c, t
      <3>4. latest' \in [Clients -> -1..MaxTime]
        BY <3>1 DEF Count, TypeOK
      <3>5. counted' \in Clients /\ since' \in 0..MaxTime /\ passed' \in Nat
        BY <3>1 DEF Count, TypeOK
      <3>6. again' \in 0..MaxAgain
        BY <3>1, <3>2, AccessAssumption DEF Count, TypeOK
      <3> QED
        BY <3>3, <3>4, <3>5, <3>6
    <2>3. /\ pc' \in [Goroutines -> {"idle", "arrived", "timed", "serving"}]
          /\ client' \in [Goroutines -> Clients \union {None}]
          /\ \A h \in Goroutines : pc'[h] # "idle" => client'[h] \in Clients
          /\ now' \in [Goroutines -> 0..MaxTime]
          /\ active' \in Int
          /\ time' \in 0..MaxTime
      BY <1>4, AccessAssumption DEF Take, Leave, TypeOK, Busy
    <2> QED
      BY <2>1, <2>2, <2>3 DEF TypeOK, Busy
  <1>5. ASSUME NEW g \in Goroutines, Done(g) PROVE TypeOK'
    BY <1>5, AccessAssumption DEF Done, Leave, TypeOK, Busy, history
  <1>6. CASE Measure
    <2>1. since' \in 0..MaxTime
      BY <1>6 DEF Measure, TypeOK, Bucket
    <2> QED
      BY <1>6, <2>1, AccessAssumption DEF Measure, TypeOK, Busy
  <1>7. CASE UNCHANGED vars
    BY <1>7 DEF vars, history, TypeOK, Busy
  <1> QED
    BY <1>1, <1>2, <1>3, <1>4, <1>5, <1>6, <1>7 DEF Next

LEMMA InitTypes == Init => TypeOK
  <1> SUFFICES ASSUME Init PROVE TypeOK
    OBVIOUS
  <1>1. latest \in [Clients -> -1..MaxTime]
    <2>1. -1 \in -1..MaxTime
      BY AccessAssumption
    <2> QED
      BY <2>1 DEF Init
  <1>2. /\ pc \in [Goroutines -> {"idle"}] /\ Busy = {}
        /\ client \in [Goroutines -> Clients \union {None}]
        /\ now \in [Goroutines -> 0..MaxTime]
        /\ DOMAIN clients = {}
    BY AccessAssumption DEF Init, Busy
  <1>3. pc \in [Goroutines -> {"idle", "arrived", "timed", "serving"}]
    BY <1>2
  <1>4. /\ time \in 0..MaxTime /\ active \in Int /\ since \in 0..MaxTime /\ again \in 0..MaxAgain
        /\ passed \in Nat /\ counted \in Clients
    BY AccessAssumption DEF Init
  <1>5. lost \in BOOLEAN
    BY Zenon DEF Init
  <1> QED
    BY <1>1, <1>2, <1>3, <1>4, <1>5 DEF TypeOK

\* Every variable keeps its type: a goroutine with a slot serves a known client, and
\* a bucket was last filled at a moment that has come.
THEOREM TypeCorrect == Spec => []TypeOK
  <1>1. Init => TypeOK
    BY InitTypes
  <1> QED
    BY <1>1, TypeStep, PTL DEF Spec

--------------------------------------------------------------------------------
(***************************************************************************)
(* The rate.  A query let through costs a token, and tokens come only from *)
(* the time that "last" moves on: tokens, queries let through and last     *)
(* keep a balance.  A time out of order lowers tokens and last alike, so   *)
(* that tokens are never owed more than last lags behind.  When a bucket   *)
(* is lost, so is what it owed: the balance goes on from the latest time,  *)
(* and a new bucket is made up for by what counts twice.                   *)
(***************************************************************************)

\* A bucket and the latest time asked with.
Behind(b, late) ==
    /\ b.tokens <= Burst
    /\ b.tokens + (late - b.last) >= 0
    /\ b.last <= late

TimesInv ==
    /\ \A c \in DOMAIN clients : Behind(clients[c], latest[c])
    /\ \A c \in Clients : latest[c] <= time
    /\ \A g \in Goroutines : now[g] <= time

\* The client whose queries are counted.
Balance ==
    /\ counted \in DOMAIN clients =>
           clients[counted].tokens + passed <= Burst + again + (clients[counted].last - since)
    /\ counted \notin DOMAIN clients /\ latest[counted] # -1 =>
           lost /\ passed <= Burst + again + (latest[counted] - since)
    /\ latest[counted] = -1 => passed = 0 /\ again = 0 /\ since = 0

RateInv == TimesInv /\ Balance

\* The numbers of the balance.
LEMMA Numbers ==
    ASSUME TypeOK
    PROVE  /\ time \in Nat /\ passed \in Nat /\ since \in Nat /\ again \in Nat
           /\ counted \in Clients
           /\ \A g \in Goroutines : now[g] \in Nat
           /\ \A c \in Clients : latest[c] \in Int /\ latest[c] >= -1
           /\ \A c \in DOMAIN clients : /\ c \in Clients
                                        /\ clients[c].tokens \in Int
                                        /\ clients[c].last \in Nat
  BY AccessAssumption DEF TypeOK, Bucket

\* What Take leaves in the bucket of its client.
LEMMA TakeTokens ==
    ASSUME TypeOK, TimesInv, NEW g \in Goroutines, Take(g)
    PROVE  LET c     == client[g]
               t     == now[g]
               spent == IF Allow(g) THEN 1 ELSE 0
           IN  /\ clients'[c].last = t
               /\ clients'[c].tokens \in Int
               /\ clients'[c].tokens + spent <= Burst
               /\ c \in DOMAIN Kept(g) =>
                      clients'[c].tokens + spent <= clients[c].tokens + (t - clients[c].last)
               /\ Behind(clients'[c], latest'[c])
  <1> DEFINE c == client[g]
             t == now[g]
             spent == IF Allow(g) THEN 1 ELSE 0
             found == Found(g).tokens
  <1>1. /\ c \in Clients /\ t \in Nat
        /\ DOMAIN Kept(g) \subseteq DOMAIN clients
        /\ \A x \in DOMAIN Kept(g) : Kept(g)[x] = clients[x]
        /\ clients'[c] = [tokens |-> found - spent, last |-> t, seen |-> t]
        /\ found \in Int
    BY TakeStep, Numbers DEF Bucket
  <1>2. latest'[c] = IF latest[c] > t THEN latest[c] ELSE t
    BY TakeStep
  <1>3. (found >= 1 /\ spent = 1) \/ spent = 0
    BY DEF Allow
  <1>4. Burst \in Nat /\ Burst >= 1 /\ latest[c] \in Int
    BY <1>1, AccessAssumption, Numbers
  <1>5. clients'[c].tokens = found - spent /\ clients'[c].last = t
    BY <1>1
  <1>6. CASE c \in DOMAIN Kept(g)
    <2>1. found = AtMost(clients[c].tokens + (t - clients[c].last), Burst)
      BY <1>1, <1>6 DEF Found, Filled
    <2>2. clients[c].tokens \in Int /\ clients[c].last \in Nat
      BY <1>1, <1>6, Numbers
    <2>3. Behind(clients[c], latest[c])
      BY <1>1, <1>6 DEF TimesInv
    <2> HIDE DEF c, t, spent, found
    <2>4. /\ clients'[c].last = t
          /\ clients'[c].tokens \in Int
          /\ clients'[c].tokens + spent <= Burst
          /\ clients'[c].tokens + spent <= clients[c].tokens + (t - clients[c].last)
      BY <1>1, <1>3, <1>4, <1>5, <2>1, <2>2 DEF AtMost
    <2>5. Behind(clients'[c], latest'[c])
      BY <1>1, <1>2, <1>3, <1>4, <1>5, <2>1, <2>2, <2>3 DEF AtMost, Behind
    <2> QED
      BY <2>4, <2>5 DEF c, t, spent
  <1>7. CASE c \notin DOMAIN Kept(g)
    <2>1. found = Burst
      BY <1>7 DEF Found, FullBucket
    <2> HIDE DEF c, t, spent, found
    <2>2. /\ clients'[c].last = t
          /\ clients'[c].tokens \in Int
          /\ clients'[c].tokens + spent <= Burst
          /\ Behind(clients'[c], latest'[c])
      BY <1>1, <1>2, <1>3, <1>4, <1>5, <2>1 DEF Behind
    <2> QED
      BY <1>7, <2>2 DEF c, t, spent
  <1> QED
    BY <1>6, <1>7

\* The balance of the counted client, when it asks itself.
LEMMA TakeCounted ==
    ASSUME TypeOK, RateInv, NEW g \in Goroutines, Take(g), client[g] = counted
    PROVE  Balance'
  <1> DEFINE c == counted
             t == now[g]
             spent == IF Allow(g) THEN 1 ELSE 0
             twice == CountedTwice(t, Kept(g))
             kept == DOMAIN Kept(g)
             left == clients'[c]
  <1>1. /\ c \in Clients /\ t \in Nat /\ latest[c] \in Int /\ latest[c] >= -1
        /\ passed \in Nat /\ since \in Nat /\ again \in Nat /\ Burst \in Nat
        /\ kept \subseteq DOMAIN clients
        /\ Full(clients) \/ kept = DOMAIN clients
        /\ DOMAIN clients' = kept \union {c}
    BY TakeStep, Numbers, AccessAssumption
  <1>2. /\ passed' = passed + spent
        /\ since' = IF latest[c] = -1 THEN t ELSE since
        /\ again' = again + twice
        /\ counted' = c
        /\ latest'[c] = IF latest[c] > t THEN latest[c] ELSE t
    BY TakeStep DEF Count
  <1>3. /\ left.last = t /\ left.tokens \in Int
        /\ left.tokens + spent <= Burst
        /\ c \in kept => left.tokens + spent <= clients[c].tokens + (t - clients[c].last)
    BY TakeTokens DEF RateInv
  <1>4. spent \in {0, 1} /\ latest'[c] # -1
    BY <1>1, <1>2
  <1>5. left.tokens + passed' <= Burst + again' + (left.last - since')
    <2>1. CASE c \in kept
      <3>1. clients[c].tokens + passed <= Burst + again + (clients[c].last - since)
        BY <1>1, <2>1 DEF RateInv, Balance
      <3>2. /\ clients[c].tokens \in Int /\ clients[c].last \in Nat
            /\ clients[c].last <= latest[c]
        BY <1>1, <2>1, Numbers DEF RateInv, TimesInv, Behind
      <3>3. twice = 0
        BY <2>1 DEF CountedTwice
      <3> HIDE DEF c, t, spent, twice, kept, left
      <3> QED
        BY <1>1, <1>2, <1>3, <1>4, <2>1, <3>1, <3>2, <3>3
    <2>2. CASE c \notin kept /\ latest[c] = -1
      <3>1. passed = 0 /\ again = 0
        BY <2>2 DEF RateInv, Balance
      <3>2. twice \in Nat
        BY <1>1, AccessAssumption DEF CountedTwice
      <3> HIDE DEF c, t, spent, twice, kept, left
      <3> QED
        BY <1>1, <1>2, <1>3, <1>4, <2>2, <3>1, <3>2
    <2>3. CASE c \notin kept /\ latest[c] # -1
      <3>1. Lost(Kept(g)) /\ passed <= Burst + again + (latest[c] - since)
        <4>1. CASE c \in DOMAIN clients
          <5>1. clients[c].tokens + passed <= Burst + again + (clients[c].last - since)
            BY <4>1 DEF RateInv, Balance
          <5>2. Behind(clients[c], latest[c])
            BY <4>1 DEF RateInv, TimesInv
          <5>3. clients[c].tokens \in Int /\ clients[c].last \in Nat
            BY <4>1, Numbers
          <5>4. Lost(Kept(g))
            BY <1>1, <2>3, <4>1 DEF Lost
          <5> HIDE DEF c, t, spent, twice, kept, left
          <5> QED
            BY <1>1, <5>1, <5>2, <5>3, <5>4 DEF Behind
        <4>2. CASE c \notin DOMAIN clients
          BY <2>3, <4>2 DEF RateInv, Balance, Lost
        <4> QED
          BY <4>1, <4>2
      <3>2. twice = IF latest[c] + Burst > t THEN latest[c] + Burst - t ELSE 0
        BY <2>3, <3>1 DEF CountedTwice
      <3> HIDE DEF c, t, spent, twice, kept, left
      <3> QED
        BY <1>1, <1>2, <1>3, <1>4, <2>3, <3>1, <3>2
    <2> QED
      BY <2>1, <2>2, <2>3
  <1>6. c \in DOMAIN clients'
    BY <1>1
  <1> QED
    BY <1>2, <1>4, <1>5, <1>6 DEF Balance

\* And when another client asks.
LEMMA TakeOther ==
    ASSUME TypeOK, RateInv, NEW g \in Goroutines, Take(g), client[g] # counted
    PROVE  Balance'
  <1> DEFINE c == counted
             kept == DOMAIN Kept(g)
  <1>1. /\ c \in Clients /\ latest[c] \in Int
        /\ passed \in Nat /\ since \in Nat /\ again \in Nat /\ Burst \in Nat
        /\ kept \subseteq DOMAIN clients
        /\ Full(clients) \/ kept = DOMAIN clients
        /\ (c \in DOMAIN clients') <=> (c \in kept)
        /\ c \in kept => clients'[c] = clients[c]
    <2>1. DOMAIN clients' = DOMAIN Kept(g) \union {client[g]}
      BY TakeStep
    <2>2. \A x \in DOMAIN Kept(g) : x # client[g] => clients'[x] = clients[x]
      BY TakeStep
    <2>3. kept \subseteq DOMAIN clients /\ (Full(clients) \/ kept = DOMAIN clients)
      BY TakeStep
    <2>4. /\ c \in Clients /\ latest[c] \in Int
          /\ passed \in Nat /\ since \in Nat /\ again \in Nat /\ Burst \in Nat
      BY Numbers, AccessAssumption
    <2> QED
      BY <2>1, <2>2, <2>3, <2>4
  <1>2. /\ passed' = passed /\ since' = since /\ again' = again /\ counted' = c
        /\ latest'[c] = latest[c]
        /\ lost' = Lost(Kept(g))
    <2>1. Count(client[g], now[g], Kept(g), Allow(g))
      BY TakeStep
    <2>2. lost' = Lost(Kept(g))
      BY <2>1 DEF Count, Lost
    <2>3. latest'[c] = latest[c]
      BY <1>1, TakeStep
    <2> QED
      BY <2>1, <2>2, <2>3 DEF Count
  <1>3. CASE c \in kept
    <2>1. c \in DOMAIN clients /\ c \in DOMAIN clients' /\ clients'[c] = clients[c]
      BY <1>1, <1>3
    <2> QED
      BY <1>2, <2>1 DEF RateInv, Balance
  <1>4. CASE c \notin kept /\ c \in DOMAIN clients
    <2>1. clients[c].tokens + passed <= Burst + again + (clients[c].last - since)
      BY <1>4 DEF RateInv, Balance
    <2>2. Behind(clients[c], latest[c])
      BY <1>4 DEF RateInv, TimesInv
    <2>3. clients[c].tokens \in Int /\ clients[c].last \in Nat
      BY <1>4, Numbers
    <2>4. Lost(Kept(g))
      BY <1>1, <1>4 DEF Lost
    <2>5. passed <= Burst + again + (latest[c] - since) /\ latest[c] # -1
      <3> HIDE DEF c, kept
      <3> QED
        BY <1>1, <2>1, <2>2, <2>3 DEF Behind
    <2> QED
      BY <1>1, <1>2, <1>4, <2>4, <2>5 DEF Balance
  <1>5. CASE c \notin DOMAIN clients
    <2>1. c \notin DOMAIN clients' /\ (lost => Lost(Kept(g)))
      BY <1>1, <1>5 DEF Lost
    <2> QED
      BY <1>2, <1>5, <2>1 DEF RateInv, Balance
  <1> QED
    BY <1>3, <1>4, <1>5

\* Every step keeps the balance.
LEMMA RateStep == TypeOK /\ RateInv /\ [Next]_vars => RateInv'
  <1> SUFFICES ASSUME TypeOK, RateInv, [Next]_vars PROVE RateInv'
    OBVIOUS
  <1> USE Numbers
  <1>1. CASE Pass
    BY <1>1 DEF Pass, RateInv, TimesInv, Behind, Balance, history
  <1>2. ASSUME NEW g \in Goroutines, Arrive(g) PROVE RateInv'
    BY <1>2 DEF Arrive, RateInv, TimesInv, Behind, Balance, history
  <1>3. ASSUME NEW g \in Goroutines, ReadClock(g) PROVE RateInv'
    BY <1>3 DEF ReadClock, RateInv, TimesInv, Behind, Balance, history, TypeOK
  <1>4. ASSUME NEW g \in Goroutines, Take(g) PROVE RateInv'
    <2>1. /\ client[g] \in Clients /\ time' = time
          /\ DOMAIN Kept(g) \subseteq DOMAIN clients
          /\ DOMAIN clients' = DOMAIN Kept(g) \union {client[g]}
          /\ \A x \in DOMAIN Kept(g) : x # client[g] => clients'[x] = clients[x]
          /\ latest' = [latest EXCEPT ![client[g]] = IF @ > now[g] THEN @ ELSE now[g]]
      BY <1>4, TakeStep DEF Count
    <2>2. \A x \in DOMAIN clients' : Behind(clients'[x], latest'[x])
      <3> SUFFICES ASSUME NEW x \in DOMAIN clients'
                   PROVE  Behind(clients'[x], latest'[x])
        OBVIOUS
      <3>1. CASE x = client[g]
        BY <1>4, <3>1, TakeTokens DEF RateInv
      <3>2. CASE x # client[g]
        <4>1. x \in DOMAIN clients /\ x \in Clients /\ clients'[x] = clients[x]
              /\ latest'[x] = latest[x]
          BY <2>1, <3>2 DEF TypeOK
        <4> QED
          BY <4>1 DEF RateInv, TimesInv
      <3> QED
        BY <3>1, <3>2
    <2>3. \A x \in Clients : latest'[x] <= time'
      BY <1>4, <2>1 DEF RateInv, TimesInv, TypeOK
    <2>4. \A h \in Goroutines : now'[h] <= time'
      BY <1>4, <2>1 DEF Take, Leave, RateInv, TimesInv, TypeOK
    <2>5. Balance'
      BY <1>4, TakeCounted, TakeOther
    <2> QED
      BY <2>2, <2>3, <2>4, <2>5 DEF RateInv, TimesInv
  <1>5. ASSUME NEW g \in Goroutines, Done(g) PROVE RateInv'
    <2>1. UNCHANGED <<time, clients, latest, counted, passed, since, lost, again>>
      BY <1>5 DEF Done, history
    <2>2. \A h \in Goroutines : now'[h] <= time'
      BY <1>5, <2>1 DEF Done, Leave, RateInv, TimesInv, TypeOK
    <2> QED
      BY <2>1, <2>2 DEF RateInv, TimesInv, Behind, Balance
  <1>6. CASE Measure
    <2>1. /\ UNCHANGED <<time, now, clients, latest, counted, lost>>
          /\ passed' = 0 /\ again' = 0 /\ latest[counted] # -1
          /\ since' = IF counted \in DOMAIN clients THEN clients[counted].last ELSE latest[counted]
      BY <1>6 DEF Measure
    <2>2. TimesInv'
      BY <2>1 DEF RateInv, TimesInv, Behind
    <2>3. CASE counted \in DOMAIN clients
      <3>1. clients[counted].tokens <= Burst
        BY <2>3 DEF RateInv, TimesInv, Behind
      <3> QED
        BY <2>1, <2>2, <2>3, <3>1, AccessAssumption DEF RateInv, Balance
    <2>4. CASE counted \notin DOMAIN clients
      BY <2>1, <2>2, <2>4, AccessAssumption DEF RateInv, Balance
    <2> QED
      BY <2>3, <2>4
  <1>7. CASE UNCHANGED vars
    BY <1>7 DEF vars, history, RateInv, TimesInv, Behind, Balance
  <1> QED
    BY <1>1, <1>2, <1>3, <1>4, <1>5, <1>6, <1>7 DEF Next

\* The balance holds throughout.
LEMMA RateInvariant == Spec => [](TypeOK /\ RateInv)
  <1>1. Init => TypeOK /\ RateInv
    <2> SUFFICES ASSUME Init PROVE TypeOK /\ RateInv
      OBVIOUS
    <2>1. TypeOK
      BY InitTypes
    <2>2. TimesInv
      BY AccessAssumption DEF Init, TimesInv
    <2>3. Balance
      BY AccessAssumption DEF Init, Balance
    <2> QED
      BY <2>1, <2>2, <2>3 DEF RateInv
  <1> QED
    BY <1>1, TypeStep, RateStep, PTL DEF Spec

\* Over no stretch of time does a client get more through than a full bucket, a
\* query for every unit of it and what the loss of its bucket in a full table gives
\* back (take).
THEOREM RateBounded == Spec => []RateBound
  <1>1. ASSUME TypeOK, RateInv PROVE RateBound
    <2> USE Numbers, AccessAssumption
    <2>1. CASE counted \in DOMAIN clients
      <3>1. Behind(clients[counted], latest[counted]) /\ latest[counted] <= time
            /\ clients[counted].tokens + passed <= Burst + again + (clients[counted].last - since)
        BY <1>1, <2>1 DEF RateInv, TimesInv, Balance
      <3> QED
        BY <1>1, <2>1, <3>1 DEF Behind, RateBound
    <2>2. CASE counted \notin DOMAIN clients
      BY <1>1, <2>2 DEF RateInv, TimesInv, Balance, RateBound
    <2> QED
      BY <2>1, <2>2
  <1> QED
    BY <1>1, RateInvariant, PTL

\* A client who waited is not refused.
THEOREM PatientClientsServed == Spec => PatientServed
  <1> DEFINE Step == \A g \in Goroutines :
                 pc[g] = "timed" /\ pc'[g] = "idle" => now[g] <= latest[client[g]]
  <1>1. TypeOK /\ RateInv /\ [Next]_vars => [Step]_vars
    <2> SUFFICES ASSUME TypeOK, RateInv, Next, NEW g \in Goroutines,
                        pc[g] = "timed", pc'[g] = "idle"
                 PROVE  now[g] <= latest[client[g]]
      OBVIOUS
    <2>1. Take(g)
      <3>1. ~Pass /\ ~Measure
        BY DEF Pass, Measure
      <3>2. PICK h \in Goroutines : Arrive(h) \/ ReadClock(h) \/ Take(h) \/ Done(h)
        BY <3>1 DEF Next
      <3>3. h = g
        BY <3>2 DEF Arrive, ReadClock, Take, Done, Leave, TypeOK
      <3> QED
        BY <3>2, <3>3 DEF Arrive, ReadClock, Done, TypeOK
    <2> DEFINE c == client[g]
               t == now[g]
    <2>2. ~Allow(g)
      BY <2>1 DEF Take, TypeOK, Kept, Found, Allow
    <2>3. /\ c \in Clients /\ t \in Nat
          /\ DOMAIN Kept(g) \subseteq DOMAIN clients
          /\ \A x \in DOMAIN Kept(g) : Kept(g)[x] = clients[x]
      BY <2>1, TakeStep, Numbers
    <2>4. c \in DOMAIN Kept(g)
      BY <2>2, AccessAssumption DEF Allow, Found, FullBucket
    <2>5. Found(g).tokens = AtMost(clients[c].tokens + (t - clients[c].last), Burst)
      BY <2>3, <2>4 DEF Found, Filled
    <2>6. clients[c].tokens \in Int /\ clients[c].last \in Nat /\ latest[c] \in Int
      BY <2>3, <2>4, Numbers
    <2>7. Behind(clients[c], latest[c])
      BY <2>3, <2>4 DEF RateInv, TimesInv
    <2> HIDE DEF c, t
    <2>8. t <= latest[c]
      BY <2>2, <2>3, <2>5, <2>6, <2>7, AccessAssumption DEF Allow, AtMost, Behind
    <2> QED
      BY <2>8 DEF c, t
  <1> QED
    BY <1>1, RateInvariant, PTL DEF Spec, PatientServed

--------------------------------------------------------------------------------
(* Slots and buckets.                                                         *)

\* Every step keeps the slots in use and the queries in flight equal.
LEMMA SlotsStep == TypeOK /\ SlotsAccounted /\ [Next]_vars => SlotsAccounted'
  <1> SUFFICES ASSUME TypeOK, SlotsAccounted, [Next]_vars PROVE SlotsAccounted'
    OBVIOUS
  <1>1. IsFiniteSet(Busy) /\ Cardinality(Busy) \in Nat
    BY AccessAssumption, FS_Subset, FS_CardinalityType DEF Busy
  <1>2. ASSUME Busy' = Busy, active' = active PROVE SlotsAccounted'
    BY <1>2 DEF SlotsAccounted
  <1>3. ASSUME NEW g \in Goroutines, Arrive(g) PROVE SlotsAccounted'
    <2>1. Busy' = Busy \union {g} /\ g \notin Busy /\ active' = active + 1
      BY <1>3 DEF Arrive, Busy, TypeOK
    <2>2. Cardinality(Busy') = Cardinality(Busy) + 1
      BY <1>1, <2>1, FS_AddElement
    <2> QED
      BY <1>1, <1>3, <2>1, <2>2, AccessAssumption DEF Arrive, SlotsAccounted
  <1>4. ASSUME NEW g \in Goroutines, Leave(g), pc[g] # "idle" PROVE SlotsAccounted'
    <2>1. Busy' = Busy \ {g} /\ g \in Busy /\ active' = active - 1
      BY <1>4 DEF Leave, Busy, TypeOK
    <2>2. Cardinality(Busy') = Cardinality(Busy) - 1
      BY <1>1, <2>1, FS_RemoveElement
    <2> QED
      BY <1>1, <2>1, <2>2, AccessAssumption DEF SlotsAccounted
  <1>5. ASSUME NEW g \in Goroutines, Take(g) \/ Done(g) PROVE SlotsAccounted'
    <2>1. CASE Leave(g)
      BY <1>4, <1>5, <2>1 DEF Take, Done
    <2>2. CASE ~Leave(g)
      <3>1. /\ pc[g] = "timed" /\ pc' = [pc EXCEPT ![g] = "serving"] /\ active' = active
        BY <1>5, <2>2 DEF Take, Done
      <3> QED
        BY <1>2, <3>1 DEF Busy, TypeOK
    <2> QED
      BY <2>1, <2>2
  <1>6. ASSUME NEW g \in Goroutines, ReadClock(g) PROVE SlotsAccounted'
    BY <1>2, <1>6 DEF ReadClock, Busy, TypeOK
  <1>7. ASSUME Pass \/ Measure \/ UNCHANGED vars
        PROVE  SlotsAccounted'
    BY <1>2, <1>7 DEF Pass, Measure, vars, Busy
  <1> QED
    BY <1>3, <1>5, <1>6, <1>7 DEF Next

\* Every slot in use belongs to a query being served, and there are never more
\* than MaxInFlight.
THEOREM SlotsCorrect == Spec => []SlotsAccounted
  <1>1. Init => SlotsAccounted
    <2> SUFFICES ASSUME Init PROVE SlotsAccounted
      OBVIOUS
    <2>1. Busy = {}
      BY DEF Init, Busy
    <2> QED
      BY <2>1, FS_EmptySet, AccessAssumption DEF Init, SlotsAccounted
  <1> QED
    BY <1>1, SlotsStep, TypeCorrect, PTL DEF Spec

\* The table of buckets stays bounded.
THEOREM BucketsStayBounded == Spec => []BucketsBounded
  <1>1. Init => BucketsBounded
    BY FS_EmptySet, AccessAssumption DEF Init, BucketsBounded
  <1>2. TypeOK /\ BucketsBounded /\ [Next]_vars => BucketsBounded'
    <2> SUFFICES ASSUME TypeOK, BucketsBounded, [Next]_vars PROVE BucketsBounded'
      OBVIOUS
    <2>1. ASSUME NEW g \in Goroutines, Take(g) PROVE BucketsBounded'
      <3>1. /\ DOMAIN Kept(g) \subseteq Clients
            /\ Cardinality(DOMAIN Kept(g)) < MaxClients
            /\ DOMAIN clients' = DOMAIN Kept(g) \union {client[g]}
        BY <2>1, TakeStep DEF TypeOK
      <3> DEFINE kept == DOMAIN Kept(g)
                 c == client[g]
      <3> HIDE DEF kept, c
      <3>2. IsFiniteSet(kept) /\ Cardinality(kept) \in Nat
        BY <3>1, AccessAssumption, FS_Subset, FS_CardinalityType DEF kept
      <3>3. Cardinality(kept \union {c}) <= Cardinality(kept) + 1
        <4>1. Cardinality(kept \union {c})
                  = IF c \in kept THEN Cardinality(kept) ELSE Cardinality(kept) + 1
          BY <3>2, FS_AddElement
        <4> QED
          BY <3>2, <4>1
      <3>4. /\ Cardinality(kept) < MaxClients
            /\ DOMAIN clients' = kept \union {c}
            /\ MaxClients \in Nat
        BY <3>1, AccessAssumption DEF kept, c
      <3>5. Cardinality(kept \union {c}) \in Nat
        BY <3>2, FS_AddElement, FS_CardinalityType
      <3>6. Cardinality(DOMAIN clients') <= MaxClients
        BY <3>2, <3>3, <3>4, <3>5
      <3> QED
        BY <3>6 DEF BucketsBounded
    <2>2. ASSUME NEW g \in Goroutines, Arrive(g) \/ ReadClock(g) \/ Done(g)
          PROVE  BucketsBounded'
      BY <2>2 DEF Arrive, ReadClock, Done, BucketsBounded
    <2>3. ASSUME Pass \/ Measure \/ UNCHANGED vars
          PROVE  BucketsBounded'
      BY <2>3 DEF Pass, Measure, vars, BucketsBounded
    <2> QED
      BY <2>1, <2>2, <2>3 DEF Next
  <1> QED
    BY <1>1, <1>2, TypeCorrect, PTL DEF Spec

\* Slots are accounted for, and neither they nor buckets grow beyond their limits.
THEOREM ResourcesStayBounded == Spec => []ResourcesBounded
  BY SlotsCorrect, BucketsStayBounded, PTL DEF ResourcesBounded
================================================================================
