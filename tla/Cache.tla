--------------------------------- MODULE Cache ---------------------------------
(***************************************************************************)
(* The DNS cache: internal/cache/cache.go.                                 *)
(*                                                                         *)
(* Keys are hashed to shards, each with a lock and a limit of its own.     *)
(* Callers read the clock before they call (time.Now() is an argument), so *)
(* they come in another order than their readings.  Get looks an answer up *)
(* under a read lock and, when its time is over, removes the key under a   *)
(* lock it takes anew.  An answer is the sequence of its records, of which *)
(* only the TTL matters.                                                   *)
(*                                                                         *)
(* Definitions marked "fault" are plausible mistakes.  Nothing uses them;  *)
(* each takes the place of the definition after it to show that a property *)
(* notices.                                                                *)
(***************************************************************************)
EXTENDS Integers, Sequences, FiniteSets

CONSTANTS
    Workers,         \* goroutines of the DNS servers
    Keys,            \* cache keys
    Hash,            \* the hash of each key
    Messages,        \* answers of upstreams
    Capacities,      \* for how many answers a cache may be made
    ShardCount,      \* 256
    MinTTL, MaxTTL,  \* the settings, in seconds
    TicksPerSecond,  \* resolution of the clock
    Width,           \* 2^32: seconds are counted in uint32
    MaxTime,         \* bound: where the clock stops
    None             \* no entry, no key, no message

Record == [kind : {"rr", "soa", "opt"}, ttl : 0..(Width - 1), minttl : 0..(Width - 1)]

ASSUME ConstantsAssumption ==
    /\ Hash \in [Keys -> Nat]
    /\ IsFiniteSet(Keys)
    /\ Capacities \subseteq Nat
    /\ ShardCount \in Nat \ {0}
    /\ TicksPerSecond \in Nat \ {0}
    /\ Width \in Nat \ {0}
    /\ MinTTL \in Nat /\ MaxTTL \in Nat /\ MinTTL <= MaxTTL
    /\ MaxTTL < Width
    /\ MaxTime \in Nat

ASSUME MessagesAssumption ==
    \A m \in Messages : m.keepable \in BOOLEAN /\ m.records \in Seq(Record)

Item  == [message : Messages, stored : 0..MaxTime, expires : Nat]
Given == [message : Messages, ttls : Seq(Nat)]

\* What a worker that is in Get or Set brought.
CallRecord == [key : Keys, now : 0..MaxTime, message : Messages \union {None}]

ASSUME NoneAssumption ==
    /\ None \notin Keys /\ None \notin Messages /\ None \notin Item /\ None \notin Given
    /\ None \notin CallRecord

VARIABLES
    capacity,  \* what the cache was made for
    clock,     \* ticks
    items,     \* the entry of each key, or None
    pc,        \* where each worker is
    key,       \* the key of its call, or None
    now,       \* the time it read
    message,   \* the answer it stores, or None
    given      \* what Get returned to it, or None

locals == <<pc, key, now, message, given>>
vars   == <<capacity, clock, items, pc, key, now, message, given>>

--------------------------------------------------------------------------------
(* New.                                                                        *)

Count ==
    IF capacity < 1 THEN 1 ELSE IF capacity > ShardCount THEN ShardCount ELSE capacity

Limit(i) ==
    IF capacity = 0 THEN 0
    ELSE capacity \div Count + (IF i < capacity % Count THEN 1 ELSE 0)

ShardOf(k) == Hash[k] % Count
InShard(i) == {k \in Keys : items[k] # None /\ ShardOf(k) = i}

Init ==
    /\ capacity \in Capacities
    /\ clock = 0
    /\ items = [k \in Keys |-> None]
    /\ pc = [w \in Workers |-> "idle"]
    /\ key = [w \in Workers |-> None]
    /\ now = [w \in Workers |-> 0]
    /\ message = [w \in Workers |-> None]
    /\ given = [w \in Workers |-> None]

--------------------------------------------------------------------------------
(* Times to live.                                                              *)

\* allRecords: the TTL of OPT is none.
Counts(r) == r.kind # "opt"

RecordTTL(r) == IF r.kind = "soa" /\ r.minttl < r.ttl THEN r.minttl ELSE r.ttl

\* The loop of messageTTL takes the next TTL for the minimum while that is 0.
Lower(minimum, r) ==
    IF Counts(r) /\ (minimum = 0 \/ RecordTTL(r) < minimum) THEN RecordTTL(r) ELSE minimum

Minima(records) ==
    LET minimum[i \in 0..Len(records)] ==
            IF i = 0 THEN 0 ELSE Lower(minimum[i - 1], records[i])
    IN minimum

messageTTL(m) == Minima(m.records)[Len(m.records)]

Clamp(ttl) == IF ttl > MaxTTL THEN MaxTTL ELSE IF ttl < MinTTL THEN MinTTL ELSE ttl

ElapsedSigned(d) ==                                                \* fault
    IF d >= 0 THEN d \div TicksPerSecond ELSE -((-d) \div TicksPerSecond)

\* uint32(d / time.Second): the division drops what is less than a second.
Elapsed(d) ==
    (IF d >= 0 THEN d \div TicksPerSecond ELSE -((-d) \div TicksPerSecond)) % Width

Aged(r, seconds) ==
    IF ~Counts(r) THEN r.ttl ELSE IF r.ttl > seconds THEN r.ttl - seconds ELSE 0

Served(item, t) ==
    [message |-> item.message,
     ttls    |-> [i \in DOMAIN item.message.records |->
                     Aged(item.message.records[i], Elapsed(t - item.stored))]]

--------------------------------------------------------------------------------

Tick ==
    /\ clock < MaxTime
    /\ clock' = clock + 1
    /\ UNCHANGED <<capacity, items, locals>>

Goto(w, label) == pc' = [pc EXCEPT ![w] = label]

CallForNothing(w, k, label) ==                                     \* fault
    /\ pc[w] = "idle"
    /\ now' = [now EXCEPT ![w] = clock]
    /\ given' = [given EXCEPT ![w] = None]
    /\ Goto(w, label)
    /\ UNCHANGED <<capacity, clock, items, key>>

Call(w, k, label) ==
    /\ pc[w] = "idle"
    /\ key' = [key EXCEPT ![w] = k]
    /\ now' = [now EXCEPT ![w] = clock]
    /\ given' = [given EXCEPT ![w] = None]
    /\ Goto(w, label)
    /\ UNCHANGED <<capacity, clock, items>>

\* The call is over, with this result.
Finish(w, result) ==
    /\ given' = [given EXCEPT ![w] = result]
    /\ Goto(w, "idle")
    /\ key' = [key EXCEPT ![w] = None]
    /\ now' = [now EXCEPT ![w] = 0]
    /\ message' = [message EXCEPT ![w] = None]
    /\ UNCHANGED <<capacity, clock>>

Get(w, k) == Call(w, k, "look") /\ UNCHANGED message

Fits(item, t) == item # None /\ t < item.expires

\* Under the read lock.
Hit(w) ==
    /\ pc[w] = "look"
    /\ Fits(items[key[w]], now[w])
    /\ Finish(w, Served(items[key[w]], now[w]))
    /\ UNCHANGED items

Miss(w) ==
    /\ pc[w] = "look"
    /\ items[key[w]] = None
    /\ Finish(w, None)
    /\ UNCHANGED items

Expired(w) ==
    /\ pc[w] = "look"
    /\ items[key[w]] # None
    /\ ~Fits(items[key[w]], now[w])
    /\ Goto(w, "expired")
    /\ UNCHANGED <<capacity, clock, items, key, now, message, given>>

\* Under the lock: whatever the key has by now.
Remove(w) ==
    /\ pc[w] = "expired"
    /\ items' = [items EXCEPT ![key[w]] = None]
    /\ Finish(w, None)

\* Set, up to the lock; it does nothing for other messages.
Set(w, k, m) ==
    /\ Limit(0) # 0
    /\ m.keepable
    /\ Clamp(messageTTL(m)) > 0
    /\ Call(w, k, "store")
    /\ message' = [message EXCEPT ![w] = m]

Entry(m, t) == [message |-> m, stored |-> t, expires |-> t + Clamp(messageTTL(m)) * TicksPerSecond]

FullBeyond(k) == items[k] = None /\ Cardinality(InShard(ShardOf(k))) > Limit(ShardOf(k))  \* fault

\* A new key meets a full shard.
Full(k) == items[k] = None /\ Cardinality(InShard(ShardOf(k))) >= Limit(ShardOf(k))

\* Under the lock: a new key in a full shard takes the place of others, in the
\* order in which a map is walked, which is any.
Store(w) ==
    LET k     == key[w]
        shard == InShard(ShardOf(k))
    IN
    /\ pc[w] = "store"
    /\ \E gone \in SUBSET shard :
           /\ IF Full(k)
              THEN Cardinality(shard \ gone) = Limit(ShardOf(k)) - 1
              ELSE gone = {}
           /\ items' = [j \in Keys |-> IF j = k THEN Entry(message[w], now[w])
                                       ELSE IF j \in gone THEN None ELSE items[j]]
    /\ Finish(w, None)

Work(w) ==
    \/ \E k \in Keys : Get(w, k)
    \/ Hit(w) \/ Miss(w) \/ Expired(w) \/ Remove(w)
    \/ \E k \in Keys, m \in Messages : Set(w, k, m)
    \/ Store(w)

Next == Tick \/ \E w \in Workers : Work(w)

Spec == Init /\ [][Next]_vars

--------------------------------------------------------------------------------
(* Properties. *)

TypeOK ==
    /\ capacity \in Capacities
    /\ clock \in 0..MaxTime
    /\ items \in [Keys -> Item \union {None}]
    /\ pc \in [Workers -> {"idle", "look", "expired", "store"}]
    /\ key \in [Workers -> Keys \union {None}]
    /\ now \in [Workers -> 0..MaxTime]
    /\ message \in [Workers -> Messages \union {None}]
    /\ given \in [Workers -> Given \union {None}]
    /\ \A w \in Workers : pc[w] # "idle" => key[w] # None /\ given[w] = None
    /\ \A w \in Workers : pc[w] = "store" <=> message[w] # None

\* Callers that store at the same time, under new and known keys, never exceed
\* the limit of a shard, nor those of all shards together the capacity; a cache
\* of capacity 0 stays empty.
ShardsBounded == \A i \in 0..(Count - 1) : Cardinality(InShard(i)) <= Limit(i)
CapacityHeld ==
    /\ ShardsBounded
    /\ Cardinality({k \in Keys : items[k] # None}) <= capacity

\* How long an answer may be kept: the least of its TTLs, within the settings.
\* Where a TTL is 0 the code keeps it for one of the others.
Lives(m) ==
    LET ttls  == {RecordTTL(m.records[i]) : i \in {j \in DOMAIN m.records : Counts(m.records[j])}}
        least == IF ttls = {} \/ 0 \in ttls THEN ttls \union {0}
                 ELSE {s \in ttls : \A r \in ttls : s <= r}
    IN {Clamp(t) * TicksPerSecond : t \in least}

\* The calls under way.
CallsSeen ==
    [w \in Workers |->
        IF pc[w] = "idle" THEN None
        ELSE [key |-> key[w], now |-> now[w], message |-> message[w]]]

\* Whatever the callers' order, and however late they are: an answer is served
\* only to a caller of its key, only when the caller's reading is within its time,
\* and with exactly the time left that it has then (a caller who read the clock
\* before the answer came may find it older, never younger); it is kept from the
\* reading of the caller who brought it, for as long as its TTLs and the settings
\* say (Get, Set).
Promise == INSTANCE KeptAnswers WITH kept <- items, calls <- CallsSeen
RefinesKept == Promise!Safety
================================================================================
