------------------------------ MODULE CacheProofs ------------------------------
(***************************************************************************)
(* What Cache keeps for any number of workers, keys, shards and answers,   *)
(* any capacity and any settings.                                          *)
(***************************************************************************)
EXTENDS Cache, TLAPS, FiniteSetTheorems, WellFoundedInduction

--------------------------------------------------------------------------------
(* Numbers.                                                                    *)

\* A set of natural numbers has a least one, if it has any.  Induction below is
\* by this: the least number without a property is 0, or follows one with it.
LEMMA Least ==
    ASSUME NEW T \in SUBSET Nat, T # {}
    PROVE  \E x \in T : \A y \in T : x <= y
<1> DEFINE R == OpToRel(<, Nat)
<1>1. IsWellFoundedOn(R, Nat)
  BY NatLessThanWellFounded
<1>2. PICK x \in T : \A y \in T : ~ (<<y, x>> \in R)
  <2> HIDE DEF R
  <2> QED
    BY <1>1, WFMin
<1>3. ASSUME NEW y \in T
      PROVE  x <= y
  <2>1. ~ (<<y, x>> \in R)
    BY <1>2
  <2>2. ~ (y < x)
    BY <2>1 DEF OpToRel
  <2> QED
    BY <2>2
<1> QED
  BY <1>3

LEMMA Division ==
    ASSUME NEW a \in Int, NEW b \in Int, b > 0
    PROVE  /\ a \div b \in Int
           /\ a % b \in 0..(b - 1)
           /\ a = (a \div b) * b + (a % b)
<1>1. a = (a \div b) * b + (a % b)
  BY Z3T(30)
<1>2. a \div b \in Int /\ a % b \in 0..(b - 1)
  OBVIOUS
<1> QED
  BY <1>1, <1>2

--------------------------------------------------------------------------------
(* How long an answer is kept.                                                 *)

\* f solves the equation that defines Minima.
Solves(f, records, n) ==
    f = [i \in 0..n |-> IF i = 0 THEN 0 ELSE Lower(f[i - 1], records[i])]

\* There is a solution.
LEMMA Solvable ==
    ASSUME NEW records, NEW n \in Nat
    PROVE  \E f : Solves(f, records, n)
<1> DEFINE T == {j \in Nat : ~ \E f : Solves(f, records, j)}
<1> SUFFICES ASSUME T # {}
             PROVE  FALSE
  OBVIOUS
<1>1. PICK x \in T : \A y \in T : x <= y
  BY Least
<1>2. CASE x = 0
  <2>1. Solves([i \in 0..0 |-> 0], records, 0)
    BY DEF Solves
  <2> QED
    BY <1>2, <2>1
<1>3. CASE x # 0
  <2>1. x - 1 \in Nat /\ x - 1 \notin T
    BY <1>1, <1>3
  <2>2. PICK g : Solves(g, records, x - 1)
    BY <2>1
  <2> DEFINE h == [i \in 0..x |-> IF i < x THEN g[i] ELSE Lower(g[x - 1], records[x])]
  <2>3. ASSUME NEW i \in 0..x
        PROVE  h[i] = IF i = 0 THEN 0 ELSE Lower(h[i - 1], records[i])
    <3>1. CASE i < x
      <4>1. i \in 0..(x - 1)
        BY <3>1
      <4>2. g[i] = IF i = 0 THEN 0 ELSE Lower(g[i - 1], records[i])
        BY <4>1, <2>2 DEF Solves
      <4> QED
        BY <4>1, <4>2, <3>1
    <3>2. CASE i = x
      BY <3>2, <1>3, <2>1
    <3> QED
      BY <3>1, <3>2
  <2>4. Solves(h, records, x)
    BY <2>3 DEF Solves
  <2> QED
    BY <2>4
<1> QED
  BY <1>2, <1>3

LEMMA MinimaSolves ==
    ASSUME NEW records, Len(records) \in Nat
    PROVE  Solves(Minima(records), records, Len(records))
<1>1. \E f : Solves(f, records, Len(records))
  BY Solvable
<1>2. Minima(records) =
          CHOOSE f : f = [i \in 0..Len(records) |->
                              IF i = 0 THEN 0 ELSE Lower(f[i - 1], records[i])]
  BY Zenon DEF Minima
<1>3. Minima(records) = CHOOSE f : Solves(f, records, Len(records))
  BY <1>2 DEF Solves
<1> QED
  BY <1>1, <1>3

\* The TTLs the loop has met after n rounds.
Met(records, n) == {RecordTTL(records[i]) : i \in {j \in 1..n : Counts(records[j])}}

\* What holds of the loop's minimum: it is the least TTL, unless one is 0.
Good(minimum, met) ==
    /\ minimum \in met \union {0}
    /\ 0 \notin met /\ met # {} => minimum \in met /\ \A t \in met : minimum <= t

LEMMA LowerGood ==
    ASSUME NEW records, NEW n \in Nat, NEW minimum,
           Met(records, n + 1) \subseteq Nat,
           Good(minimum, Met(records, n))
    PROVE  Good(Lower(minimum, records[n + 1]), Met(records, n + 1))
<1> DEFINE r == records[n + 1]
           old == Met(records, n)
           new == Met(records, n + 1)
<1>1. CASE ~Counts(r)
  <2>1. new = old
    <3>1. {j \in 1..(n + 1) : Counts(records[j])} = {j \in 1..n : Counts(records[j])}
      BY <1>1
    <3> QED
      BY <3>1 DEF Met
  <2> QED
    BY <1>1, <2>1 DEF Lower
<1>2. CASE Counts(r)
  <2>1. new = old \union {RecordTTL(r)}
    <3>1. {j \in 1..(n + 1) : Counts(records[j])}
              = {j \in 1..n : Counts(records[j])} \union {n + 1}
      BY <1>2
    <3> QED
      BY <3>1 DEF Met
  <2> DEFINE t == RecordTTL(r)
  <2>2. t \in Nat /\ old \subseteq Nat /\ minimum \in Nat
    BY <2>1 DEF Good
  <2>3. Lower(minimum, r) = IF minimum = 0 \/ t < minimum THEN t ELSE minimum
    BY <1>2 DEF Lower
  <2> HIDE DEF t, old, new, r
  <2>4. Good(IF minimum = 0 \/ t < minimum THEN t ELSE minimum, old \union {t})
    <3>1. Good(minimum, old)
      BY DEF old
    <3> QED
      BY <2>2, <3>1 DEF Good
  <2> QED
    BY <2>1, <2>3, <2>4 DEF t, old, new, r
<1> QED
  BY <1>1, <1>2

\* The minimum at the end of the loop.
LEMMA MinimumGood ==
    ASSUME NEW records \in Seq(Record)
    PROVE  Good(Minima(records)[Len(records)], Met(records, Len(records)))
<1> DEFINE len == Len(records)
           T   == {n \in Nat : n <= len /\ ~ Good(Minima(records)[n], Met(records, n))}
<1>1. len \in Nat /\ \A i \in 1..len : records[i] \in Record
  OBVIOUS
<1>2. Solves(Minima(records), records, len)
  BY <1>1, MinimaSolves
<1>3. \A n \in 0..len : Minima(records)[n] =
          IF n = 0 THEN 0 ELSE Lower(Minima(records)[n - 1], records[n])
  BY <1>1, <1>2 DEF Solves
<1>4. \A n \in 0..len : Met(records, n) \subseteq Nat
  <2>1. \A r \in Record : r.ttl \in Nat /\ r.minttl \in Nat
    BY ConstantsAssumption DEF Record
  <2>2. \A r \in Record : RecordTTL(r) \in Nat
    BY <2>1 DEF RecordTTL
  <2> QED
    BY <1>1, <2>2 DEF Met
<1> SUFFICES ASSUME T # {}
             PROVE  FALSE
  BY <1>1
<1>5. PICK n \in T : \A k \in T : n <= k
  BY Least
<1>6. CASE n = 0
  <2>1. Minima(records)[0] = 0
    BY <1>1, <1>3
  <2>2. Met(records, 0) = {}
    BY DEF Met
  <2> QED
    BY <1>5, <1>6, <2>1, <2>2 DEF Good
<1>7. CASE n # 0
  <2> DEFINE k == n - 1
  <2>1. k \in Nat /\ k <= len /\ k \notin T /\ n = k + 1 /\ n \in 0..len
    BY <1>1, <1>5, <1>7
  <2>2. Good(Minima(records)[k], Met(records, k))
    BY <2>1
  <2>3. Minima(records)[n] = Lower(Minima(records)[k], records[n])
    BY <1>3, <1>7, <2>1
  <2>4. Met(records, k + 1) \subseteq Nat
    BY <1>4, <2>1
  <2>5. Good(Lower(Minima(records)[k], records[k + 1]), Met(records, k + 1))
    <3> HIDE DEF k
    <3> QED
      BY <2>1, <2>2, <2>4, LowerGood
  <2> QED
    BY <1>5, <2>1, <2>3, <2>5
<1> QED
  BY <1>6, <1>7

LEMMA LifeNat ==
    ASSUME NEW t \in Nat
    PROVE  Clamp(t) \in Nat /\ Clamp(t) <= MaxTTL
BY ConstantsAssumption DEF Clamp

\* The loop finds what Lives allows.
LEMMA LifeAllowed ==
    ASSUME NEW m \in Messages
    PROVE  /\ messageTTL(m) \in Nat
           /\ Clamp(messageTTL(m)) * TicksPerSecond \in Lives(m)
<1> DEFINE records == m.records
           ttls    == Met(records, Len(records))
           min     == messageTTL(m)
           counted == {j \in DOMAIN records : Counts(records[j])}
<1>1. records \in Seq(Record)
  BY MessagesAssumption
<1>2. Good(min, ttls)
  BY <1>1, MinimumGood DEF messageTTL
<1>3. ttls \subseteq Nat
  <2>1. \A i \in 1..Len(records) : records[i] \in Record
    BY <1>1
  <2> HIDE DEF records
  <2> QED
    BY <2>1, ConstantsAssumption DEF Met, RecordTTL, Record
<1>4. min \in Nat
  BY <1>2, <1>3 DEF Good
<1>5. ttls = {RecordTTL(records[i]) : i \in counted}
  <2>1. DOMAIN records = 1..Len(records)
    BY <1>1
  <2> QED
    BY <2>1 DEF Met
<1> DEFINE least == IF ttls = {} \/ 0 \in ttls THEN ttls \union {0}
                    ELSE {s \in ttls : \A r \in ttls : s <= r}
<1>6. min \in least
  BY <1>2 DEF Good
<1>7. Lives(m) = {Clamp(t) * TicksPerSecond : t \in least}
  BY <1>5 DEF Lives
<1> QED
  BY <1>4, <1>6, <1>7


--------------------------------------------------------------------------------
(* Types.                                                                      *)

\* An entry expires after its message came, and not later than the settings say.
ItemsInv == \A k \in Keys : items[k] # None => items[k].expires <= items[k].stored + MaxTTL * TicksPerSecond

CacheInv == TypeOK /\ ItemsInv

LEMMA InitCacheInv ==
    Init => CacheInv
<1> SUFFICES ASSUME Init
             PROVE  CacheInv
  OBVIOUS
<1>1. capacity \in Capacities /\ clock \in 0..MaxTime /\ ItemsInv
  BY ConstantsAssumption DEF Init, ItemsInv
<1>2. items \in [Keys -> Item \union {None}]
  BY DEF Init
<1>3. /\ pc \in [Workers -> {"idle"}]
      /\ key \in [Workers -> Keys \union {None}]
      /\ message \in [Workers -> Messages \union {None}]
      /\ given \in [Workers -> Given \union {None}]
  BY DEF Init
<1>4. now \in [Workers -> 0..MaxTime]
  BY ConstantsAssumption DEF Init
<1>5. \A w \in Workers : pc[w] = "idle" /\ message[w] = None
  BY DEF Init
<1> QED
  BY <1>1, <1>2, <1>3, <1>4, <1>5 DEF CacheInv, TypeOK

\* What Get returns is the message with other TTLs.
LEMMA ServedTypes ==
    ASSUME NEW item \in Item, NEW t \in 0..MaxTime
    PROVE  Served(item, t) \in Given
<1> DEFINE records == item.message.records
           seconds == Elapsed(t - item.stored)
<1>1. records \in Seq(Record) /\ item.message \in Messages
  BY MessagesAssumption DEF Item
<1>2. seconds \in Nat
  <2>1. t - item.stored \in Int
    BY ConstantsAssumption DEF Item
  <2>2. (t - item.stored) \div TicksPerSecond \in Int
        /\ (-(t - item.stored)) \div TicksPerSecond \in Int
    BY <2>1, ConstantsAssumption, Division
  <2> QED
    BY <2>1, <2>2, ConstantsAssumption, Division DEF Elapsed
<1>3. \A i \in 1..Len(records) : Aged(records[i], seconds) \in Nat
  <2> HIDE DEF seconds
  <2>1. \A r \in Record : Aged(r, seconds) \in Nat
    BY <1>2, ConstantsAssumption DEF Record, Aged
  <2> QED
    BY <1>1, <2>1
<1>4. [i \in 1..Len(records) |-> Aged(records[i], seconds)] \in Seq(Nat)
  BY <1>1, <1>3
<1>5. DOMAIN records = 1..Len(records)
  BY <1>1
<1>6. Served(item, t) = [message |-> item.message,
                         ttls |-> [i \in 1..Len(records) |-> Aged(records[i], seconds)]]
  BY <1>5 DEF Served
<1> HIDE DEF records, seconds
<1> QED
  BY <1>1, <1>4, <1>6 DEF Given

\* What Set stores.
LEMMA EntryTypes ==
    ASSUME NEW m \in Messages, NEW t \in 0..MaxTime
    PROVE  /\ Entry(m, t) \in Item
           /\ Entry(m, t).expires <= Entry(m, t).stored + MaxTTL * TicksPerSecond
<1> DEFINE life == Clamp(messageTTL(m))
<1>1. life \in Nat /\ life <= MaxTTL
  BY LifeAllowed, LifeNat
<1>2. life * TicksPerSecond \in Nat /\ MaxTTL * TicksPerSecond \in Nat
  BY <1>1, ConstantsAssumption
<1>3. life * TicksPerSecond <= MaxTTL * TicksPerSecond
  <2> HIDE DEF life
  <2>1. \A a, b, c \in Nat : a <= b => a * c <= b * c
    BY Z3T(30)
  <2> QED
    BY <1>1, <2>1, ConstantsAssumption
<1>4. Entry(m, t) = [message |-> m, stored |-> t, expires |-> t + life * TicksPerSecond]
  BY DEF Entry
<1> HIDE DEF life
<1>5. t \in Nat
  BY ConstantsAssumption
<1> QED
  BY <1>2, <1>3, <1>4, <1>5 DEF Item

LEMMA CallTypes ==
    ASSUME CacheInv, NEW w \in Workers, NEW k \in Keys, NEW l \in {"look", "store"},
           Call(w, k, l), message' \in [Workers -> Messages \union {None}],
           \A v \in Workers \ {w} : message'[v] = message[v],
           l = "store" <=> message'[w] # None
    PROVE  CacheInv'
<1>1. /\ key' \in [Workers -> Keys \union {None}] /\ key'[w] = k
      /\ now' \in [Workers -> 0..MaxTime]
      /\ given' \in [Workers -> Given \union {None}] /\ given'[w] = None
      /\ pc' = [pc EXCEPT ![w] = l]
      /\ \A v \in Workers \ {w} : key'[v] = key[v] /\ given'[v] = given[v]
  BY DEF CacheInv, TypeOK, Call, Goto
<1>2. capacity' = capacity /\ clock' = clock /\ items' = items
  BY DEF Call
<1>3. k # None
  BY NoneAssumption
<1> QED
  BY <1>1, <1>2, <1>3 DEF CacheInv, TypeOK, ItemsInv

LEMMA FinishTypes ==
    ASSUME CacheInv, NEW w \in Workers, NEW r \in Given \union {None}, Finish(w, r),
           items' \in [Keys -> Item \union {None}], ItemsInv'
    PROVE  CacheInv'
<1>1. /\ key' \in [Workers -> Keys \union {None}]
      /\ now' \in [Workers -> 0..MaxTime]
      /\ message' \in [Workers -> Messages \union {None}]
      /\ given' \in [Workers -> Given \union {None}]
      /\ pc' = [pc EXCEPT ![w] = "idle"]
      /\ \A v \in Workers \ {w} : key'[v] = key[v] /\ given'[v] = given[v] /\ message'[v] = message[v]
      /\ message'[w] = None
  BY ConstantsAssumption DEF CacheInv, TypeOK, Finish, Goto
<1>2. capacity' = capacity /\ clock' = clock
  BY DEF Finish
<1> QED
  BY <1>1, <1>2 DEF CacheInv, TypeOK

LEMMA StoreItems ==
    ASSUME CacheInv, NEW w \in Workers, Store(w)
    PROVE  /\ key[w] \in Keys
           /\ message[w] \in Messages
           /\ items' \in [Keys -> Item \union {None}]
           /\ items'[key[w]] = Entry(message[w], now[w])
           /\ \A k \in Keys \ {key[w]} : items'[k] \in {items[k], None}
           /\ ItemsInv'
<1>1. key[w] \in Keys /\ message[w] \in Messages /\ now[w] \in 0..MaxTime
  BY DEF Store, CacheInv, TypeOK
<1>2. PICK gone \in SUBSET InShard(ShardOf(key[w])) :
          items' = [j \in Keys |-> IF j = key[w] THEN Entry(message[w], now[w])
                                   ELSE IF j \in gone THEN None ELSE items[j]]
  BY DEF Store
<1>3. /\ items'[key[w]] = Entry(message[w], now[w])
      /\ \A k \in Keys \ {key[w]} : items'[k] \in {items[k], None}
  BY <1>1, <1>2
<1>4. Entry(message[w], now[w]) \in Item
      /\ Entry(message[w], now[w]).expires
             <= Entry(message[w], now[w]).stored + MaxTTL * TicksPerSecond
  BY <1>1, EntryTypes
<1>5. items' \in [Keys -> Item \union {None}]
  BY <1>2, <1>4 DEF CacheInv, TypeOK
<1>6. ItemsInv'
  BY <1>3, <1>4 DEF CacheInv, ItemsInv
<1> QED
  BY <1>1, <1>3, <1>5, <1>6

LEMMA NextCacheInv ==
    ASSUME CacheInv, [Next]_vars
    PROVE  CacheInv'
<1>0. TypeOK /\ ItemsInv
  BY DEF CacheInv
<1>1. CASE UNCHANGED vars
  BY <1>1 DEF vars, CacheInv, TypeOK, ItemsInv
<1>2. CASE Tick
  <2>1. clock' \in 0..MaxTime
    BY <1>0, <1>2, ConstantsAssumption DEF Tick, TypeOK
  <2> QED
    BY <1>2, <2>1 DEF Tick, locals, CacheInv, TypeOK, ItemsInv
<1>3. ASSUME NEW w \in Workers, Work(w)
      PROVE  CacheInv'
  <2>1. CASE \E k \in Keys : Get(w, k)
    <3>1. PICK k \in Keys : Call(w, k, "look") /\ message' = message
      BY <2>1 DEF Get
    <3>2. message[w] = None
      BY <1>0, <3>1 DEF Call, TypeOK
    <3> QED
      BY <1>0, <3>1, <3>2, CallTypes DEF TypeOK
  <2>2. CASE \E k \in Keys, m \in Messages : Set(w, k, m)
    <3>1. PICK k \in Keys, m \in Messages :
              Call(w, k, "store") /\ message' = [message EXCEPT ![w] = m]
      BY <2>2 DEF Set
    <3>2. /\ message' \in [Workers -> Messages \union {None}]
          /\ \A v \in Workers \ {w} : message'[v] = message[v]
          /\ message'[w] # None
      BY <1>0, <3>1, NoneAssumption DEF TypeOK
    <3> QED
      BY <3>1, <3>2, CallTypes
  <2>3. CASE Hit(w)
    <3>1. items[key[w]] \in Item
      BY <1>0, <2>3 DEF Hit, Fits, TypeOK
    <3>2. Served(items[key[w]], now[w]) \in Given
      BY <1>0, <3>1, ServedTypes DEF TypeOK
    <3>3. items' = items /\ Finish(w, Served(items[key[w]], now[w]))
      BY <2>3 DEF Hit
    <3>4. ItemsInv'
      BY <1>0, <3>3 DEF ItemsInv
    <3> QED
      BY <1>0, <3>2, <3>3, <3>4, FinishTypes DEF TypeOK
  <2>4. CASE Miss(w)
    <3>1. items' = items /\ Finish(w, None)
      BY <2>4 DEF Miss
    <3>2. ItemsInv'
      BY <1>0, <3>1 DEF ItemsInv
    <3> QED
      BY <1>0, <3>1, <3>2, FinishTypes DEF TypeOK
  <2>5. CASE Expired(w)
    BY <1>0, <2>5 DEF Expired, Goto, CacheInv, TypeOK, ItemsInv
  <2>6. CASE Remove(w)
    <3>1. items' = [items EXCEPT ![key[w]] = None] /\ Finish(w, None)
      BY <2>6 DEF Remove
    <3>2. items' \in [Keys -> Item \union {None}] /\ ItemsInv'
      BY <1>0, <3>1 DEF TypeOK, ItemsInv
    <3> QED
      BY <3>1, <3>2, FinishTypes
  <2>7. CASE Store(w)
    <3>1. Finish(w, None)
      BY <2>7 DEF Store
    <3> QED
      BY <2>7, <3>1, StoreItems, FinishTypes
  <2> QED
    BY <1>3, <2>1, <2>2, <2>3, <2>4, <2>5, <2>6, <2>7 DEF Work
<1> QED
  BY <1>1, <1>2, <1>3 DEF Next

\* Every variable keeps its type, the entries are those Store makes, and no shard
\* is beyond its limit.
THEOREM CacheInvariant == Spec => []CacheInv
BY InitCacheInv, NextCacheInv, PTL DEF Spec

\* Every variable keeps its type, and a call knows its key.
THEOREM TypeCorrect == Spec => []TypeOK
<1>1. CacheInv => TypeOK
  BY DEF CacheInv
<1> QED
  BY <1>1, CacheInvariant, PTL


--------------------------------------------------------------------------------
(* The limits.                                                                 *)

\* The shares of the shards: they differ by one at most.
LEMMA Shares ==
    ASSUME TypeOK
    PROVE  \E q, r \in Nat :
               /\ Count \in Nat \ {0}
               /\ capacity = q * Count + r
               /\ r < Count
               /\ \A i \in Nat : Limit(i) = q + (IF i < r THEN 1 ELSE 0)
<1>1. capacity \in Nat /\ Count \in Nat \ {0}
  BY ConstantsAssumption DEF TypeOK, Count
<1> DEFINE q == capacity \div Count
           r == capacity % Count
<1>2. q \in Int /\ r \in 0..(Count - 1) /\ capacity = q * Count + r
  BY <1>1, Division
<1>3. q \in Nat
  <2> HIDE DEF q, r
  <2>1. \A a \in Int, b, c \in Nat : a < 0 /\ b > 0 => a * b + c <= c - b
    <3>1. \A a \in Int, b \in Nat : a < 0 /\ b > 0 => a * b <= -b
      BY Z3T(30)
    <3> QED
      BY <3>1
  <2>2. q < 0 => q * Count + r <= r - Count
    BY <1>1, <1>2, <2>1
  <2> QED
    BY <1>1, <1>2, <2>2
<1>4. ASSUME NEW i \in Nat
      PROVE  Limit(i) = q + (IF i < r THEN 1 ELSE 0)
  <2>1. CASE capacity = 0
    <3>1. Count = 1
      BY <2>1 DEF Count
    <3>2. r = 0 /\ q = 0
      <4> HIDE DEF q, r
      <4> QED
        BY <1>2, <1>3, <2>1, <3>1
    <3>3. Limit(i) = 0
      BY <2>1 DEF Limit
    <3> HIDE DEF q, r
    <3> QED
      BY <3>2, <3>3
  <2>2. CASE capacity # 0
    BY <2>2 DEF Limit
  <2> QED
    BY <2>1, <2>2
<1>5. q \in Nat /\ r \in Nat /\ r < Count
  <2> HIDE DEF q, r
  <2> QED
    BY <1>1, <1>2, <1>3
<1> HIDE DEF q, r
<1> QED
  BY <1>1, <1>2, <1>4, <1>5

\* Fewer keys are no more entries.
LEMMA Smaller ==
    ASSUME NEW A \in SUBSET Keys, NEW B \in SUBSET A
    PROVE  /\ IsFiniteSet(A) /\ Cardinality(A) \in Nat
           /\ Cardinality(B) \in Nat
           /\ Cardinality(B) <= Cardinality(A)
<1>1. IsFiniteSet(A)
  BY FS_Subset, ConstantsAssumption
<1>2. IsFiniteSet(B) /\ Cardinality(B) <= Cardinality(A)
  BY <1>1, FS_Subset
<1> QED
  BY <1>1, <1>2, FS_CardinalityType

LEMMA OneMore ==
    ASSUME NEW A \in SUBSET Keys, NEW k \in Keys
    PROVE  Cardinality(A \union {k}) <= Cardinality(A) + 1
<1>1. IsFiniteSet(A) /\ Cardinality(A) \in Nat
  BY Smaller
<1>2. Cardinality(A \union {k}) = IF k \in A THEN Cardinality(A) ELSE Cardinality(A) + 1
  BY <1>1, FS_AddElement, Zenon
<1> QED
  BY <1>1, <1>2

LEMMA ShardOfCount ==
    ASSUME TypeOK, NEW k \in Keys
    PROVE  ShardOf(k) \in 0..(Count - 1)
<1>1. Count \in Nat \ {0} /\ Hash[k] \in Nat
  BY ConstantsAssumption DEF TypeOK, Count
<1> QED
  BY <1>1, Division DEF ShardOf

\* What takes entries away keeps the limits.
LEMMA FewerBounded ==
    ASSUME TypeOK, ShardsBounded, capacity' = capacity,
           \A k \in Keys : items'[k] # None => items[k] # None
    PROVE  ShardsBounded'
<1>1. Count' = Count /\ \A i : Limit(i)' = Limit(i)
  BY DEF Count, Limit
<1> SUFFICES ASSUME NEW i \in 0..(Count - 1)
             PROVE  Cardinality(InShard(i)') <= Limit(i)
  BY <1>1 DEF ShardsBounded
<1>2. InShard(i)' \in SUBSET InShard(i) /\ InShard(i) \in SUBSET Keys
  BY <1>1 DEF InShard, ShardOf
<1>3. /\ Cardinality(InShard(i)') <= Cardinality(InShard(i))
      /\ Cardinality(InShard(i)) \in Nat /\ Cardinality(InShard(i)') \in Nat
  BY <1>2, Smaller
<1>4. Cardinality(InShard(i)) <= Limit(i)
  BY DEF ShardsBounded
<1>5. Limit(i) \in Nat /\ Count \in Nat
  BY Shares
<1> QED
  BY <1>3, <1>4, <1>5

LEMMA StoreBounded ==
    ASSUME CacheInv, ShardsBounded, NEW w \in Workers, Store(w)
    PROVE  ShardsBounded'
<1> DEFINE k     == key[w]
           shard == InShard(ShardOf(k))
<1>1. TypeOK /\ k \in Keys /\ items'[k] # None
  <2>1. TypeOK /\ k \in Keys /\ message[w] \in Messages /\ items'[k] = Entry(message[w], now[w])
    BY StoreItems DEF CacheInv
  <2>2. now[w] \in 0..MaxTime
    BY <2>1 DEF TypeOK
  <2>3. Entry(message[w], now[w]) \in Item
    BY <2>1, <2>2, EntryTypes
  <2> QED
    BY <2>1, <2>3, NoneAssumption
<1>2. PICK gone \in SUBSET shard :
          /\ IF Full(k) THEN Cardinality(shard \ gone) = Limit(ShardOf(k)) - 1 ELSE gone = {}
          /\ items' = [j \in Keys |-> IF j = k THEN Entry(message[w], now[w])
                                      ELSE IF j \in gone THEN None ELSE items[j]]
  BY DEF Store
<1>3. capacity' = capacity
  BY DEF Store, Finish
<1>4. Count' = Count /\ \A i : Limit(i)' = Limit(i)
  BY <1>3 DEF Count, Limit
<1>5. \A j \in Keys : ShardOf(j)' = ShardOf(j)
  BY <1>4 DEF ShardOf
<1>6. \A i \in Nat : Limit(i) \in Nat
  BY <1>1, Shares
<1>7. Count \in Nat \ {0} /\ ShardOf(k) \in 0..(Count - 1)
  BY <1>1, Shares, ShardOfCount
<1>8. Cardinality(shard) <= Limit(ShardOf(k))
  BY <1>7 DEF ShardsBounded
<1> SUFFICES ASSUME NEW i \in 0..(Count - 1)
             PROVE  Cardinality(InShard(i)') <= Limit(i)
  BY <1>4 DEF ShardsBounded
<1>9. Cardinality(InShard(i)) <= Limit(i) /\ Limit(i) \in Nat
  BY <1>6, <1>7 DEF ShardsBounded
<1>10. InShard(i) \in SUBSET Keys
  BY DEF InShard
<1>11. CASE i # ShardOf(k)
  <2>1. InShard(i)' \in SUBSET InShard(i)
    BY <1>1, <1>2, <1>5, <1>11 DEF InShard
  <2>2. Cardinality(InShard(i)') <= Cardinality(InShard(i)) /\ Cardinality(InShard(i)) \in Nat
        /\ Cardinality(InShard(i)') \in Nat
    BY <1>10, <2>1, Smaller
  <2> QED
    BY <1>9, <2>2
<1>12. CASE i = ShardOf(k)
  <2>1. shard \in SUBSET Keys /\ shard \ gone \in SUBSET Keys
    BY DEF InShard
  <2>2. InShard(i)' = (shard \ gone) \union {k}
    BY <1>1, <1>2, <1>5, <1>12 DEF InShard
  <2>3. Cardinality(InShard(i)') <= Cardinality(shard \ gone) + 1
    BY <1>1, <2>1, <2>2, OneMore
  <2>4. InShard(i)' \in SUBSET Keys
    BY <1>1, <2>1, <2>2
  <2>5. Cardinality(InShard(i)') \in Nat /\ Cardinality(shard) \in Nat
    BY <2>1, <2>4, Smaller
  <2>6. CASE Full(k)
    BY <1>2, <1>9, <1>12, <2>3, <2>5, <2>6
  <2>7. CASE ~Full(k) /\ items[k] # None
    <3>1. InShard(i)' = shard
      BY <1>1, <1>2, <2>2, <2>7 DEF InShard
    <3> QED
      BY <1>8, <1>12, <3>1
  <2>8. CASE ~Full(k) /\ items[k] = None
    <3>1. gone = {}
      BY <1>2, <2>8
    <3>2. Cardinality(InShard(i)') <= Cardinality(shard) + 1
      BY <2>3, <3>1
    <3>3. ~ (Cardinality(shard) >= Limit(ShardOf(k)))
      BY <2>8 DEF Full
    <3> HIDE DEF k, shard
    <3> QED
      BY <1>9, <1>12, <2>5, <3>2, <3>3
  <2> QED
    BY <2>6, <2>7, <2>8
<1> QED
  BY <1>11, <1>12

LEMMA InitBounded ==
    ASSUME Init
    PROVE  ShardsBounded
<1>1. TypeOK
  BY InitCacheInv DEF CacheInv
<1>2. \A i : InShard(i) = {}
  BY DEF Init, InShard
<1>3. Cardinality({}) = 0
  BY FS_EmptySet
<1>4. Count \in Nat /\ \A i \in Nat : Limit(i) >= 0
  BY <1>1, Shares
<1> QED
  BY <1>2, <1>3, <1>4 DEF ShardsBounded

LEMMA NextBounded ==
    ASSUME CacheInv, ShardsBounded, [Next]_vars
    PROVE  ShardsBounded'
<1>0. TypeOK
  BY DEF CacheInv
<1>1. CASE items' = items /\ capacity' = capacity
  BY <1>0, <1>1, FewerBounded
<1>2. CASE UNCHANGED vars \/ Tick
  BY <1>1, <1>2 DEF vars, Tick
<1>3. ASSUME NEW w \in Workers, Work(w)
      PROVE  ShardsBounded'
  <2>1. CASE (\E k \in Keys : Get(w, k)) \/ (\E k \in Keys, m \in Messages : Set(w, k, m))
    BY <1>1, <2>1 DEF Get, Set, Call
  <2>2. CASE Hit(w) \/ Miss(w) \/ Expired(w)
    BY <1>1, <2>2 DEF Hit, Miss, Expired, Finish
  <2>3. CASE Remove(w)
    <3>1. capacity' = capacity /\ \A k \in Keys : items'[k] # None => items[k] # None
      BY <1>0, <2>3 DEF Remove, Finish, TypeOK
    <3> QED
      BY <1>0, <3>1, FewerBounded
  <2>4. CASE Store(w)
    BY <2>4, StoreBounded
  <2> QED
    BY <1>3, <2>1, <2>2, <2>3, <2>4 DEF Work
<1> QED
  BY <1>2, <1>3 DEF Next

\* Shard by shard, to the capacity.
LEMMA TotalBounded ==
    ASSUME TypeOK, ShardsBounded
    PROVE  Cardinality({k \in Keys : items[k] # None}) <= capacity
<1>1. PICK q, r \in Nat :
          /\ Count \in Nat \ {0}
          /\ capacity = q * Count + r
          /\ r < Count
          /\ \A i \in Nat : Limit(i) = q + (IF i < r THEN 1 ELSE 0)
  BY Shares
<1> DEFINE upto(j)  == {k \in Keys : items[k] # None /\ ShardOf(k) < j}
           share(j) == j * q + (IF j < r THEN j ELSE r)
           T        == {j \in Nat : j <= Count /\ ~ (Cardinality(upto(j)) <= share(j))}
<1>2. \A k \in Keys : ShardOf(k) \in 0..(Count - 1)
  BY ShardOfCount
<1>3. \A j : upto(j) \in SUBSET Keys /\ Cardinality(upto(j)) \in Nat
  BY Smaller
<1>4. T = {}
  <2> SUFFICES ASSUME T # {}
               PROVE  FALSE
    OBVIOUS
  <2>1. PICK n \in T : \A j \in T : n <= j
    <3>1. T \in SUBSET Nat
      OBVIOUS
    <3> HIDE DEF T
    <3> QED
      BY <3>1, Least
  <2>2. CASE n = 0
    <3>1. upto(0) = {}
      BY <1>1, <1>2
    <3>2. Cardinality(upto(0)) = 0
      BY <3>1, FS_EmptySet
    <3>3. share(0) >= 0
      BY <1>1
    <3> QED
      BY <2>1, <2>2, <3>2, <3>3
  <2>3. CASE n # 0
    <3> DEFINE j == n - 1
    <3>1. j \in Nat /\ j < Count /\ n = j + 1 /\ j \notin T
      BY <1>1, <2>1, <2>3
    <3>2. Cardinality(upto(j)) <= share(j)
      BY <1>1, <3>1
    <3>3. upto(n) = upto(j) \union InShard(j)
      <4>1. \A k \in Keys : ShardOf(k) < n <=> ShardOf(k) < j \/ ShardOf(k) = j
        BY <1>1, <1>2, <3>1
      <4> QED
        BY <4>1 DEF InShard
    <3>4. InShard(j) \in SUBSET Keys
      BY DEF InShard
    <3>5. Cardinality(InShard(j)) <= Limit(j)
      BY <1>1, <3>1 DEF ShardsBounded
    <3>6. Cardinality(upto(n)) <= Cardinality(upto(j)) + Cardinality(InShard(j))
      <4>1. IsFiniteSet(upto(j)) /\ IsFiniteSet(InShard(j))
            /\ Cardinality(upto(j)) \in Nat /\ Cardinality(InShard(j)) \in Nat
        BY <1>3, <3>4, Smaller
      <4>2. Cardinality(upto(j) \cap InShard(j)) \in Nat
        BY <3>4, Smaller
      <4> HIDE DEF upto, j
      <4>3. Cardinality(upto(j) \union InShard(j))
                = Cardinality(upto(j)) + Cardinality(InShard(j)) - Cardinality(upto(j) \cap InShard(j))
        BY <4>1, FS_Union, Zenon
      <4> QED
        BY <3>3, <4>1, <4>2, <4>3
    <3>7. share(n) = share(j) + q + (IF j < r THEN 1 ELSE 0)
      <4>1. \A a, b \in Nat : (a + 1) * b = a * b + b
        OBVIOUS
      <4>2. n * q = j * q + q
        BY <3>1, <4>1
      <4>3. j * q \in Nat /\ n * q \in Nat
        BY <3>1, <2>1
      <4> HIDE DEF j
      <4> QED
        BY <1>1, <3>1, <4>2, <4>3
    <3>8. Limit(j) = q + (IF j < r THEN 1 ELSE 0)
      BY <1>1, <3>1
    <3>9. Cardinality(InShard(j)) \in Nat /\ share(j) \in Nat
      BY <1>1, <3>1, <3>4, Smaller
    <3>10. Cardinality(upto(n)) <= share(n)
      <4>1. Cardinality(upto(n)) \in Nat /\ Cardinality(upto(j)) \in Nat
        BY <1>3
      <4> HIDE DEF upto, share, j
      <4> QED
        BY <3>2, <3>5, <3>6, <3>7, <3>8, <3>9, <4>1
    <3> QED
      BY <2>1, <3>10
  <2> QED
    BY <2>2, <2>3
<1>5. Count \notin T
  BY <1>4
<1>6. Cardinality(upto(Count)) <= share(Count)
  BY <1>1, <1>5
<1>7. upto(Count) = {k \in Keys : items[k] # None}
  BY <1>1, <1>2
<1>8. share(Count) = capacity
  <2>1. share(Count) = Count * q + r
    BY <1>1
  <2>2. Count * q = q * Count
    BY <1>1
  <2> QED
    BY <1>1, <2>1, <2>2
<1> QED
  BY <1>6, <1>7, <1>8

\* No shard holds more than its limit, nor all of them more than the capacity,
\* however many callers store at once and whatever they store (Set).
THEOREM CapacityIsHeld == Spec => []CapacityHeld
<1>1. Init => CacheInv /\ ShardsBounded
  BY InitCacheInv, InitBounded
<1>2. CacheInv /\ ShardsBounded /\ [Next]_vars => (CacheInv /\ ShardsBounded)'
  BY NextCacheInv, NextBounded
<1>3. CacheInv /\ ShardsBounded => CapacityHeld
  BY TotalBounded DEF CacheInv, CapacityHeld
<1> QED
  BY <1>1, <1>2, <1>3, PTL DEF Spec


--------------------------------------------------------------------------------
(* The promise.                                                                *)

LEMMA Remainder ==
    ASSUME NEW a \in Nat, NEW b \in Nat, a < b
    PROVE  a % b = a
<1>1. a \div b \in Int /\ a % b \in 0..(b - 1) /\ a = (a \div b) * b + (a % b)
  BY Division
<1>2. \A q \in Int, r \in Nat : a = q * b + r /\ r < b => q = 0
  <2> SUFFICES ASSUME NEW q \in Int, NEW r \in Nat, a = q * b + r, r < b, q # 0
               PROVE  FALSE
    OBVIOUS
  <2>1. CASE q >= 1
    <3>1. q * b >= b
      BY <2>1, Z3T(30)
    <3> QED
      BY <3>1
  <2>2. CASE q <= -1
    <3>1. q * b <= -b
      BY <2>2, Z3T(30)
    <3> QED
      BY <3>1
  <2> QED
    BY <2>1, <2>2
<1>3. a \div b = 0
  BY <1>1, <1>2
<1> QED
  BY <1>1, <1>3

\* While an answer fits, no seconds wrap: those that are over are taken off, and
\* no others.  A caller whose reading is older than the answer may find it aged
\* too much, not too little.
LEMMA AgedRemains ==
    ASSUME NEW r \in Record, Counts(r), NEW stored \in 0..MaxTime, NEW t \in 0..MaxTime,
           t - stored < MaxTTL * TicksPerSecond
    PROVE  Promise!Remains(Aged(r, Elapsed(t - stored)), r.ttl, t - stored)
<1> DEFINE d == t - stored
           e == Elapsed(d)
           a == Aged(r, e)
<1>0. /\ d \in Int /\ r.ttl \in Nat
      /\ TicksPerSecond \in Nat \ {0} /\ Width \in Nat \ {0} /\ MaxTTL \in Nat
  BY ConstantsAssumption DEF Record
<1>1. e \in Nat
  <2>1. d \div TicksPerSecond \in Int /\ (-d) \div TicksPerSecond \in Int
    BY <1>0, Division
  <2> QED
    BY <1>0, <2>1, Division DEF Elapsed
<1>2. a = IF r.ttl > e THEN r.ttl - e ELSE 0
  BY DEF Aged
<1>3. a \in 0..r.ttl
  <2> HIDE DEF a, e
  <2> QED
    BY <1>0, <1>1, <1>2
<1>4. CASE d >= 0
  <2> DEFINE q == d \div TicksPerSecond
  <2>1. /\ q \in Int
        /\ d % TicksPerSecond \in 0..(TicksPerSecond - 1)
        /\ d = q * TicksPerSecond + (d % TicksPerSecond)
    BY <1>0, Division
  <2>2. \A x \in Int : x < 0 => x * TicksPerSecond <= -TicksPerSecond
    BY <1>0, Z3T(30)
  <2>3. q \in Nat
    <3> HIDE DEF q, d
    <3> QED
      BY <1>0, <1>4, <2>1, <2>2
  <2>4. \A x, y \in Nat : x >= y => x * TicksPerSecond >= y * TicksPerSecond
    BY <1>0, Z3T(30)
  <2>5. q < MaxTTL
    <3>1. q >= MaxTTL => q * TicksPerSecond >= MaxTTL * TicksPerSecond
      <4> HIDE DEF q
      <4> QED
        BY <1>0, <2>3, <2>4
    <3>2. q * TicksPerSecond \in Nat /\ MaxTTL * TicksPerSecond \in Nat
      BY <1>0, <2>3
    <3> HIDE DEF q
    <3> QED
      BY <1>0, <2>1, <2>3, <3>1, <3>2
  <2>6. e = q
    <3>1. q < Width
      BY <1>0, <2>3, <2>5, ConstantsAssumption
    <3>2. q % Width = q
      BY <1>0, <2>3, <3>1, Remainder
    <3> QED
      BY <1>4, <3>2 DEF Elapsed
  <2>7. q * TicksPerSecond \in Nat
    BY <1>0, <2>3
  <2>8. a > 0 => d - (r.ttl - a) * TicksPerSecond < TicksPerSecond
    <3> HAVE a > 0
    <3>1. r.ttl - a = q
      <4> HIDE DEF a, e, q
      <4> QED
        BY <1>0, <1>2, <2>3, <2>6
    <3> HIDE DEF q, a, d
    <3> QED
      BY <1>0, <2>1, <2>7, <3>1
  <2>9. (r.ttl - a) * TicksPerSecond <= d
    <3>1. r.ttl - a \in Nat /\ r.ttl - a <= q
      <4> HIDE DEF a, e, q
      <4> QED
        BY <1>0, <1>2, <2>3, <2>6
    <3>2. (r.ttl - a) * TicksPerSecond <= q * TicksPerSecond
      <4> HIDE DEF a, q
      <4> QED
        BY <2>3, <2>4, <3>1
    <3>3. (r.ttl - a) * TicksPerSecond \in Nat
      <4> HIDE DEF a, q
      <4> QED
        BY <1>0, <3>1
    <3> HIDE DEF q, a, d
    <3> QED
      BY <1>0, <2>1, <2>7, <3>2, <3>3
  <2> QED
    BY <1>3, <2>8, <2>9 DEF Promise!Remains
<1>5. CASE d < 0
  <2>1. r.ttl - a \in Nat
    <3> HIDE DEF a
    <3> QED
      BY <1>0, <1>3
  <2>2. \A x \in Nat : x * TicksPerSecond \in Nat
    BY <1>0
  <2>3. d - (r.ttl - a) * TicksPerSecond < TicksPerSecond /\ ~(d >= 0)
    <3> HIDE DEF a, d
    <3> QED
      BY <1>0, <1>5, <2>1, <2>2
  <2> QED
    BY <1>3, <2>3 DEF Promise!Remains
<1> QED
  BY <1>0, <1>4, <1>5

\* Finish ends the call of one worker.
LEMMA FinishReturns ==
    ASSUME TypeOK, NEW w \in Workers, NEW result, pc[w] # "idle", Finish(w, result)
    PROVE  /\ CallsSeen[w] = [key |-> key[w], now |-> now[w], message |-> message[w]]
           /\ CallsSeen[w] # None
           /\ CallsSeen' = [CallsSeen EXCEPT ![w] = None]
           /\ given' = [given EXCEPT ![w] = result]
           /\ clock' = clock
<1>1. CallsSeen[w] = [key |-> key[w], now |-> now[w], message |-> message[w]]
  BY DEF CallsSeen
<1>2. key[w] \in Keys /\ now[w] \in 0..MaxTime /\ message[w] \in Messages \union {None}
  BY DEF TypeOK
<1>3. CallsSeen[w] # None
  <2>1. CallsSeen[w] \in CallRecord
    BY <1>1, <1>2 DEF CallRecord
  <2> QED
    BY <2>1, NoneAssumption
<1>4. /\ \A v \in Workers \ {w} : /\ pc'[v] = pc[v] /\ key'[v] = key[v]
                                  /\ now'[v] = now[v] /\ message'[v] = message[v]
      /\ pc'[w] = "idle"
  BY DEF TypeOK, Finish, Goto
<1>5. CallsSeen' = [CallsSeen EXCEPT ![w] = None]
  BY <1>4 DEF CallsSeen
<1> QED
  BY <1>1, <1>3, <1>5 DEF Finish

LEMMA CallSeen ==
    ASSUME TypeOK, NEW w \in Workers, NEW k \in Keys, NEW m \in Messages \union {None},
           NEW l \in {"look", "store"}, Call(w, k, l), message' = [message EXCEPT ![w] = m]
    PROVE  Promise!Call(w, k, m)
<1>1. CallsSeen[w] = None
  BY DEF Call, CallsSeen
<1>2. /\ \A v \in Workers \ {w} : /\ pc'[v] = pc[v] /\ key'[v] = key[v]
                                  /\ now'[v] = now[v] /\ message'[v] = message[v]
      /\ pc'[w] = l /\ key'[w] = k /\ now'[w] = clock /\ message'[w] = m
  BY DEF TypeOK, Call, Goto
<1>3. CallsSeen' = [CallsSeen EXCEPT ![w] = [key |-> k, now |-> clock, message |-> m]]
  BY <1>2 DEF CallsSeen
<1> QED
  BY <1>1, <1>3 DEF Call, Promise!Call

LEMMA HitGives ==
    ASSUME CacheInv, NEW w \in Workers, Hit(w)
    PROVE  Promise!Asks(w) /\ given'[w] # None /\ Promise!Give(w, given'[w].ttls)
<1> DEFINE k == key[w]
           t == now[w]
           item == items[k]
           call == CallsSeen[w]
           ttls == [i \in DOMAIN item.message.records |->
                       Aged(item.message.records[i], Elapsed(t - item.stored))]
<1>0. TypeOK /\ pc[w] = "look" /\ Finish(w, Served(item, t)) /\ items' = items
  BY DEF CacheInv, Hit
<1>1. k \in Keys /\ t \in 0..MaxTime /\ item # None /\ t < item.expires /\ item \in Item
      /\ given \in [Workers -> Given \union {None}] /\ message[w] = None
  BY <1>0 DEF TypeOK, Hit, Fits
<1>2. item.expires <= item.stored + MaxTTL * TicksPerSecond
  BY <1>1 DEF CacheInv, ItemsInv
<1>3. /\ call = [key |-> k, now |-> t, message |-> None]
      /\ call # None
      /\ Promise!Return(w, Served(item, t))
  BY <1>0, <1>1, FinishReturns DEF Promise!Return
<1>4. Served(item, t) = [message |-> item.message, ttls |-> ttls]
  BY DEF Served
<1>5. Served(item, t) \in Given
  BY <1>1, ServedTypes
<1>6. given'[w] # None /\ given'[w].ttls = ttls
  <2>1. given'[w] = Served(item, t)
    BY <1>1, <1>3 DEF Promise!Return
  <2>2. Served(item, t) # None
    BY <1>5, NoneAssumption
  <2>3. Served(item, t).ttls = ttls
    BY <1>4
  <2> QED
    BY <2>1, <2>2, <2>3
<1>7. item.message.records \in Seq(Record) /\ item.stored \in 0..MaxTime /\ item.expires \in Nat
  BY <1>1, MessagesAssumption DEF Item
<1>8. t - item.stored < MaxTTL * TicksPerSecond
  <2>1. MaxTTL * TicksPerSecond \in Nat
    BY ConstantsAssumption
  <2>2. t \in Nat /\ item.stored \in Nat
    BY <1>1, <1>7
  <2> HIDE DEF item, t
  <2> QED
    BY <1>1, <1>2, <1>7, <2>1, <2>2
<1>9. ASSUME NEW i \in DOMAIN item.message.records
      PROVE  IF Counts(item.message.records[i])
             THEN Promise!Remains(ttls[i], item.message.records[i].ttl, t - item.stored)
             ELSE ttls[i] = item.message.records[i].ttl
  <2>1. item.message.records[i] \in Record
    BY <1>7
  <2>2. ttls[i] = Aged(item.message.records[i], Elapsed(t - item.stored))
    OBVIOUS
  <2>3. CASE Counts(item.message.records[i])
    <3>1. Promise!Remains(Aged(item.message.records[i], Elapsed(t - item.stored)),
                          item.message.records[i].ttl, t - item.stored)
      <4> HIDE DEF t, item
      <4> QED
        BY <1>1, <1>7, <1>8, <2>1, <2>3, AgedRemains
    <3> QED
      BY <2>2, <2>3, <3>1
  <2>4. CASE ~Counts(item.message.records[i])
    BY <2>2, <2>4 DEF Aged
  <2> QED
    BY <2>3, <2>4
<1>10. DOMAIN ttls = DOMAIN item.message.records
  OBVIOUS
<1>11. call.key = k /\ call.now = t /\ call.message = None
  BY <1>3
<1>12. Promise!Asks(w)
  BY <1>3, <1>11 DEF Promise!Asks
<1>13. Promise!Give(w, ttls)
  <2> HIDE DEF ttls, call
  <2>1. Promise!Return(w, [message |-> item.message, ttls |-> ttls])
    BY <1>3, <1>4
  <2> QED
    BY <1>0, <1>1, <1>9, <1>10, <1>11, <1>12, <2>1 DEF Promise!Give, call
<1> QED
  BY <1>6, <1>12, <1>13

LEMMA StoreKeeps ==
    ASSUME CacheInv, NEW w \in Workers, Store(w)
    PROVE  /\ Promise!Brings(w)
           /\ \E life \in Lives(CallsSeen[w].message) : Promise!Keep(w, life)
<1> DEFINE k == key[w]
           m == message[w]
           t == now[w]
           life == Clamp(messageTTL(m)) * TicksPerSecond
<1>0. TypeOK /\ pc[w] = "store" /\ Finish(w, None)
  BY DEF CacheInv, Store
<1>1. /\ k \in Keys /\ m \in Messages /\ t \in 0..MaxTime
      /\ items' \in [Keys -> Item \union {None}]
      /\ items'[k] = Entry(m, t)
      /\ \A j \in Keys \ {k} : items'[j] \in {items[j], None}
  BY <1>0, StoreItems DEF TypeOK
<1>2. life \in Lives(m)
  BY <1>1, LifeAllowed
<1>3. Entry(m, t) = [message |-> m, stored |-> t, expires |-> t + life]
  BY DEF Entry
<1>4. /\ CallsSeen[w] = [key |-> k, now |-> t, message |-> m]
      /\ CallsSeen[w] # None
      /\ Promise!Return(w, None)
  BY <1>0, FinishReturns DEF Promise!Return
<1>5. CallsSeen[w].key = k /\ CallsSeen[w].now = t /\ CallsSeen[w].message = m
  BY <1>4
<1>6. Promise!Brings(w)
  BY <1>1, <1>4, <1>5, NoneAssumption DEF Promise!Brings
<1>7. DOMAIN items' = Keys
  BY <1>1
<1>8. Promise!Keep(w, life)
  <2> HIDE DEF k, m, t, life
  <2> QED
    BY <1>1, <1>3, <1>4, <1>5, <1>6, <1>7 DEF Promise!Keep, Promise!StayOrGo
<1> HIDE DEF life
<1> QED
  BY <1>2, <1>5, <1>6, <1>8

LEMMA StepKept ==
    ASSUME CacheInv, [Next]_vars
    PROVE  [Promise!Next]_<<clock, items, CallsSeen, given>>
<1>0. TypeOK
  BY DEF CacheInv
<1>1. CASE UNCHANGED vars
  BY <1>1 DEF vars, CallsSeen
<1>2. CASE Tick
  <2>1. Promise!Tick
    BY <1>2 DEF Tick, locals, CallsSeen, Promise!Tick
  <2> QED
    BY <2>1 DEF Promise!Next
<1>3. ASSUME NEW w \in Workers, Work(w)
      PROVE  [Promise!Next]_<<clock, items, CallsSeen, given>>
  <2>1. CASE \E k \in Keys : Get(w, k)
    <3>1. PICK k \in Keys : Call(w, k, "look") /\ message' = message
      BY <2>1 DEF Get
    <3>2. message' = [message EXCEPT ![w] = None]
      BY <1>0, <3>1 DEF Call, TypeOK
    <3>3. Promise!Call(w, k, None)
      BY <1>0, <3>1, <3>2, CallSeen
    <3> QED
      BY <3>3 DEF Promise!Next
  <2>2. CASE \E k \in Keys, m \in Messages : Set(w, k, m)
    <3>1. PICK k \in Keys, m \in Messages :
              Call(w, k, "store") /\ message' = [message EXCEPT ![w] = m]
      BY <2>2 DEF Set
    <3>2. Promise!Call(w, k, m)
      BY <1>0, <3>1, CallSeen
    <3> QED
      BY <3>2 DEF Promise!Next
  <2>3. CASE Hit(w)
    BY <2>3, HitGives DEF Promise!Next
  <2>4. CASE Miss(w) \/ Remove(w)
    <3>1. /\ pc[w] # "idle" /\ message[w] = None /\ Finish(w, None)
          /\ items' = items \/ items' = [items EXCEPT ![key[w]] = None]
      BY <1>0, <2>4 DEF Miss, Remove, TypeOK
    <3>2. /\ CallsSeen[w] = [key |-> key[w], now |-> now[w], message |-> None]
          /\ CallsSeen[w] # None
          /\ Promise!Return(w, None)
      BY <1>0, <3>1, FinishReturns DEF Promise!Return
    <3>3. Promise!Asks(w)
      BY <3>2 DEF Promise!Asks
    <3>4. DOMAIN items' = Keys /\ \A k \in Keys : items'[k] \in {items[k], None}
      BY <1>0, <3>1 DEF TypeOK
    <3>5. Promise!Miss(w)
      BY <3>2, <3>3, <3>4 DEF Promise!Miss, Promise!StayOrGo
    <3> QED
      BY <3>5 DEF Promise!Next
  <2>5. CASE Expired(w)
    <3>1. CallsSeen' = CallsSeen
      <4>1. pc[w] # "idle" /\ \A v \in Workers : (pc'[v] = "idle" <=> pc[v] = "idle")
        BY <1>0, <2>5 DEF Expired, Goto, TypeOK
      <4> QED
        BY <2>5, <4>1 DEF Expired, CallsSeen
    <3> QED
      BY <2>5, <3>1 DEF Expired
  <2>6. CASE Store(w)
    BY <2>6, StoreKeeps DEF Promise!Next
  <2> QED
    BY <1>3, <2>1, <2>2, <2>3, <2>4, <2>5, <2>6 DEF Work
<1> QED
  BY <1>1, <1>2, <1>3 DEF Next

\* Whatever the order in which callers read the clock, look, remove and store,
\* an answer is given only to a caller of its key, only when the caller's reading
\* is within its time, and with exactly the time left that it has then (Get, Set).
THEOREM KeptIsRefined == Spec => RefinesKept
<1>1. Init => Promise!Init
  BY DEF Init, CallsSeen, Promise!Init
<1>2. CacheInv /\ [Next]_vars => [Promise!Next]_(Promise!vars)
  BY StepKept DEF Promise!vars
<1> QED
  BY <1>1, <1>2, CacheInvariant, PTL DEF Spec, RefinesKept, Promise!Safety

================================================================================
