------------------------------ MODULE KeptAnswers ------------------------------
(***************************************************************************)
(* What a cache of answers promises to those who use it: an answer that is *)
(* kept may be forgotten at any time, but it is given only to a caller who *)
(* asks for its key, only when its time is not over at the time the caller *)
(* read, and with exactly the time left that it has then.  A caller reads  *)
(* the clock when it calls and is served later, in any order.              *)
(*                                                                         *)
(* Cache implements it (RefinesKept).                                      *)
(***************************************************************************)
EXTENDS Integers, Sequences

CONSTANTS
    Keys,            \* cache keys
    Workers,         \* callers
    Messages,        \* the answers that may be kept
    Lives(_),        \* how long an answer may be kept: any of these
    Counts(_),       \* whether a record's TTL is a time to live
    TicksPerSecond,  \* resolution of the clock
    None             \* no answer, no call

VARIABLES
    clock,  \* the time, in ticks
    kept,   \* the answer kept for each key, or None
    calls,  \* what each caller brought: a key, the time it read and, when it
            \* brings an answer to keep, that one
    given   \* what each caller was given, or None

vars == <<clock, kept, calls, given>>

Init ==
    /\ clock = 0
    /\ kept = [k \in Keys |-> None]
    /\ calls = [w \in Workers |-> None]
    /\ given = [w \in Workers |-> None]

Tick == clock' = clock + 1 /\ UNCHANGED <<kept, calls, given>>

Call(w, k, message) ==
    /\ calls[w] = None
    /\ calls' = [calls EXCEPT ![w] = [key |-> k, now |-> clock, message |-> message]]
    /\ given' = [given EXCEPT ![w] = None]
    /\ UNCHANGED <<clock, kept>>

\* A caller who wants an answer, and one who brings one.
Asks(w)   == calls[w] # None /\ calls[w].message = None
Brings(w) == calls[w] # None /\ calls[w].message # None

Return(w, result) ==
    /\ calls' = [calls EXCEPT ![w] = None]
    /\ given' = [given EXCEPT ![w] = result]
    /\ UNCHANGED clock

\* These answers stay as they are, or are forgotten.
StayOrGo(K) == \A k \in K : kept'[k] \in {kept[k], None}

\* The answer a caller brought is kept from the time it read, and others may
\* have to go.
Keep(w, life) ==
    LET call == calls[w] IN
    /\ Brings(w)
    /\ Return(w, None)
    /\ DOMAIN kept' = Keys
    /\ kept'[call.key] =
           [message |-> call.message, stored |-> call.now, expires |-> call.now + life]
    /\ StayOrGo(Keys \ {call.key})

\* Of "full" seconds, ttl are left at this age: those that are over are taken
\* off, and no others.  To a caller whose reading is older than the answer any
\* number may seem to be over.
Remains(ttl, full, age) ==
    /\ ttl \in 0..full
    /\ ttl > 0 => age - (full - ttl) * TicksPerSecond < TicksPerSecond
    /\ age >= 0 => (full - ttl) * TicksPerSecond <= age

\* A caller is given the answer kept for the key it asked for.
Give(w, ttls) ==
    LET call == calls[w]
        item == kept[call.key]
    IN
    /\ Asks(w)
    /\ item # None
    /\ Return(w, [message |-> item.message, ttls |-> ttls])
    /\ call.now < item.expires
    /\ DOMAIN ttls = DOMAIN item.message.records
    /\ \A i \in DOMAIN ttls :
           LET record == item.message.records[i] IN
           IF Counts(record)
           THEN Remains(ttls[i], record.ttl, call.now - item.stored)
           ELSE ttls[i] = record.ttl
    /\ UNCHANGED kept

\* A caller is given nothing, and answers may be forgotten.
Miss(w) ==
    /\ Asks(w)
    /\ Return(w, None)
    /\ DOMAIN kept' = Keys
    /\ StayOrGo(Keys)

Next ==
    \/ Tick
    \/ \E w \in Workers :
           \/ \E k \in Keys, message \in Messages \union {None} : Call(w, k, message)
           \/ Brings(w) /\ \E life \in Lives(calls[w].message) : Keep(w, life)
           \/ Asks(w) /\ given'[w] # None /\ Give(w, given'[w].ttls)
           \/ Miss(w)

Safety == Init /\ [][Next]_vars
================================================================================
