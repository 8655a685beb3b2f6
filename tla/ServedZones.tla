------------------------------ MODULE ServedZones ------------------------------
(***************************************************************************)
(* What the management plane of LightDNS promises about managed zones,     *)
(* without handlers, locks, threads or a database: changes are committed   *)
(* one after the other, the resolver serves the zones as of some committed *)
(* change, what it serves only ever advances, and a change is acknowledged *)
(* to its author only once it is being served.  Every change is served in  *)
(* the end.                                                                *)
(*                                                                         *)
(* ZoneControl implements it (RefinesServed, EventuallyServed).            *)
(***************************************************************************)
EXTENDS Integers

VARIABLES
    committed,  \* number of zone changes committed so far
    served,     \* the resolver serves the zones as of this many changes
    acked       \* the latest change reported to its author as in effect

vars == <<committed, served, acked>>

Init ==
    /\ committed = 0
    /\ served = 0
    /\ acked = 0

\* A change becomes durable.
Commit ==
    /\ committed' = committed + 1
    /\ UNCHANGED <<served, acked>>

\* The resolver moves on to a later state of the zones, skipping some perhaps;
\* a change that is in effect may be acknowledged in the same step.
Publish ==
    /\ served' \in served..committed
    /\ acked' \in acked..served'
    /\ UNCHANGED committed

Next == Commit \/ Publish

Safety == Init /\ [][Next]_vars

\* What has been committed gets served in the end.
Serves(n) == committed >= n ~> served >= n
================================================================================
