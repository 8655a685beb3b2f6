-------------------------------- MODULE MCCache --------------------------------
EXTENDS Cache, TLC

CONSTANTS w1, w2, k1, k2, k3

MCHash == k1 :> 0 @@ k2 :> 3 @@ k3 :> 0

RR(ttl)       == [kind |-> "rr", ttl |-> ttl, minttl |-> 0]
SOA(ttl, min) == [kind |-> "soa", ttl |-> ttl, minttl |-> min]
OPT           == [kind |-> "opt", ttl |-> 32768, minttl |-> 0]
Msg(records)  == [keepable |-> TRUE, records |-> records]

\* One whose time MinTTL raises, one whose time MaxTTL lowers, and one that is
\* never kept.
MCMessages ==
    {Msg(<<RR(0), OPT>>), Msg(<<RR(4), SOA(4, 3), OPT>>),
     [keepable |-> FALSE, records |-> <<RR(2)>>]}

Symmetry == Permutations({w1, w2}) \union Permutations({k1, k3})
================================================================================
