------------------------------- MODULE MCResolver -------------------------------
(* Instances of Resolver for TLC. *)
EXTENDS Resolver, TLC

CONSTANTS n1, u1, u2, g1, g2, g3

\* Two upstreams; one, with signatures; none; a local record.
MCSettings ==
    {[upstreams |-> <<u1, u2>>, records |-> {}, dnssec |-> FALSE],
     [upstreams |-> <<u1>>, records |-> {}, dnssec |-> TRUE],
     [upstreams |-> <<>>, records |-> {}, dnssec |-> FALSE],
     [upstreams |-> <<u1>>, records |-> {n1}, dnssec |-> FALSE]}

\* Goroutines are interchangeable.
Symmetry == Permutations(Goroutines)
================================================================================
