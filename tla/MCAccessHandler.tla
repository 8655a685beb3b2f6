---------------------------- MODULE MCAccessHandler ----------------------------
(* Instances of AccessHandler for TLC. *)
EXTENDS AccessHandler, TLC

CONSTANTS g1, g2, g3, c1, c2, c3

\* Goroutines are interchangeable, and so are source addresses.
Symmetry == Permutations(Goroutines) \union Permutations(Clients)
================================================================================
