------------------------------- MODULE MCAccounts -------------------------------
(* Instances of Accounts for TLC. *)
EXTENDS Accounts, TLC

CONSTANTS a1, a2, t1, t2, t3, w1, w2

\* Workers, accounts and tokens are interchangeable.
Symmetry == Permutations(Workers) \union Permutations(People) \union Permutations(Tokens)
================================================================================
