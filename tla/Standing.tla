-------------------------------- MODULE Standing --------------------------------
(***************************************************************************)
(* What the accounts of LightDNS promise about access, without databases,  *)
(* handlers or steps: an account is in some standing (its password, its    *)
(* role, whether it has to change its password) or in none; access is      *)
(* given for the standing of the moment; and whoever changes an account's  *)
(* standing takes away, at once, all access that was given for it.         *)
(*                                                                         *)
(* Accounts implements it (RefinesStanding).                               *)
(***************************************************************************)
CONSTANTS People, Tokens, Standings, None

VARIABLES
    standing,  \* what each account is admitted as, or None
    access     \* for each token: whom it admits and as what, or None

vars == <<standing, access>>

Grant(a) == [user |-> a, proof |-> standing[a]]

Init ==
    /\ standing = [a \in People |-> None]
    /\ access = [t \in Tokens |-> None]

\* Somebody signs in.
Admit(t, a) ==
    /\ access[t] = None
    /\ standing[a] # None
    /\ access' = [access EXCEPT ![t] = Grant(a)]
    /\ UNCHANGED standing

\* Some access ends: signed out, or out of time.
End ==
    /\ \E T \in SUBSET Tokens :
           access' = [t \in Tokens |-> IF t \in T THEN None ELSE access[t]]
    /\ UNCHANGED standing

Holders(a) == {t \in Tokens : access[t] # None /\ access[t].user = a}

\* An account appears, changes or goes, and with it the access it had.
Change(a) ==
    /\ \E s \in Standings \union {None} : standing' = [standing EXCEPT ![a] = s]
    /\ access' = [t \in Tokens |-> IF t \in Holders(a) THEN None ELSE access[t]]

Next ==
    \/ \E t \in Tokens, a \in People : Admit(t, a)
    \/ End
    \/ \E a \in People : Change(a)

Safety == Init /\ [][Next]_vars
================================================================================
