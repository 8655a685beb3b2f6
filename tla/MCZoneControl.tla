----------------------------- MODULE MCZoneControl -----------------------------
(* Instances of ZoneControl for TLC. *)
EXTENDS ZoneControl, TLC

CONSTANTS z1, z2, z3, d1, d2, n1, n2, n3, adm, own, r1, r2

\* All zones under one name, or each under its own.
SameName == [z \in Zones |-> n1]
OwnNames == [z \in Zones |-> IF z = z1 THEN n1 ELSE IF z = z2 THEN n2 ELSE n3]

\* Every record is valid in every zone.
Everywhere == Records \X Names

\* n1 lies inside n2, and d2 is an NS record of the name n1: valid there, but a
\* delegation in n2.
Valid  == {<<d1, n1>>, <<d2, n1>>, <<d1, n2>>}
Within == {d1, d2} \X {n1, n2}

\* Goroutines are interchangeable, and so are the public ids of zones, as long as
\* the zones hold no records and no two have one name.
RequestSymmetry == Permutations(Requests)
ZoneSymmetry    == Permutations(Zones)
================================================================================
