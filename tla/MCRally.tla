------------------------------- MODULE MCRally -------------------------------
(* Instances of Rally for TLC. *)
EXTENDS Rally, TLC

CONSTANTS ada, ben, cleo, r1, r2

OneLeader == [r \in Rallies |-> ada]
TwoLeaders == r1 :> ada @@ r2 :> ben
Everybody == [r \in Rallies |-> Players]
AnyPlayer == [r \in Rallies |-> "player"]
CastleAndEncounter == r1 :> "castle" @@ r2 :> "encounter"

\* ada at the rally point; ben in the same city, one minute away; cleo in another
\* city, two minutes away.
ThreeHomes == [r \in Rallies |-> ada :> 0 @@ ben :> 1 @@ cleo :> 2]
ThreeWaysBack == [r \in Rallies |-> ada :> 0 @@ ben :> 0 @@ cleo :> 2]

\* ada leads a rally two minutes away that ben, one minute away, may join; ben
\* leads another at home, alone.
BenLeadsAlone == r1 :> {ada, ben} @@ r2 :> {ben}
FarLeaders == r1 :> (ada :> 2 @@ ben :> 1) @@ r2 :> (ada :> 0 @@ ben :> 0)
FarLeadersBack == r1 :> (ada :> 0 @@ ben :> 1) @@ r2 :> (ada :> 0 @@ ben :> 0)

\* ben is better armed than manned.
Unarmed == [p \in Players |-> 0]
ArmedB == [p \in Players |-> IF p = ben THEN 4 ELSE 0]

UpTo(n) == [r \in Rallies |-> n]
Cap2 == UpTo(2)
Cap3 == UpTo(3)

=============================================================================
