--------------------------- MODULE MCReinforcement ---------------------------
(* Instances of Reinforcement for TLC. *)
EXTENDS Reinforcement, TLC

CONSTANTS ada, ben, cleo

\* ada and ben lend to cleo.
ToCleo == {<<ada, cleo>>, <<ben, cleo>>}

\* ada has units of the first tier, ben of the second, cleo of the first.
TwoTierArmies == ada :> <<2, 0>> @@ ben :> <<0, 2>> @@ cleo :> <<1, 0>>

\* Each destination takes three allied units.
Room3 == [p \in Players |-> 3]

=============================================================================
