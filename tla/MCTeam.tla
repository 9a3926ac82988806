------------------------------- MODULE MCTeam -------------------------------
(* Instances of Team for TLC. *)
EXTENDS Team, TLC

CONSTANTS ada, ben, cleo

\* ada founds the team and has the money; ben and cleo come to it alike.
Symmetry == Permutations(Players \ Founders)
FoundersCash == [p \in Players |-> IF p \in Founders THEN 1 ELSE 0]

\* Rank 1 may draw one a day, or nothing, with a cooldown that is shorter or
\* longer.
Settings(cap, cooldown) ==
    [instant_limit |-> <<cap, cap, 0, 0>>, daily_cap |-> <<cap, cap, 0, 0>>,
     cooldown |-> cooldown]
Lenient == Settings(1, 1)
LenientOrTight == {Lenient, Settings(0, 2)}

=============================================================================
