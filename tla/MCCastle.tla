------------------------------ MODULE MCCastle ------------------------------
(* Instances of Castle for TLC. *)
EXTENDS Castle, TLC

CONSTANTS ada, ben

\* ben holds another castle, and has no room for this one until that is lost.
OneElsewhere == [p \in Players |-> IF p = ben THEN 1 ELSE 0]
Armies == [p \in Players |-> 10]

=============================================================================
