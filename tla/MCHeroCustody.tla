---------------------------- MODULE MCHeroCustody ----------------------------
(* Instances of HeroCustody for TLC. *)
EXTENDS HeroCustody, TLC

CONSTANTS ada, ben, h1, h2, h3, t1, t2, t3

\* The heroes are of templates of their own, or all of t1.
Singles == [h \in Heroes |-> IF h = h1 THEN t1 ELSE IF h = h2 THEN t2 ELSE t3]
Series == [h \in Heroes |-> t1]

\* Heroes of t1 are at home in the first city, those of t2 everywhere.
Origins == [t \in Templates |-> IF t = t1 THEN "rome" ELSE Anywhere]

\* The only account with the number of t1 is t1, or there is another one.
Own == [t \in Templates |-> {t}]
Alike == [t \in Templates |-> IF t = t1 THEN {t1, t3} ELSE {t}]

Doubling == [t \in Accounts |-> [l \in 1 .. LevelCap |-> IF t = t3 THEN 1 ELSE 2 * l]]
Flat == [t \in Accounts |-> [l \in 1 .. LevelCap |-> 0]]
Halves == [t \in Accounts |-> 1]

AdaLeads == [r \in Rallies |-> ada]
=============================================================================
