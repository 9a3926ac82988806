------------------------------- MODULE MCEvent -------------------------------
(* Instances of Event for TLC. *)
EXTENDS Event, TLC

CONSTANTS ada, ben, cyn

\* An event that adds up, of a prize that floors do not divide, and one that
\* takes the best, of a prize whose first share is past u64 and whose second
\* is with a bonus.
Announced ==
    {[start_time |-> 1, end_time |-> 2, auto_activate |-> TRUE,
      accumulative |-> acc, prize_amount |-> IF acc THEN 5 ELSE 20] : acc \in BOOLEAN}

Shared == <<6000, 4000>>

Symmetry == Permutations({ada, ben, cyn})

=============================================================================
