--------------------------------- MODULE Sums ---------------------------------
(* The sum of f[x] over the members x of a finite set. *)
EXTENDS Integers, FiniteSets, FiniteSetsExt

SumOver(f, S) == MapThenSumSet(LAMBDA x : f[x], S)

===============================================================================
