-------------------------------- MODULE Sums --------------------------------
(* Sums of functions with values in Nat.                                   *)
EXTENDS Integers, FiniteSets

(* The sum of the numbers f[x], as a number of pairs.                      *)
Total(f) == Cardinality(UNION {{x} \X (1..f[x]) : x \in DOMAIN f})

=============================================================================
