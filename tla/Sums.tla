-------------------------------- MODULE Sums --------------------------------
(***************************************************************************)
(* The sum of a function with natural values, as the number of units that  *)
(* its arguments hold: argument x holds the units <<x, 1>> .. <<x, w[x]>>. *)
(* As a cardinality it can be reasoned about without induction.            *)
(***************************************************************************)
EXTENDS Naturals, FiniteSets

UnitsOf(w) == UNION {{x} \X (1 .. w[x]) : x \in DOMAIN w}

SumOf(w) == Cardinality(UnitsOf(w))
=============================================================================
