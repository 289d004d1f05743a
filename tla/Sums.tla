-------------------------------- MODULE Sums --------------------------------
(***************************************************************************)
(* The sum of the natural numbers that a function has for a finite set.    *)
(* It is the number of their units: what SumFunction of the community      *)
(* modules computes with a fold, stated so that it can be proved about.    *)
(***************************************************************************)
EXTENDS Integers, FiniteSets

Total(f) == Cardinality(UNION {{i} \X (1..f[i]) : i \in DOMAIN f})
=============================================================================
