----------------------------- MODULE ShareUnits -----------------------------
(***************************************************************************)
(* Shared by the models: sums over a function with natural values, Rust's  *)
(* saturating operations, and Array.prototype.filter.                      *)
(*                                                                         *)
(* A sum is the number of its units: Total(f) counts one pair <<a, i>> for *)
(* each i in 1..f[a].  Stated this way a fact about a sum is a fact about  *)
(* the cardinality of a set, and needs no recursion.                       *)
(***************************************************************************)
EXTENDS Integers, FiniteSets

Units(f) == UNION {{a} \X (1..f[a]) : a \in DOMAIN f}

(* The sum of f[a] over the domain of f, for f with finite domain and      *)
(* natural values.                                                         *)
Total(f) == Cardinality(Units(f))

(* u32::saturating_add and saturating_sub. *)
SaturatingAdd(x, y, max) == IF x + y > max THEN max ELSE x + y
SaturatingSub(x, y) == IF x < y THEN 0 ELSE x - y

(* Array.prototype.filter: what s has at the positions of a set, in order. *)
Picked(s, at) ==
  [k \in 1..Cardinality(at) |-> s[CHOOSE i \in at : Cardinality({j \in at : j <= i}) = k]]
=============================================================================
