-------------------------------- MODULE Sums --------------------------------
(***************************************************************************)
(* Totals over finite tables of natural numbers: what the repository's SQL *)
(* computes with func.sum(...) over stock rows and reservations.  The sum  *)
(* is the cardinality of the disjoint union of the intervals 1..f[x], a    *)
(* form without recursion, about which SumTheorems proves what it needs.   *)
(***************************************************************************)
EXTENDS Integers, FiniteSets

\* The column of units that x contributes to the total of f.
Units(f, x) == {x} \X (1 .. f[x])

\* SUM(f[x]) over the rows x of the table f.
SumOf(f) == Cardinality(UNION {Units(f, x) : x \in DOMAIN f})

Least(m, n) == IF m <= n THEN m ELSE n

Greatest(m, n) == IF m <= n THEN n ELSE m

(***************************************************************************)
(* The ways of taking q units from the rows of offer in the order of their *)
(* keys (up) or against it: exactly one function, the greedy one, in which *)
(* a row that keeps something leaves nothing taken from the rows after it. *)
(***************************************************************************)
Drains(offer, q, up) ==
  {take \in [DOMAIN offer -> 0 .. q] :
     /\ \A x \in DOMAIN offer : take[x] <= offer[x]
     /\ SumOf(take) = Least(q, SumOf(offer))
     /\ \A x, y \in DOMAIN offer :
          /\ take[x] < offer[x]
          /\ IF up THEN x < y ELSE y < x
          => take[y] = 0}
=============================================================================
