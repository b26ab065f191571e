-------------------------- MODULE MCOrderInvoices --------------------------
(***************************************************************************)
(* Amounts for TLC: 1 settles at once under the tolerance, 4 can be paid   *)
(* in part, and 0 is the total of an order by packs before it goes out.    *)
(***************************************************************************)
EXTENDS OrderInvoices, TLC

CONSTANTS o1, b1, b2, s1, s2, c1, c2

Symmetry == Permutations({s1, s2}) \cup Permutations({b1, b2}) \cup Permutations({c1, c2})
=============================================================================
