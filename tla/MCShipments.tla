---------------------------- MODULE MCShipments -----------------------------
(***************************************************************************)
(* A small warehouse for TLC: a package of two pieces received by hand and *)
(* a package of one made for the order o1, an order by pieces and an order *)
(* of one pack.                                                            *)
(***************************************************************************)
EXTENDS Shipments, TLC

CONSTANTS p1, p2, o1, o2, s1, s2, c1

MCPackageOf == 1 :> p1 @@ 2 :> p2
MCReceived == 1 :> 2 @@ 2 :> 1
MCPackageOrder == [p \in Packages |-> IF p = p2 THEN o1 ELSE NoOrder]
MCRequested == [o \in Orders |-> IF o = o2 THEN 1 ELSE 0]

\* A bound: after a package left by its own endpoint, one shipment is followed.
OneAfterDirect ==
  direct # {} => Cardinality({s \in Shipments : shipment[s].status # "none"}) <= 1

ShipmentSymmetry == Permutations({s1, s2})
=============================================================================
