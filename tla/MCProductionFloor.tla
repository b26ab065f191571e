------------------------- MODULE MCProductionFloor --------------------------
(***************************************************************************)
(* A small order for TLC.                                                  *)
(***************************************************************************)
EXTENDS ProductionFloor, TLC

CONSTANTS MaxInput, MaxPieces

\* A bound: what Sewing puts in and passes of a batch.
FewPieces == \A b \in Batches : Input(b) <= MaxInput /\ Sewn(b) <= MaxPieces

\* Ids of sewing records and packages are given out in no order that matters.
FloorSymmetry ==
  Permutations(Clerks) \cup Permutations(Batches) \cup Permutations(Records) \cup Permutations(Boxes)
=============================================================================
