-------------------------- MODULE MCPackageRequests --------------------------
(***************************************************************************)
(* Two tabs of one user recording packs with two or three keys.            *)
(***************************************************************************)
EXTENDS PackageRequests, TLC

PackageSymmetry == Permutations(Sessions) \cup Permutations(Tabs) \cup Permutations(Keys)
NoOldRows == {[k \in Keys |-> NoRow]}
=============================================================================
