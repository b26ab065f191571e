--------------------------- MODULE MCRequestReplay ---------------------------
(***************************************************************************)
(* Two users of two factories sharing one key, with every row an older     *)
(* version can have left under it.                                         *)
(***************************************************************************)
EXTENDS RequestReplay, TLC

SessionSymmetry == Permutations(Sessions)
AnyOldTable == [Keys -> OldRow \cup {NoRow}]
=============================================================================
