---------------------------- MODULE MCAuditChain ----------------------------
(***************************************************************************)
(* Two sessions that write, lock and log for one user row, savepoints one  *)
(* level deep, and a log that begins with a row from before the hashes.    *)
(***************************************************************************)
EXTENDS AuditChain, TLC

SessionSymmetry == Permutations(Sessions)
=============================================================================
