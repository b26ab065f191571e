\* Concurrent transactions with savepoints appending to one audit chain.
SPECIFICATION Spec
CONSTANTS
  Sessions = {s1, s2}
  Rows = {1}
  Users = {1}
  NoUser = NoUser
  Levels = {"READ COMMITTED", "REPEATABLE READ"}
  Legacy = 1
  MaxEntries = 3
  MaxDepth = 2
SYMMETRY SessionSymmetry
CHECK_DEADLOCK FALSE
INVARIANTS TypeOK ChainVerifies TrailIsHistory HolderNeverWaits
