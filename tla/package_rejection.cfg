\* A retry answered 409 because the print run was corrected meanwhile.
SPECIFICATION PackageSpec
CONSTANTS
  Sessions = {s1, s2}
  Users = {u1}
  Factories = {f1}
  Keys = {k1, k2}
  Payloads = {p1}
  Cancelled = Cancelled
  NoRow = NoRow
  NoKey = NoKey
  Kinds = {"write", "reconcile"}
  OldTables <- NoOldRows
  MaxAttempts = 4
  Tabs = {t1}
  Retirements = {"corrected"}
  RulesChange = FALSE
  FirstRefusals = FALSE
SYMMETRY PackageSymmetry
CHECK_DEADLOCK FALSE
INVARIANTS RejectedNeverReceived
