\* Lost responses, two tabs, reconciliation, print runs corrected, returned or deleted.
SPECIFICATION PackageSpec
CONSTANTS
  Sessions = {s1, s2}
  Users = {u1}
  Factories = {f1}
  Keys = {k1, k2}
  Payloads = {p1}
  Cancelled = Cancelled
  NoRow = NoRow
  NoKey = NoKey
  Kinds = {"write", "reconcile"}
  OldTables <- NoOldRows
  MaxAttempts = 4
  Tabs = {t1, t2}
  Retirements = {"corrected", "deleted"}
  RulesChange = FALSE
  FirstRefusals = FALSE
SYMMETRY PackageSymmetry
CHECK_DEADLOCK FALSE
INVARIANTS RepeatedOnlyByCorrection ReissuedOnlyAfterRefusal EvidenceKept ToldTruly
