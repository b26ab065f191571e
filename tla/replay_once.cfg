\* Concurrent retries of one key by two users in two factories.
SPECIFICATION Spec
CONSTANTS
  Sessions = {s1, s2}
  Users = {u1, u2}
  Factories = {f1, f2}
  Keys = {k1}
  Payloads = {p1, p2}
  Cancelled = Cancelled
  NoRow = NoRow
  Kinds = {"write", "reconcile"}
  OldTables <- AnyOldTable
  MaxAttempts = 3
SYMMETRY SessionSymmetry
CHECK_DEADLOCK FALSE
INVARIANTS TypeOK PerformedOnce AnswersOwn WorksAlone
PROPERTIES ImplementsOnceOnly
