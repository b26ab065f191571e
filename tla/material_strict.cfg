\* The endpoints that lock batches, then the item, then reservations.
SPECIFICATION Spec
CONSTANTS
  Sessions = {s1, s2}
  Batches = {1, 2}
  Reservations = {1, 2, 3}
  Orders = {1, 2}
  Dates = {1, 2}
  MaxQuantity = 2
  MaxRequests = 3
  Operations <- Ordered
  StrictCutting = TRUE
  TrackBatch = {TRUE}
  StartQuantity <- TwoBatches
  StartLoose = 0
  StartRows <- OneReservation
SYMMETRY SessionSymmetry
CHECK_DEADLOCK FALSE
INVARIANTS LedgerBalanced Backed NoLockCycle DrawsAccounted
PROPERTIES ClosedIsFinal ImplementsStockLedger
