\* A reservation and a correction lock the item and a batch in opposite orders.
SPECIFICATION Spec
CONSTANTS
  Sessions = {s1, s2}
  Batches = {1, 2}
  Reservations = {1, 2}
  Orders = {1}
  Dates = {1, 2}
  MaxQuantity = 2
  MaxRequests = 3
  Operations <- AllOperations
  StrictCutting = FALSE
  TrackBatch = {TRUE}
  StartQuantity <- TwoBatches
  StartLoose = 0
  StartRows <- OneReservation
SYMMETRY SessionSymmetry
CHECK_DEADLOCK FALSE
INVARIANT NoLockCycle
