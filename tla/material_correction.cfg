\* A forced correction of an item with two batches.
SPECIFICATION Spec
CONSTANTS
  Sessions = {s1, s2}
  Batches = {1, 2}
  Reservations = {1, 2}
  Orders = {1}
  Dates = {1, 2}
  MaxQuantity = 2
  MaxRequests = 1
  Operations = {"set"}
  StrictCutting = FALSE
  TrackBatch = {TRUE}
  StartQuantity <- OneBatch
  StartLoose = 2
  StartRows <- OneReservation
SYMMETRY SessionSymmetry
CHECK_DEADLOCK FALSE
PROPERTY CorrectionKeepsBacking
