\* Every endpoint: requests are answered even though they may deadlock.
SPECIFICATION FairSpec
CONSTANTS
  Sessions = {s1, s2}
  Batches = {1, 2, 3}
  Reservations = {1, 2, 3}
  Orders = {1}
  Dates = {1, 2}
  MaxQuantity = 2
  MaxRequests = 2
  Operations <- AllOperations
  StrictCutting = FALSE
  TrackBatch = {TRUE, FALSE}
  StartQuantity <- TwoBatches
  StartLoose = 0
  StartRows <- ItemReservation
CHECK_DEADLOCK FALSE
INVARIANT TypeOK
PROPERTY RequestsEnd
