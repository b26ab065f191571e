\* One batch from cutting to two packages, two clerks; one piece is cut and two are confirmed.
SPECIFICATION Spec
CONSTANTS
  Batches = {b1}
  NoBatch = NoBatch
  Clerks = {c1, c2}
  Records = {r1, r2}
  Entries = {1, 2}
  Boxes = {x1, x2}
  CutQuantities = {1}
  SewQuantities = {0, 1}
  PackQuantities = {0, 1, 2}
  PlanQuantities = {2}
  OrderQuantity = 0
  MaxVersion = 1
  MaxPieces = 2
  MaxInput = 2
CONSTRAINT FewPieces
SYMMETRY FloorSymmetry
CHECK_DEADLOCK FALSE
INVARIANTS TypeOK SewingWithinLimit HandedOverWithinMade CountersAgree
PROPERTIES CorrectsWhatWasSeen ImplementsPieceFlow
