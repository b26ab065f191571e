\* Two packages, two sales orders, two shipments, one slow request; the warehouse may
\* run empty, so the system may stop.
SPECIFICATION Spec
CONSTANTS
  p1 = p1
  p2 = p2
  o1 = o1
  o2 = o2
  s1 = s1
  s2 = s2
  c1 = c1
  NoOrder = NoOrder
  NoShipment = NoShipment
  Packages = {p1, p2}
  Rows = {1, 2}
  PackageOf <- MCPackageOf
  Received <- MCReceived
  MaxPieces <- MCReceived
  Orders = {o1, o2}
  PackageOrder <- MCPackageOrder
  ManualReceipt = {p1}
  Single = {p2}
  Requested <- MCRequested
  Shipments = {s1, s2}
  Clerks = {c1}
CONSTRAINT OneAfterDirect
SYMMETRY ShipmentSymmetry
CHECK_DEADLOCK FALSE
INVARIANTS TypeOK Balanced SoldAccounted ReservedAccounted DispatchedAccounted OneShipmentPerOrder AnswersStand
