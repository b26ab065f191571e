\* An order by pieces, an order by packs, a booked order, two shipments and two requests at a time.
SPECIFICATION Spec
CONSTANTS
  o1 = o1
  b1 = b1
  b2 = b2
  s1 = s1
  s2 = s2
  c1 = c1
  c2 = c2
  NoOrder = NoOrder
  NoShipment = NoShipment
  Unpriced = Unpriced
  Orders = {o1}
  Booked = {b1, b2}
  Shipments = {s1, s2}
  Clerks = {c1, c2}
  Amounts = {1, 4}
  Receipts = {2}
  MaxPaid = 4
  MaxInvoices = 2
SYMMETRY Symmetry
CHECK_DEADLOCK FALSE
INVARIANTS TypeOK OneLiveInvoice StatusTruthful DeliveredBilled ManualBilled
PROPERTIES SettledKept
