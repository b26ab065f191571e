----------------------------- MODULE ReadyStock -----------------------------
(***************************************************************************)
(* Finished goods in the warehouse: packages, the stock rows that count    *)
(* their pieces, the reservations of sales orders on those rows and the    *)
(* holds of whole packages for a customer.  Every operation here but       *)
(* mark_delivered locks the package, then its stock rows, then their       *)
(* reservations, and reloads what it locked, so it is one step.  Shipments *)
(* extends this module with the documents that send packages out.          *)
(*                                                                         *)
(* All packages are of one model and already received; a stock row is      *)
(* identified with the package item of the same colour and size.  The      *)
(* stock row's status column repeats its quantities and is left out.       *)
(***************************************************************************)
EXTENDS Sums

CONSTANTS
  Packages,       \* physical packages with their labels
  Rows,           \* finished_goods_stock rows, in the order of their ids
  PackageOf,      \* the package each row counts
  Received,       \* pieces received per row
  MaxPieces,      \* per row, the most a corrected receipt may count (a bound)
  Orders,         \* sales orders
  NoOrder,        \* SQL NULL where an order is expected
  PackageOrder,   \* Package.sales_order_id
  ManualReceipt,  \* packages received without a production order
  Single,         \* packages the endpoints of one package are used on (a bound)
  Requested,      \* per order, requested_pack_count, 0 for an order by pieces
  Shipments,      \* shipments that may be created
  NoShipment,
  Clerks          \* requests that read before they lock

VARIABLES
  status,      \* packages.status
  dispatched,  \* packages.dispatched_quantities, per row
  direct,      \* packages that left through their own endpoint (package_scan_logs)
  stock,       \* finished_goods_stock
  claim,       \* stock_reservations: pieces of each order on each row
  hold,        \* warehouse_pack_reservations: pieces held, 0 without a row
  shipment,    \* shipments with their links, scans and selections
  pending,     \* what each clerk has read and not yet written
  answered     \* saved answers of ship and deliver that a retry still gets

goods == <<status, dispatched, direct, stock, claim, hold>>
documents == <<shipment, pending, answered>>

ReadyStatuses == {"received_in_storage", "reserved"}
GoneStatuses == {"shipped", "delivered"}
PackageStatuses == ReadyStatuses \cup GoneStatuses \cup {"damaged"}
StockRow == [quantity: Nat, available: Nat, reserved: Nat, sold: Nat]

ASSUME ReadyStockAssumption ==
  /\ IsFiniteSet(Packages) /\ IsFiniteSet(Orders)
  /\ IsFiniteSet(Rows) /\ Rows \subseteq Nat
  /\ PackageOf \in [Rows -> Packages]
  /\ MaxPieces \in [Rows -> Nat] /\ Received \in [Rows -> Nat]
  /\ \A r \in Rows : Received[r] \in 1 .. MaxPieces[r]
  /\ NoOrder \notin Orders /\ PackageOrder \in [Packages -> Orders \cup {NoOrder}]
  /\ ManualReceipt \subseteq Packages /\ Single \subseteq Packages
  /\ Requested \in [Orders -> Nat]
  /\ IsFiniteSet(Shipments) /\ NoShipment \notin Shipments

RowsOf(p) == {r \in Rows : PackageOf[r] = p}
Contents(p) == SumOf([r \in RowsOf(p) |-> stock[r].quantity])
remaining_quantity(p) == Contents(p) - SumOf([r \in RowsOf(p) |-> dispatched[r]])
PartlyDispatched(p) == \E r \in RowsOf(p) : dispatched[r] > 0

Claimed(r) == SumOf([o \in Orders |-> claim[o][r]])
HasClaim(p) == \E o \in Orders, r \in RowsOf(p) : claim[o][r] > 0
SoldAsDispatched(p) ==
  SumOf([r \in RowsOf(p) |-> stock[r].sold]) = SumOf([r \in RowsOf(p) |-> dispatched[r]])

Open(s) == shipment[s].status = "created"
Live(s) == shipment[s].status \notin {"none", "cancelled"}
Attached(s, p) == shipment[s].links[p] > 0
_linked(p) == \E s \in Shipments : Open(s) /\ Attached(s, p)
LiveLink(p) == \E s \in Shipments : Live(s) /\ Attached(s, p)

InitGoods ==
  /\ status = [p \in Packages |-> "received_in_storage"]
  /\ dispatched = [r \in Rows |-> 0]
  /\ direct = {}
  /\ stock = [r \in Rows |-> [quantity |-> Received[r], available |-> Received[r],
                              reserved |-> 0, sold |-> 0]]
  /\ claim = [o \in Orders |-> [r \in Rows |-> 0]]
  /\ hold = [p \in Packages |-> 0]

-----------------------------------------------------------------------------
(* Reservations of sales orders                                            *)

\* take pieces from the available to the reserved, for the order o.
Reserve(o, take) ==
  /\ stock' = [r \in Rows |-> [stock[r] EXCEPT !.available = @ - take[r],
                                               !.reserved = @ + take[r]]]
  /\ claim' = [claim EXCEPT ![o] = [r \in Rows |-> @[r] + take[r]]]

ReleaseKeepingRows(o, give) ==
  /\ stock' = [r \in Rows |-> [stock[r] EXCEPT !.available = @ + give[r],
                                               !.reserved = @ - give[r]]]
  /\ claim' = claim

Release(o, give) ==
  /\ stock' = [r \in Rows |-> [stock[r] EXCEPT !.available = @ + give[r],
                                               !.reserved = @ - give[r]]]
  /\ claim' = [claim EXCEPT ![o] = [r \in Rows |-> @[r] - give[r]]]

Only(r, n) == [x \in Rows |-> IF x = r THEN n ELSE 0]
Whole(S) == [r \in Rows |-> IF PackageOf[r] \in S THEN stock[r].available ELSE 0]

\* POST /finished-goods/reserve: some pieces of a row, whatever else is planned for it.
\* The database keeps one reservation per order and row.
_reserve_piece_stock(o, r, n) ==
  /\ PackageOf[r] \notin ManualReceipt /\ status[PackageOf[r]] \in ReadyStatuses
  /\ claim[o][r] = 0
  /\ n \in 1 .. stock[r].available
  /\ Reserve(o, Only(r, n))
  /\ UNCHANGED <<status, dispatched, direct, hold, documents>>

\* The same endpoint for a package received by hand: all of it or nothing.
Blocked(p) == IF PartlyDispatched(p) THEN _linked(p) ELSE LiveLink(p)
Untouched(p) ==
  /\ remaining_quantity(p) > 0 /\ SoldAsDispatched(p)
  /\ \A r \in RowsOf(p) : /\ stock[r].available = stock[r].quantity - stock[r].sold
                          /\ stock[r].reserved = 0 /\ stock[r].quantity > 0

_reserve_manual_package(o, p) ==
  /\ p \in ManualReceipt /\ status[p] \in ReadyStatuses
  /\ PackageOrder[p] = NoOrder /\ Untouched(p) /\ ~HasClaim(p) /\ ~Blocked(p)
  /\ Reserve(o, Whole({p}))
  /\ UNCHANGED <<status, dispatched, direct, hold, documents>>

\* Reservation from the sales order, under its lock: intact packages only.
\* Which of them the demand selects is left open.
Intact(p) ==
  /\ status[p] \in ReadyStatuses /\ ~LiveLink(p)
  /\ \A r \in RowsOf(p) : /\ stock[r].available = stock[r].quantity /\ stock[r].quantity > 0
                          /\ stock[r].reserved = 0 /\ stock[r].sold = 0
OrderLocked(o) == \E c \in Clerks : pending[c].kind = "create" /\ pending[c].order = o

reserve_pieces(o, S) ==
  /\ Requested[o] = 0 /\ ~OrderLocked(o)
  /\ S # {} /\ \A p \in S : Intact(p)
  /\ Reserve(o, Whole(S))
  /\ UNCHANGED <<status, dispatched, direct, hold, documents>>

reserve_packs(o, S) ==
  /\ Requested[o] > 0 /\ ~OrderLocked(o)
  /\ \A r \in Rows : claim[o][r] = 0
  /\ Cardinality(S) = Requested[o]
  /\ \A p \in S : Intact(p) /\ PackageOrder[p] = NoOrder /\ ~HasClaim(p)
  /\ Reserve(o, Whole(S))
  /\ UNCHANGED <<status, dispatched, direct, hold, documents>>

\* POST /finished-goods/release-reservation.  Dispatch keeps its reservations as
\* evidence: they no longer add up to reserved.
_release_piece_reservation(o, r) ==
  LET p == PackageOf[r]
  IN /\ p \notin ManualReceipt /\ claim[o][r] > 0
     /\ status[p] \notin GoneStatuses
     /\ PartlyDispatched(p) \/ ~ \E s \in Shipments : shipment[s].status \in GoneStatuses /\ Attached(s, p)
     /\ Claimed(r) = stock[r].reserved
     /\ Release(o, Only(r, claim[o][r]))
     /\ UNCHANGED <<status, dispatched, direct, hold, documents>>

_release_manual_package(o, p) ==
  /\ p \in ManualReceipt /\ status[p] \in ReadyStatuses
  /\ \E r \in RowsOf(p) : claim[o][r] > 0
  /\ ~Blocked(p) /\ SoldAsDispatched(p)
  /\ \A r \in RowsOf(p) :
       /\ \A x \in Orders \ {o} : claim[x][r] = 0
       /\ stock[r].available = 0 /\ stock[r].reserved = stock[r].quantity - stock[r].sold
       /\ claim[o][r] = stock[r].reserved
  /\ Release(o, [r \in Rows |-> IF PackageOf[r] = p THEN claim[o][r] ELSE 0])
  /\ status' = [status EXCEPT ![p] = "received_in_storage"]
  /\ UNCHANGED <<dispatched, direct, hold, documents>>

-----------------------------------------------------------------------------
(* Holds of whole packages for a customer                                  *)

\* POST /warehouse-reservations.
reserve_for_customer(S) ==
  /\ S # {}
  /\ \A p \in S : /\ status[p] = "received_in_storage" /\ PackageOrder[p] = NoOrder
                  /\ Untouched(p) /\ ~HasClaim(p) /\ hold[p] = 0 /\ ~_linked(p)
  /\ stock' = [r \in Rows |-> IF PackageOf[r] \in S
                                THEN [stock[r] EXCEPT !.available = 0, !.reserved = stock[r].quantity - stock[r].sold]
                                ELSE stock[r]]
  /\ hold' = [p \in Packages |-> IF p \in S THEN remaining_quantity(p) ELSE hold[p]]
  /\ status' = [p \in Packages |-> IF p \in S THEN "reserved" ELSE status[p]]
  /\ UNCHANGED <<dispatched, direct, claim, documents>>

\* What release and prepare-shipment have in common.
_release(S) ==
  /\ S # {}
  /\ \A p \in S : /\ hold[p] > 0 /\ ~_linked(p) /\ ~HasClaim(p)
                  /\ status[p] = "reserved" /\ hold[p] = remaining_quantity(p) /\ SoldAsDispatched(p)
                  /\ \A r \in RowsOf(p) : /\ stock[r].available = 0
                                          /\ stock[r].reserved = stock[r].quantity - stock[r].sold
  /\ stock' = [r \in Rows |-> IF PackageOf[r] \in S
                                THEN [stock[r] EXCEPT !.available = stock[r].quantity - stock[r].sold, !.reserved = 0]
                                ELSE stock[r]]
  /\ hold' = [p \in Packages |-> IF p \in S THEN 0 ELSE hold[p]]
  /\ status' = [p \in Packages |-> IF p \in S THEN "received_in_storage" ELSE status[p]]
  /\ UNCHANGED <<dispatched, direct, claim>>

release_packs(S) == _release(S) /\ UNCHANGED documents

-----------------------------------------------------------------------------
(* Endpoints of a single package                                           *)

\* POST /packages/{id}/reserve: a label on the package, no reservation behind it.
reserve_package(p) ==
  /\ status[p] = "received_in_storage"
  /\ status' = [status EXCEPT ![p] = "reserved"]
  /\ UNCHANGED <<dispatched, direct, stock, claim, hold, documents>>

DecrementAvailableOnly(row) ==
  LET shipped == Least(row.quantity, row.available + row.reserved)
  IN [row EXCEPT !.available = @ - shipped, !.sold = @ + shipped]

\* What leaves a stock row with its package.
decrement_finished_goods_for_package(row) ==
  LET shipped == Least(row.quantity, row.available + row.reserved)
      fromAvailable == Least(row.available, shipped)
  IN [row EXCEPT !.available = @ - fromAvailable,
                 !.reserved = Greatest(0, @ - (shipped - fromAvailable)),
                 !.sold = @ + shipped]

\* POST /packages/{id}/ship: no shipment, and nobody asks whose reservation it was.
ship_package(p) ==
  /\ hold[p] = 0 /\ ~PartlyDispatched(p) /\ status[p] \in ReadyStatuses
  /\ status' = [status EXCEPT ![p] = "shipped"]
  /\ stock' = [r \in Rows |-> IF PackageOf[r] = p THEN decrement_finished_goods_for_package(stock[r])
                              ELSE stock[r]]
  /\ direct' = direct \cup {p}
  /\ UNCHANGED <<dispatched, claim, hold, documents>>

\* The endpoint reads the package without a lock.  That a return which commits in between
\* is overwritten by "delivered" is left out here: the label alone would be affected.
mark_delivered(p) ==
  /\ status[p] = "shipped"
  /\ status' = [status EXCEPT ![p] = "delivered"]
  /\ UNCHANGED <<dispatched, direct, stock, claim, hold, documents>>

\* Nothing may claim a damaged package and no shipment, of any status, may link it.
mark_damaged(p) ==
  /\ status[p] \notin GoneStatuses \cup {"reserved"}
  /\ ~HasClaim(p) /\ \A s \in Shipments : ~Attached(s, p)
  /\ \A r \in RowsOf(p) : stock[r].reserved = 0
  /\ status' = [status EXCEPT ![p] = "damaged"]
  /\ UNCHANGED <<dispatched, direct, stock, claim, hold, documents>>

StockStep ==
  \/ \E o \in Orders, r \in Rows :
       \/ \E n \in 1 .. MaxPieces[r] : _reserve_piece_stock(o, r, n)
       \/ _release_piece_reservation(o, r)
  \/ \E o \in Orders, p \in Packages : _reserve_manual_package(o, p) \/ _release_manual_package(o, p)
  \/ \E o \in Orders, S \in SUBSET Packages : reserve_pieces(o, S) \/ reserve_packs(o, S)
  \/ \E S \in SUBSET Packages : reserve_for_customer(S) \/ release_packs(S)
  \/ \E p \in Single : reserve_package(p) \/ ship_package(p) \/ mark_delivered(p) \/ mark_damaged(p)
=============================================================================
