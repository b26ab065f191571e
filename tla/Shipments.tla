------------------------------ MODULE Shipments ------------------------------
(***************************************************************************)
(* Shipments: the documents that collect packages, verify them by scanning *)
(* and send their pieces out, and the return of a dispatch.  A request     *)
(* locks its shipment, then the packages, their stock rows and             *)
(* reservations, and is one step - except where it decides by rows it read *)
(* before locking them, or never locked: creating a shipment for an order, *)
(* adding its ready packages, adding one package and delivering.  Those    *)
(* are a read and a write, with other requests in between.                 *)
(***************************************************************************)
EXTENDS ReadyStock

vars == <<goods, documents>>

NoLinks == [p \in Packages |-> 0]
NoPick == [r \in Rows |-> 0]
Absent == [status |-> "none", order |-> NoOrder, posted |-> FALSE,
           links |-> NoLinks, scanned |-> {}, selected |-> {}, pick |-> NoPick]
Nothing == [kind |-> "none", shipment |-> NoShipment, order |-> NoOrder, found |-> NoLinks,
            seen |-> "damaged"]

\* links: ShipmentPackage.quantity; scanned: matched scans with no later detached one;
\* selected, pick: dispatch_snapshot.package_quantities; posted: a manual shipment, one
\* without an order, has got the sales order of its invoice.  A warehouse exit is a manual
\* shipment that nobody posts or deletes.
Shipment ==
  [status: {"none", "created", "shipped", "delivered", "cancelled"},
   order: Orders \cup {NoOrder}, posted: BOOLEAN,
   links: [Packages -> Nat], scanned: SUBSET Packages, selected: SUBSET Packages,
   pick: [Rows -> Nat]]
Reading ==
  [kind: {"none", "create", "add", "addReady", "deliver"}, shipment: Shipments \cup {NoShipment},
   order: Orders \cup {NoOrder}, found: [Packages -> Nat], seen: PackageStatuses]

Init ==
  /\ InitGoods
  /\ shipment = [s \in Shipments |-> Absent]
  /\ pending = [c \in Clerks |-> Nothing]
  /\ answered = {}

\* Nobody else is inside a request on the shipment (its row is locked).
Unlocked(s) == \A c \in Clerks : pending[c].shipment # s
Gone(s) == shipment[s].status \in GoneStatuses

-----------------------------------------------------------------------------
(* Which packages a shipment may take                                      *)

OtherOpen(s, p) == \E x \in Shipments \ {s} : Open(x) /\ Attached(x, p)

\* seen, left: the status and the remaining quantity as this request knows them.
_orderless_package_ok(p, seen, left) ==
  /\ PackageOrder[p] = NoOrder /\ seen = "received_in_storage" /\ ~HasClaim(p)
  /\ SumOf([r \in RowsOf(p) |-> stock[r].available]) = left
  /\ \A r \in RowsOf(p) : stock[r].reserved = 0

_package_attachment_ok(s, p, seen, left) ==
  /\ hold[p] = 0 /\ ~OtherOpen(s, p)
  /\ IF shipment[s].order = NoOrder /\ ~shipment[s].posted
       THEN _orderless_package_ok(p, seen, left)
       ELSE PackageOrder[p] \in {NoOrder, shipment[s].order}

_ready_packages_for_sales_order(o) ==
  {p \in Packages : /\ status[p] \in ReadyStatuses
                    /\ PackageOrder[p] = o \/ \E r \in RowsOf(p) : claim[o][r] > 0}
Ready(o) == [p \in Packages |-> IF p \in _ready_packages_for_sales_order(o)
                                  THEN remaining_quantity(p) ELSE 0]

-----------------------------------------------------------------------------
(* Requests that read first and write later                                *)

Begin(c, reading) ==
  /\ pending[c] = Nothing
  /\ pending' = [pending EXCEPT ![c] = reading]
  /\ UNCHANGED <<goods, shipment, answered>>

Finish(c) == pending' = [pending EXCEPT ![c] = Nothing]

\* The request fails and its transaction is rolled back.
Abort(c) ==
  /\ pending[c] # Nothing /\ Finish(c)
  /\ UNCHANGED <<goods, shipment, answered>>

BeginCreateAnyway(c, s, o) ==
  /\ shipment[s] = Absent /\ Unlocked(s) /\ ~OrderLocked(o)
  /\ Begin(c, [Nothing EXCEPT !.kind = "create", !.shipment = s, !.order = o, !.found = Ready(o)])

\* POST /shipments for an order, which stays locked from here on.
BeginCreate(c, s, o) ==
  /\ shipment[s] = Absent /\ Unlocked(s) /\ ~OrderLocked(o)
  /\ ~ \E x \in Shipments : Live(x) /\ shipment[x].order = o
  /\ Begin(c, [Nothing EXCEPT !.kind = "create", !.shipment = s, !.order = o, !.found = Ready(o)])

create_shipment(c) ==
  /\ pending[c].kind = "create"
  /\ shipment' = [shipment EXCEPT ![pending[c].shipment] =
                    [Absent EXCEPT !.status = "created", !.order = pending[c].order,
                                   !.links = pending[c].found]]
  /\ Finish(c)
  /\ UNCHANGED <<goods, answered>>

\* POST /shipments without an order: for a customer (manual) or out of the warehouse.
CreateBare(s) ==
  /\ shipment[s] = Absent /\ Unlocked(s)
  /\ shipment' = [shipment EXCEPT ![s] = [Absent EXCEPT !.status = "created"]]
  /\ UNCHANGED <<goods, pending, answered>>

\* With nothing missing the request changes nothing.
BeginAddReady(c, s) ==
  /\ Open(s) /\ Unlocked(s) /\ shipment[s].order # NoOrder
  /\ LET missing == [p \in Packages |-> IF Attached(s, p) THEN 0 ELSE Ready(shipment[s].order)[p]]
     IN /\ missing # NoLinks
        /\ Begin(c, [Nothing EXCEPT !.kind = "addReady", !.shipment = s, !.found = missing])

add_ready_packages(c) ==
  LET s == pending[c].shipment
  IN /\ pending[c].kind = "addReady"
     /\ shipment' = [shipment EXCEPT ![s].links = [p \in Packages |-> @[p] + pending[c].found[p]]]
     /\ Finish(c)
     /\ UNCHANGED <<goods, answered>>

\* POST /shipments/{id}/add-package: whatever the status of the shipment.  The package
\* is loaded, then locked without reloading it; the checks on other tables are fresh.
BeginAdd(c, s, p) ==
  /\ Live(s) /\ Unlocked(s) /\ status[p] \in ReadyStatuses
  /\ Begin(c, [Nothing EXCEPT !.kind = "add", !.shipment = s, !.seen = status[p],
                              !.found[p] = remaining_quantity(p)])

add_package(c) ==
  LET s == pending[c].shipment
  IN /\ pending[c].kind = "add"
     /\ \A p \in Packages : pending[c].found[p] > 0 =>
          /\ _package_attachment_ok(s, p, pending[c].seen, pending[c].found[p])
          /\ ~Attached(s, p)
     /\ shipment' = [shipment EXCEPT ![s].links = [p \in Packages |-> @[p] + pending[c].found[p]]]
     /\ Finish(c)
     /\ UNCHANGED <<goods, answered>>

\* POST /shipments/{id}/deliver.  The status of the packages and of the other shipments
\* that took part of them is read without a lock.
BeginDeliver(c, s) ==
  /\ shipment[s].status = "shipped" /\ Unlocked(s) /\ shipment[s].links # NoLinks
  /\ LET arrives(p) ==
           /\ Attached(s, p) /\ status[p] = "shipped"
           /\ PartlyDispatched(p) =>
                \A x \in Shipments \ {s} : Live(x) /\ Attached(x, p) => shipment[x].status = "delivered"
     IN Begin(c, [Nothing EXCEPT !.kind = "deliver", !.shipment = s,
                                 !.found = [p \in Packages |-> IF arrives(p) THEN 1 ELSE 0]])

deliver(c) ==
  LET s == pending[c].shipment
  IN /\ pending[c].kind = "deliver"
     /\ shipment' = [shipment EXCEPT ![s].status = "delivered"]
     /\ status' = [p \in Packages |-> IF pending[c].found[p] > 0 THEN "delivered" ELSE status[p]]
     /\ answered' = answered \cup {<<"deliver", s>>}
     /\ Finish(c)
     /\ UNCHANGED <<dispatched, direct, stock, claim, hold>>

\* POST /warehouse-reservations/prepare-shipment: the holds become a manual shipment.
prepare_shipment(s, S) ==
  /\ shipment[s] = Absent /\ Unlocked(s) /\ _release(S)
  /\ shipment' = [shipment EXCEPT ![s] =
                    [Absent EXCEPT !.status = "created",
                                   !.links = [p \in Packages |-> IF p \in S THEN remaining_quantity(p) ELSE 0]]]
  /\ UNCHANGED <<pending, answered>>

-----------------------------------------------------------------------------
(* Scanning                                                                *)

ScanAllowed(s, p) ==
  /\ Open(s) /\ Unlocked(s) /\ status[p] \in ReadyStatuses
  /\ _package_attachment_ok(s, p, status[p], remaining_quantity(p))

Scanned(s, p, sh) == shipment' = [shipment EXCEPT ![s] = [sh EXCEPT !.scanned = @ \cup {p}]]

\* More packages may be scanned than an order by packs still asks for.
WithinRequest(s) ==
  shipment[s].order # NoOrder /\ Requested[shipment[s].order] > 0
    => Cardinality(shipment[s].scanned) < Requested[shipment[s].order]

ScanAttached(s, p) ==
  /\ ScanAllowed(s, p) /\ Attached(s, p)
  /\ Scanned(s, p, shipment[s])
  /\ UNCHANGED <<goods, pending, answered>>

ScanNew(s, p) ==
  /\ ScanAllowed(s, p) /\ ~Attached(s, p) /\ WithinRequest(s)
  /\ shipment[s].order # NoOrder => p \in _ready_packages_for_sales_order(shipment[s].order)
  /\ Scanned(s, p, [shipment[s] EXCEPT !.links[p] = remaining_quantity(p)])
  /\ UNCHANGED <<goods, pending, answered>>

\* The reservations of the order move from the rows of Q to those of p; an order by
\* packs takes all of p, which must be intact.
_move_package_reservations(o, Q, p) ==
  LET old == [r \in Rows |-> IF PackageOf[r] \in Q THEN claim[o][r] ELSE 0]
      packs == Requested[o] > 0
      required == IF packs THEN Contents(p) ELSE SumOf(old)
      offer == [r \in RowsOf(p) |-> stock[r].available]
  IN IF required = 0
       THEN UNCHANGED <<stock, claim>>
       ELSE /\ SumOf(offer) >= required
            /\ packs => \A r \in RowsOf(p) : stock[r].available = stock[r].quantity
            /\ \E take \in Drains(offer, required, TRUE) :
                 LET new == [r \in Rows |-> IF r \in RowsOf(p) THEN take[r] ELSE 0]
                 IN /\ stock' = [r \in Rows |->
                          [stock[r] EXCEPT !.available = @ + old[r] - new[r],
                                           !.reserved = Greatest(0, @ - old[r]) + new[r]]]
                    /\ claim' = [claim EXCEPT ![o] = [r \in Rows |-> @[r] - old[r] + new[r]]]

\* A package nobody planned takes the place of an attached one that is not scanned.
_replace_unscanned_same_model_package(s, q, p) ==
  LET o == shipment[s].order
  IN /\ ScanAllowed(s, p) /\ ~Attached(s, p) /\ WithinRequest(s)
     /\ o # NoOrder /\ p \notin _ready_packages_for_sales_order(o)
     /\ q # p /\ Attached(s, q) /\ q \notin shipment[s].scanned
     /\ _move_package_reservations(o, {q}, p)
     /\ Scanned(s, p, [shipment[s] EXCEPT !.links[q] = 0, !.links[p] = remaining_quantity(p)])
     /\ UNCHANGED <<status, dispatched, direct, hold, pending, answered>>

\* ... or is one more of the packs the order asks for.
ScanExtraPack(s, p) ==
  LET o == shipment[s].order
      attached == {q \in Packages : Attached(s, q)}
  IN /\ ScanAllowed(s, p) /\ p \notin attached /\ WithinRequest(s)
     /\ o # NoOrder /\ p \notin _ready_packages_for_sales_order(o)
     /\ attached \subseteq shipment[s].scanned /\ Cardinality(attached) < Requested[o]
     /\ _move_package_reservations(o, {}, p)
     /\ Scanned(s, p, [shipment[s] EXCEPT !.links[p] = remaining_quantity(p)])
     /\ UNCHANGED <<status, dispatched, direct, hold, pending, answered>>

-----------------------------------------------------------------------------
(* Review before dispatch                                                  *)

\* Part of the package goes with this shipment, the remainder stays.
select_dispatch_quantity(s, p, quantities) ==
  /\ Open(s) /\ Unlocked(s) /\ Attached(s, p) /\ p \in shipment[s].scanned
  /\ status[p] \in ReadyStatuses
  /\ \A r \in RowsOf(p) : quantities[r] <= stock[r].quantity - dispatched[r]
  /\ SumOf(quantities) > 0
  /\ shipment' = [shipment EXCEPT ![s].links[p] = SumOf(quantities),
                                  ![s].selected = @ \cup {p},
                                  ![s].pick = [r \in Rows |-> IF PackageOf[r] = p THEN quantities[r] ELSE @[r]]]
  /\ UNCHANGED <<goods, pending, answered>>

\* The count of what was received in the package was wrong.  An increase goes to the
\* order that has reserved the row; a decrease is taken from the free pieces first.
correct_received_quantity(s, p, quantities) ==
  LET o == shipment[s].order
      own(r) == IF o = NoOrder THEN 0 ELSE claim[o][r]
      more(r) == Greatest(0, quantities[r] - stock[r].quantity)
      less(r) == Greatest(0, stock[r].quantity - quantities[r])
      fromFree(r) == Least(stock[r].available, less(r))
      delta(r) == (IF own(r) > 0 THEN more(r) ELSE 0) - (less(r) - fromFree(r))
  IN /\ Open(s) /\ Unlocked(s) /\ Attached(s, p) /\ p \in shipment[s].scanned
     /\ ~PartlyDispatched(p) /\ p \notin shipment[s].selected
     /\ status[p] \in ReadyStatuses /\ shipment[s].links[p] = Contents(p)
     /\ \A x \in Shipments \ {s} : ~Attached(x, p)
     /\ \A x \in Orders \ {o}, r \in RowsOf(p) : claim[x][r] = 0
     /\ \A r \in RowsOf(p) : /\ stock[r].sold = 0 /\ own(r) = stock[r].reserved
                             /\ stock[r].available + stock[r].reserved = stock[r].quantity
                             /\ stock[r].quantity = 0 => quantities[r] = 0
     /\ SumOf(quantities) > 0
     /\ \E r \in RowsOf(p) : quantities[r] # stock[r].quantity
     /\ stock' = [r \in Rows |->
          IF PackageOf[r] # p THEN stock[r]
          ELSE [quantity |-> quantities[r], sold |-> 0,
                available |-> stock[r].available - fromFree(r) + (IF own(r) > 0 THEN 0 ELSE more(r)),
                reserved |-> stock[r].reserved + delta(r)]]
     /\ claim' = [x \in Orders |-> [r \in Rows |->
          IF x = o /\ PackageOf[r] = p THEN claim[x][r] + delta(r) ELSE claim[x][r]]]
     /\ shipment' = [shipment EXCEPT ![s].links[p] = SumOf(quantities)]
     /\ UNCHANGED <<status, dispatched, direct, hold, pending, answered>>

\* What leaving the shipment sh does to its document and to the package.
Without(sh, S) ==
  [sh EXCEPT !.links = [p \in Packages |-> IF p \in S THEN 0 ELSE @[p]],
             !.scanned = @ \ S, !.selected = @ \ S,
             !.pick = [r \in Rows |-> IF PackageOf[r] \in S THEN 0 ELSE @[r]]]
Unlabelled(p, reserved) ==
  IF status[p] = "reserved" /\ \A r \in RowsOf(p) : reserved[r] = 0
    THEN "received_in_storage" ELSE status[p]

detach_shipment_package(s, p) ==
  LET o == shipment[s].order
      give == [r \in Rows |-> IF PackageOf[r] = p /\ o # NoOrder THEN claim[o][r] ELSE 0]
  IN /\ Open(s) /\ Unlocked(s) /\ Attached(s, p) /\ status[p] \in ReadyStatuses
     /\ \A r \in Rows : give[r] <= stock[r].reserved
     /\ IF o = NoOrder THEN UNCHANGED <<stock, claim>> ELSE Release(o, give)
     /\ status' = [status EXCEPT ![p] = Unlabelled(p, [r \in Rows |-> stock[r].reserved - give[r]])]
     /\ shipment' = [shipment EXCEPT ![s] = Without(@, {p})]
     /\ UNCHANGED <<dispatched, direct, hold, pending, answered>>

delete_manual_shipment(s) ==
  LET attached == {p \in Packages : Attached(s, p)}
  IN /\ Open(s) /\ Unlocked(s) /\ shipment[s].order = NoOrder
     /\ \A p \in attached : status[p] \in ReadyStatuses
     /\ status' = [p \in Packages |->
          IF p \in attached THEN Unlabelled(p, [r \in Rows |-> stock[r].reserved]) ELSE status[p]]
     /\ shipment' = [shipment EXCEPT ![s] = [Without(@, attached) EXCEPT !.status = "cancelled"]]
     /\ UNCHANGED <<dispatched, direct, stock, claim, hold, pending, answered>>

-----------------------------------------------------------------------------
(* Dispatch and return                                                     *)

OnlyBySelection(s, p) == p \in shipment[s].selected

\* The package goes by selected pieces, not whole.
ByPieces(s, p) == PartlyDispatched(p) \/ p \in shipment[s].selected
selected_items(s, r) ==
  IF PackageOf[r] \in shipment[s].selected THEN shipment[s].pick[r] ELSE stock[r].quantity - dispatched[r]

Verified(s, p) ==
  LET left == remaining_quantity(p)
  IN /\ p \in shipment[s].scanned /\ hold[p] = 0
     /\ \A o \in Orders \ {shipment[s].order}, r \in RowsOf(p) : claim[o][r] = 0
     /\ status[p] \in ReadyStatuses
     /\ shipment[s].links[p] \in 1 .. left
     /\ SoldAsDispatched(p)
     /\ SumOf([r \in RowsOf(p) |-> stock[r].available + stock[r].reserved]) = left
     /\ \A r \in RowsOf(p) : stock[r].quantity = stock[r].available + stock[r].reserved + stock[r].sold

\* dispatch_selected refuses selections and reservations that no longer fit.
Selectable(s, p) ==
  /\ SumOf([r \in RowsOf(p) |-> selected_items(s, r)]) = shipment[s].links[p]
  /\ \A r \in RowsOf(p) : /\ selected_items(s, r) <= stock[r].quantity - dispatched[r]
                          /\ stock[r].sold = dispatched[r]
                          /\ Claimed(r) = stock[r].reserved

DispatchLosingTheRest(s, r) ==
  LET take == Least(selected_items(s, r), stock[r].available + stock[r].reserved)
  IN [stock[r] EXCEPT !.available = @ - Least(@, take), !.reserved = 0, !.sold = @ + take]

\* The selected pieces are sold, the others of the row are free again.
dispatch_selected(s, r) ==
  LET take == Least(selected_items(s, r), stock[r].available + stock[r].reserved)
  IN [stock[r] EXCEPT !.available = @ + stock[r].reserved - take, !.reserved = 0, !.sold = @ + take]

_ship_verified_packages(s, posted) ==
  LET sh == shipment[s]
      attached == {p \in Packages : Attached(s, p)}
      pieces == {p \in attached : ByPieces(s, p)}
      sent == [r \in Rows |-> IF PackageOf[r] \in pieces THEN selected_items(s, r) ELSE 0]
  IN /\ Open(s) /\ Unlocked(s) /\ attached # {}
     /\ \A p \in attached : Verified(s, p)
     /\ \A p \in pieces : Selectable(s, p)
     /\ sh.order # NoOrder => Requested[sh.order] \in {0, Cardinality(attached)}
     /\ posted => sh.order = NoOrder
     /\ stock' = [r \in Rows |->
          CASE PackageOf[r] \in pieces -> dispatch_selected(s, r)
            [] PackageOf[r] \in attached \ pieces -> decrement_finished_goods_for_package(stock[r])
            [] OTHER -> stock[r]]
     /\ claim' = [o \in Orders |-> [r \in Rows |->
          IF PackageOf[r] \in pieces THEN 0 ELSE claim[o][r]]]
     /\ dispatched' = [r \in Rows |-> dispatched[r] + sent[r]]
     /\ status' = [p \in Packages |->
          CASE p \in pieces -> IF remaining_quantity(p) > sh.links[p] THEN "received_in_storage" ELSE "shipped"
            [] p \in attached \ pieces -> "shipped"
            [] OTHER -> status[p]]
     /\ shipment' = [shipment EXCEPT ![s] =
          [sh EXCEPT !.status = "shipped", !.posted = posted, !.selected = @ \cup pieces,
                     !.pick = [r \in Rows |-> IF PackageOf[r] \in pieces THEN selected_items(s, r) ELSE @[r]]]]
     /\ answered' = answered \cup {<<"ship", s>>}
     /\ UNCHANGED <<direct, hold, pending>>

\* The price of a manual shipment is reviewed after it has gone, and posted.
review_shipment_amount(s) ==
  /\ Gone(s) /\ Unlocked(s) /\ shipment[s].order = NoOrder /\ ~shipment[s].posted
  /\ shipment' = [shipment EXCEPT ![s].posted = TRUE]
  /\ UNCHANGED <<goods, pending, answered>>

ReturnableFromOne(s, p) ==
  LET o == shipment[s].order
  IN /\ status[p] \in GoneStatuses \cup (IF PartlyDispatched(p) THEN {"received_in_storage"} ELSE {})
     /\ \A x \in Orders \ {o}, r \in RowsOf(p) : claim[x][r] = 0
     /\ \A r \in RowsOf(p) :
          /\ stock[r].quantity > 0 /\ stock[r].reserved = 0 /\ Claimed(r) <= stock[r].quantity
          /\ stock[r].quantity = stock[r].available + stock[r].sold

\* Everything the shipment sent is back: the whole dispatch is reversed or nothing.
Returnable(s, p) ==
  LET o == shipment[s].order
  IN /\ status[p] \in GoneStatuses \cup (IF PartlyDispatched(p) THEN {"received_in_storage"} ELSE {})
     /\ \A x \in Orders \ {o}, r \in RowsOf(p) : claim[x][r] = 0
     /\ \A x \in Shipments \ {s} : Live(x) => ~Attached(x, p)
     /\ shipment[s].links[p] = IF PartlyDispatched(p) THEN SumOf([r \in RowsOf(p) |-> dispatched[r]])
                               ELSE Contents(p)
     /\ \A r \in RowsOf(p) :
          /\ stock[r].quantity > 0 /\ stock[r].reserved = 0 /\ Claimed(r) <= stock[r].quantity
          /\ stock[r].quantity = stock[r].available + stock[r].sold
          /\ IF PartlyDispatched(p) THEN selected_items(s, r) = dispatched[r] /\ dispatched[r] = stock[r].sold
             ELSE stock[r].available = 0

NothingForgotten(s) == answered

\* The saved answers that a retry still gets once the fingerprints of s are rewritten.
Remembered(s) == {a \in answered : a[2] # s}

reopen_shipment(s) ==
  LET sh == shipment[s]
      attached == {p \in Packages : Attached(s, p)}
      back(r) == PackageOf[r] \in attached
  IN /\ Gone(s) /\ Unlocked(s) /\ attached # {}
     /\ \A p \in attached : Returnable(s, p)
     /\ sh.order # NoOrder => ~ \E x \in Shipments \ {s} : Live(x) /\ shipment[x].order = sh.order
     /\ stock' = [r \in Rows |->
          IF back(r) THEN [stock[r] EXCEPT !.sold = 0, !.reserved = Claimed(r),
                                           !.available = stock[r].quantity - Claimed(r)]
          ELSE stock[r]]
     /\ status' = [p \in Packages |->
          CASE p \in attached /\ HasClaim(p) -> "reserved"
            [] p \in attached /\ ~HasClaim(p) -> "received_in_storage"
            [] OTHER -> status[p]]
     /\ dispatched' = [r \in Rows |-> IF back(r) THEN 0 ELSE dispatched[r]]
     /\ shipment' = [shipment EXCEPT ![s] = [sh EXCEPT !.status = "created", !.posted = FALSE]]
     /\ answered' = Remembered(s)
     /\ UNCHANGED <<direct, claim, hold, pending>>

-----------------------------------------------------------------------------
(* The system                                                              *)

\* Counts of pieces a clerk may enter for the package.
Counts(p) ==
  {q \in [Rows -> UNION {0 .. MaxPieces[r] : r \in Rows}] :
     \A r \in Rows : q[r] \in 0 .. (IF PackageOf[r] = p THEN MaxPieces[r] ELSE 0)}

Read ==
  \E c \in Clerks, s \in Shipments :
    \/ \E o \in Orders : BeginCreate(c, s, o)
    \/ BeginAddReady(c, s)
    \/ \E p \in Single : BeginAdd(c, s, p)
    \/ BeginDeliver(c, s)

Write ==
  \E c \in Clerks :
    create_shipment(c) \/ add_ready_packages(c) \/ add_package(c) \/ deliver(c) \/ Abort(c)

Scan ==
  \E s \in Shipments, p \in Packages :
    \/ ScanAttached(s, p) \/ ScanNew(s, p) \/ ScanExtraPack(s, p)
    \/ \E q \in Packages : _replace_unscanned_same_model_package(s, q, p)

Review ==
  \E s \in Shipments :
    \/ CreateBare(s)
    \/ \E S \in SUBSET Packages : prepare_shipment(s, S)
    \/ \E p \in Packages : detach_shipment_package(s, p)
    \/ \E p \in shipment[s].scanned : \E quantities \in Counts(p) :
         select_dispatch_quantity(s, p, quantities) \/ correct_received_quantity(s, p, quantities)
    \/ delete_manual_shipment(s)

Dispatch ==
  \E s \in Shipments :
    \/ \E posted \in BOOLEAN : _ship_verified_packages(s, posted)
    \/ review_shipment_amount(s) \/ reopen_shipment(s)

Next == StockStep \/ Read \/ Write \/ Scan \/ Review \/ Dispatch

Spec == Init /\ [][Next]_vars

-----------------------------------------------------------------------------
(* Properties                                                              *)

TypeOK ==
  /\ status \in [Packages -> PackageStatuses]
  /\ dispatched \in [Rows -> Nat] /\ direct \in SUBSET Packages
  /\ stock \in [Rows -> StockRow]
  /\ claim \in [Orders -> [Rows -> Nat]] /\ hold \in [Packages -> Nat]
  /\ shipment \in [Shipments -> Shipment] /\ pending \in [Clerks -> Reading]
  /\ answered \in SUBSET ({"ship", "deliver"} \X Shipments)

\* A package that left by its own endpoint is outside the books of the shipments (the
\* README tells what replacing and reopening then do to it).
Kept == {r \in Rows : PackageOf[r] \notin direct}

\* The pieces of row r that the shipment s has sent.
SentBy(s, r) ==
  IF ~Gone(s) \/ PackageOf[r] \notin shipment[s].scanned THEN 0
  ELSE IF PackageOf[r] \in shipment[s].selected THEN shipment[s].pick[r]
  ELSE stock[r].quantity

\* Every piece of a row is available, reserved or sold, in exactly one of the three,
\* whatever was reserved, moved by a scan, corrected, dispatched and returned.
Balanced ==
  \A r \in Kept : stock[r].quantity = stock[r].available + stock[r].reserved + stock[r].sold

\* The sold pieces are those the gone shipments sent: no piece is sent by two shipments,
\* and no return takes back what another one sent.
SoldAccounted ==
  \A r \in Kept : stock[r].sold = SumOf([s \in Shipments |-> SentBy(s, r)])

\* The reserved pieces are those of the orders' reservations or of a customer's hold.  A
\* row sold out keeps its reservations as evidence.
ReservedAccounted ==
  \A r \in Kept :
    stock[r].sold < stock[r].quantity =>
      stock[r].reserved = (IF hold[PackageOf[r]] > 0 THEN stock[r].quantity - stock[r].sold ELSE 0)
                            + Claimed(r)

\* What a package counts as dispatched is what the selections of gone shipments add up to.
DispatchedAccounted ==
  \A r \in Rows :
    dispatched[r] = SumOf([s \in Shipments |-> IF Gone(s) THEN shipment[s].pick[r] ELSE 0])

\* However requests to create shipments interleave, an order has one at most.
OneShipmentPerOrder ==
  \A s, x \in Shipments :
    s # x /\ Live(s) /\ Live(x) /\ shipment[s].order # NoOrder => shipment[s].order # shipment[x].order

\* A retry is never told of a dispatch or a delivery that was reversed since.
AnswersStand ==
  \A a \in answered : IF a[1] = "ship" THEN Gone(a[2]) ELSE shipment[a[2]].status = "delivered"
=============================================================================
