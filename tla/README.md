# Milana ERP: formal specification

Milana ERP runs garment factories: fabric is bought and received into stock
batches, reserved for production orders, cut, sewn, packed, put into a warehouse,
sold and shipped. A FastAPI backend (`src/backend/app`) keeps everything in
PostgreSQL through SQLAlchemy; a Next.js frontend (`src/frontend`), a scanner
station and an attendance connector talk to it over HTTP.

This directory holds TLA+ modules of the parts where requests meet: the stock of
materials and its reservations, the pieces of an order from cutting to packaging, the
finished packages with their reservations and shipments, the invoices that shipments and payments leave behind, the idempotency protocol
of the write endpoints, the browser side of recording physical packs, and the audit log.
TLC checks them on small databases; the TLA+ proof system proves the central results for every size.

    tlc -workers 2 -config material_strict.cfg MCMaterialStock.tla
    tlapm MaterialStockProofs.tla

## 1. The system

### How a request runs

`db/session.py` opens one session per request. A session is one PostgreSQL
transaction at READ COMMITTED, and it has an identity map: a row loaded once keeps
the column values of that load, and a later `SELECT ... FOR UPDATE` of the same row
waits for the lock but replaces the loaded values only if the query says
`populate_existing()`. The unit of work then updates the columns that differ from
their loaded values. So the question everywhere is not only which lock is held
but whether a value was read before or after it was granted. Handlers run
concurrently in several worker processes; a handler that raises, loses its
connection or dies rolls back.

### Components

State in tables unless noted; "hard" names what is not obvious in it.

| Component | State and operations | Hard |
|---|---|---|
| Material stock (`models/inventory_service.py`, `models/inventory/*`) | `stock_batches` (balance, archived), `stock_movements` (ledger), `material_reservations`; receive, reserve, auto-reserve, release, consume, cut, correct, edit, move, archive, restore | stale copies, lock order, several lines in a request, non-batch stock |
| Idempotency (`models/idempotency_service.py`) | `idempotency_records` by versioned scope and key, older rows by bare scope; replay, store | concurrent retries, crash before the save, rows without an owner |
| Package requests (`api/routes/package_workflows.py`, `frontend/src/lib/packageWorkflow.ts`) | one saved request per user and endpoint in `localStorage`, print runs; post, retry, reconcile, clear | lost responses, two tabs, overtaking, what a status code proves |
| Waste (`models/inventory/waste_service.py`) | `waste_records`, sales, disposal requests; receive, sell, request, approve, reject, mark | stale receive, remaining quantity |
| Fabric scans, eco transfers | documents around movements | repeated scans |
| Fulfilment (`models/fulfillment`, `package_dispatch_service.py`, `shipment_*`) | finished-goods rows, `stock_reservations`, shipments; reserve pieces, dispatch in parts, deliver, return, reopen | package, stock and reservation rows must agree |
| Packages and labels | packages, items, print runs, corrections | identity of a retired label |
| Finance | invoices, payments, advances, customer ledger | status against the sum of payments, one invoice per order |
| Purchasing | requests, orders, receipts | partial and repeated receiving |
| Sales | orders, items, history | edits against reservations |
| Production | orders, cutting batches, bundles, sewing progress, process tracking | counters of consecutive stages |
| Planning, forecasting, price calculation | derived figures | none: calculations |
| Catalogue, partners | reference data | none |
| People, payroll, attendance | employees, scanned labels, periods, events | a label paid twice, duplicate events |
| Identity and permissions | users, tokens, factory scope | early refusals |
| Audit chain (`audit_service.py`) | `audit_logs` linked by hashes; queue, finalize at commit | order of ids and hashes, savepoints |
| Numbering | last number per prefix and year | advisory lock, seventh digit |
| Stocktake | counts, scanned rows, frozen snapshots | repeated completion |
| Images, notifications, e-mail, reports | files, messages, queries | none that another part reads back |
| Deployment (`deploy/slotctl.py`) | active slot, state file | crash between proxy and state |
| Attendance connector | cursor, device events | crash, duplicate delivery |
| Migrations and one-off scripts | run once by an operator | none modelled |

### How they interact

Handlers meet in shared rows, never by messages. Cutting and auto-reservation call
the reservation functions; purchasing and returns call `receive_stock`; corrections,
batch edits and transfers change the same batches. Every write endpoint that takes
an `Idempotency-Key` runs inside the replay protocol, and the package endpoints add
a lock per request key and a reconciliation endpoint. The frontend reads nothing but
the status and the body of an answer.

### What makes each part correct

- Stock: a balance equals the sum of its movements; what is reserved on a batch is
  covered by its balance; what a reservation says it consumed left the stock once;
  a closed reservation stays closed; requests do not wait for each other in a ring.
- Idempotency: one effect per caller and key; a replayed answer is the caller's own.
- Package requests: one receipt per physical job; the browser forgets a request only
  when its fate is known, and what it reports stays true.
- Production floor: no stage takes more pieces of a batch than the stage before it has made,
  whatever is corrected or undone meanwhile; the counters of the work orders are the totals
  of their records; a correction replaces what its clerk has seen.
- Waste: sold and disposed quantities within the recorded one, no way back from a
  final status. Fulfilment: pieces available, reserved and sold add up, shipped pieces
  are in one shipment. Finance: an invoice's status follows its payments, one live
  invoice per order. Audit: the chain links committed entries in id order.

## 2. The modules

| Module | What it is |
|---|---|
| `Sums` | sums over finite functions as counts of units, so that they can be proved about; FIFO and LIFO draining |
| `SumTheorems` | a sum is finite, additive, monotone, zero when all terms are, and moves by the difference when one term is replaced |
| `StockLedger` | abstract: each committed request is one step on current balances |
| `MaterialStock` | the stock endpoints as transactions with identity maps and row locks |
| `MaterialStockProofs` | types, ledger balance, lock order, reservations, backing and the refinement of `StockLedger` for all constants |
| `OnceOnly` | abstract: a write is decided once and every answer reports the decision |
| `RequestReplay` | `replay_idempotent_response` / `store_idempotent_response` |
| `RequestReplayProofs` | its invariant and the refinement of `OnceOnly` |
| `PackageRequests` | browser tabs over `RequestReplay`, with the package endpoints' answers |
| `PackageRequestsProofs` | its properties, of which two under steady rules, and the refinement of `OnceOnly` for all constants |
| `PieceFlow` | abstract: a stage takes from what the one before made, and handed-over work stays |
| `ProductionFloor` | cutting, sewing, packaging and package entries of an order as requests that lock and decide, then write |
| `ProductionFloorProofs` | its types, four properties and its refinement of `PieceFlow` for all constants |
| `ReadyStock` | packages, the stock rows that count their pieces, orders' reservations, customers' holds |
| `Shipments` | extends it with shipments: scans, replacements, selections, dispatch, delivery, return |
| `ShipmentsProofs` | its types and the six properties of stock, reservations, dispatch, orders and answers for all constants |
| `OrderInvoices` | sales orders, the documents frozen at dispatch, invoices and payments |
| `OrderInvoicesProofs` | types, one live invoice, truthful status, settled invoices kept, deliveries and manual sales billed, for all constants |
| `AuditChain` | `log_action` and the commit hook: queues, savepoints, row locks, the hash chain |
| `AuditChainProofs` | its four properties for all constants |
| `MC*` | small constants, symmetry |

### MaterialStock

`batch`, `ledger`, `loose`, `row` are the tables: balance and state of each batch, the
signed sum of its movements, the same for movements without a batch, and the
reservations. `drawn` is an auxiliary total per reservation of what its
consumption took from stock. `tracked` is the item's
`track_batch` flag, which no request changes and which decides where a cut takes unreserved fabric
from. `session[t]` is a request in progress: its endpoint and parameters, the row locks it holds and still wants, and `quantities` and
`rows`, the values its identity map holds.

A request is `Begin...` (arguments and the reads before the first lock), one
`LockRow` per row, `ScanBatches` or `LockReservations` where the handler selects more
rows once it holds a lock, and `Commit...` or `Reject`. `Granted` is the difference
between `_locked_stock_batches_for_consumption` with `populate_existing` and
`consume_stock_batch` without it. Checks and writes after the last lock are one step
with COMMIT: every batch row they use is locked. The one value read without a lock is
the availability of the item as a whole, and no property depends on it.

Locks conflict as in PostgreSQL: two FOR UPDATE of a row, and FOR UPDATE of the item
(corrections only) with the FOR KEY SHARE a movement or reservation insert takes
through its foreign key. The item lock of a reservation is FOR NO KEY UPDATE and does
not block those inserts. `Deadlocked` is a set of sessions waiting inside the set;
`AbortVictim` is the detector.

| Action | Code |
|---|---|
| `BeginReserve`, `CommitReserve` | `create_material_reservations`, `auto_reserve_materials_for_production_order` |
| `BeginRelease`, `CommitRelease` | `release_material_reservation` |
| `BeginConsume`, `CommitConsume` | `consume_material_reservation` of a batch reservation |
| `BeginConsumeItem`, `CommitConsumeItem` | the same without a batch, `consume_item_from_batches` |
| `BeginCut`, `CommitCut` | `prepare_cutting_material_consumption`, `consume_cutting_materials` |
| `BeginSet`, `CommitSet*` | `set_stock_quantity` |
| `BeginUpdate`, `CommitUpdate` | `update_batch` |
| `BeginMove`, `CommitMove` | `transfer_stock`, receive and issue, with or without a batch |
| `BeginArchive`, `BeginRestore` and commits | `archive_or_delete_batch`, `restore_material_batch` |
| `Receive` | `receive_stock` |
| `Crash`, `AbortVictim`, `Reject` | rollback |

`LockBefore` is the order in which a request asks for rows: batches by id, by `received_date` and then id
when an item reservation is consumed (`workflow_service.py:535`), newest first in a correction. The
dates can be edited (`stock_service.py:1083`), so each `ScanBatches` of a consumption finds any
dates; they are kept in `session[t].dates`.

Abstractions: quantities are naturals (NUMERIC in the database, tolerance 0); one
fabric item, so all rows contend for one item lock and an empty batch is archived;
one warehouse, so relocation is out; a receipt inserts a new batch. A user with the
`inventory.materials_only` permission has the batch loaded by an access check before
it is locked; that object is dropped when the check returns, and the identity map
holds objects weakly, so the locking SELECT loads the row afresh. In
`consume_material_reservation` the reservation held by the handler keeps its joined
batch alive, and there it does not.

### RequestReplay

`rows` are current records by user, factory and key; `old` are records of the former
version, with what they give evidence of (`known`); `decided` is an auxiliary history of
committed effects. An attempt arrives, takes the advisory lock of its slot, looks the key
up, and replays, refuses or works; `Settle` is effect, record and COMMIT in one step,
`Fail` a rollback at any point before it, and `End` the response leaving. A payload
stands for its fingerprint, one operation name for the scope. Keys are
compared exactly: two keys never share a lock id.

### PackageRequests

Extends `RequestReplay` with the tabs of one user. `saved` is the pending request in
`localStorage`; `navigator.locks` makes preparing and clearing one step each. `job`
counts the physical receipts the user has to record, `jobOf` which one a key was made
for, `fate` what the user was told, `retired` what became of the print run later.
`Settles` is the table of answers after which a request is forgotten. Responses get lost
(`GiveUp`), attempts go on without a listener, tabs retry and reconcile in any order.
The former per-tab storage is not modelled. Bodies are bound to their keys, so one
payload stands for all.

### ProductionFloor

`cut` and `bundle` are the pieces of a batch (Nastil) by its cutting record and by the sum of its
bundles; `plan` is its `planned_quantity` and `revised` the counts to which the audit log
shows that Cutting changed it; `record` are `sewing_records` and `sewn` the Sewing work order's `passed_qty`; `received`
sums `packaging_receipts`, `entry` are `packaging_records`, and `intake` and `packed` the Packaging
work order's `actual_input_qty` and `passed_qty`; `box` are packages with their pieces of each
batch. `request[c]` is a clerk's request: the rows it has locked (the order, and its Sewing and
Packaging work orders), and what it read and decided under them.

| Action | Code |
|---|---|
| `post_cutting`, `CommitCutting` | `api/routes/production.py`: the cutting record and its bundles |
| `LoadCutting`, `update_cutting_bundle_quantities`, `CommitResize` | the record is loaded before the lock, a batch with saved sewing is refused |
| `update_cutting_batch`, `CommitRevision` | Cutting revises the planned count, down to `physical_floor` |
| `update_passport`, `CommitPassport` | `cutting_passports.py`, `passport_nastil_service.py`: the passport sets the plan of a batch not yet cut |
| `post_sewing`, `CommitSewing` | a sewing entry within `_revised_sewing_input_limit` (`sewing_input_service.py`) |
| `ReadRecord`, `update`, `delete`, `CommitCorrection`, `CommitRemoval` | `sewing_corrections.py`: the clerk's form, then the request with the version it saw |
| `receive_packaging_from_sewing`, `CommitReceipt` | a receipt of sewn pieces |
| `post_packaging`, `CommitPacking` | a packaging entry within `_packaging_input_budgets` |
| `create_package`, `CommitPackage` | a new package, and the approved edit of one, within `_enforce_packaged_quantity_available` |
| `delete_package`, `undo_package_output`, `CommitDeletion` | a package deleted and its pieces taken out of the newest entries |
| `Abort` | refusal, rollback, or a form left |

What Sewing may take of a batch is `_revised_sewing_input_limit`: what was cut of it or, if that is
more, the planned count, provided that Cutting has put it in the place of another one
(`production.py:5179-5202`). The plan also follows a recount of the bundles (`CommitResize`) and,
before the first cut, the passport; neither leaves the audit entry that lifts the limit.

A request reads and decides in the step in which its locks are granted, and writes in the step of
its COMMIT; requests whose locks leave room run in between. What was read before any lock
(`LoadCutting`, `ReadRecord`) is a step of its own. Locks are taken as a set, so this module says
nothing about waiting.

Abstractions: a standard order without printing, whose batches share one Sewing and one
Packaging work order and have one cutting record each, as the passport demands (a batch without
one may have further records, `production.py:3490-3502`); Sewing's output is what passed, without
failed, reworked or replaced pieces; scanned receipts are
manual quantities; `_enforce_packaged_quantity_available` always sets a limit (the code sets none for
graded stock, nor where no packaging record exists and no evidence is asked, `packages_service.py:468-471`); the stock movement a packed entry makes of packaging material, daily reports and
assignments as further evidence against a change, adding and deleting of batches, the creation of
passports, the plans that follow from counts in other rows (work orders, assignments), sizes and grades, and the
receiving of bundles at Sewing with that work order's own input counter are left out.

### ReadyStock and Shipments

`status`, `dispatched` are columns of `packages`; `stock` is `finished_goods_stock`, one row
per package item; `claim` is `stock_reservations` and `hold` `warehouse_pack_reservations`;
`shipment[s]` is a shipment with its `shipment_packages` (`links`), its scan log (`scanned`)
and the selections of its dispatch snapshot (`selected`, `pick`). `direct` is the set of packages
with a scan-log line of the endpoint `POST /packages/{id}/ship`. `answered` are saved answers
of ship and deliver whose fingerprint a retry would still match.

Most requests lock shipment, packages, stock rows and reservations, in that order, and reload
what they lock, so each is one step. Four decide by rows read before the locks or never
locked, and are a `Begin...` that notes what was read in `pending[c]`, and the write. A fifth,
`mark_delivered`, reads its package without a lock (`routes/packages.py:1913-1915`,
`packages_service.py:1624-1630`) and is nevertheless one step here: in the code a return that
commits in between may be overwritten by "delivered". That status is all it writes. With the action
split in two the properties of `shipment_stock` hold as well (205 thousand states), but the
invariant behind their proofs speaks of statuses and would have to say less:

| Action | Code |
|---|---|
| `_reserve_piece_stock`, `_reserve_manual_package` and releases | `stock_service.py`, `/finished-goods/reserve`, `/release-reservation` |
| `reserve_pieces`, `reserve_packs` | `ready_stock_sales_service.py`, under the order's lock |
| `reserve_for_customer`, `release_packs`, `prepare_shipment` | `warehouse_reservations.py` |
| `reserve_package`, `ship_package`, `mark_delivered` (unlocked), `mark_damaged` | `packages_service.py`, one package each |
| `BeginCreate`/`create_shipment`, `BeginAddReady`/`add_ready_packages`, `BeginAdd`/`add_package` | `shipments.py`: the read of ready packages or of one package, and the insert |
| `ScanAttached`, `ScanNew`, `ScanExtraPack`, `_replace_unscanned_same_model_package` | the four outcomes of a scan |
| `select_dispatch_quantity`, `correct_received_quantity`, `detach_shipment_package`, `delete_manual_shipment` | review before dispatch |
| `_ship_verified_packages` | `/ship` with `dispatch_selected` and `decrement_finished_goods_for_package` |
| `BeginDeliver`/`deliver` | `/deliver`, whose read of the other shipments takes no lock |
| `review_shipment_amount`, `reopen_shipment` | amount of a manual shipment; return, which rewrites the fingerprints of saved answers |

Abstractions: one model of one grade, packages already received, a stock row per package
item, and no status column of the stock rows, which repeats their quantities. Which packages
a demand selects is left open. Weights, transport and printed documents are left out.

### OrderInvoices

`order[o]` is a sales order's status and total, `shipment[s]` a shipment with the amount of
its frozen document, `invoice` the table in id order with `paid` the sum of its payments.
`Booked` are the orders that the posting of a manual shipment inserts. `pending[c]` is a request
that has locked its order and looked for invoices: `issue` (`POST /finance/invoices`),
`generate` (sales), `receive` (a customer's receipt) and `deliver`. `lock_sales_order`,
`Unlocked` and `InvoiceFree` are the row locks of order, shipment and invoices, and decide
which other request may run between look and write.

| Action | Code |
|---|---|
| `BeginIssue`/`create_order_invoice`, `BeginGenerate`/`generate_order_invoice` | `invoices_service.py` |
| `create_invoice_payment`, `BeginReceive`/`record_customer_payment` | `payments_service.py`, `customer_ledger_service.py` |
| `ShipOrder`, `ShipManual`, `review_shipment_amount` | `/ship`, `shipment_invoice_service.py` |
| `BeginDeliver`/`invoice_for_frozen_delivery`, `DeliverUnposted` | `shipment_review_service.py` |
| `reopen_shipment` | `shipment_reopen_service.py` |
| `confirm_sales_order`, `delete_sales_order`, `create_shipment`, `CreateManual`, `delete_manual_shipment` | orders and shipments |

The packages of a shipment are those of `Shipments`; here only its order, status and amount
matter. Amounts are natural numbers of the settlement tolerance's unit, `"confirmed"` stands for
every status an invoice may be generated from, and advances, which belong to no order, are
left out. Shipments dispatched before documents were frozen take another path at delivery
(`ensure_invoice`, without the order's lock) and are not modelled.

### AuditChain

`audit_logs` and `nextId` are the table and its sequence; `session[t]` is a transaction:
its open frames (the root and its savepoints, each with the entries queued in
`db.info`, the changes they describe and the row locks that end with it), the rows
changed but not flushed (`dirty`), the head it read and the rows it inserted.
`history` is auxiliary: what committed transactions logged, in commit order.

| Action | Code |
|---|---|
| `Begin`, `Savepoint`, `Release`, `RollbackTo` | session and `begin_nested`, with `_finish_audit_transaction` |
| `Change`, `LockUser`, `Flush` | handlers that change rows or lock a user, `db.flush()` |
| `Log` | `log_action` |
| `Finalize` to `Insert` | `_finalize_postgres_audits`, one action per wait or query |
| `Commit`, `Rollback` | end of the root transaction |

A hash stands for the entries it covers, since SHA-256 is taken to be injective. Row
locks are those that matter here: FOR UPDATE of a user (`credentials_service.py`),
the write lock of an UPDATE, and the FOR KEY SHARE of an entry's foreign key.
The isolation level is a choice of `Begin`, because the code checks it rather than sets
it; a repeatable read keeps the head of its snapshot. Migration 0094 appends one
row without the advisory lock, under a table lock, and is not modelled.

## 3. Runs

| Run | Checks | Expected |
|---|---|---|
| `material_strict` | `LedgerBalanced`, `Backed`, `NoLockCycle`, `DrawsAccounted`, `ClosedIsFinal`, `ImplementsStockLedger` | holds |
| `material_answered` | `TypeOK`, `RequestsEnd` under `FairSpec` | holds |
| `material_lost_update` | `LedgerBalanced` with `consume` | violated |
| `material_lock_order` | `NoLockCycle` with corrections | violated |
| `material_correction` | `CorrectionKeepsBacking` | violated |
| `replay_once` | `TypeOK`, `PerformedOnce`, `AnswersOwn`, `WorksAlone`, `ImplementsOnceOnly` | holds |
| `package_recovery` | `RepeatedOnlyByCorrection`, `ReissuedOnlyAfterRefusal`, `EvidenceKept`, `ToldTruly` | holds |
| `production_floor` | `TypeOK`, `SewingWithinLimit`, `HandedOverWithinMade`, `CountersAgree`, `CorrectsWhatWasSeen`, `ImplementsPieceFlow` | holds |
| `shipment_stock` | `TypeOK`, `Balanced`, `SoldAccounted`, `ReservedAccounted`, `DispatchedAccounted`, `OneShipmentPerOrder`, `AnswersStand` | holds |
| `order_invoices` | `TypeOK`, `OneLiveInvoice`, `StatusTruthful`, `DeliveredBilled`, `ManualBilled`, `SettledKept` | holds |
| `audit_chain` | `TypeOK`, `ChainVerifies`, `TrailIsHistory`, `HolderNeverWaits` | holds |
| `package_rejection` | `RejectedNeverReceived` | violated |

What they show:

- `material_strict`: over the endpoints that lock batches, then the item, then
  reservations, with `require_material_reservation_before_cutting` on. Without that
  setting cutting may take stock reserved for others, which the code intends, so
  `Backed` is stated for strict cutting. Corrections are left out because they
  break two of these properties (below); `consume` because of its stale copy; the consumption
  of item reservations because of its lock order (below). That balances and movements agree under corrections and under consumption of an item is the theorem
  `LedgerAlwaysBalanced`, of every endpoint but `consume`.
- `material_answered`: with everything in, including corrections and the consumption of item
  reservations, on an item that is tracked by batch or not, nothing goes below zero and no
  request is left waiting.
- `replay_once`: two users of two factories share a key, each with two payloads and any
  older record under it.
- `package_recovery`: two tabs, two keys, four attempts, and print runs that are corrected, returned or
  deleted at any moment. A physical receipt may be recorded under two keys here (a trace like that of
  `package_rejection`, and a new key); that a print run was corrected or returned is the only way to it.
  A new key is issued only after the former one was answered as rejected or cancelled, whatever is lost.
- `production_floor`: one batch from cutting to two packages and two clerks, each between its
  look and its write while the other looks or writes; corrections, removals and undone
  packages leave every stage within the one before, and every step is one `PieceFlow` allows. One piece is
  cut and two are planned: two may be entered at Sewing only after Cutting has revised the count.
- `shipment_stock`: a package received by hand with two pieces and one of a production order,
  an order by pieces and one of one pack, two shipments and a clerk whose reads are old when it
  writes. Whatever is reserved, moved by a scan, corrected, sent in parts and returned, every
  piece is counted once, what is sold is what gone shipments sent, an order has one shipment,
  and no retry reports a dispatch that was reversed.
- `order_invoices`: an order by pieces or by packs, two bookings, two shipments, manual ones
  included, and two requests between their look and their write.
- `audit_chain`: two sessions that may fail at any step, one row that is both what they
  write and the user their entries name, three entries, one savepoint at a time.

Bounds. Two sessions suffice to interleave: every hazard of a balance is one request
between another's read and write, and `replay_once` and `package_recovery` have
attempts that outlive their caller besides. A ring of waiting requests in
`material_lock_order` needs two. Two batches give corrections and item consumption
something to drain from and archive on the way, and a third in `material_answered` is
received or created by a correction during the run; three reservations and two orders
in `material_strict` let one order's cutting meet another's reservation. Quantities up
to 2 allow partial and complete consumption, `MaxRequests` (up to 3) and `MaxAttempts`
(up to 4) end behaviours. In `audit_chain` three entries give one transaction two and
the other one, on either side of a rollback or a gap in the ids. In
`shipment_stock` a package of two pieces can be sent in two parts by two shipments, and one
shipment can replace what the other holds; the single-package endpoints are used on one of the
packages (`Single`), and once a package left by its own endpoint only one shipment is followed
(`OneAfterDirect`), since from then on that package is outside the properties (below).
In `production_floor` the limits are per batch, so one batch meets them all but the question
whether any receipt was used, and `planning_floor`, which are of the order. The batch is planned with two
pieces and cut with one, a recount takes its plan down to one, and a revision up to two again; with plans of
one piece as well the properties hold, too (730 thousand states), and so does `SewingWithinLimit` with two
batches of one or two pieces in an order of three (492 thousand). Two records, two entries
and two packages let one draw on what another holds; `FewPieces` does not continue states in
which Sewing put in or passed more than two pieces, and `MaxVersion` allows one correction of a record.
In `order_invoices` a second invoice is what `OneLiveInvoice` forbids, so `MaxInvoices = 2` reaches
it (with 3 the properties hold, too, in 2 million states), `MaxPaid = 4` lets a receipt settle an invoice in
two parts, and the amount 1 is settled at once by the tolerance.
Symmetry permutes sessions, tabs, keys, shipments, clerks and bookings, and the floor's sewing
records and packages, never stock batches, reservations or packaging entries, whose ids are
compared; it is off where liveness is checked.

Deadlock checking is off: a database where every request was answered may stop, and
so may a bounded model. Waiting for each other is a property, `NoLockCycle`.

Fairness. Safety needs none. `FairSpec` assumes that a handler that can proceed does
(`Advance`: the worker threads run) and that the deadlock detector does
(`AbortVictim`: `deadlock_timeout`). Requests need not arrive, workers need not crash.
`RequestsEnd` needs nothing more, because row locks are waited for by no more than
`MaxRequests` requests.

Assumptions of `package_recovery` and `package_rejection`, each a constant: a body the rules accept is
accepted at every try (`RulesChange = FALSE`); a first attempt refused before the lookup was not
sent twice by a proxy or another tab at the same time (`FirstRefusals = FALSE`). Only
`RepeatedOnlyByCorrection` and `RejectedNeverReceived` need them; `EvidenceKept`, `ToldTruly` and
`ReissuedOnlyAfterRefusal` are proved without (section 4), and the last was also checked with both set to
`TRUE` and three attempts (445 thousand states).

### What does not hold

1. `material_lost_update`. `consume_material_reservation` loads the reservation and
   its batch before `consume_stock_batch` locks the batch without reloading it. Two
   consumptions both subtract from the first balance.
2. `material_lock_order`. `set_stock_quantity` locks the item, then its batches newest
   first; its comment says it uses the reservation lock pattern, which is batches oldest
   first, then the item.
3. `material_correction`. A forced correction compares the new total with the total
   reserved, but drains batches only: stock without a batch makes the total suffice
   while the reserved batch is emptied.
4. `package_rejection`. The browser takes 400 or 409 on a retry as proof that nothing was
   committed; the server answers 409 also when a committed print run was corrected
   or returned.

The following were met while modelling and have no run of their own:

5. A package that is reserved and linked but not scanned may be shipped by `POST
   /packages/{id}/ship`; a later scan that replaces it gives its reservations back to the available
   pieces (`shipments.py:719-728`), although they are sold.
6. `add_package` does not look at the status of the shipment (`shipments.py:1241`): a package
   linked to a shipment that has gone and shipped by its own endpoint is taken back when that
   shipment is reopened. Because of 5 and 6 the properties of `Shipments` are about packages
   that did not leave by their own endpoint (`Kept`).
7. `create_shipment` and `add_ready_packages` take counts from an unlocked read and do not ask
   whether another open shipment has the package. Scanning and dispatch check again, so the
   sums above still hold; a link with an old count has to be removed by hand.
8. Two deliveries of the last two parts of a package may each see the other as not delivered
   (`shipments.py:1879`), and the package stays "shipped".
9. `POST /finance/invoices` for an order whose total is still 0 or within the tolerance issues a
   "paid" invoice (`invoices_service.py:102-110`). After dispatch with another amount the delivery
   is refused (`shipment_review_service.py:475`), and so is reopening (`shipment_reopen_service.py:99`).
10. Two of the locking orders differ: dispatch and return lock packages before the sales order,
    reservation from the order locks the order first.
11. `update_cutting_bundle_quantities` loads the cutting record before it locks
    (`production.py:4878`), and the unit of work writes nothing when the new total equals the loaded
    one. Two of them can leave `cutting_records.passed_pieces` different from its bundles, which is
    why no property says that `cut` equals `bundle`.
12. Receiving bundles at Sewing sets `actual_input_qty` to the greater of the old value, read
    without a lock, and the total received (`bundles_service.py:666`), although
    `sewing_input_service.py:26-27` wants one batch's receipt not to hide another's input.
13. Consumption of an item reservation locks its batches by `received_date`, then id
    (`workflow_service.py:535`), and the date can be edited; every other request locks them by id. Two
    such requests can wait for each other: the model has the order, and the run
    `material_strict` and the theorem `NeverLockCycle` leave the endpoint out for it.
14. `POST /packages/{id}/mark-delivered` reads the package without a lock and overwrites a return that commits
    meanwhile (the model leaves this out, see section 2).
15. Pieces entered at Packaging before the first receipt count in its `actual_input_qty` once as
    entries and again when they are received; once receipts are used, `CountersAgree` bounds the counter
    from below only.

## 4. Proofs

`MaterialStockProofs`:

- `TypesHold`: `Spec => []TypeOK`. Balances and counters stay natural numbers, which
  needs every handler's check, since all of them subtract.
- `LedgerAlwaysBalanced`: with `"consume" \notin Operations`, `Spec => []LedgerBalanced`.
  `LedgerBalanced` is not inductive: a commit writes the loaded balance less its own
  quantity and posts the difference. `LedgerInvariant` adds that a row lock has one
  holder (`Exclusive`), that a batch a session has locked shows the session its current
  balance (`Seen`), that locked batches exist (`LockedExist`), that a ready session holds
  the batch it writes (`TargetLocked`), and that a batch not received holds nothing
  (`AbsentEmpty`). `Seen` is exactly what `consume` breaks.
- `NeverLockCycle`: with neither `set` nor `consumeItem` in `Operations`, the two endpoints that
  lock batches in an order of their own, `Spec => []NoLockCycle`. `LockOrder` says that
  whatever a session holds comes before whatever it still wants: batches by id, then the item,
  then reservations. Of finitely many rows one comes after all others (`LastRow`); in a ring the
  session that holds the last row wanted would wait for a later one (`OrderPreventsCycles`).
- `ReservationInvariantHolds`, with `DrawsAlwaysAccounted` and `ClosedStaysFinal` (an action
  property): with neither `consume` nor `consumeItem` in `Operations`. `ReservationInvariant` adds
  that every row is legal, its status that of its quantities (`RowsLegal`), that a row about to be
  inserted is claimed by one request and still unused (`Numbered`), that cutting and archiving see the
  rows they locked as they are stored (`ClaimsFresh`), that nobody else charges rows (`NotCharging`),
  and what a stale release may rely on (`ReleaseStale`). A release works on a copy loaded
  before its locks. It is harmless because rows only move `Forward`: if its row was charged since,
  the written total breaks the CHECK constraint; if it was released since, the copy writes what is there.
- `ReservationsAlwaysBacked` and `MaterialImplementsStockLedger`: without `set` as well and with
  `StrictCutting`, `Spec => []Backed` and `Spec => ImplementsStockLedger`. `BackingInvariant` is
  `ReservationInvariant`, `LockOrder`, `Backed`, and that archiving holds all that is reserved on the
  batch it empties (`Complete`). Each commit is one `StockLedger` step on
  the stored rows.
- Their hypotheses: `StartLegal` and `StartBacked` say of the rows at the start what is then kept;
  the start of `material_strict` satisfies both and the run includes none of the endpoints left out,
  each of which breaks a property in one of the violating runs (`consumeItem` charges a row by the same
  unlocked read as `consume`, so it is left out with it).

`RequestReplayProofs`:

- `ReplayInvariantHolds`, with `ReplayTypes`, `EffectAtMostOnce`, `AnswersAreOwn` and
  `HandlersWorkAlone` following from it. The invariant adds to the properties that a
  slot's lock has one holder (`Exclusive`) and that the record and the effect of a slot
  agree (`Recorded`); `MissMeansOpen` is the central lemma: a lookup that finds nothing
  it can prove or doubt means that nothing was ever done under the key.
- `ReplayImplementsOnceOnly`: every step is a step of `OnceOnly` or a stutter.

`PackageRequestsProofs`:

- `PackageInvariantHolds`, with `EvidenceAlwaysKept`, `AlwaysToldTruly` and
  `PackageImplementsOnceOnly`, without assumptions on retirements or rules. `PackageInvariant` is
  `ReplayInvariant`, the types of the browser's state, `EvidenceKept`, that a tab waits for the
  attempts of its own key only (`Waits`), and that every answer on its way already says what was
  decided (`Truthful`), which is what makes `ToldTruly` inductive.
- `KeysReissuedOnlyAfterRefusal`, from `PackageInvariant` and `Spent`, without assumptions either: a
  key spent on the present receipt is the saved one or was answered as rejected or cancelled.
- `ReceiptRepeatedOnlyByCorrection` and `RejectionsUndoneOnlyByCorrection`, assuming `SteadyRules`: constant
  rules, no first refusal before the lookup, and no rows under keys not yet issued. Corrections, returns
  and deletions of print runs are included, and the statements say what they do: a key taken for
  rejected has committed, and one receipt is recorded twice, only where a print run was corrected.
  `ReceiptInvariant` adds that only issued keys travel (`Issued`), that what a browser may take for a
  rejection closes its key for good (`RefusalsFinal`), that of the keys spent on one job all but one are
  closed (`JobsClosed`), and that what was recorded was accepted (`Accepted`). A closed key is one that
  never commits or whose print run was corrected (`Closed`). `ClosedStands` is the central lemma:
  whatever step, a closed key stays closed.

`AuditChainProofs`:

- `AuditTypes`, `ChainAlwaysVerifies`, `TrailAlwaysHistory`, from `AuditInvariant`. What
  makes them inductive: at most one session holds the mutex (`Mutex`); one that has read
  the head still has the current one, and its rows go above all committed ids
  (`Current`); every queue is the work of its frame and only READ COMMITTED gets past
  the handler (`Plain`); the committed log is linked row by row (`LogLinked`).
  `LatestBehind` says what the latest hash of any prefix of an appended log is.
- `HolderAlwaysProceeds`, from `LockInvariant`: locks of different sessions never
  conflict, and a session inside the mutex holds a lock on every user it will need.

`OrderInvoicesProofs`:

- `InvoiceTypes`, `AtMostOneLiveInvoice`, `StatusAlwaysTruthful` from `InvoiceInvariantHolds`, and
  `SettledAlwaysKept` with it. `OneLiveInvoice` is not inductive: a write relies on what was
  looked up before. `InvoiceInvariant` adds that an order has one holder (`Exclusive`) and that
  what a request found of its order's invoices is still so (`Looked`), that orders without a row
  have no invoices (`KnownOnly`), and `Single` and `Truthful` per order and invoice.
  `StepKeeps` is the central lemma: a step that touches the invoices of one order, held by
  nobody else, disturbs nobody's reading.
- `DeliveredAlwaysBilled` and `ManualAlwaysBilled`, from `BillingInvariantHolds`. `BillingInvariant` adds
  (`Billing`) that an order is on one shipment, that a delivered or manual shipment has exactly one
  live invoice, of its amount, that a delivery begun owes what the document of its shipment says, and
  that an order posted by hand keeps an invoice only while its goods are out.

`ProductionFloorProofs`:

- `FloorTypes`, `SewingAlwaysWithinLimit`, `AlwaysHandedOverWithinMade`, `CountersAlwaysAgree`
  and `AlwaysCorrectsWhatWasSeen`, from `FloorInvariantHolds`. None of them is inductive: a
  write relies on what the request read and decided a step earlier. `FloorInvariant` adds
  that two requests share no lock (`Exclusive`) and that what each open request decided still
  stands (`Decided`, one conjunct per kind of request): room left in a batch, a counter read, a
  record that is the one opened when it has the version opened (`DecidedLook`), entries that
  can give back what a deletion takes, and give exactly what the package holds (`TakenFrom`).
  What lowers the limit of Sewing, a recount or a revision, is refused once Sewing has a record of the
  batch (`DecidedCut`) and holds Sewing's work order until it commits, so an entry under way was
  limited by the count in force.
- `FloorImplementsPieceFlow`, the refinement: the initial floor is `PieceFlow`'s, and every commit is one
  of its steps on the sums by batch (`CuttingFlows`, `SewingFlows`, `ReceiptFlows`, `PackingFlows`,
  `BoxFlows`, `UnboxFlows`; an empty packaging entry and everything that only reads are stutters). It
  rests on the decisions of `FloorInvariant`: Sewing's input grows only up to its limit (`allowed`), a correction commits while its batch is not handed over,
  and an undone package takes out of the entries' output as many pieces as it still holds.
- The central lemmas: `LookKeeps`, a request may open if what it decides is right now;
  `WriteKeepsDecisions`, a write disturbs only decisions made under a lock it holds itself;
  `SumReplaced`, a total moves by the difference of the one row written.

`ShipmentsProofs`:

- `TypeCorrect`, `StockBalanced`, `SoldIsSent`, `ReservedIsOwed`, `DispatchedIsPicked`,
  `OrderShipsOnce` and `AnswersHold`, from `Invariance`, for the whole of `Spec` and without
  further assumptions. None but `DispatchedAccounted` comes near to being inductive. `IInv` adds:
  - `Within`: a row never counts more dispatched than it was received with, so what remains of a
    package is a count;
  - `Locks`, in `Papers`: two clerks share neither a shipment nor an order being created, and what
    each has decided is still so (`Right`): the order has no live shipment, the shipment added to is
    live, the one delivered is shipped;
  - `Marks`: what is scanned is attached, what is selected is scanned, pieces are picked of selected
    packages only. Without it a detached package could leave picks behind, and `DispatchedAccounted`
    would fail at the next dispatch;
  - `Filled`: a ready package always has pieces left, so a package scanned is one attached;
  - `Delivering`: a delivery under way has read packages that are still attached and gone;
  - `Ledger`: `Balance` and `Owed` per row, and `Proven`: a claim that remains on a row sold out
    belongs to an order whose shipment took the package. A scan that moves reservations relies on it:
    the order of an open shipment is on no gone one, so it moves reserved pieces, never evidence
    (`MoveFits`);
  - `Held`: a package held for a customer is labelled, unclaimed, all reserved and not sold out, so
    no request about orders touches it.
- The argument sorts the steps. All but dispatch and return are `Ordinary`: of the goods they change
  labels, a shift of one order's reservations (`Shift`, which reserving, releasing and moving by a
  scan all are), a hold, a correction or one package leaving by its own endpoint, and the sheets of gone
  shipments stand (`Standing`). Dispatch and return are turns of one sheet (`Turned`), and are
  followed row by row (`ShipRows`, `ReopenRows`).
- TLC checked each part of `IInv` on the instance of `shipment_stock`, and on one with two
  rows per package and two clerks, before it was proved.

Assumptions are those named in the modules (`MaterialAssumption`, `ReplayAssumption`,
`PackageAssumption`, `AuditAssumption`, `OrderInvoicesAssumption`, `ProductionFloorAssumption`,
`ReadyStockAssumption`): finite sets of rows,
distinct null values, users among the rows, quantities that are natural numbers. `SumTheorems` proves the
facts about sums it needs from cardinalities, without induction over data.

Every invariant, action property and refinement of a passing run is now a theorem. Only
model-checked is `RequestsEnd`: liveness and ENABLED, like induction over data and RECURSIVE
operators, are beyond the prover.

## 5. Plan

In order of importance:

1. Done: `MaterialStock`, `RequestReplay`, `PackageRequests`, `AuditChain`, `ReadyStock`,
   `Shipments`, `OrderInvoices`, `ProductionFloor` and the theorems above.
2. `WasteLifecycle`: waste records, sales and disposal, with the stale receive; sales
   never exceed the recorded quantity, no final status is left.
3. Numbering, stocktake completion, slot activation and the connector's cursor as
   small modules if runs allow.

## 6. Not modelled

Calculations without interaction (planning, forecasting, price and payroll formulas),
reference data, reports and exports, labels and images, notifications, authentication
(a request arrives with its user and factory), the user interface, database migrations
and one-off repair scripts. Inside the modelled files: names, prices, barcodes, audit
texts, permissions and the scoping of queries to a warehouse. Roll-level fabric detail
and the quantities of cutting passports derive from the movements and are left out.
