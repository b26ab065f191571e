---------------------------- MODULE MaterialStock ----------------------------
(***************************************************************************)
(* Stock of one material and the reservations against it, as concurrent    *)
(* HTTP requests change them: each request is one PostgreSQL transaction   *)
(* (READ COMMITTED) driven through one SQLAlchemy session.  A session      *)
(* reads rows into its identity map, takes row locks one statement at a    *)
(* time, and writes the columns it changed when it commits.  The step that *)
(* matters is which reads happen before the lock and which after it.       *)
(*                                                                         *)
(* Quantities are NUMERIC(14,4) in the database and natural numbers here,  *)
(* so the code's EPSILON is 0.  One item of a material category (fabric)   *)
(* and one warehouse: every row contends for the same item lock.           *)
(***************************************************************************)
EXTENDS Sums

CONSTANTS
  Sessions,       \* request handlers that may run at the same time
  Batches,        \* ids of stock_batches rows of the item
  Reservations,   \* ids of material_reservations rows
  Orders,         \* ids of production orders
  Dates,          \* what StockBatch.received_date of a batch may be
  MaxQuantity,    \* bound on a batch balance and on a requested quantity
  MaxRequests,    \* bound on the number of requests of a behaviour
  Operations,     \* the endpoints in use
  StrictCutting,  \* setting require_material_reservation_before_cutting
  TrackBatch,     \* what Item.track_batch of the item may be
  StartQuantity,  \* balances at the start, 0 for a batch not received yet
  StartLoose,     \* batchless ledger balance at the start
  StartRows       \* reservations at the start

ItemRow == 0      \* the items row; as a reservation's batch, SQL NULL

AllOperations == {"receive", "reserve", "release", "consume", "consumeItem", "cut",
                  "set", "update", "move", "archive", "restore"}

VARIABLES
  batch,        \* stock_batches
  ledger,       \* per batch, the signed sum of its stock_movements rows
  loose,        \* the signed sum of the movements without a batch
  row,          \* material_reservations
  drawn,        \* per reservation, the quantity taken from stock on its account
  session,      \* the request each session is executing
  requests,     \* requests received so far
  tracked       \* Item.track_batch

vars == <<batch, ledger, loose, row, drawn, session, requests, tracked>>
tables == <<batch, ledger, loose, row, drawn>>

Rows == Batches \cup {ItemRow}
ActiveStatus == {"reserved", "partially_consumed"}
Status == ActiveStatus \cup {"none", "consumed", "released"}
NoRow == [order |-> 0, batch |-> ItemRow, reserved |-> 0, consumed |-> 0,
          released |-> 0, status |-> "none"]
NoLine == [batch |-> ItemRow, quantity |-> 0]

\* A session between requests: nothing loaded, no lock held.
Idle ==
  [op |-> "idle", batch |-> ItemRow, reservation |-> 0, order |-> 0, quantity |-> 0,
   flag |-> FALSE, lines |-> [r \in Reservations |-> NoLine],
   pending |-> {}, held |-> {}, claimed |-> {}, scanned |-> TRUE,
   dates |-> [b \in Batches |-> 0],
   quantities |-> [b \in Batches |-> 0], rows |-> [r \in Reservations |-> NoRow]]

BatchRow == [quantity: Nat, state: {"absent", "active", "archived"}]
ReservationRow ==
  [order: Orders \cup {0}, batch: Rows, reserved: Nat, consumed: Nat, released: Nat,
   status: Status]
Session ==
  [op: AllOperations \cup {"idle"}, batch: Rows, reservation: Reservations \cup {0},
   order: Orders \cup {0}, quantity: Nat, flag: BOOLEAN,
   lines: [Reservations -> [batch: Rows, quantity: Nat]],
   pending: SUBSET Rows, held: SUBSET Rows, claimed: SUBSET Reservations,
   scanned: BOOLEAN, dates: [Batches -> Nat], quantities: [Batches -> Nat],
   rows: [Reservations -> ReservationRow]]

ASSUME MaterialAssumption ==
  /\ IsFiniteSet(Batches) /\ Batches \subseteq Nat \ {ItemRow}
  /\ IsFiniteSet(Reservations) /\ Reservations \subseteq Nat \ {0}
  /\ Orders \subseteq Nat \ {0}
  /\ Dates \subseteq Nat /\ MaxQuantity \in Nat /\ MaxRequests \in Nat
  /\ Operations \subseteq AllOperations
  /\ StrictCutting \in BOOLEAN /\ TrackBatch \subseteq BOOLEAN
  /\ StartQuantity \in [Batches -> 0 .. MaxQuantity]
  /\ StartLoose \in Int
  /\ StartRows \in [Reservations -> ReservationRow]

(***************************************************************************)
(* Aggregates the handlers read.                                           *)
(***************************************************************************)
Existing == {b \in Batches : batch[b].state # "absent"}
Active(v) == v.status \in ActiveStatus
Open(v) == Greatest(0, v.reserved - v.consumed - v.released)

ClaimsOn(x) == [r \in Reservations |-> IF Active(row[r]) /\ row[r].batch = x THEN Open(row[r]) ELSE 0]
ReservedOn(b) == SumOf(ClaimsOn(b))
ReservedTotal == SumOf([r \in Reservations |-> IF Active(row[r]) THEN Open(row[r]) ELSE 0])
StockTotal == SumOf([b \in Batches |-> batch[b].quantity]) + loose
Available == StockTotal - ReservedTotal

StatusFor(reserved, consumed, released) ==
  IF reserved - consumed - released <= 0
    THEN IF released > 0 THEN "released" ELSE "consumed"
    ELSE IF consumed > 0 THEN "partially_consumed" ELSE "reserved"

\* The unit of work updates a column only when it differs from the loaded value.
Dirty(loaded, new, stored) == IF new = loaded THEN stored ELSE new

\* Reservation v, as the session loaded it, charged with n more units.
Charged(v, n, stored) ==
  [stored EXCEPT !.consumed = v.consumed + n,
                 !.status = Dirty(v.status, StatusFor(v.reserved, v.consumed + n, v.released), @)]

\* Reservation v, as the session loaded it, with everything open released.
Freed(v, stored) ==
  LET released == v.released + Open(v) IN
  [stored EXCEPT !.released = IF Open(v) > 0 THEN released ELSE @,
                 !.status = Dirty(v.status, StatusFor(v.reserved, v.consumed, released), @)]

\* Mutant: the table without its CHECK constraint.
LegalAlways(v) == v.consumed \in Nat
\* CHECK (consumed_quantity + released_quantity <= reserved_quantity)
Legal(v) == v.consumed + v.released <= v.reserved

\* A balance written to batch b; a fabric batch with nothing left is archived.
Settled(b, n) == [quantity |-> n, state |-> IF n = 0 THEN "archived" ELSE batch[b].state]

-----------------------------------------------------------------------------
(***************************************************************************)
(* Locks.                                                                  *)
(***************************************************************************)

\* Mutant: a movement out locks the item before its batch.
LockBeforeItemFirst(s, x, y) ==
  IF s.op \in {"set", "move"} THEN x = ItemRow \/ (y # ItemRow /\ x <= y)
  ELSE y = ItemRow \/ (x # ItemRow /\ x <= y)

\* The order in which an operation's SELECT ... FOR UPDATE visits its rows: batches by
\* ascending id and then the item, except that a correction begins with the item and the
\* consumption of an item reservation takes the batches by received_date, then id.
LockBefore(s, x, y) ==
  CASE s.op = "set" -> x >= y
    [] s.op = "consumeItem" -> s.dates[x] < s.dates[y] \/ (s.dates[x] = s.dates[y] /\ x <= y)
    [] OTHER -> y = ItemRow \/ (x # ItemRow /\ x <= y)

NextRow(t, x) ==
  /\ x \in session[t].pending
  /\ \A y \in session[t].pending : LockBefore(session[t], x, y)

Ready(t, op) == session[t].op = op /\ session[t].pending = {} /\ session[t].scanned

\* Does the flush insert a row that references the item (FOR KEY SHARE)?
Inserts(s) ==
  /\ s.op # "release"
  /\ s.op = "update" => s.quantity # s.quantities[s.batch]
  /\ s.op = "archive" => s.quantities[s.batch] > 0

HoldsItemForUpdate(u) == session[u].op = "set" /\ ItemRow \in session[u].held

\* Session t cannot take its next step before session u ends its transaction.
BlockedBy(t, u) ==
  /\ u # t
  /\ \/ \E x \in session[u].held : NextRow(t, x)
     \/ /\ session[t].op # "idle" /\ Ready(t, session[t].op)
        /\ \/ Inserts(session[t]) /\ HoldsItemForUpdate(u)
           \/ session[t].reservation \in session[u].claimed

\* Mutant: the SELECTs without FOR UPDATE.
UnblockedAlways(t) == t \in Sessions
Unblocked(t) == \A u \in Sessions : ~BlockedBy(t, u)

\* Everyone in some set of sessions waits for another one of the set.
Deadlocked(t) ==
  \E C \in SUBSET Sessions : t \in C /\ \A u \in C : \E w \in C : BlockedBy(u, w)

\* A row lock is granted; the locking SELECT refreshes the session's copy of
\* the row, except in consume_stock_batch, whose copy was loaded before.
Granted(s, x) ==
  [s EXCEPT !.pending = @ \ {x}, !.held = @ \cup {x},
            !.quantities = IF x \in Batches /\ s.op # "consume"
                             THEN [@ EXCEPT ![x] = batch[x].quantity] ELSE @]

LockRow(t) ==
  \E x \in Rows :
    /\ NextRow(t, x)
    /\ Unblocked(t)
    /\ session' = [session EXCEPT ![t] = Granted(@, x)]
    /\ UNCHANGED <<tables, requests>>

\* A correction locks every batch of the item after the item itself; an item
\* reservation is consumed from every batch that has stock, in the order of their dates.
\* PATCH of a batch changes its date at any time, so the SELECT may find any.
Scanned(s, dates) ==
  [s EXCEPT !.scanned = TRUE, !.dates = dates,
            !.pending = IF s.op = "set" THEN Existing
                        ELSE {b \in Batches : batch[b].quantity > 0}]

ScanBatches(t) ==
  /\ session[t].op \in {"set", "consumeItem"}
  /\ ~session[t].scanned /\ session[t].pending = {}
  /\ \E dates \in IF session[t].op = "set" THEN {session[t].dates} ELSE [Batches -> Dates] :
       session' = [session EXCEPT ![t] = Scanned(@, dates)]
  /\ UNCHANGED <<tables, requests>>

\* With its batch locked, a cutting request locks and reloads the active
\* reservations of its order on the batch, an archiving one those of all orders.
Wanted(s) ==
  {r \in Reservations : /\ Active(row[r]) /\ row[r].batch = s.batch
                        /\ s.op = "cut" => row[r].order = s.order}

Claiming(s) ==
  [s EXCEPT !.scanned = TRUE, !.claimed = Wanted(s),
            !.rows = [r \in Reservations |-> IF r \in Wanted(s) THEN row[r] ELSE NoRow]]

\* Mutant: the reservations are read before the lock on their batch is granted.
LockReservationsEarly(t) ==
  /\ session[t].op \in {"cut", "archive"} /\ ~session[t].scanned
  /\ session' = [session EXCEPT ![t] = Claiming(@)]
  /\ UNCHANGED <<tables, requests>>

LockReservations(t) ==
  /\ session[t].op \in {"cut", "archive"}
  /\ ~session[t].scanned /\ session[t].pending = {}
  /\ session' = [session EXCEPT ![t] = Claiming(@)]
  /\ UNCHANGED <<tables, requests>>

-----------------------------------------------------------------------------
(***************************************************************************)
(* Requests.  Begin is the request up to its first lock; Commit is its     *)
(* validation, its writes and COMMIT; everything it loaded is forgotten.   *)
(***************************************************************************)
Begin(t, s) ==
  /\ session[t] = Idle
  /\ requests < MaxRequests
  /\ s.op \in Operations
  /\ requests' = requests + 1
  /\ session' = [session EXCEPT ![t] = s]
  /\ UNCHANGED tables

End(t) ==
  /\ session' = [session EXCEPT ![t] = Idle]
  /\ UNCHANGED requests

\* Rows of the reservation table that no one has numbered yet.
Unnumbered == {r \in Reservations : /\ row[r].status = "none"
                                    /\ \A t \in Sessions : session[t].lines[r] = NoLine}

\* One POST may create several reservations: one per line.
ReserveRequest(p, ids, place, want) ==
  [Idle EXCEPT !.op = "reserve", !.order = p,
     !.lines = [r \in Reservations |->
        IF r \in ids THEN [batch |-> place[r], quantity |-> want[r]] ELSE NoLine],
     !.pending = {place[r] : r \in ids} \cup {ItemRow}]

BeginReserve(t) ==
  \E ids \in (SUBSET Unnumbered) \ {{}}, p \in Orders :
    /\ \A r \in ids, other \in Unnumbered \ ids : r < other
    /\ \E place \in [ids -> Existing \cup {ItemRow}], want \in [ids -> 1 .. MaxQuantity] :
         Begin(t, ReserveRequest(p, ids, place, want))

BeginRelease(t) ==
  \E r \in Reservations :
    /\ row[r].status # "none"
    /\ Begin(t, [Idle EXCEPT !.op = "release", !.reservation = r, !.rows[r] = row[r]])

\* db.get of the reservation, which joins its batch into the identity map.
BeginConsume(t) ==
  \E r \in Reservations, q \in 1 .. MaxQuantity :
    LET b == row[r].batch IN
    /\ row[r].status # "none" /\ b # ItemRow
    /\ Begin(t, [Idle EXCEPT !.op = "consume", !.reservation = r, !.quantity = q,
                   !.batch = b, !.pending = {b}, !.rows[r] = row[r],
                   !.quantities[b] = batch[b].quantity])

BeginConsumeItem(t) ==
  \E r \in Reservations, q \in 1 .. MaxQuantity :
    /\ row[r].status # "none" /\ row[r].batch = ItemRow
    /\ Begin(t, [Idle EXCEPT !.op = "consumeItem", !.reservation = r, !.quantity = q,
                   !.scanned = FALSE, !.rows[r] = row[r]])

BeginCut(t) ==
  \E b \in Existing, p \in Orders, q \in 1 .. MaxQuantity :
    Begin(t, [Idle EXCEPT !.op = "cut", !.batch = b, !.order = p, !.quantity = q,
                !.pending = {b}, !.scanned = FALSE])

BeginSet(t) ==
  \E target \in 0 .. MaxQuantity, force \in BOOLEAN :
    Begin(t, [Idle EXCEPT !.op = "set", !.quantity = target, !.flag = force,
                !.pending = {ItemRow}, !.scanned = FALSE])

BeginUpdate(t) ==
  \E b \in Existing, target \in 0 .. MaxQuantity :
    Begin(t, [Idle EXCEPT !.op = "update", !.batch = b, !.quantity = target, !.pending = {b}])

BeginMove(t) ==
  \E x \in Existing \cup {ItemRow}, q \in 1 .. MaxQuantity, out \in BOOLEAN :
    Begin(t, [Idle EXCEPT !.op = "move", !.batch = x, !.quantity = q, !.flag = out,
                !.pending = (IF out THEN {ItemRow} ELSE {}) \cup ({x} \ {ItemRow})])

BeginArchive(t) ==
  \E b \in Existing :
    Begin(t, [Idle EXCEPT !.op = "archive", !.batch = b, !.pending = {b}, !.scanned = FALSE])

BeginRestore(t) ==
  \E b \in Existing, q \in 1 .. MaxQuantity :
    Begin(t, [Idle EXCEPT !.op = "restore", !.batch = b, !.quantity = q, !.pending = {b}])

\* Goods receipt: inserts a batch and its receive movement, locks nothing.
Receive ==
  /\ "receive" \in Operations /\ requests < MaxRequests
  /\ \A u \in Sessions : ~HoldsItemForUpdate(u)
  /\ \E b \in Batches \ Existing, q \in 1 .. MaxQuantity :
       /\ batch' = [batch EXCEPT ![b] = [quantity |-> q, state |-> "active"]]
       /\ ledger' = [ledger EXCEPT ![b] = @ + q]
  /\ requests' = requests + 1
  /\ UNCHANGED <<loose, row, drawn, session>>

-----------------------------------------------------------------------------
(***************************************************************************)
(* Validation of a request that holds its locks: what the handler requires *)
(* of the rows it loaded and what the CHECK constraints require of the     *)
(* rows it writes.                                                         *)
(***************************************************************************)
Lines(s) == {r \in Reservations : s.lines[r].quantity > 0}
LinesOn(s, x) == [r \in Reservations |-> IF s.lines[r].batch = x THEN s.lines[r].quantity ELSE 0]

\* Mutant: each line is checked by itself against all that is available.
MayReserveEach(s) ==
  \A r \in Lines(s) :
    LET b == s.lines[r].batch IN
    /\ b # ItemRow => s.lines[r].quantity <= s.quantities[b] - ReservedOn(b)
    /\ s.lines[r].quantity <= Available

\* The lines are checked one after the other, each against what the previous
\* ones left: together they fit in every batch named and in the item.
MayReserve(s) ==
  /\ \A r \in Lines(s) :
       LET b == s.lines[r].batch IN
       b # ItemRow => SumOf(LinesOn(s, b)) <= s.quantities[b] - ReservedOn(b)
  /\ SumOf([r \in Reservations |-> s.lines[r].quantity]) <= Available

MayRelease(s) ==
  LET v == s.rows[s.reservation] IN
  Active(v) /\ Legal(Freed(v, row[s.reservation]))

MayCharge(s) ==
  LET v == s.rows[s.reservation] IN
  /\ Active(v) /\ s.quantity <= Open(v)
  /\ Legal(Charged(v, s.quantity, row[s.reservation]))

Offered(s) == [b \in s.held \cap Batches |-> s.quantities[b]]
Claimed(s) == [r \in s.claimed |-> Open(s.rows[r])]

MayCut(s) ==
  /\ s.quantity <= s.quantities[s.batch]
  /\ StrictCutting => s.quantity <= SumOf(Claimed(s))

Delta(s) == s.quantity - StockTotal
Adjustable(s) == {b \in s.held \cap Batches : batch[b].state = "active"}
Cuttable(s) == [b \in Adjustable(s) |-> s.quantities[b]]

\* Where a surplus goes: the newest active batch, or a new adjustment batch.
TakesSurplus(s, b) ==
  IF Adjustable(s) = {} THEN b \in Batches \ Existing
  ELSE b \in Adjustable(s) /\ \A c \in Adjustable(s) : c <= b

\* A correction may not go below the item's reservations; without force it
\* also refuses to choose among several batches with stock.
MaySet(s) ==
  /\ s.quantity >= ReservedTotal
  /\ tracked /\ Delta(s) # 0 =>
       /\ s.flag \/ Cardinality({b \in Batches : batch[b].quantity > 0}) <= 1
       /\ -Delta(s) <= SumOf(Cuttable(s))
       /\ Delta(s) > 0 => \E b \in Batches :
            TakesSurplus(s, b) /\ s.quantities[b] + Delta(s) <= MaxQuantity

\* Mutant: a movement out is checked against the item but not its batch.
MayMoveAny(s) ==
  /\ s.batch # ItemRow => batch[s.batch].state = "active"
  /\ s.flag => s.quantity <= Available
  /\ ~s.flag => IF s.batch = ItemRow THEN loose + s.quantity <= MaxQuantity
                ELSE s.quantities[s.batch] + s.quantity <= MaxQuantity

MayMove(s) ==
  /\ s.batch # ItemRow => batch[s.batch].state = "active"
  /\ s.flag => /\ s.quantity <= Available
               /\ s.batch # ItemRow =>
                    s.quantity <= s.quantities[s.batch] - ReservedOn(s.batch)
  /\ ~s.flag => IF s.batch = ItemRow THEN loose + s.quantity <= MaxQuantity
                ELSE s.quantities[s.batch] + s.quantity <= MaxQuantity

May(s) ==
  CASE s.op = "reserve" -> MayReserve(s)
    [] s.op = "release" -> MayRelease(s)
    [] s.op = "consume" -> MayCharge(s) /\ s.quantity <= s.quantities[s.batch]
    [] s.op = "consumeItem" -> MayCharge(s) /\ s.quantity <= SumOf(Offered(s))
    [] s.op = "cut" -> MayCut(s)
    [] s.op = "set" -> MaySet(s)
    [] s.op = "update" -> s.quantity >= ReservedOn(s.batch)
    [] s.op = "move" -> MayMove(s)
    [] s.op = "archive" -> batch[s.batch].state = "active"
    [] s.op = "restore" -> s.quantities[s.batch] = 0
    [] OTHER -> FALSE

Accepted(t, op) == Ready(t, op) /\ Unblocked(t) /\ May(session[t])

\* Takes the quantities of take from the batches in its domain.
TakeFrom(take, seen) ==
  /\ batch' = [b \in Batches |->
       IF b \in DOMAIN take /\ take[b] > 0 THEN Settled(b, seen[b] - take[b]) ELSE batch[b]]
  /\ ledger' = [b \in Batches |-> IF b \in DOMAIN take THEN ledger[b] - take[b] ELSE ledger[b]]

CommitReserve(t) ==
  /\ Accepted(t, "reserve")
  /\ row' = [r \in Reservations |->
       IF r \in Lines(session[t])
         THEN [order |-> session[t].order, batch |-> session[t].lines[r].batch,
               reserved |-> session[t].lines[r].quantity, consumed |-> 0, released |-> 0,
               status |-> "reserved"]
         ELSE row[r]]
  /\ UNCHANGED <<batch, ledger, loose, drawn>>
  /\ End(t)

CommitRelease(t) ==
  LET r == session[t].reservation IN
  /\ Accepted(t, "release")
  /\ row' = [row EXCEPT ![r] = Freed(session[t].rows[r], @)]
  /\ UNCHANGED <<batch, ledger, loose, drawn>>
  /\ End(t)

Charge(t) ==
  LET s == session[t] IN
  /\ row' = [row EXCEPT ![s.reservation] = Charged(s.rows[s.reservation], s.quantity, @)]
  /\ drawn' = [drawn EXCEPT ![s.reservation] = @ + s.quantity]

CommitConsume(t) ==
  LET s == session[t] IN
  /\ Accepted(t, "consume")
  /\ Charge(t)
  /\ batch' = [batch EXCEPT ![s.batch] = Settled(s.batch, s.quantities[s.batch] - s.quantity)]
  /\ ledger' = [ledger EXCEPT ![s.batch] = @ - s.quantity]
  /\ UNCHANGED loose
  /\ End(t)

CommitConsumeItem(t) ==
  LET s == session[t] IN
  /\ Accepted(t, "consumeItem")
  /\ Charge(t)
  /\ \E take \in Drains(Offered(s), s.quantity, TRUE) : TakeFrom(take, s.quantities)
  /\ UNCHANGED loose
  /\ End(t)

\* Cutting draws on the order's own reservations first, oldest first; what they
\* do not cover comes from whatever else the batch holds.
CommitCut(t) ==
  LET s == session[t] IN
  /\ Accepted(t, "cut")
  /\ \E take \in Drains(Claimed(s), s.quantity, TRUE) :
       /\ row' = [r \in Reservations |->
            IF r \in s.claimed /\ take[r] > 0 THEN Charged(s.rows[r], take[r], row[r]) ELSE row[r]]
       /\ drawn' = [r \in Reservations |->
            IF r \in s.claimed THEN drawn[r] + take[r] ELSE drawn[r]]
  /\ batch' = [batch EXCEPT ![s.batch] = Settled(s.batch, s.quantities[s.batch] - s.quantity)]
  /\ ledger' = [ledger EXCEPT ![s.batch] = @ - s.quantity]
  /\ UNCHANGED loose
  /\ End(t)

\* A correction of an item that is not batch tracked is one batchless movement.
CommitSetLoose(t) ==
  /\ Accepted(t, "set") /\ ~tracked
  /\ loose' = loose + Delta(session[t])
  /\ UNCHANGED <<batch, ledger, row, drawn>>
  /\ End(t)

CommitSetUp(t) ==
  LET s == session[t] IN
  /\ Accepted(t, "set") /\ tracked /\ Delta(s) > 0
  /\ \E b \in Batches :
       /\ TakesSurplus(s, b)
       /\ batch' = [batch EXCEPT ![b] = [quantity |-> s.quantities[b] + Delta(s), state |-> "active"]]
       /\ ledger' = [ledger EXCEPT ![b] = @ + Delta(s)]
  /\ UNCHANGED <<loose, row, drawn>>
  /\ End(t)

\* A deficit is taken from the active batches, newest first.
CommitSetDown(t) ==
  LET s == session[t] IN
  /\ Accepted(t, "set") /\ tracked /\ Delta(s) <= 0
  /\ \E take \in Drains(Cuttable(s), -Delta(s), FALSE) : TakeFrom(take, s.quantities)
  /\ UNCHANGED <<loose, row, drawn>>
  /\ End(t)

\* Batch edit: the balance is set and the difference posted to the ledger.
CommitUpdate(t) ==
  LET s == session[t] IN
  /\ Accepted(t, "update")
  /\ batch' = [batch EXCEPT ![s.batch] = Settled(s.batch, s.quantity)]
  /\ ledger' = [ledger EXCEPT ![s.batch] = @ + s.quantity - s.quantities[s.batch]]
  /\ UNCHANGED <<loose, row, drawn>>
  /\ End(t)

\* Stock movement entered by hand, in or out, of a batch or without one.
CommitMove(t) ==
  LET s == session[t]
      n == IF s.flag THEN -s.quantity ELSE s.quantity
  IN
  /\ Accepted(t, "move")
  /\ IF s.batch = ItemRow
       THEN loose' = loose + n /\ UNCHANGED <<batch, ledger>>
       ELSE /\ batch' = [batch EXCEPT ![s.batch] = Settled(s.batch, s.quantities[s.batch] + n)]
            /\ ledger' = [ledger EXCEPT ![s.batch] = @ + n]
            /\ UNCHANGED loose
  /\ UNCHANGED <<row, drawn>>
  /\ End(t)

\* Mutant: the balance is written off and the reservations stay.
CommitArchiveBare(t) ==
  LET s == session[t] IN
  /\ Accepted(t, "archive")
  /\ batch' = [batch EXCEPT ![s.batch] = Settled(s.batch, 0)]
  /\ ledger' = [ledger EXCEPT ![s.batch] = @ - s.quantities[s.batch]]
  /\ UNCHANGED <<loose, row, drawn>>
  /\ End(t)

\* Archiving writes the balance off and releases what was reserved on the batch.
CommitArchive(t) ==
  LET s == session[t] IN
  /\ Accepted(t, "archive")
  /\ row' = [r \in Reservations |-> IF r \in s.claimed THEN Freed(s.rows[r], row[r]) ELSE row[r]]
  /\ batch' = [batch EXCEPT ![s.batch] = Settled(s.batch, 0)]
  /\ ledger' = [ledger EXCEPT ![s.batch] = @ - s.quantities[s.batch]]
  /\ UNCHANGED <<loose, drawn>>
  /\ End(t)

\* Restoring confirms physical stock on an emptied batch.
CommitRestore(t) ==
  LET s == session[t] IN
  /\ Accepted(t, "restore")
  /\ batch' = [batch EXCEPT ![s.batch] = [quantity |-> s.quantity, state |-> "active"]]
  /\ ledger' = [ledger EXCEPT ![s.batch] = @ + s.quantity]
  /\ UNCHANGED <<loose, row, drawn>>
  /\ End(t)

Commit(t) ==
  \/ CommitReserve(t) \/ CommitRelease(t) \/ CommitConsume(t) \/ CommitConsumeItem(t)
  \/ CommitCut(t) \/ CommitSetLoose(t) \/ CommitSetUp(t) \/ CommitSetDown(t)
  \/ CommitUpdate(t) \/ CommitMove(t) \/ CommitArchive(t) \/ CommitRestore(t)

\* An HTTPException or a constraint violation: the session closes, nothing stays.
Reject(t) ==
  /\ session[t].op # "idle" /\ Ready(t, session[t].op) /\ Unblocked(t)
  /\ ~May(session[t])
  /\ End(t) /\ UNCHANGED tables

\* Mutant: a database without a deadlock detector.
AbortVictimNever(t) == t \notin Sessions /\ End(t) /\ UNCHANGED tables

\* PostgreSQL ends a deadlock by aborting one of the transactions in it.
AbortVictim(t) == Deadlocked(t) /\ End(t) /\ UNCHANGED tables

\* A dropped connection or a worker that dies rolls back at any point.
Crash(t) == session[t] # Idle /\ End(t) /\ UNCHANGED tables

Arrive(t) ==
  \/ BeginReserve(t) \/ BeginRelease(t) \/ BeginConsume(t) \/ BeginConsumeItem(t)
  \/ BeginCut(t) \/ BeginSet(t) \/ BeginUpdate(t) \/ BeginMove(t)
  \/ BeginArchive(t) \/ BeginRestore(t)

Advance(t) ==
  LockRow(t) \/ ScanBatches(t) \/ LockReservations(t) \/ Commit(t) \/ Reject(t)

Init ==
  /\ batch = [b \in Batches |->
       [quantity |-> StartQuantity[b],
        state |-> IF StartQuantity[b] = 0 THEN "absent" ELSE "active"]]
  /\ ledger = StartQuantity
  /\ loose = StartLoose
  /\ row = StartRows
  /\ drawn = [r \in Reservations |-> StartRows[r].consumed]
  /\ session = [t \in Sessions |-> Idle]
  /\ requests = 0
  /\ tracked \in TrackBatch

Next ==
  /\ \/ Receive
     \/ \E t \in Sessions : Arrive(t) \/ Advance(t) \/ AbortVictim(t) \/ Crash(t)
  /\ UNCHANGED tracked

Spec == Init /\ [][Next]_vars

\* A handler that can proceed does, and the deadlock detector runs; requests
\* need not arrive and workers need not crash.
FairSpec ==
  Spec /\ \A t \in Sessions : WF_session(Advance(t)) /\ WF_session(AbortVictim(t))

-----------------------------------------------------------------------------
(***************************************************************************)
(* Properties.                                                             *)
(***************************************************************************)

\* Every column holds a value of its type and every session a request.
TypeOK ==
  /\ batch \in [Batches -> BatchRow]
  /\ ledger \in [Batches -> Int]
  /\ loose \in Int
  /\ row \in [Reservations -> ReservationRow]
  /\ drawn \in [Reservations -> Nat]
  /\ session \in [Sessions -> Session]
  /\ requests \in 0 .. MaxRequests

\* "Batch-linked movements are already reflected in StockBatch.quantity": a
\* batch's balance is what its ledger adds up to, whatever was interleaved.
LedgerBalanced == \A b \in Batches : batch[b].quantity = ledger[b]

\* What a reservation says it consumed is what was taken from stock for it.
DrawsAccounted == \A r \in Reservations : row[r].consumed = drawn[r]

\* The active reservations bound to a batch are covered by its balance.
Backed == \A b \in Batches : ReservedOn(b) <= batch[b].quantity

\* "One global order ... cannot form a cycle": no set of requests waits for itself.
NoLockCycle == \A t \in Sessions : ~Deadlocked(t)

\* A reservation that was consumed or released is never reopened or rewritten.
ClosedIsFinal ==
  [][\A r \in Reservations : row[r].status \in {"consumed", "released"} => row'[r] = row[r]]_row

\* "A correction must never leave active reservations backed by less physical
\* stock": a batch that covered its reservations still does afterwards.
CorrectionKeepsBacking ==
  [][\A t \in Sessions, b \in Batches :
       session[t].op = "set" /\ session'[t] = Idle /\ ReservedOn(b) <= batch[b].quantity
         => (ReservedOn(b) <= batch[b].quantity)']_vars

\* The database with its rows reduced to what StockLedger speaks of.
Ledger == INSTANCE StockLedger WITH
  balance <- [b \in Batches |-> batch[b].quantity],
  account <- [r \in Reservations |->
    [batch |-> row[r].batch, reserved |-> row[r].reserved,
     consumed |-> row[r].consumed, released |-> row[r].released]]
\* Each commit of the locking endpoints is one atomic step of StockLedger on the
\* current rows, although its handler read them several statements earlier.
ImplementsStockLedger == Ledger!Spec

\* Every request is answered: locks are given up and deadlocks broken.
RequestsEnd == \A t \in Sessions : session[t] # Idle ~> session[t] = Idle
=============================================================================
