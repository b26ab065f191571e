------------------------- MODULE MaterialStockProofs -------------------------
(***************************************************************************)
(* Theorems of MaterialStock, for any number of sessions, batches,         *)
(* reservations, orders and requests.                                      *)
(***************************************************************************)
EXTENDS MaterialStock, SumTheorems, WellFoundedInduction

(***************************************************************************)
(* Types.                                                                  *)
(***************************************************************************)
LEMMA IdleType == Idle \in Session
  BY MaterialAssumption DEF Idle, Session, AllOperations, Rows, ItemRow, NoLine, NoRow,
     ReservationRow, Status, ActiveStatus

\* A request enters the system as a record of a session.
LEMMA BeginType ==
  ASSUME TypeOK, NEW t \in Sessions, NEW s \in Session, Begin(t, s)
  PROVE  TypeOK'
  BY MaterialAssumption DEF TypeOK, Begin, tables

\* A request leaves it the same way, whatever became of it.
LEMMA EndType ==
  ASSUME TypeOK, NEW t \in Sessions, End(t)
  PROVE  session' \in [Sessions -> Session] /\ requests' \in 0 .. MaxRequests
  BY IdleType DEF TypeOK, End

LEMMA ArriveType ==
  ASSUME TypeOK, NEW t \in Sessions, Arrive(t)
  PROVE  TypeOK'
<1> USE MaterialAssumption
<1>1. CASE BeginReserve(t)
  <2> SUFFICES ASSUME NEW ids \in SUBSET Unnumbered, NEW p \in Orders,
                      NEW place \in [ids -> Existing \cup {ItemRow}],
                      NEW want \in [ids -> 1 .. MaxQuantity]
               PROVE  ReserveRequest(p, ids, place, want) \in Session
    BY <1>1, BeginType DEF BeginReserve
  <2> DEFINE l == [r \in Reservations |->
                     IF r \in ids THEN [batch |-> place[r], quantity |-> want[r]] ELSE NoLine]
             w == {place[r] : r \in ids} \cup {ItemRow}
  <2>1. l \in [Reservations -> [batch: Rows, quantity: Nat]]
    BY DEF Rows, Existing, NoLine, ItemRow
  <2>2. w \in SUBSET Rows
    BY DEF Rows, Existing
  <2> HIDE DEF l, w
  <2>3. [Idle EXCEPT !.op = "reserve", !.order = p, !.lines = l, !.pending = w] \in Session
    BY <2>1, <2>2, IdleType DEF Session, AllOperations
  <2> QED
    BY <2>3 DEF ReserveRequest, l, w
<1>2. CASE BeginCut(t)
  <2> SUFFICES ASSUME NEW b \in Existing, NEW p \in Orders, NEW q \in 1 .. MaxQuantity
               PROVE  [Idle EXCEPT !.op = "cut", !.batch = b, !.order = p, !.quantity = q,
                        !.pending = {b}, !.scanned = FALSE] \in Session
    BY <1>2, BeginType DEF BeginCut
  <2>1. b \in Rows /\ {b} \in SUBSET Rows /\ q \in Nat
    BY DEF Rows, Existing, TypeOK
  <2> QED
    BY <2>1, IdleType DEF Session, AllOperations
<1>3. CASE BeginSet(t)
  <2> SUFFICES ASSUME NEW q \in 0 .. MaxQuantity, NEW force \in BOOLEAN
               PROVE  [Idle EXCEPT !.op = "set", !.quantity = q, !.flag = force,
                        !.pending = {ItemRow}, !.scanned = FALSE] \in Session
    BY <1>3, BeginType DEF BeginSet
  <2>1. {ItemRow} \in SUBSET Rows /\ q \in Nat
    BY DEF Rows, Existing, TypeOK
  <2> QED
    BY <2>1, IdleType DEF Session, AllOperations
<1>4. CASE BeginUpdate(t)
  <2> SUFFICES ASSUME NEW b \in Existing, NEW q \in 0 .. MaxQuantity
               PROVE  [Idle EXCEPT !.op = "update", !.batch = b, !.quantity = q,
                        !.pending = {b}] \in Session
    BY <1>4, BeginType DEF BeginUpdate
  <2>1. b \in Rows /\ {b} \in SUBSET Rows /\ q \in Nat
    BY DEF Rows, Existing, TypeOK
  <2> QED
    BY <2>1, IdleType DEF Session, AllOperations
<1>5. CASE BeginMove(t)
  <2> SUFFICES ASSUME NEW x \in Existing \cup {ItemRow}, NEW q \in 1 .. MaxQuantity, NEW out \in BOOLEAN
               PROVE  [Idle EXCEPT !.op = "move", !.batch = x, !.quantity = q, !.flag = out,
                        !.pending = (IF out THEN {ItemRow} ELSE {}) \cup ({x} \ {ItemRow})] \in Session
    BY <1>5, BeginType DEF BeginMove
  <2>1. /\ x \in Rows /\ q \in Nat
            /\ (IF out THEN {ItemRow} ELSE {}) \cup ({x} \ {ItemRow}) \in SUBSET Rows
    BY DEF Rows, Existing, TypeOK
  <2> QED
    BY <2>1, IdleType DEF Session, AllOperations
<1>6. CASE BeginArchive(t)
  <2> SUFFICES ASSUME NEW b \in Existing
               PROVE  [Idle EXCEPT !.op = "archive", !.batch = b, !.pending = {b}, !.scanned = FALSE] \in Session
    BY <1>6, BeginType DEF BeginArchive
  <2>1. b \in Rows /\ {b} \in SUBSET Rows
    BY DEF Rows, Existing, TypeOK
  <2> QED
    BY <2>1, IdleType DEF Session, AllOperations
<1>7. CASE BeginRestore(t)
  <2> SUFFICES ASSUME NEW b \in Existing, NEW q \in 1 .. MaxQuantity
               PROVE  [Idle EXCEPT !.op = "restore", !.batch = b, !.quantity = q,
                        !.pending = {b}] \in Session
    BY <1>7, BeginType DEF BeginRestore
  <2>1. b \in Rows /\ {b} \in SUBSET Rows /\ q \in Nat
    BY DEF Rows, Existing, TypeOK
  <2> QED
    BY <2>1, IdleType DEF Session, AllOperations
<1>8. CASE BeginRelease(t)
  <2> SUFFICES ASSUME NEW r \in Reservations
               PROVE  [Idle EXCEPT !.op = "release", !.reservation = r, !.rows[r] = row[r]] \in Session
    BY <1>8, BeginType DEF BeginRelease
  <2>1. row[r] \in ReservationRow
    BY DEF Rows, Existing, TypeOK
  <2> QED
    BY <2>1, IdleType DEF Session, AllOperations
<1>9. CASE BeginConsumeItem(t)
  <2> SUFFICES ASSUME NEW r \in Reservations, NEW q \in 1 .. MaxQuantity
               PROVE  [Idle EXCEPT !.op = "consumeItem", !.reservation = r, !.quantity = q,
                        !.scanned = FALSE, !.rows[r] = row[r]] \in Session
    BY <1>9, BeginType DEF BeginConsumeItem
  <2>1. q \in Nat /\ row[r] \in ReservationRow
    BY DEF Rows, Existing, TypeOK
  <2> QED
    BY <2>1, IdleType DEF Session, AllOperations
<1>10. CASE BeginConsume(t)
  <2> SUFFICES ASSUME NEW r \in Reservations, NEW q \in 1 .. MaxQuantity, row[r].batch # ItemRow
               PROVE  [Idle EXCEPT !.op = "consume", !.reservation = r, !.quantity = q,
                         !.batch = row[r].batch, !.pending = {row[r].batch}, !.rows[r] = row[r],
                         !.quantities[row[r].batch] = batch[row[r].batch].quantity] \in Session
    BY <1>10, BeginType DEF BeginConsume
  <2>1. /\ q \in Nat /\ row[r] \in ReservationRow
        /\ row[r].batch \in Rows /\ {row[r].batch} \in SUBSET Rows
        /\ row[r].batch \in Batches
    BY DEF Rows, TypeOK, ReservationRow
  <2>2. batch[row[r].batch].quantity \in Nat
    BY <2>1 DEF TypeOK, BatchRow
  <2> HIDE DEF ItemRow
  <2> QED
    BY <2>1, <2>2, IdleType DEF Session, AllOperations
<1> QED
  BY <1>1, <1>2, <1>3, <1>4, <1>5, <1>6, <1>7, <1>8, <1>9, <1>10 DEF Arrive

LEMMA LockType ==
  ASSUME TypeOK, NEW t \in Sessions, LockRow(t) \/ ScanBatches(t) \/ LockReservations(t)
  PROVE  TypeOK'
<1>0. session[t] \in Session
  BY DEF TypeOK
<1> SUFFICES ASSUME NEW s \in Session, session' = [session EXCEPT ![t] = s],
                    UNCHANGED <<tables, requests>>
             PROVE  TypeOK'
  <2>1. ASSUME NEW x \in Rows PROVE Granted(session[t], x) \in Session
    <3> DEFINE seen == IF x \in Batches /\ session[t].op # "consume"
                         THEN [session[t].quantities EXCEPT ![x] = batch[x].quantity]
                         ELSE session[t].quantities
    <3>1. seen \in [Batches -> Nat]
      BY <1>0 DEF Session, TypeOK, BatchRow
    <3>2. Granted(session[t], x) =
            [session[t] EXCEPT !.pending = @ \ {x}, !.held = @ \cup {x}, !.quantities = seen]
      BY <1>0 DEF Granted, Session
    <3> DEFINE rest == session[t].pending \ {x}
               more == session[t].held \cup {x}
    <3>3. rest \in SUBSET Rows /\ more \in SUBSET Rows
      BY <1>0 DEF Session
    <3> HIDE DEF seen, rest, more
    <3>4. [session[t] EXCEPT !.pending = rest, !.held = more, !.quantities = seen] \in Session
      BY <3>1, <3>3, <1>0 DEF Session
    <3> QED
      BY <3>2, <3>4 DEF rest, more
  <2>2. ASSUME NEW dates \in [Batches -> Nat] PROVE Scanned(session[t], dates) \in Session
    <3> DEFINE found == IF session[t].op = "set" THEN Existing
                        ELSE {b \in Batches : batch[b].quantity > 0}
    <3>1. found \in SUBSET Rows
      BY DEF Existing, Rows
    <3>2. Scanned(session[t], dates) =
            [session[t] EXCEPT !.scanned = TRUE, !.dates = dates, !.pending = found]
      BY <1>0 DEF Scanned, Session
    <3> HIDE DEF found
    <3>3. [session[t] EXCEPT !.scanned = TRUE, !.dates = dates, !.pending = found] \in Session
      BY <3>1, <1>0 DEF Session
    <3> QED
      BY <3>2, <3>3
  <2>3. Claiming(session[t]) \in Session
    <3> DEFINE copies == [r \in Reservations |->
                            IF r \in Wanted(session[t]) THEN row[r] ELSE NoRow]
    <3>1. Wanted(session[t]) \in SUBSET Reservations
      BY DEF Wanted
    <3>2. copies \in [Reservations -> ReservationRow]
      BY DEF TypeOK, NoRow, ReservationRow, Status, ActiveStatus, Rows
    <3>3. Claiming(session[t]) =
            [session[t] EXCEPT !.scanned = TRUE, !.claimed = Wanted(session[t]), !.rows = copies]
      BY <1>0 DEF Claiming, Session
    <3> HIDE DEF copies
    <3> QED
      BY <3>1, <3>2, <3>3, <1>0 DEF Session
  <2>4. CASE ScanBatches(t)
    <3>1. PICK dates \in IF session[t].op = "set" THEN {session[t].dates} ELSE [Batches -> Dates] :
            session' = [session EXCEPT ![t] = Scanned(session[t], dates)]
      BY <2>4 DEF ScanBatches
    <3>2. session[t].dates \in [Batches -> Nat] /\ Dates \subseteq Nat
      BY <1>0, MaterialAssumption DEF Session
    <3>3. dates \in [Batches -> Nat]
      BY <3>2
    <3>4. Scanned(session[t], dates) \in Session
      BY <2>2, <3>3
    <3> QED
      BY <2>4, <3>1, <3>4 DEF ScanBatches
  <2> QED
    BY <2>1, <2>3, <2>4 DEF LockRow, LockReservations
<1> QED
  BY DEF TypeOK, tables

\* What the aggregate queries return.
LEMMA TotalsType ==
  ASSUME TypeOK
  PROVE  /\ StockTotal \in Int
         /\ \A b \in Batches : ReservedOn(b) \in Nat
         /\ ReservedTotal \in Nat
<1>1. [b \in Batches |-> batch[b].quantity] \in [Batches -> Nat]
  BY DEF TypeOK, BatchRow
<1>2. \A r \in Reservations : Open(row[r]) \in Nat
  BY DEF TypeOK, ReservationRow, Open, Greatest
<1>3. [r \in Reservations |-> IF Active(row[r]) THEN Open(row[r]) ELSE 0] \in [Reservations -> Nat]
  BY <1>2
<1>4. \A b \in Batches : ClaimsOn(b) \in [Reservations -> Nat]
  BY <1>2 DEF ClaimsOn
<1>5. SumOf([b \in Batches |-> batch[b].quantity]) \in Nat /\ loose \in Int
  BY <1>1, UnitsFinite, MaterialAssumption DEF TypeOK
<1>6. \A b \in Batches : ReservedOn(b) \in Nat
  BY <1>4, UnitsFinite, MaterialAssumption DEF ReservedOn
<1>7. ReservedTotal \in Nat
  BY <1>3, UnitsFinite, MaterialAssumption DEF ReservedTotal
<1> QED
  BY <1>5, <1>6, <1>7 DEF StockTotal

\* Charging and freeing a reservation write a well-formed row.
LEMMA RowType ==
  ASSUME NEW v \in ReservationRow, NEW w \in ReservationRow, NEW n \in Nat
  PROVE  Charged(v, n, w) \in ReservationRow /\ Freed(v, w) \in ReservationRow
<1>1. \A i, j, k \in Nat : StatusFor(i, j, k) \in Status
  BY DEF StatusFor, Status, ActiveStatus
<1>2. \A x, y, z \in Status : Dirty(x, y, z) \in Status
  BY DEF Dirty
<1>3. Open(v) \in Nat /\ v.consumed + n \in Nat /\ v.released + Open(v) \in Nat
  BY DEF Open, Greatest, ReservationRow
<1>4. v.status \in Status /\ w.status \in Status
  BY DEF ReservationRow
<1>5. /\ v.reserved \in Nat /\ v.consumed \in Nat /\ v.released \in Nat /\ w.released \in Nat
  BY DEF ReservationRow
<1>6. \A i \in Nat, st \in Status : [w EXCEPT !.consumed = i, !.status = st] \in ReservationRow
  BY DEF ReservationRow
<1>7. \A i \in Nat, st \in Status : [w EXCEPT !.released = i, !.status = st] \in ReservationRow
  BY DEF ReservationRow
<1>8. Charged(v, n, w) \in ReservationRow
  BY <1>1, <1>2, <1>3, <1>4, <1>5, <1>6 DEF Charged
<1>9. Freed(v, w) \in ReservationRow
  <2>1. (IF Open(v) > 0 THEN v.released + Open(v) ELSE w.released) \in Nat
    BY <1>3, <1>5
  <2>2. Dirty(v.status, StatusFor(v.reserved, v.consumed, v.released + Open(v)), w.status) \in Status
    BY <1>1, <1>2, <1>3, <1>4, <1>5
  <2> QED
    BY <2>1, <2>2, <1>7 DEF Freed
<1> QED
  BY <1>8, <1>9

\* A batch written with a natural balance is well formed.
LEMMA SettledType ==
  ASSUME TypeOK, NEW b \in Batches, NEW n \in Nat
  PROVE  Settled(b, n) \in BatchRow
  BY DEF TypeOK, Settled, BatchRow

\* Taking no more than what the session saw leaves well-formed balances.
LEMMA TakeType ==
  ASSUME TypeOK, NEW S \in SUBSET Batches, NEW take \in [S -> Nat],
         NEW seen \in [Batches -> Nat], \A b \in S : take[b] <= seen[b], TakeFrom(take, seen)
  PROVE  batch' \in [Batches -> BatchRow] /\ ledger' \in [Batches -> Int]
<1>1. \A b \in S : Settled(b, seen[b] - take[b]) \in BatchRow
  <2> SUFFICES ASSUME NEW b \in S PROVE Settled(b, seen[b] - take[b]) \in BatchRow
    OBVIOUS
  <2>1. b \in Batches /\ seen[b] - take[b] \in Nat
    OBVIOUS
  <2> QED
    BY <2>1, SettledType
<1>2. batch' \in [Batches -> BatchRow]
  BY <1>1 DEF TakeFrom, TypeOK
<1>3. ledger' \in [Batches -> Int]
  BY DEF TakeFrom, TypeOK
<1> QED
  BY <1>2, <1>3

\* The part of TypeOK about the database tables.
TablesOK ==
  /\ batch \in [Batches -> BatchRow]
  /\ ledger \in [Batches -> Int]
  /\ loose \in Int
  /\ row \in [Reservations -> ReservationRow]
  /\ drawn \in [Reservations -> Nat]

\* An update of a table is well typed even when its key is not in the table.
LEMMA UpdateType ==
  ASSUME NEW D, NEW T, NEW f \in [D -> T], NEW x, NEW v, x \in D => v \in T
  PROVE  [f EXCEPT ![x] = v] \in [D -> T]
  OBVIOUS

LEMMA CommitType ==
  ASSUME TypeOK, NEW t \in Sessions, Commit(t)
  PROVE  TypeOK'
<1> DEFINE s == session[t]
<1>1. s \in Session
  BY DEF TypeOK
<1>2. SUFFICES TablesOK'
  <2>1. End(t)
    BY DEF Commit, CommitReserve, CommitRelease, CommitConsume, CommitConsumeItem, CommitCut,
       CommitSetLoose, CommitSetUp, CommitSetDown, CommitUpdate, CommitMove, CommitArchive,
       CommitRestore
  <2> QED
    BY <2>1, EndType DEF TypeOK, TablesOK
<1>3. TablesOK
  BY DEF TypeOK, TablesOK
<1>4. /\ s.quantity \in Nat /\ s.batch \in Rows /\ s.reservation \in Reservations \cup {0}
      /\ s.quantities \in [Batches -> Nat] /\ s.rows \in [Reservations -> ReservationRow]
      /\ s.claimed \in SUBSET Reservations /\ s.held \in SUBSET Rows
      /\ s.order \in Orders \cup {0} /\ s.lines \in [Reservations -> [batch: Rows, quantity: Nat]]
  BY <1>1 DEF Session
<1>5. StockTotal \in Int /\ Delta(s) \in Int
  BY <1>4, TotalsType DEF Delta
<1> HIDE DEF s
<1>6. \A r \in Reservations, n \in Nat :
        Charged(s.rows[r], n, row[r]) \in ReservationRow /\ Freed(s.rows[r], row[r]) \in ReservationRow
  BY <1>3, <1>4, RowType DEF TablesOK
<1>7. CASE CommitReserve(t)
  <2>1. \A r \in Reservations :
          [order |-> s.order, batch |-> s.lines[r].batch, reserved |-> s.lines[r].quantity,
           consumed |-> 0, released |-> 0, status |-> "reserved"] \in ReservationRow
    BY <1>4 DEF ReservationRow, Status, ActiveStatus
  <2> QED
    BY <1>3, <1>7, <2>1 DEF CommitReserve, TablesOK, s
<1>8. CASE CommitRelease(t)
  BY <1>3, <1>4, <1>6, <1>8 DEF CommitRelease, TablesOK, s
<1>9. ASSUME Charge(t)
      PROVE  row' \in [Reservations -> ReservationRow] /\ drawn' \in [Reservations -> Nat]
  <2>1. s.reservation \in Reservations => drawn[s.reservation] + s.quantity \in Nat
    BY <1>3, <1>4 DEF TablesOK
  <2>2. drawn' \in [Reservations -> Nat]
    BY <1>3, <1>9, <2>1, UpdateType DEF Charge, TablesOK, s
  <2>3. row' \in [Reservations -> ReservationRow]
    BY <1>3, <1>4, <1>6, <1>9, UpdateType DEF Charge, TablesOK, s
  <2> QED
    BY <2>2, <2>3
<1>10. ASSUME NEW n \in Nat
       PROVE  [batch EXCEPT ![s.batch] = Settled(s.batch, n)] \in [Batches -> BatchRow]
  BY <1>3, SettledType DEF TablesOK
<1>11. ASSUME NEW n \in Int
       PROVE  [ledger EXCEPT ![s.batch] = @ + n] \in [Batches -> Int]
  <2>1. s.batch \in Batches => ledger[s.batch] + n \in Int
    BY <1>3 DEF TablesOK
  <2> QED
    BY <1>3, <2>1, UpdateType DEF TablesOK
<1>12. s.batch \in Batches => s.quantities[s.batch] \in Nat
  BY <1>4
<1>13. CASE CommitConsume(t)
  <2>1. Charge(t)
    BY <1>13 DEF CommitConsume
  <2>2. s.quantity <= s.quantities[s.batch] /\ s.op = "consume"
    BY <1>13 DEF CommitConsume, Accepted, Ready, May, s
  <2>3. /\ batch' = [batch EXCEPT ![s.batch] = Settled(s.batch, s.quantities[s.batch] - s.quantity)]
        /\ ledger' = [ledger EXCEPT ![s.batch] = @ - s.quantity]
        /\ loose' = loose
    BY <1>13 DEF CommitConsume, s
  <2>4. CASE s.batch \in Batches
    <3>1. s.quantities[s.batch] - s.quantity \in Nat
      BY <1>4, <1>12, <2>2, <2>4
    <3> QED
      BY <1>3, <1>4, <1>9, <1>10, <2>1, <2>3, <3>1 DEF TablesOK
  <2>5. CASE s.batch \notin Batches
    BY <1>3, <1>9, <2>1, <2>3, <2>5 DEF TablesOK
  <2> QED
    BY <2>4, <2>5
<1>14. ASSUME NEW q \in Nat, NEW up \in BOOLEAN, NEW S \in SUBSET (s.held \cap Batches),
              NEW take \in Drains([b \in S |-> s.quantities[b]], q, up),
              TakeFrom(take, s.quantities)
       PROVE  batch' \in [Batches -> BatchRow] /\ ledger' \in [Batches -> Int]
  <2>1. take \in [S -> Nat] /\ \A b \in S : take[b] <= s.quantities[b]
    BY <1>14 DEF Drains
  <2> QED
    BY <1>4, <1>14, <2>1, TakeType
<1>15. CASE CommitConsumeItem(t)
  <2>1. Charge(t) /\ loose' = loose
    BY <1>15 DEF CommitConsumeItem
  <2>2. PICK take \in Drains(Offered(s), s.quantity, TRUE) : TakeFrom(take, s.quantities)
    BY <1>15 DEF CommitConsumeItem, s
  <2>3. batch' \in [Batches -> BatchRow] /\ ledger' \in [Batches -> Int]
    BY <1>4, <1>14, <2>2 DEF Offered
  <2> QED
    BY <1>3, <1>9, <2>1, <2>3 DEF TablesOK
<1>16. CASE CommitCut(t)
  <2>1. s.quantity <= s.quantities[s.batch] /\ s.op = "cut"
    BY <1>16 DEF CommitCut, Accepted, Ready, May, MayCut, s
  <2>2. PICK take \in Drains(Claimed(s), s.quantity, TRUE) :
          /\ row' = [r \in Reservations |->
               IF r \in s.claimed /\ take[r] > 0 THEN Charged(s.rows[r], take[r], row[r]) ELSE row[r]]
          /\ drawn' = [r \in Reservations |->
               IF r \in s.claimed THEN drawn[r] + take[r] ELSE drawn[r]]
    BY <1>16 DEF CommitCut, s
  <2>3. \A r \in s.claimed : take[r] \in Nat
    BY <1>4 DEF Drains, Claimed
  <2>4. row' \in [Reservations -> ReservationRow] /\ drawn' \in [Reservations -> Nat]
    BY <1>3, <1>4, <1>6, <2>2, <2>3 DEF TablesOK
  <2>5. /\ batch' = [batch EXCEPT ![s.batch] = Settled(s.batch, s.quantities[s.batch] - s.quantity)]
        /\ ledger' = [ledger EXCEPT ![s.batch] = @ - s.quantity]
        /\ loose' = loose
    BY <1>16 DEF CommitCut, s
  <2>6. batch' \in [Batches -> BatchRow] /\ ledger' \in [Batches -> Int]
    <3>1. CASE s.batch \in Batches
      <4>1. s.quantities[s.batch] - s.quantity \in Nat
        BY <1>4, <1>12, <2>1, <3>1
      <4> QED
        BY <1>3, <1>4, <1>10, <2>5, <4>1 DEF TablesOK
    <3>2. CASE s.batch \notin Batches
      BY <1>3, <2>5, <3>2 DEF TablesOK
    <3> QED
      BY <3>1, <3>2
  <2> QED
    BY <1>3, <2>4, <2>5, <2>6 DEF TablesOK
<1>17. CASE CommitSetLoose(t)
  BY <1>3, <1>5, <1>17 DEF CommitSetLoose, TablesOK, s
<1>18. CASE CommitSetUp(t)
  <2>1. Delta(s) > 0 /\ UNCHANGED <<loose, row, drawn>>
    BY <1>18 DEF CommitSetUp, s
  <2>2. PICK b \in Batches :
          /\ batch' = [batch EXCEPT ![b] = [quantity |-> s.quantities[b] + Delta(s), state |-> "active"]]
          /\ ledger' = [ledger EXCEPT ![b] = @ + Delta(s)]
    BY <1>18 DEF CommitSetUp, s
  <2>3. [quantity |-> s.quantities[b] + Delta(s), state |-> "active"] \in BatchRow
    BY <1>4, <1>5, <2>1 DEF BatchRow
  <2> QED
    BY <1>3, <1>5, <2>1, <2>2, <2>3 DEF TablesOK
<1>19. CASE CommitSetDown(t)
  <2>1. Delta(s) <= 0 /\ UNCHANGED <<loose, row, drawn>>
    BY <1>19 DEF CommitSetDown, s
  <2>2. PICK take \in Drains(Cuttable(s), -Delta(s), FALSE) : TakeFrom(take, s.quantities)
    BY <1>19 DEF CommitSetDown, s
  <2>3. -Delta(s) \in Nat /\ Adjustable(s) \in SUBSET (s.held \cap Batches)
    BY <1>5, <2>1 DEF Adjustable
  <2>4. batch' \in [Batches -> BatchRow] /\ ledger' \in [Batches -> Int]
    BY <1>14, <2>2, <2>3 DEF Cuttable
  <2> QED
    BY <1>3, <2>1, <2>4 DEF TablesOK
<1>20. CASE CommitUpdate(t)
  <2>1. /\ batch' = [batch EXCEPT ![s.batch] = Settled(s.batch, s.quantity)]
        /\ ledger' = [ledger EXCEPT ![s.batch] = @ + s.quantity - s.quantities[s.batch]]
        /\ UNCHANGED <<loose, row, drawn>>
    BY <1>20 DEF CommitUpdate, s
  <2>2. ledger' \in [Batches -> Int]
    <3>1. s.batch \in Batches => ledger[s.batch] + s.quantity - s.quantities[s.batch] \in Int
      BY <1>3, <1>4, <1>12 DEF TablesOK
    <3> QED
      BY <1>3, <2>1, <3>1, UpdateType DEF TablesOK
  <2> QED
    BY <1>3, <1>4, <1>10, <2>1, <2>2 DEF TablesOK
<1>21. CASE CommitMove(t)
  <2> DEFINE n == IF s.flag THEN -s.quantity ELSE s.quantity
  <2>1. UNCHANGED <<row, drawn>> /\ May(s) /\ s.op = "move"
    BY <1>21 DEF CommitMove, Accepted, Ready, s
  <2>2. n \in Int
    BY <1>4
  <2>3. CASE s.batch = ItemRow
    <3>1. loose' = loose + n /\ UNCHANGED <<batch, ledger>>
      BY <1>21, <2>3 DEF CommitMove, s
    <3> QED
      BY <1>3, <2>1, <2>2, <3>1 DEF TablesOK
  <2>4. CASE s.batch # ItemRow
    <3>1. /\ batch' = [batch EXCEPT ![s.batch] = Settled(s.batch, s.quantities[s.batch] + n)]
          /\ ledger' = [ledger EXCEPT ![s.batch] = @ + n]
          /\ loose' = loose
      BY <1>21, <2>4 DEF CommitMove, s
    <3>2. s.batch \in Batches /\ s.quantities[s.batch] \in Nat
      BY <1>4, <2>4 DEF Rows
    <3>3. s.flag => s.quantity <= s.quantities[s.batch]
      <4>1. s.flag => s.quantity <= s.quantities[s.batch] - ReservedOn(s.batch)
        BY <2>1, <2>4 DEF May, MayMove
      <4> QED
        BY <3>2, <4>1, <1>4, TotalsType
    <3>4. s.quantities[s.batch] + n \in Nat
      BY <1>4, <3>2, <3>3
    <3> QED
      BY <1>3, <1>10, <1>11, <2>1, <2>2, <3>1, <3>4 DEF TablesOK
  <2> QED
    BY <2>3, <2>4
<1>22. CASE CommitArchive(t)
  <2>1. /\ row' = [r \in Reservations |->
               IF r \in s.claimed THEN Freed(s.rows[r], row[r]) ELSE row[r]]
        /\ batch' = [batch EXCEPT ![s.batch] = Settled(s.batch, 0)]
        /\ ledger' = [ledger EXCEPT ![s.batch] = @ - s.quantities[s.batch]]
        /\ UNCHANGED <<loose, drawn>>
    BY <1>22 DEF CommitArchive, s
  <2>2. ledger' \in [Batches -> Int]
    <3>1. s.batch \in Batches => ledger[s.batch] - s.quantities[s.batch] \in Int
      BY <1>3, <1>12 DEF TablesOK
    <3> QED
      BY <1>3, <2>1, <3>1, UpdateType DEF TablesOK
  <2>3. row' \in [Reservations -> ReservationRow]
    BY <1>3, <1>6, <2>1 DEF TablesOK
  <2> QED
    BY <1>3, <1>10, <2>1, <2>2, <2>3 DEF TablesOK
<1>23. CASE CommitRestore(t)
  <2>1. /\ batch' = [batch EXCEPT ![s.batch] = [quantity |-> s.quantity, state |-> "active"]]
        /\ ledger' = [ledger EXCEPT ![s.batch] = @ + s.quantity]
        /\ UNCHANGED <<loose, row, drawn>>
    BY <1>23 DEF CommitRestore, s
  <2>2. [quantity |-> s.quantity, state |-> "active"] \in BatchRow
    BY <1>4 DEF BatchRow
  <2> QED
    BY <1>3, <1>4, <1>11, <2>1, <2>2 DEF TablesOK
<1> QED
  BY <1>7, <1>8, <1>13, <1>15, <1>16, <1>17, <1>18, <1>19, <1>20, <1>21, <1>22, <1>23 DEF Commit

LEMMA ReceiveType ==
  ASSUME TypeOK, Receive
  PROVE  TypeOK'
<1>1. PICK b \in Batches \ Existing, q \in 1 .. MaxQuantity :
        /\ batch' = [batch EXCEPT ![b] = [quantity |-> q, state |-> "active"]]
        /\ ledger' = [ledger EXCEPT ![b] = @ + q]
  BY DEF Receive
<1>2. q \in Nat
  BY MaterialAssumption
<1>3. requests' \in 0 .. MaxRequests
  BY MaterialAssumption DEF Receive, TypeOK
<1> QED
  BY <1>1, <1>2, <1>3 DEF Receive, TypeOK, BatchRow

LEMMA InitType == Init => TypeOK
<1> SUFFICES ASSUME Init PROVE TypeOK
  OBVIOUS
<1>1. batch \in [Batches -> BatchRow]
  BY MaterialAssumption DEF Init, BatchRow
<1>2. drawn \in [Reservations -> Nat] /\ row \in [Reservations -> ReservationRow]
  BY MaterialAssumption DEF Init, ReservationRow
<1> QED
  BY <1>1, <1>2, MaterialAssumption, IdleType DEF Init, TypeOK

LEMMA NextType == TypeOK /\ [Next]_vars => TypeOK'
<1> SUFFICES ASSUME TypeOK, [Next]_vars PROVE TypeOK'
  OBVIOUS
<1>1. CASE Receive
  BY <1>1, ReceiveType
<1>2. ASSUME NEW t \in Sessions, Arrive(t) PROVE TypeOK'
  BY <1>2, ArriveType
<1>3. ASSUME NEW t \in Sessions, LockRow(t) \/ ScanBatches(t) \/ LockReservations(t)
      PROVE  TypeOK'
  BY <1>3, LockType
<1>4. ASSUME NEW t \in Sessions, Commit(t) PROVE TypeOK'
  BY <1>4, CommitType
<1>5. ASSUME NEW t \in Sessions, End(t), UNCHANGED tables PROVE TypeOK'
  BY <1>5, EndType DEF TypeOK, tables
<1>6. CASE UNCHANGED vars
  BY <1>6 DEF vars, TypeOK
<1> QED
  BY <1>1, <1>2, <1>3, <1>4, <1>5, <1>6 DEF Next, Advance, Reject, AbortVictim, Crash

\* Whatever the requests and their interleaving, every column of the tables and
\* every field of a session keeps a value of its type: no balance goes negative.
THEOREM TypesHold == Spec => []TypeOK
  BY InitType, NextType, PTL DEF Spec

-----------------------------------------------------------------------------
(***************************************************************************)
(* The ledger.  LedgerBalanced is not inductive: a commit writes the       *)
(* balance the session saw, so it has to be shown that what it saw is what *)
(* is stored.  That holds because a balance is read after its row is       *)
(* locked, only the holder of a lock writes the row, and a row has one     *)
(* holder.                                                                 *)
(***************************************************************************)

\* A row is locked by one session at a time.
Exclusive ==
  \A t, u \in Sessions : t # u => session[t].held \cap session[u].held = {}

\* The copy of a locked balance is current, and there are no other copies.
Seen ==
  \A t \in Sessions, b \in Batches :
    session[t].quantities[b] = IF b \in session[t].held THEN batch[b].quantity ELSE 0

\* Only rows that exist are locked.
LockedExist ==
  \A t \in Sessions : session[t].held \cup session[t].pending \subseteq Existing \cup {ItemRow}

\* A request about one batch has locked it, or will before it commits.
TargetLocked ==
  \A t \in Sessions :
    /\ session[t].op # "consume"
    /\ session[t].op \in {"cut", "update", "move", "archive", "restore"} =>
         session[t].batch \in session[t].held \cup session[t].pending \cup {ItemRow}

AbsentEmpty == \A b \in Batches : batch[b].state = "absent" => batch[b].quantity = 0

LedgerInvariant ==
  TypeOK /\ Exclusive /\ Seen /\ LockedExist /\ TargetLocked /\ AbsentEmpty /\ LedgerBalanced

\* The rows that change are new or locked by T's sessions, remain in existence,
\* and hold what their ledger says.
Posted(T) ==
  \A b \in Batches :
    /\ batch'[b] # batch[b] => b \notin Existing \/ \E t \in T : b \in session[t].held
    /\ batch'[b].state = "absent" => batch[b].state = "absent" /\ batch'[b].quantity = 0
    /\ batch'[b].quantity = ledger'[b]

LEMMA LedgerInit ==
  ASSUME "consume" \notin Operations, Init
  PROVE  LedgerInvariant
<1>1. TypeOK
  BY InitType
<1>2. \A t \in Sessions : session[t] = Idle
  BY DEF Init
<1>3. \A b \in Batches : StartQuantity[b] \in Nat
  BY MaterialAssumption
<1>4. AbsentEmpty /\ LedgerBalanced
  BY <1>3 DEF Init, AbsentEmpty, LedgerBalanced
<1>5. /\ Idle.op = "idle" /\ Idle.held = {} /\ Idle.pending = {}
      /\ \A b \in Batches : Idle.quantities[b] = 0
  BY DEF Idle
<1>6. Exclusive /\ Seen /\ LockedExist /\ TargetLocked
  BY <1>2, <1>5 DEF Exclusive, Seen, LockedExist, TargetLocked
<1> QED
  BY <1>1, <1>4, <1>6 DEF LedgerInvariant

\* A session may leave, and rows be written meanwhile, as Posted says.
LEMMA PostedKeeps ==
  ASSUME LedgerInvariant, TypeOK', NEW T \in SUBSET Sessions, Posted(T),
         session' = [u \in Sessions |-> IF u \in T THEN Idle ELSE session[u]]
  PROVE  LedgerInvariant'
<1> USE DEF LedgerInvariant
<1>1. /\ Idle.op = "idle" /\ Idle.held = {} /\ Idle.pending = {}
      /\ \A b \in Batches : Idle.quantities[b] = 0
  BY DEF Idle
<1>2. Exclusive'
  BY <1>1 DEF Exclusive
<1>3. \A b \in Batches : b \in Existing => b \in Existing'
  BY DEF Existing, Posted
<1>4. LockedExist'
  BY <1>1, <1>3 DEF LockedExist, Existing
<1>5. TargetLocked'
  BY <1>1 DEF TargetLocked
<1>6. Seen'
  <2> SUFFICES ASSUME NEW u \in Sessions, NEW b \in Batches
               PROVE  session'[u].quantities[b] = IF b \in session'[u].held THEN batch'[b].quantity ELSE 0
    BY DEF Seen
  <2>1. CASE u \in T
    BY <1>1, <2>1
  <2>2. CASE u \notin T
    <3>1. session'[u] = session[u]
      BY <2>2
    <3>2. session[u].quantities[b] = IF b \in session[u].held THEN batch[b].quantity ELSE 0
      BY DEF Seen
    <3>3. ASSUME b \in session[u].held PROVE batch'[b] = batch[b]
      <4>1. b \in Existing
        BY <3>3, MaterialAssumption DEF LockedExist
      <4>2. \A t \in T : b \notin session[t].held
        BY <2>2, <3>3 DEF Exclusive
      <4> QED
        BY <4>1, <4>2 DEF Posted
    <3> QED
      BY <3>1, <3>2, <3>3
  <2> QED
    BY <2>1, <2>2
<1>7. AbsentEmpty' /\ LedgerBalanced'
  BY DEF Posted, AbsentEmpty, LedgerBalanced
<1> QED
  BY <1>2, <1>4, <1>5, <1>6, <1>7

\* A request enters without locks or copies.
LEMMA BeginKeeps ==
  ASSUME LedgerInvariant, TypeOK', "consume" \notin Operations, NEW t \in Sessions, NEW s,
         Begin(t, s), s.held = {}, \A b \in Batches : s.quantities[b] = 0,
         s.pending \subseteq Existing \cup {ItemRow},
         s.op \in {"cut", "update", "move", "archive", "restore"} =>
           s.batch \in s.pending \cup {ItemRow}
  PROVE  LedgerInvariant'
<1> USE DEF LedgerInvariant
<1>1. /\ session' = [session EXCEPT ![t] = s] /\ batch' = batch /\ ledger' = ledger
      /\ s.op # "consume"
  BY DEF Begin, tables
<1>2. session \in [Sessions -> Session]
  BY DEF TypeOK
<1>3. Exclusive' /\ Seen'
  BY <1>1, <1>2 DEF Exclusive, Seen
<1>4. Existing' = Existing
  BY <1>1 DEF Existing
<1>5. LockedExist' /\ TargetLocked'
  BY <1>1, <1>2, <1>4 DEF LockedExist, TargetLocked
<1>6. AbsentEmpty' /\ LedgerBalanced'
  BY <1>1 DEF AbsentEmpty, LedgerBalanced
<1> QED
  BY <1>3, <1>5, <1>6

\* What BeginKeeps asks of the record of an arriving request.
Unlocked(s) ==
  /\ s.held = {} /\ \A b \in Batches : s.quantities[b] = 0
  /\ s.pending \subseteq Existing \cup {ItemRow}
  /\ s.op \in {"cut", "update", "move", "archive", "restore"} => s.batch \in s.pending \cup {ItemRow}

LEMMA ArriveKeeps ==
  ASSUME LedgerInvariant, TypeOK', "consume" \notin Operations, NEW t \in Sessions, Arrive(t)
  PROVE  LedgerInvariant'
<1>1. \A s : Begin(t, s) /\ Unlocked(s) => LedgerInvariant'
  BY BeginKeeps DEF Unlocked
<1>2. CASE BeginReserve(t)
  <2> SUFFICES ASSUME NEW ids \in SUBSET Unnumbered, NEW p \in Orders,
                      NEW place \in [ids -> Existing \cup {ItemRow}],
                      NEW want \in [ids -> 1 .. MaxQuantity]
               PROVE  Unlocked(ReserveRequest(p, ids, place, want))
    BY <1>1, <1>2 DEF BeginReserve
  <2> QED
    BY DEF Unlocked, Idle, ReserveRequest
<1>3. CASE BeginRelease(t)
  <2> SUFFICES ASSUME NEW r \in Reservations
               PROVE  Unlocked([Idle EXCEPT !.op = "release", !.reservation = r, !.rows[r] = row[r]])
    BY <1>1, <1>3 DEF BeginRelease
  <2> QED
    BY DEF Unlocked, Idle
<1>4. CASE BeginConsumeItem(t)
  <2> SUFFICES ASSUME NEW r \in Reservations, NEW q \in 1 .. MaxQuantity
               PROVE  Unlocked([Idle EXCEPT !.op = "consumeItem", !.reservation = r, !.quantity = q,
                                 !.scanned = FALSE, !.rows[r] = row[r]])
    BY <1>1, <1>4 DEF BeginConsumeItem
  <2> QED
    BY DEF Unlocked, Idle
<1>5. CASE BeginCut(t)
  <2> SUFFICES ASSUME NEW b \in Existing, NEW p \in Orders, NEW q \in 1 .. MaxQuantity
               PROVE  Unlocked([Idle EXCEPT !.op = "cut", !.batch = b, !.order = p, !.quantity = q,
                                 !.pending = {b}, !.scanned = FALSE])
    BY <1>1, <1>5 DEF BeginCut
  <2> QED
    BY DEF Unlocked, Idle
<1>6. CASE BeginSet(t)
  <2> SUFFICES ASSUME NEW target \in 0 .. MaxQuantity, NEW force \in BOOLEAN
               PROVE  Unlocked([Idle EXCEPT !.op = "set", !.quantity = target, !.flag = force,
                                 !.pending = {ItemRow}, !.scanned = FALSE])
    BY <1>1, <1>6 DEF BeginSet
  <2> QED
    BY DEF Unlocked, Idle
<1>7. CASE BeginUpdate(t)
  <2> SUFFICES ASSUME NEW b \in Existing, NEW target \in 0 .. MaxQuantity
               PROVE  Unlocked([Idle EXCEPT !.op = "update", !.batch = b, !.quantity = target, !.pending = {b}])
    BY <1>1, <1>7 DEF BeginUpdate
  <2> QED
    BY DEF Unlocked, Idle
<1>8. CASE BeginMove(t)
  <2> SUFFICES ASSUME NEW x \in Existing \cup {ItemRow}, NEW q \in 1 .. MaxQuantity, NEW out \in BOOLEAN
               PROVE  Unlocked([Idle EXCEPT !.op = "move", !.batch = x, !.quantity = q, !.flag = out,
                                 !.pending = (IF out THEN {ItemRow} ELSE {}) \cup ({x} \ {ItemRow})])
    BY <1>1, <1>8 DEF BeginMove
  <2> QED
    BY DEF Unlocked, Idle
<1>9. CASE BeginArchive(t)
  <2> SUFFICES ASSUME NEW b \in Existing
               PROVE  Unlocked([Idle EXCEPT !.op = "archive", !.batch = b, !.pending = {b}, !.scanned = FALSE])
    BY <1>1, <1>9 DEF BeginArchive
  <2> QED
    BY DEF Unlocked, Idle
<1>10. CASE BeginRestore(t)
  <2> SUFFICES ASSUME NEW b \in Existing, NEW q \in 1 .. MaxQuantity
               PROVE  Unlocked([Idle EXCEPT !.op = "restore", !.batch = b, !.quantity = q, !.pending = {b}])
    BY <1>1, <1>10 DEF BeginRestore
  <2> QED
    BY DEF Unlocked, Idle
<1>11. CASE BeginConsume(t)
  BY <1>11 DEF BeginConsume, Begin, Idle
<1> QED
  BY <1>2, <1>3, <1>4, <1>5, <1>6, <1>7, <1>8, <1>9, <1>10, <1>11 DEF Arrive

LEMMA LockKeeps ==
  ASSUME LedgerInvariant, TypeOK', NEW t \in Sessions,
         LockRow(t) \/ ScanBatches(t) \/ LockReservations(t)
  PROVE  LedgerInvariant'
<1> USE DEF LedgerInvariant
<1>1. /\ batch' = batch /\ ledger' = ledger
  BY DEF LockRow, ScanBatches, LockReservations, tables
<1>2. AbsentEmpty' /\ LedgerBalanced' /\ Existing' = Existing
  BY <1>1 DEF AbsentEmpty, LedgerBalanced, Existing
<1>3. session \in [Sessions -> Session] /\ session[t] \in Session
  BY DEF TypeOK
<1>4. CASE LockRow(t)
  <2>1. PICK x \in Rows : NextRow(t, x) /\ Unblocked(t) /\ session' = [session EXCEPT ![t] = Granted(@, x)]
    BY <1>4 DEF LockRow
  <2>2. /\ x \in session[t].pending /\ x \in Existing \cup {ItemRow}
        /\ \A u \in Sessions : u # t => x \notin session[u].held
    BY <2>1 DEF NextRow, Unblocked, BlockedBy, LockedExist
  <2>3. /\ Granted(session[t], x).held = session[t].held \cup {x}
        /\ Granted(session[t], x).pending = session[t].pending \ {x}
        /\ Granted(session[t], x).op = session[t].op
        /\ Granted(session[t], x).batch = session[t].batch
    BY <1>3 DEF Granted, Session
  <2>4. \A b \in Batches : Granted(session[t], x).quantities[b] =
          IF b = x THEN batch[b].quantity ELSE session[t].quantities[b]
    <3>1. session[t].op # "consume" /\ session[t].quantities \in [Batches -> Nat]
      BY <1>3 DEF TargetLocked, Session
    <3>2. Granted(session[t], x).quantities =
            IF x \in Batches THEN [session[t].quantities EXCEPT ![x] = batch[x].quantity]
            ELSE session[t].quantities
      BY <1>3, <3>1 DEF Granted, Session
    <3> QED
      BY <3>1, <3>2
  <2>5. \A u \in Sessions : session'[u] = IF u = t THEN Granted(session[t], x) ELSE session[u]
    BY <1>3, <2>1
  <2>6. Exclusive'
    BY <2>2, <2>3, <2>5 DEF Exclusive
  <2>7. Seen'
    <3> SUFFICES ASSUME NEW u \in Sessions, NEW b \in Batches
                 PROVE  session'[u].quantities[b] =
                          IF b \in session'[u].held THEN batch[b].quantity ELSE 0
      BY <1>1 DEF Seen
    <3>1. session[u].quantities[b] = IF b \in session[u].held THEN batch[b].quantity ELSE 0
      BY DEF Seen
    <3> QED
      BY <2>3, <2>4, <2>5, <3>1
  <2>8. LockedExist'
    BY <1>2, <2>2, <2>3, <2>5 DEF LockedExist
  <2>9. TargetLocked'
    BY <2>3, <2>5 DEF TargetLocked
  <2> QED
    BY <1>2, <2>6, <2>7, <2>8, <2>9
<1>5. ASSUME NEW s \in Session, session' = [session EXCEPT ![t] = s],
             s.op = session[t].op, s.op \in {"set", "consumeItem", "cut", "archive"}, s.batch = session[t].batch,
             s.held = session[t].held, s.quantities = session[t].quantities,
             session[t].pending = {}, s.pending \subseteq Existing
      PROVE  LedgerInvariant'
  <2>1. \A u \in Sessions : session'[u] = IF u = t THEN s ELSE session[u]
    BY <1>3, <1>5
  <2>2. Exclusive'
    BY <1>5, <2>1 DEF Exclusive
  <2>3. Seen'
    BY <1>1, <1>5, <2>1 DEF Seen
  <2>4. LockedExist'
    BY <1>2, <1>5, <2>1 DEF LockedExist
  <2>5. TargetLocked'
    BY <1>5, <2>1 DEF TargetLocked
  <2> QED
    BY <1>2, <2>2, <2>3, <2>4, <2>5
<1>6. session'[t] \in Session
  BY DEF TypeOK
<1>7. CASE ScanBatches(t)
  <2>0. PICK dates : session' = [session EXCEPT ![t] = Scanned(session[t], dates)]
    BY <1>7 DEF ScanBatches
  <2>1. /\ session' = [session EXCEPT ![t] = Scanned(session[t], dates)]
        /\ Scanned(session[t], dates) \in Session
    BY <1>3, <1>6, <2>0
  <2>2. {b \in Batches : batch[b].quantity > 0} \subseteq Existing
    BY DEF Existing, AbsentEmpty
  <2>3. /\ Scanned(session[t], dates).op = session[t].op
        /\ Scanned(session[t], dates).batch = session[t].batch
        /\ Scanned(session[t], dates).held = session[t].held
        /\ Scanned(session[t], dates).quantities = session[t].quantities
        /\ Scanned(session[t], dates).pending \subseteq Existing
    BY <1>3, <2>2 DEF Scanned, Session
  <2> QED
    BY <1>5, <1>7, <2>1, <2>3 DEF ScanBatches
<1>8. CASE LockReservations(t)
  <2>1. session' = [session EXCEPT ![t] = Claiming(session[t])] /\ Claiming(session[t]) \in Session
    BY <1>3, <1>6, <1>8 DEF LockReservations
  <2>2. /\ Claiming(session[t]).op = session[t].op /\ Claiming(session[t]).batch = session[t].batch
        /\ Claiming(session[t]).held = session[t].held
        /\ Claiming(session[t]).quantities = session[t].quantities
        /\ Claiming(session[t]).pending = session[t].pending
    BY <1>3 DEF Claiming, Session
  <2> QED
    BY <1>5, <1>8, <2>1, <2>2 DEF LockReservations
<1> QED
  BY <1>4, <1>7, <1>8

\* A session that ends writes what Posted says, by itself.
LEMMA EndKeeps ==
  ASSUME LedgerInvariant, TypeOK', NEW t \in Sessions, End(t), Posted({t})
  PROVE  LedgerInvariant'
<1>1. session' = [u \in Sessions |-> IF u \in {t} THEN Idle ELSE session[u]]
  BY DEF End, LedgerInvariant, TypeOK
<1> QED
  BY <1>1, PostedKeeps

\* What is left alone is still as the ledger says.
LEMMA UnchangedPosted ==
  ASSUME LedgerInvariant, NEW T, batch' = batch, ledger' = ledger
  PROVE  Posted(T)
  BY DEF LedgerInvariant, Posted, AbsentEmpty, LedgerBalanced

\* A change of one locked or new batch, posted to its ledger.
LEMMA OnePosted ==
  ASSUME LedgerInvariant, NEW t \in Sessions, NEW b \in Batches, NEW w \in BatchRow, NEW m \in Int,
         b \in session[t].held \/ b \notin Existing, w.state # "absent",
         m = ledger[b] + w.quantity - session[t].quantities[b],
         batch' = [batch EXCEPT ![b] = w], ledger' = [ledger EXCEPT ![b] = m]
  PROVE  Posted({t})
<1> USE DEF LedgerInvariant
<1>1. session[t].quantities[b] = batch[b].quantity /\ batch[b].quantity \in Nat
  BY MaterialAssumption DEF Seen, AbsentEmpty, Existing, LockedExist, TypeOK, BatchRow
<1>2. batch[b].quantity = ledger[b] /\ ledger[b] \in Int /\ w.quantity \in Nat
  BY DEF LedgerBalanced, TypeOK, BatchRow
<1>3. batch'[b] = w /\ ledger'[b] = w.quantity
  BY <1>1, <1>2 DEF TypeOK
<1>4. \A c \in Batches \ {b} : batch'[c] = batch[c] /\ ledger'[c] = ledger[c]
  BY DEF TypeOK
<1> QED
  BY <1>1, <1>3, <1>4 DEF Posted, AbsentEmpty, LedgerBalanced

\* Taking from locked batches what the session saw in them.
LEMMA TakePosted ==
  ASSUME LedgerInvariant, NEW t \in Sessions, NEW S \in SUBSET (session[t].held \cap Batches),
         NEW take \in [S -> Nat], TakeFrom(take, session[t].quantities)
  PROVE  Posted({t})
<1> USE DEF LedgerInvariant
<1> SUFFICES ASSUME NEW b \in Batches
             PROVE  /\ batch'[b] # batch[b] => b \notin Existing \/ b \in session[t].held
                    /\ batch'[b].state = "absent" => batch[b].state = "absent" /\ batch'[b].quantity = 0
                    /\ batch'[b].quantity = ledger'[b]
  BY DEF Posted
<1>1. batch[b].quantity = ledger[b] /\ batch[b].quantity \in Nat
  BY DEF LedgerBalanced, TypeOK, BatchRow
<1>2. batch[b].state = "absent" => batch[b].quantity = 0
  BY DEF AbsentEmpty
<1>3. CASE b \in S /\ take[b] > 0
  <2>1. b \in session[t].held /\ b \in Existing /\ session[t].quantities[b] = batch[b].quantity
    BY <1>3, MaterialAssumption DEF LockedExist, Seen
  <2>2. /\ batch'[b] = Settled(b, batch[b].quantity - take[b])
        /\ ledger'[b] = batch[b].quantity - take[b]
    BY <1>1, <1>3, <2>1 DEF TakeFrom
  <2> QED
    BY <2>1, <2>2 DEF Settled, Existing
<1>4. CASE ~(b \in S /\ take[b] > 0)
  <2>1. batch'[b] = batch[b]
    BY <1>4 DEF TakeFrom
  <2>2. ledger'[b] = ledger[b]
    BY <1>1, <1>4 DEF TakeFrom
  <2> QED
    BY <1>1, <1>2, <2>1, <2>2
<1> QED
  BY <1>3, <1>4

LEMMA CommitKeeps ==
  ASSUME LedgerInvariant, TypeOK', NEW t \in Sessions, Commit(t)
  PROVE  LedgerInvariant'
<1> USE DEF LedgerInvariant
<1> DEFINE s == session[t]
<1>1. End(t)
  BY DEF Commit, CommitReserve, CommitRelease, CommitConsume, CommitConsumeItem, CommitCut,
     CommitSetLoose, CommitSetUp, CommitSetDown, CommitUpdate, CommitMove, CommitArchive,
     CommitRestore
<1>2. SUFFICES Posted({t})
  BY <1>1, EndKeeps
<1>3. /\ s \in Session /\ s.quantity \in Nat /\ s.quantities \in [Batches -> Nat]
      /\ s.batch \in Rows /\ s.held \in SUBSET Rows
  BY DEF TypeOK, Session
<1>4. ledger \in [Batches -> Int] /\ batch' \in [Batches -> BatchRow] /\ ledger' \in [Batches -> Int]
  BY DEF TypeOK
<1>5. Delta(s) \in Int
  BY <1>3, TotalsType DEF Delta
<1>6. s.op \in {"cut", "update", "move", "archive", "restore"} /\ s.pending = {} =>
        s.batch = ItemRow \/ (s.batch \in Batches /\ s.batch \in s.held /\ batch[s.batch].state # "absent")
  BY <1>3, MaterialAssumption DEF TargetLocked, LockedExist, Existing, Rows
<1> HIDE DEF s
<1>7. ASSUME NEW n, s.batch \in Batches, s.batch \in s.held, batch[s.batch].state # "absent",
             batch' = [batch EXCEPT ![s.batch] = Settled(s.batch, n)],
             ledger' = [ledger EXCEPT ![s.batch] = ledger[s.batch] + n - s.quantities[s.batch]]
      PROVE  Posted({t})
  <2>1. batch'[s.batch] = Settled(s.batch, n) /\ Settled(s.batch, n) \in BatchRow
    BY <1>4, <1>7 DEF TypeOK
  <2>2. Settled(s.batch, n).quantity = n /\ Settled(s.batch, n).state # "absent" /\ n \in Nat
    BY <1>7, <2>1 DEF Settled, BatchRow
  <2>3. ledger[s.batch] + n - s.quantities[s.batch] \in Int
    BY <1>3, <1>4, <1>7, <2>2
  <2> QED
    BY <1>7, <2>1, <2>2, <2>3, OnePosted DEF s
<1>8. ASSUME s.batch = ItemRow, NEW w, NEW m,
             batch' = [batch EXCEPT ![s.batch] = w], ledger' = [ledger EXCEPT ![s.batch] = m]
      PROVE  Posted({t})
  BY <1>8, MaterialAssumption, UnchangedPosted DEF TypeOK
<1>9. CASE CommitReserve(t) \/ CommitRelease(t) \/ CommitSetLoose(t)
  BY <1>9, UnchangedPosted DEF CommitReserve, CommitRelease, CommitSetLoose
<1>10. CASE CommitConsume(t)
  BY <1>10 DEF CommitConsume, Accepted, Ready, TargetLocked
<1>11. CASE CommitConsumeItem(t)
  <2>1. PICK take \in Drains(Offered(s), s.quantity, TRUE) : TakeFrom(take, s.quantities)
    BY <1>11 DEF CommitConsumeItem, s
  <2>2. take \in [s.held \cap Batches -> Nat]
    BY <1>3 DEF Drains, Offered
  <2> QED
    BY <2>1, <2>2, TakePosted DEF s
<1>12. CASE CommitCut(t)
  <2>1. /\ batch' = [batch EXCEPT ![s.batch] = Settled(s.batch, s.quantities[s.batch] - s.quantity)]
        /\ ledger' = [ledger EXCEPT ![s.batch] = @ - s.quantity]
        /\ s.op = "cut" /\ s.pending = {}
    BY <1>12 DEF CommitCut, Accepted, Ready, s
  <2>2. s.batch \in Batches =>
          ledger[s.batch] - s.quantity =
            ledger[s.batch] + (s.quantities[s.batch] - s.quantity) - s.quantities[s.batch]
    BY <1>3, <1>4
  <2> QED
    BY <1>6, <1>7, <1>8, <2>1, <2>2
<1>13. CASE CommitSetUp(t)
  <2>1. PICK b \in Batches :
          /\ TakesSurplus(s, b)
          /\ batch' = [batch EXCEPT ![b] = [quantity |-> s.quantities[b] + Delta(s), state |-> "active"]]
          /\ ledger' = [ledger EXCEPT ![b] = @ + Delta(s)]
    BY <1>13 DEF CommitSetUp, s
  <2> DEFINE w == [quantity |-> s.quantities[b] + Delta(s), state |-> "active"]
  <2>2. b \in s.held \/ b \notin Existing
    BY <2>1 DEF TakesSurplus, Adjustable
  <2>3. batch'[b] = w /\ w \in BatchRow
    BY <1>4, <2>1 DEF TypeOK
  <2>4. /\ ledger[b] + Delta(s) \in Int
        /\ ledger[b] + Delta(s) = ledger[b] + w.quantity - s.quantities[b]
    BY <1>3, <1>4, <1>5
  <2> QED
    BY <2>1, <2>2, <2>3, <2>4, OnePosted DEF s
<1>14. CASE CommitSetDown(t)
  <2>1. Delta(s) <= 0
    BY <1>14 DEF CommitSetDown, s
  <2>2. PICK take \in Drains(Cuttable(s), -Delta(s), FALSE) : TakeFrom(take, s.quantities)
    BY <1>14 DEF CommitSetDown, s
  <2>3. take \in [Adjustable(s) -> Nat] /\ Adjustable(s) \in SUBSET (s.held \cap Batches)
    BY <1>5, <2>1 DEF Drains, Cuttable, Adjustable
  <2> QED
    BY <2>2, <2>3, TakePosted DEF s
<1>15. CASE CommitUpdate(t)
  <2>1. /\ batch' = [batch EXCEPT ![s.batch] = Settled(s.batch, s.quantity)]
        /\ ledger' = [ledger EXCEPT ![s.batch] = @ + s.quantity - s.quantities[s.batch]]
        /\ s.op = "update" /\ s.pending = {}
    BY <1>15 DEF CommitUpdate, Accepted, Ready, s
  <2> QED
    BY <1>6, <1>7, <1>8, <2>1
<1>16. CASE CommitMove(t)
  <2> DEFINE n == IF s.flag THEN -s.quantity ELSE s.quantity
  <2>1. s.op = "move" /\ s.pending = {} /\ n \in Int
    BY <1>3, <1>16 DEF CommitMove, Accepted, Ready, s
  <2>2. CASE s.batch = ItemRow
    BY <1>16, <2>2, UnchangedPosted DEF CommitMove, s
  <2>3. CASE s.batch # ItemRow
    <3>1. /\ batch' = [batch EXCEPT ![s.batch] = Settled(s.batch, s.quantities[s.batch] + n)]
          /\ ledger' = [ledger EXCEPT ![s.batch] = @ + n]
      BY <1>16, <2>3 DEF CommitMove, s
    <3>2. s.batch \in Batches =>
            ledger[s.batch] + n = ledger[s.batch] + (s.quantities[s.batch] + n) - s.quantities[s.batch]
      BY <1>3, <1>4, <2>1
    <3> QED
      BY <1>6, <1>7, <2>1, <2>3, <3>1, <3>2
  <2> QED
    BY <2>2, <2>3
<1>17. CASE CommitArchive(t)
  <2>1. /\ batch' = [batch EXCEPT ![s.batch] = Settled(s.batch, 0)]
        /\ ledger' = [ledger EXCEPT ![s.batch] = @ - s.quantities[s.batch]]
        /\ s.op = "archive" /\ s.pending = {}
    BY <1>17 DEF CommitArchive, Accepted, Ready, s
  <2>2. s.batch \in Batches =>
          ledger[s.batch] - s.quantities[s.batch] = ledger[s.batch] + 0 - s.quantities[s.batch]
    BY <1>3, <1>4
  <2> QED
    BY <1>6, <1>7, <1>8, <2>1, <2>2
<1>18. CASE CommitRestore(t)
  <2> DEFINE w == [quantity |-> s.quantity, state |-> "active"]
  <2>1. /\ batch' = [batch EXCEPT ![s.batch] = w]
        /\ ledger' = [ledger EXCEPT ![s.batch] = @ + s.quantity]
        /\ s.op = "restore" /\ s.pending = {} /\ May(s)
    BY <1>18 DEF CommitRestore, Accepted, Ready, s
  <2>2. s.quantities[s.batch] = 0
    BY <2>1 DEF May
  <2>3. w \in BatchRow
    BY <1>3 DEF BatchRow
  <2>4. CASE s.batch \in Batches
    <3>1. /\ ledger[s.batch] + s.quantity \in Int
          /\ ledger[s.batch] + s.quantity = ledger[s.batch] + w.quantity - s.quantities[s.batch]
      BY <1>3, <1>4, <2>2, <2>4
    <3> QED
      BY <1>6, <2>1, <2>3, <2>4, <3>1, OnePosted, MaterialAssumption DEF s
  <2>5. CASE s.batch = ItemRow
    BY <1>8, <2>1, <2>5
  <2> QED
    BY <1>3, <2>4, <2>5 DEF Rows
<1> QED
  BY <1>9, <1>10, <1>11, <1>12, <1>13, <1>14, <1>15, <1>16, <1>17, <1>18 DEF Commit

LEMMA ReceiveKeeps ==
  ASSUME LedgerInvariant, TypeOK', Receive
  PROVE  LedgerInvariant'
<1> USE DEF LedgerInvariant
<1>1. PICK b \in Batches \ Existing, q \in 1 .. MaxQuantity :
        /\ batch' = [batch EXCEPT ![b] = [quantity |-> q, state |-> "active"]]
        /\ ledger' = [ledger EXCEPT ![b] = @ + q]
  BY DEF Receive
<1>2. batch[b].quantity = 0 /\ ledger[b] = 0 /\ q \in Nat
  <2>1. batch[b].state = "absent"
    BY DEF Existing
  <2>2. batch[b].quantity = 0 /\ ledger[b] = 0
    BY <2>1 DEF AbsentEmpty, LedgerBalanced
  <2> QED
    BY <2>2, MaterialAssumption
<1>3. \A c \in Batches : batch[c].quantity = ledger[c]
  BY DEF LedgerBalanced
<1>4. Posted({})
  BY <1>1, <1>2, <1>3 DEF TypeOK, Posted, AbsentEmpty
<1>5. session' = [u \in Sessions |-> IF u \in {} THEN Idle ELSE session[u]]
  BY DEF Receive, TypeOK
<1> QED
  BY <1>4, <1>5, PostedKeeps

LEMMA LedgerNext ==
  ASSUME LedgerInvariant, "consume" \notin Operations, [Next]_vars
  PROVE  LedgerInvariant'
<1>1. TypeOK'
  BY NextType DEF LedgerInvariant
<1>2. CASE Receive
  BY <1>1, <1>2, ReceiveKeeps
<1>3. ASSUME NEW t \in Sessions, Arrive(t) PROVE LedgerInvariant'
  BY <1>1, <1>3, ArriveKeeps
<1>4. ASSUME NEW t \in Sessions, LockRow(t) \/ ScanBatches(t) \/ LockReservations(t)
      PROVE  LedgerInvariant'
  BY <1>1, <1>4, LockKeeps
<1>5. ASSUME NEW t \in Sessions, Commit(t) PROVE LedgerInvariant'
  BY <1>1, <1>5, CommitKeeps
<1>6. ASSUME NEW t \in Sessions, End(t), UNCHANGED tables PROVE LedgerInvariant'
  BY <1>1, <1>6, UnchangedPosted, EndKeeps DEF tables
<1>7. CASE UNCHANGED vars
  <2>1. UNCHANGED <<batch, ledger, session>>
    BY <1>7 DEF vars
  <2>2. Exclusive' /\ TargetLocked'
    BY <2>1 DEF LedgerInvariant, Exclusive, TargetLocked
  <2>3. Seen' /\ LockedExist'
    BY <2>1 DEF LedgerInvariant, Seen, LockedExist, Existing
  <2>4. AbsentEmpty' /\ LedgerBalanced'
    BY <2>1 DEF LedgerInvariant, AbsentEmpty, LedgerBalanced
  <2> QED
    BY <1>1, <2>2, <2>3, <2>4 DEF LedgerInvariant
<1> QED
  BY <1>2, <1>3, <1>4, <1>5, <1>6, <1>7 DEF Next, Advance, Reject, AbortVictim, Crash

\* Without the endpoint that charges one reservation by its batch, every batch
\* balance equals the sum of its movements, whatever the requests interleave.
THEOREM LedgerAlwaysBalanced ==
  ASSUME "consume" \notin Operations
  PROVE  Spec => []LedgerBalanced
<1>1. Init => LedgerInvariant
  BY LedgerInit
<1>2. LedgerInvariant /\ [Next]_vars => LedgerInvariant'
  BY LedgerNext
<1>3. LedgerInvariant => LedgerBalanced
  BY DEF LedgerInvariant
<1> QED
  BY <1>1, <1>2, <1>3, PTL DEF Spec

-----------------------------------------------------------------------------
(***************************************************************************)
(* Deadlocks.  Without corrections, which begin with the item, and without *)
(* the consumption of item reservations, which takes batches by date,      *)
(* every transaction locks its rows in one order: batches by ascending id, *)
(* then the item, then reservations that nobody holds while waiting for a  *)
(* row.                                                                    *)
(***************************************************************************)

\* The common order of the rows.
Before(x, y) == x # y /\ (y = ItemRow \/ (x # ItemRow /\ x <= y))

\* What a session holds comes before what it still wants, and it reserves last.
LockOrder ==
  \A t \in Sessions :
    /\ session[t].op \notin {"set", "consumeItem"}
    /\ \A x \in session[t].held, y \in session[t].pending : Before(x, y)
    /\ session[t].claimed # {} =>
         session[t].pending = {} /\ session[t].op \in {"cut", "archive"}
    /\ session[t].op \in {"cut", "archive"} => session[t].reservation = 0

\* Among finitely many rows one comes after all others.
LEMMA LastRow ==
  ASSUME NEW X \in SUBSET Rows, X # {}
  PROVE  \E x \in X : \A y \in X : ~Before(x, y)
<1>1. CASE ItemRow \in X
  BY <1>1 DEF Before
<1>2. CASE ItemRow \notin X
  <2>1. X \subseteq Batches /\ X \subseteq Nat /\ IsFiniteSet(X)
    <3>1. X \subseteq Batches /\ X \subseteq Nat
      BY <1>2, MaterialAssumption DEF Rows
    <3> QED
      BY <3>1, MaterialAssumption, FS_Subset
  <2> DEFINE After(x) == {y \in X : x < y}
             C == {Cardinality(After(x)) : x \in X}
  <2>2. \A x \in X : IsFiniteSet(After(x)) /\ Cardinality(After(x)) \in Nat
    BY <2>1, FS_Subset, FS_CardinalityType
  <2>3. C \subseteq Nat /\ C # {}
    BY <2>2
  <2>4. PICK c \in C : \A d \in C : <<d, c>> \notin OpToRel(<, Nat)
    <3> HIDE DEF C
    <3> QED
      BY <2>3, NatLessThanWellFounded, WFMin
  <2>5. \A d \in C : ~(d < c)
    BY <2>3, <2>4 DEF OpToRel
  <2>6. PICK x \in X : c = Cardinality(After(x))
    OBVIOUS
  <2>7. ASSUME NEW y \in X, Before(x, y) PROVE FALSE
    <3>1. x < y /\ x # ItemRow /\ y # ItemRow
      BY <1>2, <2>1, <2>7 DEF Before
    <3>2. After(y) \subseteq After(x) /\ y \in After(x) /\ y \notin After(y)
      <4>1. x \in Nat /\ y \in Nat /\ ~(y < y)
        BY <2>1, <3>1
      <4>2. ASSUME NEW z \in X, y < z PROVE x < z
        BY <2>1, <3>1, <4>1, <4>2
      <4> QED
        BY <3>1, <4>1, <4>2
    <3>3. Cardinality(After(y)) <= Cardinality(After(x)) /\ Cardinality(After(y)) # Cardinality(After(x))
      BY <2>2, <3>2, FS_Subset
    <3>4. Cardinality(After(y)) < Cardinality(After(x))
      BY <2>2, <3>3
    <3> QED
      BY <2>5, <2>6, <3>4
  <2> QED
    BY <2>7
<1> QED
  BY <1>1, <1>2

\* Of the rows that are waited for, the last one's holder waits for none of them.
LEMMA OrderPreventsCycles ==
  ASSUME TypeOK, LockOrder
  PROVE  NoLockCycle
<1> SUFFICES ASSUME NEW t \in Sessions, NEW C \in SUBSET Sessions, t \in C,
                    \A u \in C : \E w \in C : BlockedBy(u, w)
             PROVE  FALSE
  BY DEF NoLockCycle, Deadlocked
<1>1. \A u \in Sessions : session[u] \in Session
  BY DEF TypeOK
<1>2. 0 \notin Reservations
  BY MaterialAssumption
<1>3. ASSUME NEW u \in C PROVE \E w \in C : \E x \in session[w].held : NextRow(u, x)
  <2>1. PICK w \in C : BlockedBy(u, w)
    OBVIOUS
  <2>2. ~HoldsItemForUpdate(w)
    BY DEF HoldsItemForUpdate, LockOrder
  <2>3. ASSUME session[u].reservation \in session[w].claimed PROVE FALSE
    <3>1. session[w].pending = {} /\ session[w].reservation = 0
      BY <2>3 DEF LockOrder
    <3>2. PICK z \in C : BlockedBy(w, z)
      OBVIOUS
    <3>3. \A x : ~NextRow(w, x)
      BY <3>1 DEF NextRow
    <3>4. 0 \notin session[z].claimed /\ ~HoldsItemForUpdate(z)
      BY <1>1, <1>2 DEF Session, HoldsItemForUpdate, LockOrder
    <3> QED
      BY <3>1, <3>2, <3>3, <3>4 DEF BlockedBy
  <2> QED
    BY <2>1, <2>2, <2>3 DEF BlockedBy
<1> DEFINE X == {x \in Rows : \E u \in C, w \in C : x \in session[w].held /\ NextRow(u, x)}
<1>4. \A w \in C : session[w].held \subseteq Rows /\ session[w].pending \subseteq Rows
  BY <1>1 DEF Session
<1>5. X # {}
  BY <1>3, <1>4
<1>6. PICK x \in X : \A y \in X : ~Before(x, y)
  <2>1. X \in SUBSET Rows
    OBVIOUS
  <2> HIDE DEF X
  <2> QED
    BY <1>5, <2>1, LastRow
<1>7. PICK w \in C : x \in session[w].held
  OBVIOUS
<1>8. PICK z \in C : \E y \in session[z].held : NextRow(w, y)
  BY <1>3
<1>11. PICK y \in session[z].held : NextRow(w, y)
  BY <1>8
<1>9. y \in X
  BY <1>4, <1>11
<1>10. Before(x, y)
  BY <1>7, <1>11 DEF NextRow, LockOrder
<1> QED
  BY <1>6, <1>9, <1>10

\* A request arrives with no lock.
LEMMA LockOrderArrives ==
  ASSUME TypeOK, LockOrder, {"set", "consumeItem"} \cap Operations = {}, NEW t \in Sessions, Arrive(t)
  PROVE  LockOrder'
<1>1. /\ Idle.held = {} /\ Idle.claimed = {} /\ Idle.reservation = 0
      /\ session \in [Sessions -> Session]
  BY DEF Idle, TypeOK
<1>2. ASSUME NEW s, Begin(t, s), s.held = {}, s.claimed = {},
             s.op \in {"cut", "archive"} => s.reservation = 0
      PROVE  LockOrder'
  <2>1. session' = [session EXCEPT ![t] = s] /\ s.op \notin {"set", "consumeItem"}
    BY <1>2 DEF Begin
  <2> QED
    BY <1>1, <1>2, <2>1 DEF LockOrder
<1>3. CASE BeginReserve(t)
  BY <1>2, <1>3 DEF BeginReserve, ReserveRequest, Idle
<1>4. CASE BeginRelease(t)
  BY <1>2, <1>4 DEF BeginRelease, Idle
<1>5. CASE BeginConsume(t)
  <2>1. PICK r \in Reservations, q \in 1 .. MaxQuantity :
          Begin(t, [Idle EXCEPT !.op = "consume", !.reservation = r, !.quantity = q,
                      !.batch = row[r].batch, !.pending = {row[r].batch}, !.rows[r] = row[r],
                      !.quantities[row[r].batch] = batch[row[r].batch].quantity])
    BY <1>5 DEF BeginConsume
  <2> DEFINE s == [Idle EXCEPT !.op = "consume", !.reservation = r, !.quantity = q,
                      !.batch = row[r].batch, !.pending = {row[r].batch}, !.rows[r] = row[r],
                      !.quantities[row[r].batch] = batch[row[r].batch].quantity]
  <2>2. s.held = {} /\ s.claimed = {} /\ s.op = "consume"
    BY DEF Idle
  <2>3. Begin(t, s)
    BY <2>1
  <2> HIDE DEF s
  <2> QED
    BY <1>2, <2>2, <2>3
<1>6. CASE BeginConsumeItem(t)
  BY <1>6 DEF BeginConsumeItem, Begin, Idle
<1>7. CASE BeginCut(t)
  BY <1>2, <1>7 DEF BeginCut, Idle
<1>8. CASE BeginSet(t)
  BY <1>2, <1>8 DEF BeginSet, Idle
<1>9. CASE BeginUpdate(t)
  BY <1>2, <1>9 DEF BeginUpdate, Idle
<1>10. CASE BeginMove(t)
  BY <1>2, <1>10 DEF BeginMove, Idle
<1>11. CASE BeginArchive(t)
  BY <1>2, <1>11 DEF BeginArchive, Idle
<1>12. CASE BeginRestore(t)
  BY <1>2, <1>12 DEF BeginRestore, Idle
<1> QED
  BY <1>3, <1>4, <1>5, <1>6, <1>7, <1>8, <1>9, <1>10, <1>11, <1>12 DEF Arrive

\* A lock that is granted is the next one in the order.
LEMMA LockOrderAdvances ==
  ASSUME TypeOK, LockOrder, NEW t \in Sessions,
         LockRow(t) \/ ScanBatches(t) \/ LockReservations(t)
  PROVE  LockOrder'
<1>1. session \in [Sessions -> Session] /\ session[t] \in Session
  BY DEF TypeOK
<1>2. ASSUME NEW s, session' = [session EXCEPT ![t] = s], s.op = session[t].op,
             s.reservation = session[t].reservation,
             \A x \in s.held, y \in s.pending : Before(x, y),
             s.claimed # {} => s.pending = {} /\ s.op \in {"cut", "archive"}
      PROVE  LockOrder'
  BY <1>1, <1>2 DEF LockOrder
<1>3. CASE LockRow(t)
  <2>1. PICK x \in Rows : NextRow(t, x) /\ session' = [session EXCEPT ![t] = Granted(@, x)]
    BY <1>3 DEF LockRow
  <2> DEFINE s == Granted(session[t], x)
  <2>2. /\ s.op = session[t].op /\ s.reservation = session[t].reservation
        /\ s.held = session[t].held \cup {x} /\ s.pending = session[t].pending \ {x}
        /\ s.scanned = session[t].scanned /\ s.claimed = session[t].claimed
    BY <1>1 DEF Granted, Session
  <2>3. /\ x \in session[t].pending
        /\ \A y \in session[t].pending : y # x => Before(x, y)
    BY <2>1 DEF NextRow, LockOrder, LockBefore, Before
  <2>4. \A z \in s.held, y \in s.pending : Before(z, y)
    BY <2>2, <2>3 DEF LockOrder
  <2>6. s.claimed = {}
    BY <2>2, <2>3 DEF LockOrder
  <2> HIDE DEF s
  <2> QED
    BY <1>2, <2>1, <2>2, <2>4, <2>6 DEF s
<1>4. ~ScanBatches(t)
  BY DEF ScanBatches, LockOrder
<1>5. CASE LockReservations(t)
  <2> DEFINE s == Claiming(session[t])
  <2>1. /\ session' = [session EXCEPT ![t] = s] /\ session[t].op \in {"cut", "archive"}
        /\ session[t].pending = {}
    BY <1>5 DEF LockReservations
  <2>2. /\ s.op = session[t].op /\ s.reservation = session[t].reservation
        /\ s.held = session[t].held /\ s.pending = session[t].pending
    BY <1>1 DEF Claiming, Session
  <2> HIDE DEF s
  <2> QED
    BY <1>2, <2>1, <2>2
<1> QED
  BY <1>3, <1>4, <1>5

\* No step of a session disturbs the order of another's locks.
LEMMA LockOrderNext ==
  ASSUME TypeOK, LockOrder, {"set", "consumeItem"} \cap Operations = {}, [Next]_vars
  PROVE  LockOrder'
<1>1. ASSUME NEW t \in Sessions, End(t) PROVE LockOrder'
  <2>1. session' = [session EXCEPT ![t] = Idle] /\ session \in [Sessions -> Session]
    BY <1>1 DEF End, TypeOK
  <2>2. Idle.held = {} /\ Idle.pending = {} /\ Idle.claimed = {} /\ Idle.op = "idle"
    BY DEF Idle
  <2> QED
    BY <2>1, <2>2 DEF LockOrder
<1>2. ASSUME UNCHANGED session PROVE LockOrder'
  BY <1>2 DEF LockOrder
<1>3. ASSUME NEW t \in Sessions, Commit(t) PROVE End(t)
  BY <1>3 DEF Commit, CommitReserve, CommitRelease, CommitConsume, CommitConsumeItem, CommitCut,
     CommitSetLoose, CommitSetUp, CommitSetDown, CommitUpdate, CommitMove, CommitArchive,
     CommitRestore
<1>4. CASE UNCHANGED vars
  BY <1>2, <1>4 DEF vars
<1>5. CASE Receive
  BY <1>2, <1>5 DEF Receive
<1>6. ASSUME NEW t \in Sessions, Arrive(t) \/ Advance(t) \/ AbortVictim(t) \/ Crash(t)
      PROVE  LockOrder'
  BY <1>1, <1>3, <1>6, LockOrderArrives, LockOrderAdvances DEF Advance, Reject, AbortVictim, Crash
<1> QED
  BY <1>4, <1>5, <1>6 DEF Next

\* "One global order ... cannot form a cycle": without corrections of the item's total and
\* consumptions of item reservations no set of requests, however large, waits for itself.
THEOREM NeverLockCycle ==
  ASSUME {"set", "consumeItem"} \cap Operations = {}
  PROVE  Spec => []NoLockCycle
<1>1. Init => TypeOK /\ LockOrder
  <2>1. Idle.held = {} /\ Idle.pending = {} /\ Idle.claimed = {} /\ Idle.op = "idle"
    BY DEF Idle
  <2> QED
    BY <2>1, InitType DEF Init, LockOrder
<1>2. TypeOK /\ LockOrder /\ [Next]_vars => TypeOK' /\ LockOrder'
  BY NextType, LockOrderNext
<1>3. TypeOK /\ LockOrder => NoLockCycle
  BY OrderPreventsCycles
<1> QED
  BY <1>1, <1>2, <1>3, PTL DEF Spec

-----------------------------------------------------------------------------
(***************************************************************************)
(* Reservations.  DrawsAccounted and ClosedIsFinal hold because a row that *)
(* is charged is charged as it is stored.  Cutting and archiving see to it *)
(* by locking the reservations under the lock on their batch.  Releasing   *)
(* works on the row as it was when the request came; that is harmless      *)
(* because a reservation only moves forward: when it was charged since,    *)
(* the CHECK constraint refuses the release, and when it was released,     *)
(* the release writes what is there.                                       *)
(***************************************************************************)

\* A row as the endpoints leave it: within its CHECK and with the status that follows.
LegalRow(v) ==
  IF v.status = "none" THEN v = NoRow
  ELSE Legal(v) /\ v.status = StatusFor(v.reserved, v.consumed, v.released)

RowsLegal == \A r \in Reservations : LegalRow(row[r])

\* The reservations a request is about to insert are its own, and it locks their batches.
Numbered ==
  \A t \in Sessions : \A r \in Lines(session[t]) :
    /\ session[t].op = "reserve" /\ row[r].status = "none"
    /\ session[t].lines[r].batch \in session[t].held \cup session[t].pending \cup {ItemRow}
    /\ \A u \in Sessions \ {t} : r \notin Lines(session[u])

\* What cutting and archiving loaded of the reservations they locked is current.
ClaimsFresh ==
  \A t \in Sessions :
    /\ session[t].op \in {"cut", "archive"} => session[t].batch \in Batches
    /\ \A r \in session[t].claimed :
         /\ session[t].op \in {"cut", "archive"} /\ session[t].batch \in session[t].held
         /\ session[t].rows[r] = row[r] /\ Active(row[r]) /\ row[r].batch = session[t].batch

SameClaim(v, w) == w.order = v.order /\ w.batch = v.batch /\ w.reserved = v.reserved

\* The row v and what releases leave of it.
Closing(v, w) ==
  /\ SameClaim(v, w) /\ w.consumed = v.consumed
  /\ w.released = v.reserved - v.consumed /\ w.status = "released"

\* What became of the row v that a release loaded: nothing, charges, or another release.
Since(v, w) ==
  SameClaim(v, w) /\ (w = v \/ w.consumed > v.consumed \/ Closing(v, w))

ReleaseStale ==
  \A t \in Sessions : session[t].op = "release" =>
    LET r == session[t].reservation
        v == session[t].rows[r]
    IN r \in Reservations /\ v.status # "none" /\ LegalRow(v) /\ Since(v, row[r])

\* The endpoints that charge one reservation as they loaded it are not in use.
NotCharging == \A t \in Sessions : session[t].op \notin {"consume", "consumeItem"}

ReservationInvariant ==
  LedgerInvariant /\ NotCharging /\ RowsLegal /\ Numbered /\ ClaimsFresh /\ ReleaseStale /\ DrawsAccounted

\* What one step may do to a reservation: nothing, charge it or close it.
Forward(v, w) ==
  \/ w = v
  \/ /\ Active(v) /\ LegalRow(w) /\ w.status # "none" /\ SameClaim(v, w)
     /\ (w.consumed > v.consumed /\ w.released = v.released) \/ Closing(v, w)

\* Charging an open reservation within what is open, and releasing it.
LEMMA ChargeForward ==
  ASSUME NEW v \in ReservationRow, LegalRow(v), Active(v), NEW n \in Nat, n > 0, n <= Open(v)
  PROVE  /\ Forward(v, Charged(v, n, v)) /\ Charged(v, n, v).consumed = v.consumed + n
         /\ Open(v) = v.reserved - v.consumed - v.released
<1>1. v.status # "none" /\ Legal(v) /\ v.status = StatusFor(v.reserved, v.consumed, v.released)
  BY DEF LegalRow, Active, ActiveStatus
<1>2. v.reserved \in Nat /\ v.consumed \in Nat /\ v.released \in Nat
  BY DEF ReservationRow
<1>3. Open(v) = v.reserved - v.consumed - v.released
  BY <1>1, <1>2 DEF Open, Greatest, Legal
<1> DEFINE new == StatusFor(v.reserved, v.consumed + n, v.released)
<1>4. Dirty(v.status, new, v.status) = new
  BY DEF Dirty
<1> HIDE DEF new
<1>5. Charged(v, n, v) = [v EXCEPT !.consumed = v.consumed + n, !.status = new]
  BY <1>4 DEF Charged, new
<1> DEFINE w == Charged(v, n, v)
<1>6. /\ w.order = v.order /\ w.batch = v.batch /\ w.reserved = v.reserved /\ w.released = v.released
      /\ w.consumed = v.consumed + n /\ w.status = new
  BY <1>5 DEF ReservationRow
<1>7. new # "none"
  BY DEF new, StatusFor
<1> HIDE DEF w
<1>8. Legal(w) /\ LegalRow(w)
  BY <1>2, <1>3, <1>6, <1>7 DEF Legal, LegalRow, new
<1>9. w.consumed > v.consumed
  BY <1>2, <1>6
<1> QED
  BY <1>3, <1>6, <1>7, <1>8, <1>9 DEF Forward, SameClaim, w

\* Releasing an open reservation closes it.
LEMMA FreeForward ==
  ASSUME NEW v \in ReservationRow, LegalRow(v), Active(v)
  PROVE  /\ Closing(v, Freed(v, v)) /\ Forward(v, Freed(v, v))
         /\ Open(v) = v.reserved - v.consumed - v.released /\ Open(v) > 0
<1>1. v.status # "none" /\ Legal(v) /\ v.status = StatusFor(v.reserved, v.consumed, v.released)
  BY DEF LegalRow, Active, ActiveStatus
<1>2. v.reserved \in Nat /\ v.consumed \in Nat /\ v.released \in Nat
  BY DEF ReservationRow
<1>3. v.reserved - v.consumed - v.released > 0
  BY <1>1, <1>2 DEF StatusFor, Active, ActiveStatus
<1>4. Open(v) = v.reserved - v.consumed - v.released
  BY <1>2, <1>3 DEF Open, Greatest
<1>5. v.released + Open(v) = v.reserved - v.consumed /\ v.released + Open(v) > 0
  BY <1>2, <1>3, <1>4
<1>6. StatusFor(v.reserved, v.consumed, v.released + Open(v)) = "released"
  BY <1>2, <1>5 DEF StatusFor
<1>7. Freed(v, v) = [v EXCEPT !.released = v.reserved - v.consumed, !.status = "released"]
  BY <1>3, <1>4, <1>5, <1>6 DEF Freed, Dirty
<1> DEFINE w == Freed(v, v)
<1>8. /\ w.order = v.order /\ w.batch = v.batch /\ w.reserved = v.reserved /\ w.consumed = v.consumed
      /\ w.released = v.reserved - v.consumed /\ w.status = "released"
  BY <1>7 DEF ReservationRow
<1> HIDE DEF w
<1>9. Legal(w) /\ LegalRow(w)
  BY <1>2, <1>3, <1>8 DEF Legal, LegalRow, StatusFor
<1> QED
  BY <1>3, <1>4, <1>8, <1>9 DEF Forward, Closing, SameClaim, w

\* A release that is accepted finds the row as it loaded it, or already closed.
LEMMA StaleRelease ==
  ASSUME NEW v \in ReservationRow, NEW w \in ReservationRow, LegalRow(v), Active(v),
         Since(v, w), Legal(Freed(v, w))
  PROVE  (w = v /\ Freed(v, w) = Freed(v, v)) \/ (Freed(v, w) = w /\ w.status = "released")
<1>1. Legal(v) /\ v.status = StatusFor(v.reserved, v.consumed, v.released)
  BY DEF LegalRow, Active, ActiveStatus
<1>2. /\ v.reserved \in Nat /\ v.consumed \in Nat /\ v.released \in Nat
      /\ w.consumed \in Nat /\ w.reserved = v.reserved
  BY DEF ReservationRow, Since, SameClaim
<1>3. Open(v) = v.reserved - v.consumed - v.released /\ Open(v) > 0
  BY FreeForward
<1>4. v.released + Open(v) = v.reserved - v.consumed
  BY <1>2, <1>3
<1>5. StatusFor(v.reserved, v.consumed, v.released + Open(v)) = "released"
  BY <1>2, <1>3, <1>4 DEF StatusFor
<1>6. v.status # "released"
  BY DEF Active, ActiveStatus
<1>7. Freed(v, w) = [w EXCEPT !.released = v.reserved - v.consumed, !.status = "released"]
  BY <1>3, <1>4, <1>5, <1>6 DEF Freed, Dirty
<1>8. CASE w.consumed > v.consumed
  <2>1. /\ Freed(v, w).consumed = w.consumed /\ Freed(v, w).reserved = v.reserved
        /\ Freed(v, w).released = v.reserved - v.consumed
    BY <1>2, <1>7 DEF ReservationRow
  <2> QED
    BY <1>2, <1>8, <2>1 DEF Legal
<1>9. CASE Closing(v, w)
  <2>1. w.released = v.reserved - v.consumed /\ w.status = "released"
    BY <1>9 DEF Closing
  <2>2. w = [w EXCEPT !.released = w.released, !.status = w.status]
    BY DEF ReservationRow
  <2> QED
    BY <1>7, <2>1, <2>2
<1> QED
  BY <1>8, <1>9 DEF Since

\* A row that moves forward stays legal, and what a release loaded of it stays usable.
LEMMA ForwardSince ==
  ASSUME NEW v \in ReservationRow, NEW w \in ReservationRow, NEW x \in ReservationRow,
         LegalRow(v), v.status # "none", Since(v, w), Forward(w, x)
  PROVE  Since(v, x)
<1>1. /\ v.consumed \in Nat /\ w.consumed \in Nat /\ x.consumed \in Nat
  BY DEF ReservationRow
<1>2. CASE x = w
  BY <1>2
<1>3. CASE x # w
  <2>1. Active(w) /\ SameClaim(w, x) /\ SameClaim(v, w)
    BY <1>3 DEF Forward, Since
  <2>2. SameClaim(v, x)
    BY <2>1 DEF SameClaim
  <2>3. ~Closing(v, w)
    BY <2>1 DEF Closing, Active, ActiveStatus
  <2>4. x.consumed > w.consumed \/ Closing(w, x)
    BY <1>3 DEF Forward
  <2>5. CASE w = v
    BY <2>2, <2>4, <2>5 DEF Since
  <2>6. CASE w.consumed > v.consumed
    <3>1. x.consumed > v.consumed
      BY <1>1, <2>4, <2>6 DEF Closing
    <3> QED
      BY <2>2, <3>1 DEF Since
  <2> QED
    BY <2>3, <2>5, <2>6 DEF Since
<1> QED
  BY <1>2, <1>3

\* What a commit of session t does to the reservations.
Effect(t) ==
  /\ \A r \in Lines(session[t]) :
       \/ row'[r] = row[r]
       \/ LegalRow(row'[r]) /\ row'[r].consumed = 0
  /\ \A r \in Reservations \ Lines(session[t]) : Forward(row[r], row'[r])
  /\ \A r \in Reservations : drawn'[r] + row[r].consumed = drawn[r] + row'[r].consumed
  /\ \A u \in Sessions \ {t} : \A r \in session[u].claimed : row'[r] = row[r]

\* The types of the parts of a session that speak of reservations.
LEMMA ReservedTypes ==
  ASSUME TypeOK
  PROVE  /\ session \in [Sessions -> Session] /\ row \in [Reservations -> ReservationRow]
         /\ drawn \in [Reservations -> Nat]
         /\ \A r \in Reservations : /\ row[r] \in ReservationRow /\ row[r].consumed \in Nat
                                    /\ row[r].reserved \in Nat /\ row[r].released \in Nat
         /\ \A t \in Sessions :
              /\ session[t] \in Session /\ session[t].rows \in [Reservations -> ReservationRow]
              /\ session[t].claimed \in SUBSET Reservations /\ session[t].held \in SUBSET Rows
              /\ session[t].quantity \in Nat /\ session[t].quantities \in [Batches -> Nat]
              /\ Lines(session[t]) \in SUBSET Reservations
<1>1. \A t \in Sessions : session[t] \in Session
  BY DEF TypeOK
<1>2. \A r \in Reservations : row[r] \in ReservationRow
  BY DEF TypeOK
<1> QED
  BY <1>1, <1>2 DEF TypeOK, Session, ReservationRow, Lines

\* A request that asks for no reservations leaves a session idle or enters one.
LEMMA EffectKeeps ==
  ASSUME ReservationInvariant, LedgerInvariant', NEW t \in Sessions, End(t), Effect(t)
  PROVE  ReservationInvariant'
<1> USE DEF ReservationInvariant
<1>1. TypeOK /\ TypeOK'
  BY DEF LedgerInvariant
<1>2. \A u \in Sessions : session'[u] = IF u = t THEN Idle ELSE session[u]
  BY <1>1 DEF End, TypeOK
<1>3. /\ Idle.op = "idle" /\ Idle.claimed = {} /\ Lines(Idle) = {}
  BY DEF Idle, Lines, NoLine
<1>4. NotCharging'
  BY <1>2, <1>3 DEF NotCharging
<1>5. RowsLegal'
  BY DEF RowsLegal, Effect, Forward
<1>6. Numbered'
  <2> SUFFICES ASSUME NEW u \in Sessions \ {t}, NEW r \in Lines(session[u])
               PROVE  row'[r].status = "none"
    BY <1>2, <1>3 DEF Numbered
  <2>1. row[r].status = "none" /\ r \notin Lines(session[t]) /\ r \in Reservations
    BY DEF Numbered, Lines
  <2> QED
    BY <2>1 DEF Effect, Forward, Active, ActiveStatus
<1>7. ClaimsFresh'
  <2> SUFFICES ASSUME NEW u \in Sessions \ {t}
               PROVE  /\ session[u].op \in {"cut", "archive"} => session[u].batch \in Batches
                      /\ \A r \in session[u].claimed :
                           /\ session[u].op \in {"cut", "archive"} /\ session[u].batch \in session[u].held
                           /\ session[u].rows[r] = row'[r] /\ Active(row'[r])
                           /\ row'[r].batch = session[u].batch
    BY <1>2, <1>3 DEF ClaimsFresh
  <2>1. \A r \in session[u].claimed : row'[r] = row[r]
    BY DEF Effect
  <2> QED
    BY <2>1 DEF ClaimsFresh
<1>8. ReleaseStale'
  <2> SUFFICES ASSUME NEW u \in Sessions \ {t}, session[u].op = "release"
               PROVE  /\ session[u].reservation \in Reservations
                      /\ session[u].rows[session[u].reservation].status # "none"
                      /\ LegalRow(session[u].rows[session[u].reservation])
                      /\ Since(session[u].rows[session[u].reservation], row'[session[u].reservation])
    BY <1>2, <1>3 DEF ReleaseStale
  <2>1. PICK r \in Reservations : r = session[u].reservation
    BY DEF ReleaseStale
  <2>2. PICK v \in ReservationRow : v = session[u].rows[r]
    BY <1>1, <2>1, ReservedTypes
  <2>3. v.status # "none" /\ LegalRow(v) /\ Since(v, row[r])
    BY <2>1, <2>2 DEF ReleaseStale
  <2>4. CASE r \in Lines(session[t])
    <3>1. row[r].status = "none" /\ row[r] = NoRow
      BY <2>1, <2>4 DEF Numbered, RowsLegal, LegalRow
    <3>2. v.consumed \in Nat /\ v.reserved \in Nat
      BY DEF ReservationRow
    <3> QED
      BY <2>3, <3>1, <3>2 DEF Since, NoRow, Closing
  <2>5. CASE r \notin Lines(session[t])
    <3>1. Forward(row[r], row'[r]) /\ row[r] \in ReservationRow /\ row'[r] \in ReservationRow
      BY <1>1, <2>1, <2>5 DEF Effect, TypeOK
    <3>2. Since(v, row'[r])
      BY <2>3, <3>1, ForwardSince
    <3> QED
      BY <2>1, <2>2, <2>3, <3>2
  <2> QED
    BY <2>4, <2>5
<1>9. DrawsAccounted'
  <2> SUFFICES ASSUME NEW r \in Reservations PROVE row'[r].consumed = drawn'[r]
    BY DEF DrawsAccounted
  <2>1. row[r].consumed = drawn[r] /\ drawn'[r] + row[r].consumed = drawn[r] + row'[r].consumed
    BY DEF DrawsAccounted, Effect
  <2>2. drawn[r] \in Nat /\ drawn'[r] \in Nat /\ row'[r].consumed \in Nat
    BY <1>1 DEF TypeOK, ReservationRow
  <2> QED
    BY <2>1, <2>2
<1> QED
  BY <1>4, <1>5, <1>6, <1>7, <1>8, <1>9

\* A commit that leaves the reservations alone.
LEMMA UntouchedEffect ==
  ASSUME NEW t \in Sessions, UNCHANGED <<row, drawn>>
  PROVE  Effect(t)
  BY DEF Effect, Forward

\* A reservation is inserted where no one else has one.
LEMMA ReserveEffect ==
  ASSUME ReservationInvariant, NEW t \in Sessions, CommitReserve(t)
  PROVE  Effect(t)
<1> DEFINE s == session[t]
<1>1. /\ row \in [Reservations -> ReservationRow] /\ Lines(s) \in SUBSET Reservations
      /\ TypeOK
  BY ReservedTypes DEF ReservationInvariant, LedgerInvariant
<1>2. ASSUME NEW r \in Lines(s)
      PROVE  /\ row'[r] = [order |-> s.order, batch |-> s.lines[r].batch, reserved |-> s.lines[r].quantity,
                           consumed |-> 0, released |-> 0, status |-> "reserved"]
             /\ s.lines[r].quantity \in Nat /\ s.lines[r].quantity > 0
             /\ row[r].consumed = 0
  <2>1. s.lines[r].quantity \in Nat /\ s.lines[r].quantity > 0
    BY <1>1 DEF Lines, TypeOK, Session
  <2>2. row[r] = NoRow
    BY <1>1 DEF ReservationInvariant, Numbered, RowsLegal, LegalRow
  <2> QED
    BY <1>1, <2>1, <2>2 DEF CommitReserve, NoRow
<1>3. \A r \in Reservations \ Lines(s) : row'[r] = row[r]
  BY DEF CommitReserve
<1>4. drawn' = drawn
  BY DEF CommitReserve
<1>5. \A u \in Sessions \ {t} : \A r \in session[u].claimed : r \notin Lines(s) /\ r \in Reservations
  <2>1. \A r \in Lines(s) : ~Active(row[r])
    BY DEF ReservationInvariant, Numbered, Active, ActiveStatus
  <2> QED
    BY <1>1, <2>1, ReservedTypes DEF ReservationInvariant, ClaimsFresh
<1> HIDE DEF s
<1>6. ASSUME NEW r \in Lines(s) PROVE LegalRow(row'[r]) /\ row'[r].consumed = 0
  <2>1. PICK q \in Nat : q = s.lines[r].quantity /\ q > 0
    BY <1>2, <1>6
  <2>2. /\ row'[r].reserved = q /\ row'[r].consumed = 0 /\ row'[r].released = 0
        /\ row'[r].status = "reserved"
    <3>1. row'[r] = [order |-> s.order, batch |-> s.lines[r].batch, reserved |-> s.lines[r].quantity,
                     consumed |-> 0, released |-> 0, status |-> "reserved"]
      BY <1>2, <1>6
    <3> QED
      BY <2>1, <3>1
  <2>3. StatusFor(q, 0, 0) = "reserved"
    BY <2>1 DEF StatusFor
  <2> QED
    BY <2>2, <2>3 DEF LegalRow, Legal
<1>7. \A r \in Reservations : drawn'[r] + row[r].consumed = drawn[r] + row'[r].consumed
  BY <1>2, <1>3, <1>4, <1>6
<1> QED
  BY <1>3, <1>5, <1>6, <1>7 DEF Effect, Forward, s

\* A release that is accepted closes the row as stored, or writes what is there.
LEMMA ReleaseEffect ==
  ASSUME ReservationInvariant, NEW t \in Sessions, CommitRelease(t)
  PROVE  Effect(t)
<1> USE DEF ReservationInvariant
<1>1. TypeOK /\ session[t].op = "release" /\ MayRelease(session[t])
  BY DEF LedgerInvariant, CommitRelease, Accepted, Ready, May
<1>2. PICK r \in Reservations : r = session[t].reservation
  BY <1>1 DEF ReleaseStale
<1>3. PICK v \in ReservationRow : v = session[t].rows[r]
  BY <1>1, <1>2, ReservedTypes
<1>4. Active(v) /\ LegalRow(v) /\ Since(v, row[r]) /\ Legal(Freed(v, row[r])) /\ row[r] \in ReservationRow
  <2>1. Active(v) /\ Legal(Freed(v, row[r]))
    BY <1>1, <1>2, <1>3 DEF MayRelease
  <2>2. LegalRow(v) /\ Since(v, row[r])
    BY <1>1, <1>2, <1>3 DEF ReleaseStale
  <2> QED
    BY <1>1, <2>1, <2>2, ReservedTypes
<1>5. row' = [row EXCEPT ![r] = Freed(v, row[r])] /\ drawn' = drawn
  BY <1>2, <1>3 DEF CommitRelease
<1>6. \/ row[r] = v /\ Freed(v, row[r]) = Freed(v, v)
      \/ Freed(v, row[r]) = row[r] /\ row[r].status = "released"
  BY <1>4, StaleRelease
<1>7. Forward(v, Freed(v, v)) /\ Closing(v, Freed(v, v))
  BY <1>4, FreeForward
<1>8. row'[r] = Freed(v, row[r]) /\ \A x \in Reservations : x # r => row'[x] = row[x]
  BY <1>1, <1>5, ReservedTypes
<1>9. Forward(row[r], row'[r]) /\ row'[r].consumed = row[r].consumed
  BY <1>6, <1>7, <1>8 DEF Forward, Closing
<1>10. \A u \in Sessions \ {t} : r \notin session[u].claimed
  BY <1>1, <1>2 DEF CommitRelease, Accepted, Ready, Unblocked, BlockedBy
<1>11. Lines(session[t]) = {}
  BY <1>1 DEF Numbered
<1>12. \A x \in Reservations : Forward(row[x], row'[x]) /\ row'[x].consumed = row[x].consumed
  BY <1>8, <1>9 DEF Forward
<1>13. \A u \in Sessions \ {t} : \A x \in session[u].claimed : row'[x] = row[x]
  BY <1>1, <1>8, <1>10, ReservedTypes
<1> QED
  BY <1>5, <1>11, <1>12, <1>13 DEF Effect

\* Two sessions do not hold reservations of the same batch.
LEMMA ClaimsApart ==
  ASSUME ReservationInvariant, NEW t \in Sessions, NEW u \in Sessions \ {t}, NEW r \in session[u].claimed
  PROVE  r \notin session[t].claimed
<1> SUFFICES ASSUME r \in session[t].claimed PROVE FALSE
  OBVIOUS
<1>1. session[t].batch \in session[t].held /\ session[u].batch \in session[u].held
  BY DEF ReservationInvariant, ClaimsFresh
<1>2. session[t].batch = session[u].batch
  BY DEF ReservationInvariant, ClaimsFresh
<1> QED
  BY <1>1, <1>2 DEF ReservationInvariant, LedgerInvariant, Exclusive

\* Cutting charges the rows as stored, because it locked and reloaded them.
LEMMA CutEffect ==
  ASSUME ReservationInvariant, NEW t \in Sessions, CommitCut(t)
  PROVE  Effect(t)
<1> USE DEF ReservationInvariant
<1> DEFINE s == session[t]
<1>1. TypeOK /\ s.op = "cut"
  BY DEF LedgerInvariant, CommitCut, Accepted, Ready
<1>2. PICK take \in Drains(Claimed(s), s.quantity, TRUE) :
        /\ row' = [r \in Reservations |->
             IF r \in s.claimed /\ take[r] > 0 THEN Charged(s.rows[r], take[r], row[r]) ELSE row[r]]
        /\ drawn' = [r \in Reservations |-> IF r \in s.claimed THEN drawn[r] + take[r] ELSE drawn[r]]
  BY DEF CommitCut
<1>3. s.claimed \in SUBSET Reservations /\ s.quantity \in Nat
  BY <1>1, ReservedTypes
<1>4. \A r \in s.claimed : take[r] \in Nat /\ take[r] <= Open(s.rows[r])
  BY <1>3 DEF Drains, Claimed
<1>5. \A r \in s.claimed : s.rows[r] = row[r] /\ Active(row[r])
  BY DEF ClaimsFresh
<1> HIDE DEF s
<1>6. ASSUME NEW r \in Reservations
      PROVE  /\ Forward(row[r], row'[r]) /\ drawn'[r] + row[r].consumed = drawn[r] + row'[r].consumed
             /\ r \notin s.claimed => row'[r] = row[r]
  <2>1. row[r] \in ReservationRow /\ LegalRow(row[r]) /\ row[r].consumed \in Nat /\ drawn[r] \in Nat
    BY <1>1, ReservedTypes DEF RowsLegal
  <2>2. CASE r \in s.claimed /\ take[r] > 0
    <3>1. row'[r] = Charged(row[r], take[r], row[r]) /\ drawn'[r] = drawn[r] + take[r]
      BY <1>2, <1>5, <2>2
    <3>2. Forward(row[r], row'[r]) /\ row'[r].consumed = row[r].consumed + take[r]
      BY <1>4, <1>5, <2>1, <2>2, <3>1, ChargeForward
    <3> QED
      BY <1>4, <2>1, <2>2, <3>1, <3>2
  <2>3. CASE ~(r \in s.claimed /\ take[r] > 0)
    <3>1. row'[r] = row[r]
      BY <1>2, <2>3
    <3>2. drawn'[r] = drawn[r]
      BY <1>2, <1>4, <2>1, <2>3
    <3> QED
      BY <3>1, <3>2 DEF Forward
  <2> QED
    BY <2>2, <2>3
<1>7. Lines(session[t]) = {}
  BY <1>1 DEF Numbered, s
<1>8. \A u \in Sessions \ {t} : \A r \in session[u].claimed : row'[r] = row[r]
  BY <1>1, <1>6, ClaimsApart, ReservedTypes DEF s
<1> QED
  BY <1>6, <1>7, <1>8 DEF Effect

\* Archiving closes the rows as stored, for the same reason.
LEMMA ArchiveEffect ==
  ASSUME ReservationInvariant, NEW t \in Sessions, CommitArchive(t)
  PROVE  Effect(t)
<1> USE DEF ReservationInvariant
<1> DEFINE s == session[t]
<1>1. TypeOK /\ s.op = "archive" /\ drawn' = drawn
  BY DEF LedgerInvariant, CommitArchive, Accepted, Ready
<1>2. row' = [r \in Reservations |-> IF r \in s.claimed THEN Freed(s.rows[r], row[r]) ELSE row[r]]
  BY DEF CommitArchive
<1>3. \A r \in s.claimed : s.rows[r] = row[r] /\ Active(row[r])
  BY DEF ClaimsFresh
<1> HIDE DEF s
<1>4. ASSUME NEW r \in Reservations
      PROVE  /\ Forward(row[r], row'[r]) /\ row'[r].consumed = row[r].consumed
             /\ r \notin s.claimed => row'[r] = row[r]
  <2>1. row[r] \in ReservationRow /\ LegalRow(row[r])
    BY <1>1, ReservedTypes DEF RowsLegal
  <2>2. CASE r \in s.claimed
    <3>1. row'[r] = Freed(row[r], row[r])
      BY <1>2, <1>3, <2>2
    <3> QED
      BY <1>3, <2>1, <2>2, <3>1, FreeForward DEF Closing
  <2>3. CASE r \notin s.claimed
    BY <1>2, <2>3 DEF Forward
  <2> QED
    BY <2>2, <2>3
<1>5. Lines(session[t]) = {}
  BY <1>1 DEF Numbered, s
<1>6. \A u \in Sessions \ {t} : \A r \in session[u].claimed : row'[r] = row[r]
  BY <1>1, <1>4, ClaimsApart, ReservedTypes DEF s
<1> QED
  BY <1>1, <1>4, <1>5, <1>6 DEF Effect

\* Every commit moves reservations forward, and nobody's but its own.
LEMMA CommitEffect ==
  ASSUME ReservationInvariant, NEW t \in Sessions, Commit(t)
  PROVE  Effect(t)
<1>1. ASSUME row' = row, drawn' = drawn PROVE Effect(t)
  BY <1>1, UntouchedEffect
<1>2. ~CommitConsume(t) /\ ~CommitConsumeItem(t)
  BY DEF ReservationInvariant, NotCharging, CommitConsume, CommitConsumeItem, Accepted, Ready
<1>3. CASE CommitSetLoose(t) \/ CommitSetUp(t) \/ CommitSetDown(t)
  BY <1>1, <1>3 DEF CommitSetLoose, CommitSetUp, CommitSetDown
<1>4. CASE CommitUpdate(t) \/ CommitMove(t) \/ CommitRestore(t)
  BY <1>1, <1>4 DEF CommitUpdate, CommitMove, CommitRestore
<1> QED
  BY <1>2, <1>3, <1>4, ReserveEffect, ReleaseEffect, CutEffect, ArchiveEffect DEF Commit

\* A request arrives with no claims; a new reservation is its own, a release loads its row.
LEMMA ReservationArrives ==
  ASSUME ReservationInvariant, LedgerInvariant', {"consume", "consumeItem"} \cap Operations = {},
         NEW t \in Sessions, Arrive(t)
  PROVE  ReservationInvariant'
<1> USE DEF ReservationInvariant
<1>1. /\ TypeOK /\ session \in [Sessions -> Session]
      /\ UNCHANGED <<row, drawn>>
  BY DEF LedgerInvariant, TypeOK, Arrive, BeginReserve, BeginRelease, BeginConsume, BeginConsumeItem,
     BeginCut, BeginSet, BeginUpdate, BeginMove, BeginArchive, BeginRestore, Begin, tables
<1>2. Lines(Idle) = {} /\ Idle.claimed = {}
  BY DEF Idle, Lines, NoLine
<1>3. ASSUME NEW s, Begin(t, s), s.claimed = {}, s.op \in {"cut", "archive"} => s.batch \in Batches,
             Lines(s) # {} => s.op = "reserve",
             \A r \in Lines(s) : r \in Unnumbered /\ s.lines[r].batch \in s.held \cup s.pending \cup {ItemRow},
             s.op = "release" => LET r == s.reservation IN
                r \in Reservations /\ row[r].status # "none" /\ s.rows[r] = row[r]
      PROVE  ReservationInvariant'
  <2>1. /\ \A u \in Sessions : session'[u] = IF u = t THEN s ELSE session[u]
        /\ s.op \notin {"consume", "consumeItem"}
    BY <1>1, <1>3 DEF Begin
  <2>2. NotCharging' /\ RowsLegal' /\ DrawsAccounted'
    BY <1>1, <2>1 DEF NotCharging, RowsLegal, DrawsAccounted
  <2>3. \A u \in Sessions \ {t}, r \in Lines(s) : r \notin Lines(session[u])
    BY <1>3 DEF Unnumbered, Lines, NoLine
  <2>4. \A r \in Lines(s) : row[r].status = "none"
    BY <1>3 DEF Unnumbered
  <2>5. Numbered'
    BY <1>1, <1>3, <2>1, <2>3, <2>4 DEF Numbered
  <2>6. ClaimsFresh'
    BY <1>1, <1>3, <2>1 DEF ClaimsFresh
  <2>7. ASSUME s.op = "release"
        PROVE  /\ s.reservation \in Reservations /\ s.rows[s.reservation].status # "none"
               /\ LegalRow(s.rows[s.reservation]) /\ Since(s.rows[s.reservation], row[s.reservation])
    BY <1>3, <2>7 DEF RowsLegal, Since, SameClaim
  <2>8. ReleaseStale'
    BY <1>1, <2>1, <2>7 DEF ReleaseStale
  <2> QED
    BY <2>2, <2>5, <2>6, <2>8
<1>4. CASE BeginReserve(t)
  <2>1. PICK ids \in (SUBSET Unnumbered) \ {{}}, p \in Orders :
          \E place \in [ids -> Existing \cup {ItemRow}], want \in [ids -> 1 .. MaxQuantity] :
            Begin(t, ReserveRequest(p, ids, place, want))
    BY <1>4 DEF BeginReserve
  <2>2. PICK place \in [ids -> Existing \cup {ItemRow}], want \in [ids -> 1 .. MaxQuantity] :
          Begin(t, ReserveRequest(p, ids, place, want))
    BY <2>1
  <2> DEFINE s == ReserveRequest(p, ids, place, want)
  <2>3. /\ s.op = "reserve" /\ s.claimed = {}
        /\ s.lines = [r \in Reservations |->
                        IF r \in ids THEN [batch |-> place[r], quantity |-> want[r]] ELSE NoLine]
        /\ s.pending = {place[r] : r \in ids} \cup {ItemRow}
    BY DEF ReserveRequest, Idle
  <2>4. \A r \in Lines(s) : r \in ids /\ s.lines[r].batch = place[r]
    BY <2>3 DEF Lines, NoLine
  <2> HIDE DEF s
  <2>5. \A r \in Lines(s) : r \in Unnumbered /\ s.lines[r].batch \in s.pending
    <3>1. \A r \in ids : place[r] \in s.pending /\ r \in Unnumbered
      BY <2>3
    <3> QED
      BY <2>4, <3>1
  <2> QED
    BY <1>3, <2>2, <2>3, <2>5 DEF s
<1>5. ASSUME NEW s, Begin(t, s), s.claimed = {}, s.op \in {"cut", "archive"} => s.batch \in Batches,
             s.lines = Idle.lines, s.op # "release"
      PROVE  ReservationInvariant'
  <2>1. Lines(s) = {}
    BY <1>2, <1>5 DEF Lines
  <2> QED
    BY <1>3, <1>5, <2>1
<1>6. CASE BeginRelease(t)
  <2>1. PICK r \in Reservations :
          /\ row[r].status # "none"
          /\ Begin(t, [Idle EXCEPT !.op = "release", !.reservation = r, !.rows[r] = row[r]])
    BY <1>6 DEF BeginRelease
  <2> DEFINE s == [Idle EXCEPT !.op = "release", !.reservation = r, !.rows[r] = row[r]]
  <2>2. s.op = "release" /\ s.claimed = {} /\ s.lines = Idle.lines /\ s.reservation = r /\ s.rows[r] = row[r]
    BY DEF Idle
  <2>3. Begin(t, s)
    BY <2>1
  <2> HIDE DEF s
  <2>4. Lines(s) = {}
    BY <1>2, <2>2 DEF Lines
  <2> QED
    BY <1>3, <2>1, <2>2, <2>3, <2>4
<1>7. CASE BeginCut(t)
  BY <1>5, <1>7 DEF BeginCut, Idle, Existing
<1>8. CASE BeginSet(t)
  BY <1>5, <1>8 DEF BeginSet, Idle
<1>9. CASE BeginUpdate(t)
  BY <1>5, <1>9 DEF BeginUpdate, Idle
<1>10. CASE BeginMove(t)
  BY <1>5, <1>10 DEF BeginMove, Idle
<1>11. CASE BeginArchive(t)
  BY <1>5, <1>11 DEF BeginArchive, Idle, Existing
<1>12. CASE BeginRestore(t)
  BY <1>5, <1>12 DEF BeginRestore, Idle
<1>13. ~BeginConsume(t) /\ ~BeginConsumeItem(t)
  <2>1. ASSUME NEW s, Begin(t, s) PROVE s.op \notin {"consume", "consumeItem"}
    BY <2>1 DEF Begin
  <2>3. ASSUME BeginConsume(t) PROVE FALSE
    <3>1. PICK r \in Reservations, q \in 1 .. MaxQuantity :
            Begin(t, [Idle EXCEPT !.op = "consume", !.reservation = r, !.quantity = q,
                        !.batch = row[r].batch, !.pending = {row[r].batch}, !.rows[r] = row[r],
                        !.quantities[row[r].batch] = batch[row[r].batch].quantity])
      BY <2>3 DEF BeginConsume
    <3> DEFINE s == [Idle EXCEPT !.op = "consume", !.reservation = r, !.quantity = q,
                        !.batch = row[r].batch, !.pending = {row[r].batch}, !.rows[r] = row[r],
                        !.quantities[row[r].batch] = batch[row[r].batch].quantity]
    <3>2. s.op = "consume"
      BY DEF Idle
    <3>3. Begin(t, s)
      BY <3>1
    <3> HIDE DEF s
    <3> QED
      BY <2>1, <3>2, <3>3
  <2>4. ASSUME BeginConsumeItem(t) PROVE FALSE
    <3>1. PICK r \in Reservations, q \in 1 .. MaxQuantity :
            Begin(t, [Idle EXCEPT !.op = "consumeItem", !.reservation = r, !.quantity = q,
                        !.scanned = FALSE, !.rows[r] = row[r]])
      BY <2>4 DEF BeginConsumeItem
    <3> DEFINE s == [Idle EXCEPT !.op = "consumeItem", !.reservation = r, !.quantity = q,
                        !.scanned = FALSE, !.rows[r] = row[r]]
    <3>2. s.op = "consumeItem"
      BY DEF Idle
    <3>3. Begin(t, s)
      BY <3>1
    <3> HIDE DEF s
    <3> QED
      BY <2>1, <3>2, <3>3
  <2> QED
    BY <2>3, <2>4
<1> QED
  BY <1>4, <1>6, <1>7, <1>8, <1>9, <1>10, <1>11, <1>12, <1>13 DEF Arrive

\* A granted lock stays with its request; reservations are claimed as they are stored.
LEMMA ReservationAdvances ==
  ASSUME ReservationInvariant, LedgerInvariant', NEW t \in Sessions,
         LockRow(t) \/ ScanBatches(t) \/ LockReservations(t)
  PROVE  ReservationInvariant'
<1> USE DEF ReservationInvariant
<1>1. /\ TypeOK /\ session \in [Sessions -> Session] /\ session[t] \in Session
      /\ UNCHANGED <<row, drawn>>
  BY DEF LedgerInvariant, TypeOK, LockRow, ScanBatches, LockReservations, tables
<1>2. RowsLegal' /\ DrawsAccounted'
  BY <1>1 DEF RowsLegal, DrawsAccounted
<1>3. ASSUME NEW s, session' = [session EXCEPT ![t] = s], s.op = session[t].op, s.lines = session[t].lines,
             s.batch = session[t].batch, s.reservation = session[t].reservation,
             session[t].held \subseteq s.held,
             s.op = "reserve" => session[t].held \cup session[t].pending = s.held \cup s.pending,
             s.op = "release" => s.rows = session[t].rows,
             \A r \in s.claimed :
               \/ r \in session[t].claimed /\ s.rows[r] = session[t].rows[r]
               \/ /\ s.op \in {"cut", "archive"} /\ s.batch \in s.held
                  /\ s.rows[r] = row[r] /\ Active(row[r]) /\ row[r].batch = s.batch
      PROVE  ReservationInvariant'
  <2>1. \A u \in Sessions : session'[u] = IF u = t THEN s ELSE session[u]
    BY <1>1, <1>3
  <2>2. NotCharging'
    BY <1>3, <2>1 DEF NotCharging
  <2>3. Lines(s) = Lines(session[t])
    BY <1>3 DEF Lines
  <2>4. Numbered'
    <3> SUFFICES ASSUME NEW u \in Sessions, NEW r \in Lines(session'[u])
                 PROVE  /\ session'[u].op = "reserve" /\ row[r].status = "none"
                        /\ session'[u].lines[r].batch \in session'[u].held \cup session'[u].pending \cup {ItemRow}
                        /\ \A x \in Sessions \ {u} : r \notin Lines(session'[x])
      BY <1>1 DEF Numbered
    <3>1. \A x \in Sessions : Lines(session'[x]) = Lines(session[x])
      BY <2>1, <2>3
    <3>2. /\ session[u].op = "reserve" /\ row[r].status = "none"
          /\ session[u].lines[r].batch \in session[u].held \cup session[u].pending \cup {ItemRow}
          /\ \A x \in Sessions \ {u} : r \notin Lines(session[x])
      BY <3>1 DEF Numbered
    <3> QED
      BY <1>3, <2>1, <3>1, <3>2
  <2>5. ClaimsFresh'
    <3>1. ASSUME NEW r \in s.claimed
          PROVE  /\ s.op \in {"cut", "archive"} /\ s.batch \in s.held
                 /\ s.rows[r] = row[r] /\ Active(row[r]) /\ row[r].batch = s.batch
      BY <1>3, <3>1 DEF ClaimsFresh
    <3>2. s.op \in {"cut", "archive"} => s.batch \in Batches
      BY <1>3 DEF ClaimsFresh
    <3> QED
      BY <1>1, <2>1, <3>1, <3>2 DEF ClaimsFresh
  <2>6. ReleaseStale'
    BY <1>1, <1>3, <2>1 DEF ReleaseStale
  <2> QED
    BY <1>2, <2>2, <2>4, <2>5, <2>6
<1>4. CASE LockRow(t)
  <2>1. PICK x \in Rows : NextRow(t, x) /\ session' = [session EXCEPT ![t] = Granted(@, x)]
    BY <1>4 DEF LockRow
  <2> DEFINE s == Granted(session[t], x)
  <2>2. /\ s.op = session[t].op /\ s.reservation = session[t].reservation /\ s.lines = session[t].lines
        /\ s.held = session[t].held \cup {x} /\ s.pending = session[t].pending \ {x}
        /\ s.batch = session[t].batch /\ s.claimed = session[t].claimed /\ s.rows = session[t].rows
    BY <1>1 DEF Granted, Session
  <2>3. x \in session[t].pending
    BY <2>1 DEF NextRow
  <2> HIDE DEF s
  <2> QED
    BY <1>3, <2>1, <2>2, <2>3 DEF s
<1>5. CASE ScanBatches(t)
  <2>0. PICK dates : session' = [session EXCEPT ![t] = Scanned(session[t], dates)]
    BY <1>5 DEF ScanBatches
  <2> DEFINE s == Scanned(session[t], dates)
  <2>1. session' = [session EXCEPT ![t] = s] /\ session[t].op \in {"set", "consumeItem"}
    BY <1>5, <2>0 DEF ScanBatches
  <2>2. /\ s.op = session[t].op /\ s.reservation = session[t].reservation /\ s.lines = session[t].lines
        /\ s.held = session[t].held
        /\ s.batch = session[t].batch /\ s.claimed = session[t].claimed /\ s.rows = session[t].rows
    BY <1>1 DEF Scanned, Session
  <2> HIDE DEF s
  <2> QED
    BY <1>3, <2>1, <2>2
<1>6. CASE LockReservations(t)
  <2> DEFINE s == Claiming(session[t])
  <2>1. /\ session' = [session EXCEPT ![t] = s] /\ session[t].op \in {"cut", "archive"}
        /\ session[t].pending = {}
    BY <1>6 DEF LockReservations
  <2>2. /\ s.op = session[t].op /\ s.reservation = session[t].reservation /\ s.lines = session[t].lines
        /\ s.held = session[t].held /\ s.batch = session[t].batch /\ s.claimed = Wanted(session[t])
        /\ s.rows = [r \in Reservations |-> IF r \in Wanted(session[t]) THEN row[r] ELSE NoRow]
    BY <1>1 DEF Claiming, Session
  <2>3. session[t].batch \in session[t].held
    <3>1. session[t].batch \in Batches
      BY <2>1 DEF ClaimsFresh
    <3> QED
      BY <2>1, <3>1, MaterialAssumption DEF LedgerInvariant, TargetLocked
  <2>4. \A r \in Wanted(session[t]) :
          r \in Reservations /\ Active(row[r]) /\ row[r].batch = session[t].batch
    BY DEF Wanted
  <2> HIDE DEF s
  <2>5. \A r \in s.claimed : /\ s.op \in {"cut", "archive"} /\ s.batch \in s.held
                             /\ s.rows[r] = row[r] /\ Active(row[r]) /\ row[r].batch = s.batch
    BY <2>1, <2>2, <2>3, <2>4
  <2>6. session[t].held \subseteq s.held /\ s.op # "reserve" /\ s.op # "release"
    BY <2>1, <2>2
  <2> QED
    BY <1>3, <2>1, <2>2, <2>5, <2>6
<1> QED
  BY <1>4, <1>5, <1>6

\* Every step keeps what is known of the reservations.
LEMMA ReservationNext ==
  ASSUME ReservationInvariant, {"consume", "consumeItem"} \cap Operations = {}, [Next]_vars
  PROVE  ReservationInvariant'
<1>1. LedgerInvariant'
  BY LedgerNext DEF ReservationInvariant
<1>2. ASSUME NEW t \in Sessions, End(t), UNCHANGED tables PROVE ReservationInvariant'
  BY <1>1, <1>2, UntouchedEffect, EffectKeeps DEF tables
<1>3. ASSUME NEW t \in Sessions, Commit(t) PROVE ReservationInvariant'
  <2>1. End(t)
    BY <1>3 DEF Commit, CommitReserve, CommitRelease, CommitConsume, CommitConsumeItem, CommitCut,
       CommitSetLoose, CommitSetUp, CommitSetDown, CommitUpdate, CommitMove, CommitArchive,
       CommitRestore
  <2> QED
    BY <1>1, <1>3, <2>1, CommitEffect, EffectKeeps
<1>4. ASSUME NEW t \in Sessions, Arrive(t) PROVE ReservationInvariant'
  BY <1>1, <1>4, ReservationArrives
<1>5. ASSUME NEW t \in Sessions, LockRow(t) \/ ScanBatches(t) \/ LockReservations(t)
      PROVE  ReservationInvariant'
  BY <1>1, <1>5, ReservationAdvances
<1>6. ASSUME UNCHANGED <<session, row, drawn>> PROVE ReservationInvariant'
  <2>1. NotCharging' /\ RowsLegal' /\ DrawsAccounted' /\ Numbered'
    BY <1>6 DEF ReservationInvariant, NotCharging, RowsLegal, DrawsAccounted, Numbered
  <2>2. ClaimsFresh' /\ ReleaseStale'
    BY <1>6 DEF ReservationInvariant, ClaimsFresh, ReleaseStale
  <2> QED
    BY <1>1, <2>1, <2>2 DEF ReservationInvariant
<1>7. CASE Receive
  BY <1>6, <1>7 DEF Receive
<1>8. CASE UNCHANGED vars
  BY <1>6, <1>8 DEF vars
<1> QED
  BY <1>2, <1>3, <1>4, <1>5, <1>7, <1>8 DEF Next, Advance, Reject, AbortVictim, Crash

\* The reservations of an item before any request.
StartLegal == \A r \in Reservations : LegalRow(StartRows[r])

\* It holds of the item before any request.
LEMMA ReservationInit ==
  ASSUME "consume" \notin Operations, StartLegal, Init
  PROVE  ReservationInvariant
<1>1. LedgerInvariant
  BY LedgerInit
<1>2. \A t \in Sessions : session[t] = Idle
  BY DEF Init
<1>3. Idle.op = "idle" /\ Idle.claimed = {} /\ Lines(Idle) = {}
  BY DEF Idle, Lines, NoLine
<1>4. NotCharging /\ Numbered /\ ClaimsFresh /\ ReleaseStale
  BY <1>2, <1>3 DEF NotCharging, Numbered, ClaimsFresh, ReleaseStale
<1>5. RowsLegal /\ DrawsAccounted
  BY DEF Init, StartLegal, RowsLegal, DrawsAccounted
<1> QED
  BY <1>1, <1>4, <1>5 DEF ReservationInvariant

\* A step leaves a closed reservation as it is.
LEMMA ClosedStays ==
  ASSUME ReservationInvariant, [Next]_vars, NEW r \in Reservations,
         row[r].status \in {"consumed", "released"}
  PROVE  row'[r] = row[r]
<1>1. ASSUME NEW t \in Sessions, Commit(t) PROVE row'[r] = row[r]
  <2>1. Effect(t)
    BY <1>1, CommitEffect
  <2>2. r \notin Lines(session[t])
    BY DEF ReservationInvariant, Numbered
  <2> QED
    BY <2>1, <2>2 DEF Effect, Forward, Active, ActiveStatus
<1>2. ASSUME NEW t \in Sessions, Arrive(t) PROVE row' = row
  BY <1>2 DEF Arrive, BeginReserve, BeginRelease, BeginConsume, BeginConsumeItem,
     BeginCut, BeginSet, BeginUpdate, BeginMove, BeginArchive, BeginRestore, Begin, tables
<1>3. ASSUME NEW t \in Sessions,
             LockRow(t) \/ ScanBatches(t) \/ LockReservations(t) \/ Reject(t) \/ AbortVictim(t) \/ Crash(t)
      PROVE  row' = row
  BY <1>3 DEF LockRow, ScanBatches, LockReservations, Reject, AbortVictim, Crash, tables
<1> QED
  BY <1>1, <1>2, <1>3 DEF Next, Advance, Receive, vars

\* What holds of the reservations as long as they are charged by cutting alone.
THEOREM ReservationInvariantHolds ==
  ASSUME {"consume", "consumeItem"} \cap Operations = {}, StartLegal
  PROVE  Spec => []ReservationInvariant
<1>1. Init => ReservationInvariant
  BY ReservationInit
<1>2. ReservationInvariant /\ [Next]_vars => ReservationInvariant'
  BY ReservationNext
<1> QED
  BY <1>1, <1>2, PTL DEF Spec

\* What a reservation says it consumed is what cutting took from stock for it, although
\* every request works on the copy of the row it loaded.
THEOREM DrawsAlwaysAccounted ==
  ASSUME {"consume", "consumeItem"} \cap Operations = {}, StartLegal
  PROVE  Spec => []DrawsAccounted
<1>1. ReservationInvariant => DrawsAccounted
  BY DEF ReservationInvariant
<1> QED
  BY <1>1, ReservationInvariantHolds, PTL

\* A reservation that was consumed or released is never reopened or rewritten.
THEOREM ClosedStaysFinal ==
  ASSUME {"consume", "consumeItem"} \cap Operations = {}, StartLegal
  PROVE  Spec => ClosedIsFinal
<1>1. ReservationInvariant /\ [Next]_vars =>
        [\A r \in Reservations : row[r].status \in {"consumed", "released"} => row'[r] = row[r]]_row
  BY ClosedStays
<1> QED
  BY <1>1, ReservationInvariantHolds, PTL DEF Spec, ClosedIsFinal

-----------------------------------------------------------------------------
(***************************************************************************)
(* Backing.  With cutting held to the reservations and without corrections *)
(* every commit is a step of StockLedger on the stored rows, and a step of *)
(* StockLedger leaves each batch with what its reservations still ask for. *)
(***************************************************************************)

\* An archiving request holds all that is reserved on its batch.
Complete ==
  \A t \in Sessions : session[t].op = "archive" /\ session[t].scanned =>
    /\ session[t].batch \in session[t].held
    /\ \A r \in Reservations : Active(row[r]) /\ row[r].batch = session[t].batch => r \in session[t].claimed

BackingInvariant == ReservationInvariant /\ LockOrder /\ Complete /\ Backed

\* What the row v keeps reserved on the batch b.
Part(v, b) == IF v.batch = b THEN v.reserved - v.consumed - v.released ELSE 0
Parts(R, b) == [r \in Reservations |-> Part(R[r], b)]

\* What a legal row keeps reserved is what its open quantity says.
LEMMA PartOpen ==
  ASSUME NEW v \in ReservationRow, LegalRow(v), NEW b \in Batches
  PROVE  /\ Part(v, b) \in Nat
         /\ Part(v, b) = IF Active(v) /\ v.batch = b THEN Open(v) ELSE 0
<1>1. v.reserved \in Nat /\ v.consumed \in Nat /\ v.released \in Nat
  BY DEF ReservationRow
<1>2. CASE v.status = "none"
  BY <1>2, MaterialAssumption DEF LegalRow, NoRow, Part, Active, ActiveStatus
<1>3. CASE v.status # "none" /\ Active(v)
  BY <1>1, <1>3, FreeForward DEF Part
<1>4. CASE v.status # "none" /\ ~Active(v)
  <2>1. v.consumed + v.released <= v.reserved
    BY <1>4 DEF LegalRow, Legal
  <2>2. v.reserved - v.consumed - v.released <= 0
    <3>1. StatusFor(v.reserved, v.consumed, v.released) \notin ActiveStatus
      BY <1>4 DEF LegalRow, Active
    <3> QED
      BY <1>1, <3>1 DEF StatusFor, ActiveStatus
  <2> QED
    BY <1>1, <1>4, <2>1, <2>2 DEF Part
<1> QED
  BY <1>2, <1>3, <1>4

\* The same of a table of rows.
LEMMA PartsSum ==
  ASSUME NEW R \in [Reservations -> ReservationRow], \A r \in Reservations : LegalRow(R[r]),
         NEW b \in Batches
  PROVE  /\ Parts(R, b) \in [Reservations -> Nat] /\ SumOf(Parts(R, b)) \in Nat
         /\ SumOf([r \in Reservations |-> IF Active(R[r]) /\ R[r].batch = b THEN Open(R[r]) ELSE 0])
              = SumOf(Parts(R, b))
<1>1. \A r \in Reservations :
        /\ Part(R[r], b) \in Nat
        /\ Part(R[r], b) = IF Active(R[r]) /\ R[r].batch = b THEN Open(R[r]) ELSE 0
  BY PartOpen
<1>2. Parts(R, b) \in [Reservations -> Nat]
  BY <1>1 DEF Parts
<1>3. Parts(R, b) = [r \in Reservations |-> IF Active(R[r]) /\ R[r].batch = b THEN Open(R[r]) ELSE 0]
  BY <1>1 DEF Parts
<1> QED
  BY <1>2, <1>3, UnitsFinite, MaterialAssumption

\* The reservations and balances as StockLedger sees them.
Accounts ==
  [r \in Reservations |->
    [batch |-> row[r].batch, reserved |-> row[r].reserved,
     consumed |-> row[r].consumed, released |-> row[r].released]]

\* The columns of a reservation as StockLedger reads them.
LEMMA AccountFields ==
  ASSUME NEW r \in Reservations
  PROVE  /\ Accounts[r].batch = row[r].batch /\ Accounts[r].reserved = row[r].reserved
         /\ Accounts[r].consumed = row[r].consumed /\ Accounts[r].released = row[r].released
         /\ Accounts'[r].batch = row'[r].batch /\ Accounts'[r].reserved = row'[r].reserved
         /\ Accounts'[r].consumed = row'[r].consumed /\ Accounts'[r].released = row'[r].released
  BY DEF Accounts

\* StockLedger's totals are those of Sums.
LEMMA SameSum ==
  ASSUME NEW f
  PROVE  Ledger!SumOf(f) = SumOf(f)
<1>1. \A x : Ledger!Units(f, x) = Units(f, x)
  BY DEF Ledger!Units, Units
<1>2. UNION {Ledger!Units(f, x) : x \in DOMAIN f} = UNION {Units(f, x) : x \in DOMAIN f}
  BY <1>1
<1> DEFINE U == UNION {Units(f, x) : x \in DOMAIN f}
           L == UNION {Ledger!Units(f, x) : x \in DOMAIN f}
<1>3. Ledger!SumOf(f) = Cardinality(L) /\ SumOf(f) = Cardinality(U)
  BY DEF Ledger!SumOf, SumOf, Ledger!Cardinality, Cardinality
<1> HIDE DEF U, L
<1>4. L = U
  BY <1>2 DEF L, U
<1> QED
  BY <1>3, <1>4

\* What a batch has promised, before a step and
LEMMA OutstandingNow ==
  ASSUME TypeOK, RowsLegal, NEW b \in Batches
  PROVE  /\ ReservedOn(b) = SumOf(Parts(row, b)) /\ Ledger!Outstanding(b) = SumOf(Parts(row, b))
         /\ Parts(row, b) \in [Reservations -> Nat] /\ SumOf(Parts(row, b)) \in Nat
<1>1. row \in [Reservations -> ReservationRow] /\ \A r \in Reservations : LegalRow(row[r])
  BY DEF TypeOK, RowsLegal
<1>2. Ledger!Outstanding(b) = SumOf(Parts(row, b))
  <2>1. [r \in Reservations |->
           IF Accounts[r].batch = b THEN Accounts[r].reserved - Accounts[r].consumed - Accounts[r].released
           ELSE 0] = Parts(row, b)
    BY AccountFields DEF Parts, Part
  <2> QED
    BY <2>1, SameSum DEF Ledger!Outstanding, Ledger!Claim, Accounts
<1> QED
  BY <1>1, <1>2, PartsSum DEF ReservedOn, ClaimsOn

\* after it.
LEMMA OutstandingNext ==
  ASSUME TypeOK', RowsLegal', NEW b \in Batches
  PROVE  /\ ReservedOn(b)' = SumOf(Parts(row', b)) /\ Ledger!Outstanding(b)' = SumOf(Parts(row', b))
         /\ Parts(row', b) \in [Reservations -> Nat] /\ SumOf(Parts(row', b)) \in Nat
<1>1. row' \in [Reservations -> ReservationRow] /\ \A r \in Reservations : LegalRow(row'[r])
  BY DEF TypeOK, RowsLegal
<1>2. Ledger!Outstanding(b)' = SumOf(Parts(row', b))
  <2>1. [r \in Reservations |->
           IF Accounts'[r].batch = b THEN Accounts'[r].reserved - Accounts'[r].consumed - Accounts'[r].released
           ELSE 0] = Parts(row', b)
    BY AccountFields DEF Parts, Part
  <2> QED
    BY <2>1, SameSum DEF Ledger!Outstanding, Ledger!Claim, Accounts
<1> QED
  BY <1>1, <1>2, PartsSum DEF ReservedOn, ClaimsOn

\* A step of StockLedger keeps every batch above its reservations.
LEMMA LedgerBacks ==
  ASSUME TypeOK, TypeOK', RowsLegal, RowsLegal', Backed, Ledger!Next
  PROVE  Backed'
<1> SUFFICES ASSUME NEW b \in Batches PROVE SumOf(Parts(row', b)) <= batch'[b].quantity
  BY OutstandingNext DEF Backed
<1>1. /\ SumOf(Parts(row, b)) <= batch[b].quantity
      /\ SumOf(Parts(row, b)) \in Nat /\ SumOf(Parts(row', b)) \in Nat
      /\ Parts(row, b) \in [Reservations -> Nat] /\ Parts(row', b) \in [Reservations -> Nat]
  BY OutstandingNow, OutstandingNext DEF Backed
<1>2. batch[b].quantity \in Nat /\ batch'[b].quantity \in Nat /\ IsFiniteSet(Reservations)
  BY MaterialAssumption DEF TypeOK, BatchRow
<1>3. \A r \in Reservations :
        /\ row[r].reserved \in Nat /\ row[r].consumed \in Nat /\ row[r].released \in Nat
        /\ row'[r].reserved \in Nat /\ row'[r].consumed \in Nat /\ row'[r].released \in Nat
  <2>1. \A r \in Reservations : row[r] \in ReservationRow /\ row'[r] \in ReservationRow
    BY DEF TypeOK
  <2> QED
    BY <2>1 DEF ReservationRow
<1>4. CASE Ledger!Reserve
  BY <1>4, OutstandingNext DEF Ledger!Reserve
<1>5. CASE Ledger!Consume
  <2> DEFINE used == [r \in Reservations |-> IF row[r].batch = b THEN row'[r].consumed - row[r].consumed ELSE 0]
  <2>1. batch[b].quantity - batch'[b].quantity = SumOf(used)
    <3>1. [r \in Reservations |->
             IF Accounts[r].batch = b THEN Accounts'[r].consumed - Accounts[r].consumed ELSE 0] = used
      BY AccountFields
    <3>2. batch[b].quantity - batch'[b].quantity =
            SumOf([r \in Reservations |->
                     IF Accounts[r].batch = b THEN Accounts'[r].consumed - Accounts[r].consumed ELSE 0])
      BY <1>5, SameSum DEF Ledger!Consume, Accounts
    <3> QED
      BY <3>1, <3>2
  <2>2. ASSUME NEW r \in Reservations
        PROVE  /\ row'[r].batch = row[r].batch /\ row'[r].reserved = row[r].reserved
               /\ row'[r].released = row[r].released /\ row'[r].consumed >= row[r].consumed
    <3>1. /\ Accounts'[r] = [Accounts[r] EXCEPT !.consumed = Accounts'[r].consumed]
          /\ Accounts'[r].consumed >= Accounts[r].consumed
      BY <1>5 DEF Ledger!Consume, Accounts
    <3>2. /\ Accounts'[r].batch = Accounts[r].batch /\ Accounts'[r].reserved = Accounts[r].reserved
          /\ Accounts'[r].released = Accounts[r].released
      BY <3>1 DEF Accounts
    <3> QED
      BY <3>1, <3>2, AccountFields
  <2>3. used \in [Reservations -> Nat]
    BY <1>3, <2>2
  <2>4. \A r \in Reservations : Parts(row, b)[r] = Parts(row', b)[r] + used[r]
    BY <1>3, <2>2 DEF Parts, Part
  <2> HIDE DEF used
  <2>5. SumOf(used) \in Nat
    BY <1>2, <2>3, UnitsFinite
  <2>6. SumOf(Parts(row, b)) = SumOf(Parts(row', b)) + SumOf(used)
    BY ONLY <1>1, <1>2, <2>3, <2>4, SumAdds
  <2> QED
    BY <1>1, <1>2, <2>1, <2>5, <2>6
<1>6. CASE Ledger!Release
  <2>1. batch'[b].quantity = batch[b].quantity
    BY <1>6 DEF Ledger!Release
  <2>2. ASSUME NEW r \in Reservations
        PROVE  /\ row'[r].batch = row[r].batch /\ row'[r].reserved = row[r].reserved
               /\ row'[r].consumed = row[r].consumed
               /\ \/ row'[r].released = row[r].released
                  \/ row'[r].released = row[r].released + (row[r].reserved - row[r].consumed - row[r].released)
    <3> DEFINE open == Accounts[r].reserved - Accounts[r].consumed - Accounts[r].released
    <3>1. Accounts'[r] # Accounts[r] => Accounts'[r] = [Accounts[r] EXCEPT !.released = @ + open]
      BY <1>6 DEF Ledger!Release, Ledger!Claim, Accounts
    <3>2. \/ Accounts'[r] = Accounts[r]
          \/ /\ Accounts'[r].batch = Accounts[r].batch /\ Accounts'[r].reserved = Accounts[r].reserved
             /\ Accounts'[r].consumed = Accounts[r].consumed
             /\ Accounts'[r].released = Accounts[r].released + open
      BY <3>1 DEF Accounts
    <3> QED
      BY <3>2, AccountFields
  <2>3. \A r \in Reservations : Parts(row', b)[r] <= Parts(row, b)[r]
    <3>1. \A r \in Reservations : Part(row[r], b) \in Nat
      BY <1>1 DEF Parts
    <3> QED
      BY <1>3, <2>2, <3>1 DEF Parts, Part
  <2> QED
    BY <1>1, <1>2, <2>1, <2>3, SumMonotone
<1>7. CASE Ledger!Post
  <2>1. PICK c \in Batches : /\ \A d \in Batches \ {c} : batch'[d].quantity = batch[d].quantity
                             /\ Ledger!Outstanding(c) <= batch'[c].quantity
    BY <1>7 DEF Ledger!Post
  <2>2. Parts(row', b) = Parts(row, b)
    <3>1. \A r \in Reservations : /\ row'[r].batch = row[r].batch /\ row'[r].reserved = row[r].reserved
                                  /\ row'[r].consumed = row[r].consumed /\ row'[r].released = row[r].released
      <4>1. Accounts' = Accounts
        BY <1>7 DEF Ledger!Post, Accounts
      <4> QED
        BY <4>1, AccountFields
    <3> QED
      BY <3>1 DEF Parts, Part
  <2> QED
    BY <1>1, <2>1, <2>2, OutstandingNow
<1>8. CASE Ledger!WriteOff
  <2>1. PICK c \in Batches :
          /\ [d \in Batches |-> batch'[d].quantity] = [[d \in Batches |-> batch[d].quantity] EXCEPT ![c] = 0]
          /\ \A r \in Reservations :
               Accounts'[r] =
                 IF Accounts[r].batch = c
                   THEN [Accounts[r] EXCEPT !.released =
                           @ + (Accounts[r].reserved - Accounts[r].consumed - Accounts[r].released)]
                   ELSE Accounts[r]
    BY <1>8 DEF Ledger!WriteOff, Ledger!Claim, Accounts
  <2>4. ASSUME NEW r \in Reservations
        PROVE  /\ row'[r].batch = row[r].batch /\ row'[r].reserved = row[r].reserved
               /\ row'[r].consumed = row[r].consumed
               /\ row'[r].released = row[r].released +
                    (IF row[r].batch = c THEN row[r].reserved - row[r].consumed - row[r].released ELSE 0)
    <3>1. CASE row[r].batch = c
      <4>1. Accounts'[r] = [Accounts[r] EXCEPT !.released =
                              @ + (Accounts[r].reserved - Accounts[r].consumed - Accounts[r].released)]
        BY <2>1, <3>1, AccountFields
      <4>2. /\ Accounts'[r].batch = Accounts[r].batch /\ Accounts'[r].reserved = Accounts[r].reserved
            /\ Accounts'[r].consumed = Accounts[r].consumed
            /\ Accounts'[r].released = Accounts[r].released +
                 (Accounts[r].reserved - Accounts[r].consumed - Accounts[r].released)
        BY <4>1 DEF Accounts
      <4> QED
        BY <3>1, <4>2, AccountFields
    <3>2. CASE row[r].batch # c
      <4>1. Accounts'[r] = Accounts[r]
        BY <2>1, <3>2, AccountFields
      <4> QED
        BY <1>3, <3>2, <4>1, AccountFields
    <3> QED
      BY <3>1, <3>2
  <2>2. CASE b = c
    <3>1. \A r \in Reservations : Parts(row', b)[r] = 0
      BY <1>3, <2>2, <2>4 DEF Parts, Part
    <3>2. SumOf(Parts(row', b)) = 0
      BY <1>1, <1>2, <3>1, SumZero
    <3> QED
      BY <1>2, <3>2
  <2>3. CASE b # c
    <3>1. Parts(row', b) = Parts(row, b)
      BY <1>3, <2>3, <2>4 DEF Parts, Part
    <3>2. batch'[b].quantity = batch[b].quantity
      BY <2>1, <2>3
    <3> QED
      BY <1>1, <3>1, <3>2
  <2> QED
    BY <2>2, <2>3
<1> QED
  BY <1>4, <1>5, <1>6, <1>7, <1>8 DEF Ledger!Next

\* The balances as StockLedger sees them.
Balances == [b \in Batches |-> batch[b].quantity]

\* How steps of StockLedger are recognised in the tables.
LEMMA PostStep ==
  ASSUME TypeOK, RowsLegal, LedgerBalanced, LedgerBalanced', row' = row, NEW b \in Batches,
         \A c \in Batches \ {b} : batch'[c].quantity = batch[c].quantity,
         ReservedOn(b) <= batch'[b].quantity
  PROVE  Ledger!Post
<1>1. Accounts' = Accounts
  BY DEF Accounts
<1>2. Ledger!Recorded
  BY DEF LedgerBalanced, Ledger!Recorded
<1>3. Ledger!Outstanding(b) <= batch'[b].quantity
  BY OutstandingNow
<1> QED
  BY <1>1, <1>2, <1>3 DEF Ledger!Post, Accounts

\* Steps that StockLedger does not see.
LEMMA QuietStep ==
  ASSUME row' = row, LedgerBalanced, LedgerBalanced', batch' = batch, ledger' = ledger
  PROVE  UNCHANGED Ledger!vars
  BY DEF Ledger!vars

\* Reservations that close.
LEMMA ReleaseStep ==
  ASSUME TypeOK, TypeOK', batch' = batch, ledger' = ledger,
         \A r \in Reservations : row'[r] = row[r] \/ Closing(row[r], row'[r])
  PROVE  Ledger!Release
<1>1. Balances' = Balances
  BY DEF Balances
<1>2. ASSUME NEW r \in Reservations, Accounts'[r] # Accounts[r]
      PROVE  Accounts'[r] = [Accounts[r] EXCEPT !.released =
                @ + (Accounts[r].reserved - Accounts[r].consumed - Accounts[r].released)]
  <2>1. Closing(row[r], row'[r])
    BY <1>2 DEF Accounts
  <2>2. row[r].reserved \in Nat /\ row[r].consumed \in Nat /\ row[r].released \in Nat
    <3>1. row[r] \in ReservationRow
      BY DEF TypeOK
    <3> QED
      BY <3>1 DEF ReservationRow
  <2>3. row'[r].released = row[r].released + (row[r].reserved - row[r].consumed - row[r].released)
    BY <2>1, <2>2 DEF Closing
  <2> QED
    BY <2>1, <2>3 DEF Closing, SameClaim, Accounts
<1> QED
  BY <1>1, <1>2 DEF Ledger!Release, Ledger!Claim, Accounts, Balances

\* A batch emptied together with its reservations.
LEMMA WriteOffStep ==
  ASSUME TypeOK, TypeOK', LedgerBalanced, LedgerBalanced', RowsLegal, NEW b \in Batches,
         \A c \in Batches : batch'[c].quantity = IF c = b THEN 0 ELSE batch[c].quantity,
         \A r \in Reservations :
           IF Active(row[r]) /\ row[r].batch = b THEN Closing(row[r], row'[r]) ELSE row'[r] = row[r]
  PROVE  Ledger!WriteOff
<1>1. Balances' = [Balances EXCEPT ![b] = 0]
  BY DEF Balances
<1>2. Ledger!Recorded
  BY DEF LedgerBalanced, Ledger!Recorded
<1>3. ASSUME NEW r \in Reservations
      PROVE  Accounts'[r] = IF Accounts[r].batch = b
               THEN [Accounts[r] EXCEPT !.released =
                       @ + (Accounts[r].reserved - Accounts[r].consumed - Accounts[r].released)]
               ELSE Accounts[r]
  <2>1. row[r].reserved \in Nat /\ row[r].consumed \in Nat /\ row[r].released \in Nat /\ row[r] \in ReservationRow
    <3>1. row[r] \in ReservationRow
      BY DEF TypeOK
    <3> QED
      BY <3>1 DEF ReservationRow
  <2>2. CASE row[r].batch # b
    BY <2>2 DEF Accounts
  <2>3. CASE row[r].batch = b /\ Active(row[r])
    <3>1. Closing(row[r], row'[r])
      BY <2>3
    <3>2. row'[r].released = row[r].released + (row[r].reserved - row[r].consumed - row[r].released)
      BY <2>1, <3>1 DEF Closing
    <3> QED
      BY <2>3, <3>1, <3>2 DEF Closing, SameClaim, Accounts
  <2>4. CASE row[r].batch = b /\ ~Active(row[r])
    <3>1. Part(row[r], b) = 0
      BY <2>1, <2>4, PartOpen DEF RowsLegal
    <3>2. row[r].released = row[r].released + (row[r].reserved - row[r].consumed - row[r].released)
      BY <2>1, <2>4, <3>1 DEF Part
    <3>3. row'[r] = row[r]
      BY <2>4
    <3> QED
      BY <2>4, <3>2, <3>3 DEF Accounts
  <2> QED
    BY <2>2, <2>3, <2>4
<1> QED
  BY <1>1, <1>2, <1>3 DEF Ledger!WriteOff, Ledger!Claim, Accounts, Balances

\* Reservations charged with what their batches give up.
LEMMA ConsumeStep ==
  ASSUME TypeOK, TypeOK', LedgerBalanced, LedgerBalanced', RowsLegal',
         NEW used \in [Reservations -> Nat],
         \A r \in Reservations :
           /\ SameClaim(row[r], row'[r]) /\ row'[r].released = row[r].released
           /\ row'[r].consumed = row[r].consumed + used[r],
         \A b \in Batches : batch[b].quantity - batch'[b].quantity =
           SumOf([r \in Reservations |-> IF row[r].batch = b THEN used[r] ELSE 0])
  PROVE  Ledger!Consume
<1>2. Ledger!Recorded
  BY DEF LedgerBalanced, Ledger!Recorded
<1>3. \A r \in Reservations :
        /\ row[r].reserved \in Nat /\ row[r].consumed \in Nat /\ row[r].released \in Nat /\ used[r] \in Nat
        /\ row'[r].reserved \in Nat /\ row'[r].consumed \in Nat /\ row'[r].released \in Nat
        /\ row'[r] \in ReservationRow
  <2>1. \A r \in Reservations : row[r] \in ReservationRow /\ row'[r] \in ReservationRow
    BY DEF TypeOK
  <2> QED
    BY <2>1 DEF ReservationRow
<1>4. ASSUME NEW r \in Reservations
      PROVE  /\ Accounts'[r] = [Accounts[r] EXCEPT !.consumed = Accounts'[r].consumed]
             /\ Accounts'[r].consumed >= Accounts[r].consumed
             /\ Accounts'[r].reserved - Accounts'[r].consumed - Accounts'[r].released >= 0
  <2>1. Accounts'[r] = [Accounts[r] EXCEPT !.consumed = Accounts'[r].consumed]
    BY DEF Accounts, SameClaim
  <2>2. row'[r].reserved - row'[r].consumed - row'[r].released >= 0
    BY <1>3 DEF RowsLegal, LegalRow, Legal, NoRow
  <2> QED
    BY <1>3, <2>1, <2>2, AccountFields
<1>5. ASSUME NEW b \in Batches
      PROVE  Balances[b] - Balances'[b] =
               SumOf([r \in Reservations |->
                        IF Accounts[r].batch = b THEN Accounts'[r].consumed - Accounts[r].consumed ELSE 0])
  <2>1. [r \in Reservations |-> IF row[r].batch = b THEN used[r] ELSE 0] =
        [r \in Reservations |->
           IF Accounts[r].batch = b THEN Accounts'[r].consumed - Accounts[r].consumed ELSE 0]
    BY <1>3, AccountFields
  <2> QED
    BY <2>1 DEF Balances
<1> QED
  BY <1>2, <1>4, <1>5, SameSum DEF Ledger!Consume, Ledger!Claim, Accounts, Balances

\* New reservations that the batches still cover.
LEMMA ReserveStep ==
  ASSUME TypeOK, TypeOK', RowsLegal', Backed', batch' = batch, ledger' = ledger,
         \A r \in Reservations : row'[r] # row[r] =>
           row[r].reserved = 0 /\ row'[r].consumed = 0 /\ row'[r].released = 0
  PROVE  Ledger!Reserve
<1>1. Balances' = Balances
  BY DEF Balances
<1>2. ASSUME NEW r \in Reservations, Accounts'[r] # Accounts[r]
      PROVE  Accounts[r].reserved = 0 /\ Accounts'[r].consumed = 0 /\ Accounts'[r].released = 0
  <2>1. row'[r] # row[r]
    BY <1>2 DEF Accounts
  <2> QED
    BY <2>1, AccountFields
<1>3. \A b \in Batches : Ledger!Outstanding(b)' <= Balances'[b]
  BY OutstandingNext DEF Backed, Balances
<1> QED
  BY <1>1, <1>2, <1>3 DEF Ledger!Reserve, Accounts, Balances

\* What a session that may commit knows of its batch.
LEMMA ReadyBatch ==
  ASSUME BackingInvariant, NEW t \in Sessions, session[t].pending = {},
         session[t].op \in {"cut", "update", "move", "archive", "restore"}, session[t].batch # ItemRow
  PROVE  /\ session[t].batch \in Batches /\ session[t].batch \in session[t].held
         /\ session[t].quantities[session[t].batch] = batch[session[t].batch].quantity
<1>1. session[t] \in Session
  BY DEF BackingInvariant, ReservationInvariant, LedgerInvariant, TypeOK
<1>2. session[t].batch \in Batches /\ session[t].batch \in session[t].held
  BY <1>1 DEF BackingInvariant, ReservationInvariant, LedgerInvariant, TargetLocked, Session, Rows
<1> QED
  BY <1>2 DEF BackingInvariant, ReservationInvariant, LedgerInvariant, Seen

\* Reserving stays within what its locked batches have not promised.
LEMMA ReserveBacks ==
  ASSUME BackingInvariant, ReservationInvariant', NEW t \in Sessions, CommitReserve(t)
  PROVE  Backed' /\ Ledger!Reserve
<1> USE DEF BackingInvariant, ReservationInvariant, LedgerInvariant
<1> DEFINE s == session[t]
<1>1. /\ s.pending = {} /\ MayReserve(s) /\ batch' = batch /\ ledger' = ledger
      /\ s \in Session /\ row \in [Reservations -> ReservationRow]
  BY DEF CommitReserve, Accepted, Ready, May, TypeOK
<1>2. ASSUME NEW r \in Lines(s)
      PROVE  /\ row[r] = NoRow
             /\ row'[r] = [order |-> s.order, batch |-> s.lines[r].batch, reserved |-> s.lines[r].quantity,
                           consumed |-> 0, released |-> 0, status |-> "reserved"]
             /\ s.lines[r].batch \in s.held \cup {ItemRow}
  <2>1. row[r] = NoRow /\ s.lines[r].batch \in s.held \cup {ItemRow}
    BY <1>1 DEF Numbered, RowsLegal, LegalRow, Lines
  <2> QED
    BY <2>1 DEF CommitReserve, Lines
<1>8. ASSUME NEW r \in Lines(s)
       PROVE  /\ row[r].batch = ItemRow /\ row[r].reserved = 0
              /\ row'[r].batch = s.lines[r].batch /\ row'[r].reserved = s.lines[r].quantity
              /\ row'[r].consumed = 0 /\ row'[r].released = 0
  <2> HIDE DEF s
  <2>1. row[r].batch = ItemRow /\ row[r].reserved = 0
    <3>1. row[r] = NoRow
      BY <1>2
    <3> QED
      BY ONLY <3>1 DEF NoRow
  <2>2. row'[r] = [order |-> s.order, batch |-> s.lines[r].batch, reserved |-> s.lines[r].quantity,
                   consumed |-> 0, released |-> 0, status |-> "reserved"]
    BY <1>2
  <2> QED
    BY ONLY <2>1, <2>2
<1>3. \A r \in Reservations \ Lines(s) : row'[r] = row[r]
  BY DEF CommitReserve
<1>4. s.lines \in [Reservations -> [batch: Rows, quantity: Nat]] /\ s.quantities \in [Batches -> Nat]
  BY <1>1 DEF Session
<1> HIDE DEF s
<1>5. ASSUME NEW b \in Batches PROVE SumOf(Parts(row', b)) <= batch'[b].quantity
  <2>1. LinesOn(s, b) \in [Reservations -> Nat]
    BY <1>4 DEF LinesOn
  <2>2. /\ Parts(row, b) \in [Reservations -> Nat] /\ Parts(row', b) \in [Reservations -> Nat]
        /\ SumOf(Parts(row, b)) = ReservedOn(b) /\ ReservedOn(b) \in Nat
    BY OutstandingNow, OutstandingNext
  <2>3. ASSUME NEW r \in Reservations PROVE Parts(row', b)[r] = Parts(row, b)[r] + LinesOn(s, b)[r]
    <3>1. CASE r \in Lines(s)
      <4>1. row[r].batch = ItemRow /\ row'[r].batch = s.lines[r].batch /\ row'[r].reserved = s.lines[r].quantity
            /\ row'[r].consumed = 0 /\ row'[r].released = 0
        BY <1>8, <3>1
      <4>2. s.lines[r].quantity \in Nat /\ b # ItemRow
        BY <1>4, MaterialAssumption
      <4>3. Part(row[r], b) = 0
        BY <4>1, <4>2 DEF Part
      <4>4. Part(row'[r], b) = LinesOn(s, b)[r]
        BY <4>1, <4>2 DEF Part, LinesOn
      <4> QED
        BY <2>1, <4>3, <4>4 DEF Parts
    <3>2. CASE r \notin Lines(s)
      <4>1. LinesOn(s, b)[r] = 0
        BY <1>4, <3>2 DEF LinesOn, Lines
      <4>2. row'[r] = row[r]
        BY <1>3, <3>2
      <4>3. Parts(row', b)[r] = Parts(row, b)[r]
        BY <4>2 DEF Parts
      <4> QED
        BY <2>2, <4>1, <4>3
    <3> QED
      BY <3>1, <3>2
  <2>4. SumOf(Parts(row', b)) = SumOf(Parts(row, b)) + SumOf(LinesOn(s, b)) /\ SumOf(LinesOn(s, b)) \in Nat
    <3>1. IsFiniteSet(Reservations)
      BY MaterialAssumption
    <3>2. SumOf(Parts(row', b)) = SumOf(Parts(row, b)) + SumOf(LinesOn(s, b))
      BY ONLY <2>1, <2>2, <2>3, <3>1, SumAdds
    <3> QED
      BY <2>1, <3>1, <3>2, UnitsFinite
  <2>5. CASE \E r \in Lines(s) : s.lines[r].batch = b
    <3>1. b \in s.held /\ SumOf(LinesOn(s, b)) <= s.quantities[b] - ReservedOn(b)
      BY <1>1, <1>2, <2>5, MaterialAssumption DEF MayReserve
    <3>2. s.quantities[b] = batch[b].quantity
      BY <3>1 DEF Seen, s
    <3>3. s.quantities[b] \in Nat
      BY <1>4
    <3> QED
      BY <1>1, <2>2, <2>4, <3>1, <3>2, <3>3
  <2>6. CASE ~ \E r \in Lines(s) : s.lines[r].batch = b
    <3>1. \A r \in Reservations : LinesOn(s, b)[r] = 0
      BY <1>4, <2>6 DEF LinesOn, Lines
    <3>2. SumOf(LinesOn(s, b)) = 0
      BY <2>1, <3>1, SumZero, MaterialAssumption
    <3>3. batch[b].quantity \in Nat /\ ReservedOn(b) <= batch[b].quantity
      BY DEF Backed, TypeOK, BatchRow
    <3> QED
      BY <1>1, <2>2, <2>4, <3>2, <3>3
  <2> QED
    BY <2>5, <2>6
<1>6. Backed'
  BY <1>5, OutstandingNext DEF Backed
<1>7. \A r \in Reservations : row'[r] # row[r] =>
        row[r].reserved = 0 /\ row'[r].consumed = 0 /\ row'[r].released = 0
  BY <1>3, <1>8
<1> QED
  BY <1>1, <1>6, <1>7, ReserveStep

\* Strict cutting takes from a batch what it charges to its reservations.
LEMMA CutSteps ==
  ASSUME BackingInvariant, ReservationInvariant', StrictCutting, NEW t \in Sessions, CommitCut(t)
  PROVE  Ledger!Consume
<1> USE DEF BackingInvariant, ReservationInvariant, LedgerInvariant
<1> DEFINE s == session[t]
<1>1. s.op = "cut" /\ s.pending = {} /\ MayCut(s) /\ s \in Session
  BY DEF CommitCut, Accepted, Ready, May, TypeOK
<1>2. PICK take \in Drains(Claimed(s), s.quantity, TRUE) :
        row' = [r \in Reservations |->
          IF r \in s.claimed /\ take[r] > 0 THEN Charged(s.rows[r], take[r], row[r]) ELSE row[r]]
  BY DEF CommitCut
<1>3. /\ s.batch \in Batches /\ s.quantities[s.batch] = batch[s.batch].quantity
      /\ \A r \in s.claimed : s.rows[r] = row[r] /\ Active(row[r]) /\ row[r].batch = s.batch
  <2>1. s.batch \in Batches /\ s.batch # ItemRow
    BY <1>1, MaterialAssumption DEF ClaimsFresh
  <2> QED
    BY <1>1, <2>1, ReadyBatch DEF ClaimsFresh
<1>4. /\ s.claimed \in SUBSET Reservations /\ s.quantity \in Nat
      /\ batch' = [batch EXCEPT ![s.batch] = Settled(s.batch, s.quantities[s.batch] - s.quantity)]
      /\ s.quantities[s.batch] \in Nat
  BY <1>1, <1>3 DEF Session, CommitCut
<1> HIDE DEF s
<1>5. /\ take \in [s.claimed -> Nat] /\ \A r \in s.claimed : take[r] <= Open(s.rows[r])
      /\ SumOf(take) = Least(s.quantity, SumOf(Claimed(s)))
  BY <1>4 DEF Drains, Claimed
<1>6. SumOf(take) = s.quantity
  <2>1. s.quantity <= SumOf(Claimed(s))
    BY <1>1 DEF MayCut
  <2> QED
    BY <1>5, <2>1 DEF Least
<1> DEFINE used == [r \in Reservations |-> IF r \in s.claimed THEN take[r] ELSE 0]
<1>7. used \in [Reservations -> Nat]
  BY <1>5
<1>8. ASSUME NEW r \in Reservations
      PROVE  /\ SameClaim(row[r], row'[r]) /\ row'[r].released = row[r].released
             /\ row'[r].consumed = row[r].consumed + used[r]
  <2>1. row[r] \in ReservationRow /\ LegalRow(row[r]) /\ row[r].consumed \in Nat
    <3>1. row[r] \in ReservationRow
      BY DEF TypeOK
    <3> QED
      BY <3>1 DEF RowsLegal, ReservationRow
  <2>2. CASE r \in s.claimed /\ take[r] > 0
    <3>1. row'[r] = Charged(row[r], take[r], row[r]) /\ Active(row[r]) /\ take[r] \in Nat /\ take[r] <= Open(row[r])
      BY <1>2, <1>3, <1>5, <2>2
    <3>2. Forward(row[r], row'[r]) /\ row'[r].consumed = row[r].consumed + take[r]
      BY <2>1, <2>2, <3>1, ChargeForward
    <3> QED
      BY <2>1, <2>2, <3>1, <3>2 DEF Forward, Closing
  <2>3. CASE ~(r \in s.claimed /\ take[r] > 0)
    <3>1. row'[r] = row[r]
      BY <1>2, <2>3
    <3>2. used[r] = 0
      BY <1>5, <2>3
    <3> QED
      BY <2>1, <3>1, <3>2 DEF SameClaim
  <2> QED
    BY <2>2, <2>3
<1>9. ASSUME NEW b \in Batches
      PROVE  batch[b].quantity - batch'[b].quantity =
               SumOf([r \in Reservations |-> IF row[r].batch = b THEN used[r] ELSE 0])
  <2> DEFINE here == [r \in Reservations |-> IF row[r].batch = b THEN used[r] ELSE 0]
  <2>1. here \in [Reservations -> Nat]
    BY <1>7
  <2>2. batch \in [Batches -> BatchRow] /\ batch[b].quantity \in Nat
    BY DEF TypeOK, BatchRow
  <2>3. CASE b = s.batch
    <3>1. \A r \in s.claimed : here[r] = take[r]
      BY <1>3, <1>4, <2>3
    <3>2. \A r \in Reservations \ s.claimed : here[r] = 0
      BY <1>4
    <3>3. SumOf(here) = SumOf(take)
      <4> HIDE DEF here
      <4> QED
        BY ONLY <1>4, <1>5, <2>1, <3>1, <3>2, SumExtended
    <3>4. batch'[b].quantity = batch[b].quantity - s.quantity
      BY <1>3, <1>4, <2>2, <2>3 DEF Settled
    <3> QED
      BY <1>4, <1>6, <2>2, <3>3, <3>4
  <2>4. CASE b # s.batch
    <3>1. \A r \in Reservations : here[r] = 0
      BY <1>3, <2>4
    <3>2. SumOf(here) = 0
      <4> HIDE DEF here
      <4> QED
        BY <2>1, <3>1, SumZero, MaterialAssumption
    <3>3. batch'[b] = batch[b]
      BY <1>4, <2>2, <2>4
    <3> QED
      BY <2>2, <3>2, <3>3
  <2> QED
    BY <2>3, <2>4
<1> HIDE DEF used
<1> QED
  BY <1>7, <1>8, <1>9, ConsumeStep

\* A release gives back what is open on one reservation.
LEMMA ReleaseSteps ==
  ASSUME BackingInvariant, ReservationInvariant', NEW t \in Sessions, CommitRelease(t)
  PROVE  Ledger!Release
<1>1. ReservationInvariant /\ TypeOK /\ TypeOK'
  BY DEF BackingInvariant, ReservationInvariant, LedgerInvariant
<1>2. Effect(t) /\ Lines(session[t]) = {}
  BY <1>1, ReleaseEffect DEF CommitRelease, Accepted, Ready, ReservationInvariant, Numbered
<1>3. batch' = batch /\ ledger' = ledger /\ drawn' = drawn
  BY DEF CommitRelease
<1>4. ASSUME NEW r \in Reservations PROVE row'[r] = row[r] \/ Closing(row[r], row'[r])
  <2>1. Forward(row[r], row'[r]) /\ drawn[r] + row[r].consumed = drawn[r] + row'[r].consumed
    BY <1>2, <1>3 DEF Effect
  <2>2. drawn[r] \in Nat /\ row[r].consumed \in Nat /\ row'[r].consumed \in Nat
    BY <1>1 DEF TypeOK, ReservationRow
  <2> QED
    BY <2>1, <2>2 DEF Forward
<1> QED
  BY <1>1, <1>3, <1>4, ReleaseStep

\* Archiving writes off its batch and every reservation on it.
LEMMA ArchiveSteps ==
  ASSUME BackingInvariant, ReservationInvariant', NEW t \in Sessions, CommitArchive(t)
  PROVE  Ledger!WriteOff
<1>1. /\ TypeOK /\ TypeOK' /\ LedgerBalanced /\ LedgerBalanced' /\ RowsLegal
      /\ ReservationInvariant /\ ClaimsFresh /\ Complete
  BY DEF BackingInvariant, ReservationInvariant, LedgerInvariant
<1> DEFINE s == session[t]
<1>2. /\ s.op = "archive" /\ s.scanned /\ s.claimed \in SUBSET Reservations
      /\ row' = [r \in Reservations |-> IF r \in s.claimed THEN Freed(s.rows[r], row[r]) ELSE row[r]]
      /\ batch' = [batch EXCEPT ![s.batch] = Settled(s.batch, 0)]
  BY <1>1, ReservedTypes DEF CommitArchive, Accepted, Ready
<1>3. PICK b \in Batches : b = s.batch
  BY <1>1, <1>2 DEF ClaimsFresh
<1>4. \A r \in Reservations : r \in s.claimed <=> Active(row[r]) /\ row[r].batch = b
  BY <1>1, <1>2, <1>3 DEF ClaimsFresh, Complete
<1>5. \A r \in s.claimed : s.rows[r] = row[r]
  BY <1>1 DEF ClaimsFresh
<1> HIDE DEF s
<1>6. ASSUME NEW r \in Reservations
      PROVE  IF Active(row[r]) /\ row[r].batch = b THEN Closing(row[r], row'[r]) ELSE row'[r] = row[r]
  <2>1. row[r] \in ReservationRow /\ LegalRow(row[r])
    BY <1>1, ReservedTypes DEF RowsLegal
  <2>2. CASE r \in s.claimed
    <3>1. row'[r] = Freed(row[r], row[r]) /\ Active(row[r])
      BY <1>2, <1>4, <1>5, <2>2
    <3> QED
      BY <1>4, <2>1, <2>2, <3>1, FreeForward
  <2>3. CASE r \notin s.claimed
    BY <1>2, <1>4, <2>3
  <2> QED
    BY <2>2, <2>3
<1>7. \A c \in Batches : batch'[c].quantity = IF c = b THEN 0 ELSE batch[c].quantity
  <2>1. batch \in [Batches -> BatchRow]
    BY <1>1 DEF TypeOK
  <2> QED
    BY <1>2, <1>3, <2>1 DEF Settled
<1> QED
  BY <1>1, <1>6, <1>7, WriteOffStep

\* A balance is set no lower than what is reserved on it.
LEMMA OneBalance ==
  ASSUME BackingInvariant, ReservationInvariant', row' = row, NEW b \in Batches, NEW v,
         batch' = [batch EXCEPT ![b] = v], ReservedOn(b) <= v.quantity
  PROVE  Ledger!Post
<1>1. TypeOK /\ RowsLegal /\ LedgerBalanced /\ LedgerBalanced' /\ batch \in [Batches -> BatchRow]
  BY DEF BackingInvariant, ReservationInvariant, LedgerInvariant, TypeOK
<1>2. batch'[b] = v /\ \A c \in Batches \ {b} : batch'[c] = batch[c]
  BY <1>1
<1>3. ReservedOn(b) <= batch'[b].quantity /\ \A c \in Batches \ {b} : batch'[c].quantity = batch[c].quantity
  BY <1>2
<1> QED
  BY <1>1, <1>3, PostStep

\* Batch edits, movements by hand, restored batches and receipts.
LEMMA UpdateSteps ==
  ASSUME BackingInvariant, ReservationInvariant', NEW t \in Sessions,
         CommitUpdate(t) \/ CommitMove(t) \/ CommitRestore(t)
  PROVE  Ledger!Post \/ UNCHANGED Ledger!vars
<1>1. /\ TypeOK /\ LedgerBalanced /\ LedgerBalanced' /\ Backed
      /\ batch \in [Batches -> BatchRow] /\ ledger \in [Batches -> Int]
  BY DEF BackingInvariant, ReservationInvariant, LedgerInvariant, TypeOK
<1> DEFINE s == session[t]
<1>2. s.pending = {} /\ s.op \in {"update", "move", "restore"} /\ row' = row
  BY DEF CommitUpdate, CommitMove, CommitRestore, Accepted, Ready
<1>3. CASE s.batch = ItemRow
  <2>1. ItemRow \notin Batches
    BY MaterialAssumption
  <2>2. batch' = batch /\ ledger' = ledger
    <3>1. CASE CommitUpdate(t)
      BY <1>1, <1>3, <2>1, <3>1 DEF CommitUpdate
    <3>2. CASE CommitMove(t)
      BY <1>1, <1>3, <2>1, <3>2 DEF CommitMove
    <3>3. CASE CommitRestore(t)
      BY <1>1, <1>3, <2>1, <3>3 DEF CommitRestore
    <3> QED
      BY <3>1, <3>2, <3>3
  <2> QED
    BY <1>1, <1>2, <2>2, QuietStep
<1>4. CASE s.batch # ItemRow
  <2>1. s.batch \in Batches /\ s.quantities[s.batch] = batch[s.batch].quantity
    BY <1>2, <1>4, ReadyBatch
  <2>2. PICK b \in Batches : b = s.batch
    BY <2>1
  <2>3. s.quantity \in Nat /\ batch[b].quantity \in Nat /\ ReservedOn(b) <= batch[b].quantity
    BY <1>1, ReservedTypes DEF Backed, BatchRow
  <2>4. ReservedOn(b) \in Nat
    BY <1>1, TotalsType
  <2>5. CASE CommitUpdate(t)
    <3>1. s.op = "update" /\ May(s) /\ batch' = [batch EXCEPT ![b] = Settled(b, s.quantity)]
      BY <2>2, <2>5 DEF CommitUpdate, Accepted, Ready
    <3>2. s.quantity >= ReservedOn(b)
      BY <2>2, <3>1 DEF May
    <3>3. ReservedOn(b) <= Settled(b, s.quantity).quantity
      BY <2>3, <2>4, <3>2 DEF Settled
    <3> QED
      BY <1>2, <3>1, <3>3, OneBalance
  <2>6. CASE CommitMove(t)
    <3> DEFINE n == IF s.flag THEN -s.quantity ELSE s.quantity
    <3>1. /\ s.op = "move" /\ May(s)
          /\ batch' = [batch EXCEPT ![b] = Settled(b, batch[b].quantity + n)]
      BY <1>4, <2>1, <2>2, <2>6 DEF CommitMove, Accepted, Ready
    <3>2. MayMove(s)
      BY <3>1 DEF May
    <3>3. s.flag => s.quantity <= batch[b].quantity - ReservedOn(b)
      BY <1>4, <2>1, <2>2, <3>2 DEF MayMove
    <3>4. ReservedOn(b) <= batch[b].quantity + n
      BY <2>3, <2>4, <3>3
    <3>5. ReservedOn(b) <= Settled(b, batch[b].quantity + n).quantity
      BY <3>4 DEF Settled
    <3> QED
      BY <1>2, <3>1, <3>5, OneBalance
  <2>7. CASE CommitRestore(t)
    <3>1. s.op = "restore" /\ May(s) /\ batch' = [batch EXCEPT ![b] = [quantity |-> s.quantity, state |-> "active"]]
      BY <2>2, <2>7 DEF CommitRestore, Accepted, Ready
    <3>2. batch[b].quantity = 0
      BY <2>1, <2>2, <3>1 DEF May
    <3>3. ReservedOn(b) <= [quantity |-> s.quantity, state |-> "active"].quantity
      BY <2>3, <2>4, <3>2
    <3> QED
      BY <1>2, <3>1, <3>3, OneBalance
  <2> QED
    BY <2>5, <2>6, <2>7
<1> QED
  BY <1>3, <1>4

\* A receipt posts to a batch nobody reserved.
LEMMA ReceiveSteps ==
  ASSUME BackingInvariant, ReservationInvariant', Receive
  PROVE  Ledger!Post
<1>1. PICK b \in Batches \ Existing, q \in 1 .. MaxQuantity :
        batch' = [batch EXCEPT ![b] = [quantity |-> q, state |-> "active"]]
  BY DEF Receive
<1>2. TypeOK /\ ReservedOn(b) <= batch[b].quantity /\ batch[b].quantity = 0
  BY DEF BackingInvariant, Backed, ReservationInvariant, LedgerInvariant, AbsentEmpty, Existing
<1>3. ReservedOn(b) \in Nat /\ q \in Nat
  BY <1>2, TotalsType, MaterialAssumption
<1>4. ReservedOn(b) <= [quantity |-> q, state |-> "active"].quantity
  BY <1>2, <1>3
<1>5. row' = row
  BY DEF Receive
<1> QED
  BY <1>1, <1>4, <1>5, OneBalance

\* Nothing written, nothing promised.
LEMMA QuietBacks ==
  ASSUME BackingInvariant, ReservationInvariant', UNCHANGED <<batch, ledger, row>>
  PROVE  UNCHANGED Ledger!vars /\ Backed'
<1>1. UNCHANGED Ledger!vars
  BY DEF Ledger!vars
<1>2. Backed'
  BY DEF BackingInvariant, Backed, ReservedOn, ClaimsOn
<1> QED
  BY <1>1, <1>2

\* Every commit is one step of StockLedger.
LEMMA CommitSteps ==
  ASSUME BackingInvariant, ReservationInvariant', StrictCutting, NEW t \in Sessions, Commit(t)
  PROVE  Ledger!Next \/ UNCHANGED Ledger!vars
<1>1. ~CommitConsume(t) /\ ~CommitConsumeItem(t)
  BY DEF BackingInvariant, ReservationInvariant, NotCharging, CommitConsume, CommitConsumeItem,
     Accepted, Ready
<1>2. ~CommitSetLoose(t) /\ ~CommitSetUp(t) /\ ~CommitSetDown(t)
  BY DEF BackingInvariant, LockOrder, CommitSetLoose, CommitSetUp, CommitSetDown, Accepted, Ready
<1>3. CASE CommitReserve(t)
  BY <1>3, ReserveBacks DEF Ledger!Next
<1>4. CASE CommitRelease(t)
  BY <1>4, ReleaseSteps DEF Ledger!Next
<1>5. CASE CommitCut(t)
  BY <1>5, CutSteps DEF Ledger!Next
<1>6. CASE CommitArchive(t)
  BY <1>6, ArchiveSteps DEF Ledger!Next
<1>7. CASE CommitUpdate(t) \/ CommitMove(t) \/ CommitRestore(t)
  BY <1>7, UpdateSteps DEF Ledger!Next
<1> QED
  BY <1>1, <1>2, <1>3, <1>4, <1>5, <1>6, <1>7 DEF Commit

\* A step of the system is one of StockLedger, or changes nothing it speaks of.
LEMMA BackingSteps ==
  ASSUME BackingInvariant, ReservationInvariant', StrictCutting, [Next]_vars
  PROVE  (Ledger!Next \/ UNCHANGED Ledger!vars) /\ Backed'
<1>1. /\ TypeOK /\ TypeOK' /\ RowsLegal /\ RowsLegal' /\ Backed
  BY DEF BackingInvariant, ReservationInvariant, LedgerInvariant
<1>2. ASSUME Ledger!Next PROVE Backed'
  BY <1>1, <1>2, LedgerBacks
<1>3. ASSUME UNCHANGED Ledger!vars PROVE Backed'
  <2> SUFFICES ASSUME NEW b \in Batches PROVE SumOf(Parts(row', b)) <= batch'[b].quantity
    BY <1>1, OutstandingNext DEF Backed
  <2>1. Accounts' = Accounts /\ Balances' = Balances
    BY <1>3 DEF Ledger!vars, Accounts, Balances
  <2>2. \A r \in Reservations : Part(row'[r], b) = Part(row[r], b)
    BY <2>1, AccountFields DEF Part
  <2>3. Parts(row', b) = Parts(row, b) /\ batch'[b].quantity = batch[b].quantity
    BY <2>1, <2>2 DEF Parts, Balances
  <2> QED
    BY <1>1, <2>3, OutstandingNow DEF Backed
<1>4. ASSUME NEW t \in Sessions, Commit(t) PROVE Ledger!Next \/ UNCHANGED Ledger!vars
  BY <1>4, CommitSteps
<1>5. ASSUME NEW t \in Sessions, Arrive(t) PROVE UNCHANGED <<batch, ledger, row>>
  BY <1>5 DEF Arrive, BeginReserve, BeginRelease, BeginConsume, BeginConsumeItem,
     BeginCut, BeginSet, BeginUpdate, BeginMove, BeginArchive, BeginRestore, Begin, tables
<1>6. ASSUME NEW t \in Sessions,
             LockRow(t) \/ ScanBatches(t) \/ LockReservations(t) \/ Reject(t) \/ AbortVictim(t) \/ Crash(t)
      PROVE  UNCHANGED <<batch, ledger, row>>
  BY <1>6 DEF LockRow, ScanBatches, LockReservations, Reject, AbortVictim, Crash, tables
<1>7. CASE UNCHANGED vars
  BY <1>7, QuietBacks DEF vars
<1>8. CASE Receive
  BY <1>2, <1>8, ReceiveSteps DEF Ledger!Next
<1>9. ASSUME NEW t \in Sessions, Arrive(t) \/ Advance(t) \/ AbortVictim(t) \/ Crash(t)
      PROVE  (Ledger!Next \/ UNCHANGED Ledger!vars) /\ Backed'
  BY <1>2, <1>3, <1>4, <1>5, <1>6, <1>9, QuietBacks DEF Advance
<1> QED
  BY <1>7, <1>8, <1>9 DEF Next

\* An archiving request goes on holding all that is reserved on its batch: only a new
\* reservation could be missing, and it would need the lock on the batch.
LEMMA CommitComplete ==
  ASSUME BackingInvariant, ReservationInvariant', NEW t \in Sessions, Commit(t)
  PROVE  Complete'
<1>1. /\ ReservationInvariant /\ Numbered /\ ClaimsFresh /\ Complete /\ Exclusive /\ TypeOK
      /\ End(t) /\ Effect(t)
  <2>1. End(t)
    BY DEF Commit, CommitReserve, CommitRelease, CommitConsume, CommitConsumeItem, CommitCut,
       CommitSetLoose, CommitSetUp, CommitSetDown, CommitUpdate, CommitMove, CommitArchive,
       CommitRestore
  <2> QED
    BY <2>1, CommitEffect DEF BackingInvariant, ReservationInvariant, LedgerInvariant
<1>2. \A u \in Sessions : session'[u] = IF u = t THEN Idle ELSE session[u]
  BY <1>1 DEF End, TypeOK
<1>3. Idle.op = "idle"
  BY DEF Idle
<1> SUFFICES ASSUME NEW u \in Sessions \ {t}, session[u].op = "archive", session[u].scanned,
                    NEW r \in Reservations, Active(row'[r]), row'[r].batch = session[u].batch
             PROVE  r \in session[u].claimed
  BY <1>1, <1>2, <1>3 DEF Complete
<1>4. session[u].batch \in Batches /\ session[u].batch \in session[u].held
  BY <1>1 DEF ClaimsFresh, Complete
<1>5. CASE r \in Lines(session[t])
  <2>1. session[t].op = "reserve" /\ session[t].pending = {}
        /\ row'[r] = [order |-> session[t].order, batch |-> session[t].lines[r].batch,
               reserved |-> session[t].lines[r].quantity, consumed |-> 0, released |-> 0,
               status |-> "reserved"]
    <3>1. session[t].op = "reserve"
      BY <1>1, <1>5 DEF Numbered
    <3>2. CommitReserve(t)
      BY <3>1 DEF Commit, CommitReserve, CommitRelease, CommitConsume, CommitConsumeItem, CommitCut,
         CommitSetLoose, CommitSetUp, CommitSetDown, CommitUpdate, CommitMove, CommitArchive,
         CommitRestore, Accepted, Ready
    <3> QED
      BY <1>5, <3>1, <3>2 DEF CommitReserve, Accepted, Ready, Lines
  <2>2. session[t].lines[r].batch = session[u].batch
    BY <2>1
  <2>3. session[u].batch \in session[t].held
    BY <1>1, <1>4, <1>5, <2>1, <2>2, MaterialAssumption DEF Numbered
  <2> QED
    BY <1>1, <1>4, <2>3 DEF Exclusive
<1>6. CASE r \notin Lines(session[t])
  <2>1. Forward(row[r], row'[r])
    BY <1>1, <1>6 DEF Effect
  <2>2. Active(row[r]) /\ row[r].batch = session[u].batch
    <3>1. CASE row'[r] = row[r]
      BY <3>1
    <3>2. CASE row'[r] # row[r]
      BY <2>1, <3>2 DEF Forward, SameClaim, Closing
    <3> QED
      BY <3>1, <3>2
  <2> QED
    BY <1>1, <2>2 DEF Complete
<1> QED
  BY <1>5, <1>6

\* Every step keeps an archiving request's claims complete.
LEMMA CompleteNext ==
  ASSUME BackingInvariant, ReservationInvariant', [Next]_vars
  PROVE  Complete'
<1>1. /\ TypeOK /\ session \in [Sessions -> Session] /\ Complete /\ ClaimsFresh /\ TargetLocked
  BY DEF BackingInvariant, ReservationInvariant, LedgerInvariant, TypeOK
<1>2. ASSUME NEW t \in Sessions, NEW s, row' = row, session' = [session EXCEPT ![t] = s],
             s.op = "archive" /\ s.scanned =>
               /\ s.batch \in s.held
               /\ \A r \in Reservations : Active(row[r]) /\ row[r].batch = s.batch => r \in s.claimed
      PROVE  Complete'
  <2>1. \A u \in Sessions : session'[u] = IF u = t THEN s ELSE session[u]
    BY <1>1, <1>2
  <2> QED
    BY <1>1, <1>2, <2>1 DEF Complete
<1>3. ASSUME NEW t \in Sessions, End(t), row' = row PROVE Complete'
  <2>1. Idle.op = "idle"
    BY DEF Idle
  <2> QED
    BY <1>2, <1>3, <2>1 DEF End
<1>4. ASSUME UNCHANGED <<session, row>> PROVE Complete'
  BY <1>1, <1>4 DEF Complete
<1>5. ASSUME NEW t \in Sessions, Arrive(t) PROVE Complete'
  <2>1. ASSUME NEW s, Begin(t, s), s.op = "archive" => ~s.scanned PROVE Complete'
    BY <1>2, <2>1 DEF Begin, tables
  <2>2. CASE BeginReserve(t)
    BY <2>1, <2>2 DEF BeginReserve, ReserveRequest, Idle
  <2>3. CASE BeginRelease(t)
    BY <2>1, <2>3 DEF BeginRelease, Idle
  <2>4. CASE BeginConsume(t)
    <3>1. PICK r \in Reservations, q \in 1 .. MaxQuantity :
            Begin(t, [Idle EXCEPT !.op = "consume", !.reservation = r, !.quantity = q,
                        !.batch = row[r].batch, !.pending = {row[r].batch}, !.rows[r] = row[r],
                        !.quantities[row[r].batch] = batch[row[r].batch].quantity])
      BY <2>4 DEF BeginConsume
    <3> DEFINE s == [Idle EXCEPT !.op = "consume", !.reservation = r, !.quantity = q,
                        !.batch = row[r].batch, !.pending = {row[r].batch}, !.rows[r] = row[r],
                        !.quantities[row[r].batch] = batch[row[r].batch].quantity]
    <3>2. s.op = "consume"
      BY DEF Idle
    <3>3. Begin(t, s)
      BY <3>1
    <3> HIDE DEF s
    <3> QED
      BY <2>1, <3>2, <3>3
  <2>5. CASE BeginConsumeItem(t)
    BY <2>1, <2>5 DEF BeginConsumeItem, Idle
  <2>6. CASE BeginCut(t)
    BY <2>1, <2>6 DEF BeginCut, Idle
  <2>7. CASE BeginSet(t)
    BY <2>1, <2>7 DEF BeginSet, Idle
  <2>8. CASE BeginUpdate(t)
    BY <2>1, <2>8 DEF BeginUpdate, Idle
  <2>9. CASE BeginMove(t)
    BY <2>1, <2>9 DEF BeginMove, Idle
  <2>10. CASE BeginArchive(t)
    BY <2>1, <2>10 DEF BeginArchive, Idle
  <2>11. CASE BeginRestore(t)
    BY <2>1, <2>11 DEF BeginRestore, Idle
  <2> QED
    BY <1>5, <2>2, <2>3, <2>4, <2>5, <2>6, <2>7, <2>8, <2>9, <2>10, <2>11 DEF Arrive
<1>6. ASSUME NEW t \in Sessions, LockRow(t) \/ ScanBatches(t) \/ LockReservations(t)
      PROVE  Complete'
  <2>1. row' = row /\ session[t] \in Session
    BY <1>1, <1>6 DEF LockRow, ScanBatches, LockReservations, tables
  <2>2. CASE LockRow(t)
    <3>1. PICK x \in Rows : session' = [session EXCEPT ![t] = Granted(@, x)]
      BY <2>2 DEF LockRow
    <3> DEFINE s == Granted(session[t], x)
    <3>2. /\ s.op = session[t].op /\ s.held = session[t].held \cup {x} /\ s.scanned = session[t].scanned
          /\ s.batch = session[t].batch /\ s.claimed = session[t].claimed
      BY <2>1 DEF Granted, Session
    <3> HIDE DEF s
    <3>3. session' = [session EXCEPT ![t] = s]
      BY <3>1 DEF s
    <3> QED
      BY <1>1, <1>2, <2>1, <3>2, <3>3 DEF Complete
  <2>3. CASE ScanBatches(t)
    <3>0. PICK dates : session' = [session EXCEPT ![t] = Scanned(session[t], dates)]
      BY <2>3 DEF ScanBatches
    <3> DEFINE s == Scanned(session[t], dates)
    <3>1. session' = [session EXCEPT ![t] = s] /\ session[t].op \in {"set", "consumeItem"}
      BY <2>3, <3>0 DEF ScanBatches
    <3>2. s.op = session[t].op
      BY <2>1 DEF Scanned, Session
    <3> HIDE DEF s
    <3> QED
      BY <1>2, <2>1, <3>1, <3>2
  <2>4. CASE LockReservations(t)
    <3> DEFINE s == Claiming(session[t])
    <3>1. /\ session' = [session EXCEPT ![t] = s] /\ session[t].op \in {"cut", "archive"}
          /\ session[t].pending = {}
      BY <2>4 DEF LockReservations
    <3>2. /\ s.op = session[t].op /\ s.held = session[t].held /\ s.batch = session[t].batch
          /\ s.claimed = Wanted(session[t])
      BY <2>1 DEF Claiming, Session
    <3>3. session[t].batch \in session[t].held
      <4>1. session[t].batch \in Batches
        BY <1>1, <3>1 DEF ClaimsFresh
      <4> QED
        BY <1>1, <3>1, <4>1, MaterialAssumption DEF TargetLocked
    <3>4. session[t].op = "archive" =>
            \A r \in Reservations : Active(row[r]) /\ row[r].batch = session[t].batch => r \in Wanted(session[t])
      BY DEF Wanted
    <3> HIDE DEF s
    <3> QED
      BY <1>2, <2>1, <3>1, <3>2, <3>3, <3>4
  <2> QED
    BY <1>6, <2>2, <2>3, <2>4
<1>7. ASSUME NEW t \in Sessions, Reject(t) \/ AbortVictim(t) \/ Crash(t) PROVE Complete'
  BY <1>3, <1>7 DEF Reject, AbortVictim, Crash, tables
<1>8. ASSUME NEW t \in Sessions, Commit(t) PROVE Complete'
  BY <1>8, CommitComplete
<1> QED
  BY <1>4, <1>5, <1>6, <1>7, <1>8 DEF Next, Advance, Receive, vars

\* The item starts with its reservations covered.
StartBacked ==
  \A b \in Batches :
    SumOf([r \in Reservations |->
             IF Active(StartRows[r]) /\ StartRows[r].batch = b THEN Open(StartRows[r]) ELSE 0])
      <= StartQuantity[b]

\* The backing holds before any request.
LEMMA BackingInit ==
  ASSUME {"set", "consume", "consumeItem"} \cap Operations = {}, StartLegal, StartBacked, Init
  PROVE  BackingInvariant /\ Ledger!Init
<1>1. ReservationInvariant
  BY ReservationInit
<1>2. Idle.held = {} /\ Idle.pending = {} /\ Idle.claimed = {} /\ Idle.op = "idle"
  BY DEF Idle
<1>3. LockOrder /\ Complete
  BY <1>2 DEF Init, LockOrder, Complete
<1>4. Backed
  <2> SUFFICES ASSUME NEW b \in Batches PROVE ReservedOn(b) <= batch[b].quantity
    BY DEF Backed
  <2>1. row = StartRows /\ batch[b].quantity = StartQuantity[b]
    BY DEF Init
  <2> QED
    BY <2>1 DEF StartBacked, ReservedOn, ClaimsOn
<1>5. Ledger!Init
  <2>1. Balances = ledger
    BY MaterialAssumption DEF Balances, Init
  <2>2. TypeOK /\ RowsLegal
    BY <1>1 DEF ReservationInvariant, LedgerInvariant
  <2>3. ASSUME NEW b \in Batches PROVE Ledger!Outstanding(b) <= Balances[b]
    BY <1>4, <2>2, OutstandingNow DEF Backed, Balances
  <2> QED
    BY <2>1, <2>3 DEF Ledger!Init, Balances
<1> QED
  BY <1>1, <1>3, <1>4, <1>5 DEF BackingInvariant

\* Every step keeps the backing and is a step of StockLedger.
LEMMA BackingNext ==
  ASSUME {"set", "consume", "consumeItem"} \cap Operations = {}, StrictCutting,
         BackingInvariant, [Next]_vars
  PROVE  BackingInvariant' /\ (Ledger!Next \/ UNCHANGED Ledger!vars)
<1>1. ReservationInvariant /\ LockOrder /\ TypeOK
  BY DEF BackingInvariant, ReservationInvariant, LedgerInvariant
<1>2. ReservationInvariant'
  BY <1>1, ReservationNext
<1>3. LockOrder'
  BY <1>1, LockOrderNext
<1> QED
  BY <1>2, <1>3, BackingSteps, CompleteNext DEF BackingInvariant

\* With cutting held to the reservations and without corrections of the item's total,
\* the active reservations bound to a batch stay covered by its balance.
THEOREM ReservationsAlwaysBacked ==
  ASSUME {"set", "consume", "consumeItem"} \cap Operations = {}, StrictCutting,
         StartLegal, StartBacked
  PROVE  Spec => []Backed
<1>1. Init => BackingInvariant
  BY BackingInit
<1>2. BackingInvariant /\ [Next]_vars => BackingInvariant'
  BY BackingNext
<1>3. BackingInvariant => Backed
  BY DEF BackingInvariant
<1> QED
  BY <1>1, <1>2, <1>3, PTL DEF Spec

\* Each commit is one atomic step of StockLedger on the current rows, although its
\* handler read them several statements earlier.
THEOREM MaterialImplementsStockLedger ==
  ASSUME {"set", "consume", "consumeItem"} \cap Operations = {}, StrictCutting,
         StartLegal, StartBacked
  PROVE  Spec => ImplementsStockLedger
<1>1. Init => BackingInvariant /\ Ledger!Init
  BY BackingInit
<1>2. BackingInvariant /\ [Next]_vars => BackingInvariant' /\ [Ledger!Next]_(Ledger!vars)
  BY BackingNext
<1> QED
  BY <1>1, <1>2, PTL DEF Spec, ImplementsStockLedger, Ledger!Spec
=============================================================================
