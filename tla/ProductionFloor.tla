-------------------------- MODULE ProductionFloor --------------------------
(***************************************************************************)
(* The pieces of one production order on their way through the factory:    *)
(* cut into bundles, entered and corrected at Sewing, received and packed  *)
(* at Packaging, put into packages and taken out again.  Every stage is    *)
(* limited by what the stage before it has recorded.                       *)
(*                                                                         *)
(* A request locks, reads and decides in one step and writes and commits   *)
(* in another; the requests whose locks leave room run in between.  What a *)
(* request read before it locked anything is a step before these two.      *)
(*                                                                         *)
(* The order is a standard one with several batches (Nastils), each cut    *)
(* from its passport, that share one Sewing and one Packaging work order,  *)
(* without Printing.                                                       *)
(***************************************************************************)
EXTENDS Sums

CONSTANTS
  Batches,     \* production_batches of the order
  NoBatch,
  Clerks,
  Records,     \* ids of sewing_records
  Entries,     \* ids of packaging_records, ascending
  Boxes,       \* ids of packages
  CutQuantities, SewQuantities, PackQuantities,  \* what a clerk of each stage enters
  PlanQuantities,  \* what a batch is planned with and revised to
  OrderQuantity,   \* production_orders.planned_quantity
  MaxVersion   \* corrections of one sewing record (a bound)

VARIABLES
  cut,       \* cutting_records.passed_pieces of a batch, 0 while it has no record
  bundle,    \* what the bundles of a batch add up to
  plan,      \* production_batches.planned_quantity
  revised,   \* the counts that the audit log shows Cutting to have put in another's place
  record,    \* sewing_records
  sewn,      \* work_orders.passed_qty of Sewing
  received,  \* what the packaging_receipts of a batch add up to
  entry,     \* packaging_records
  intake,    \* work_orders.actual_input_qty of Packaging
  packed,    \* work_orders.passed_qty of Packaging
  box,       \* packages: the pieces of each batch in them, all 0 when there is none
  request    \* what each clerk's request has locked, read and decided

cutting == <<cut, bundle, plan, revised>>
sewing == <<record, sewn>>
packaging == <<received, entry, intake, packed>>
vars == <<cutting, sewing, packaging, box, request>>

ASSUME ProductionFloorAssumption ==
  /\ IsFiniteSet(Batches) /\ NoBatch \notin Batches
  /\ IsFiniteSet(Records) /\ IsFiniteSet(Boxes) /\ 0 \notin Records \cup Boxes
  /\ IsFiniteSet(Entries) /\ Entries \subseteq Nat
  /\ CutQuantities \cup SewQuantities \cup PackQuantities \cup PlanQuantities \subseteq Nat
  /\ OrderQuantity \in Nat /\ MaxVersion \in Nat

Locks == {"order", "sewing", "packaging"}
SewingRow == [batch: Batches \cup {NoBatch}, input: Nat, passed: Nat, version: Nat]
PackingRow == [batch: Batches \cup {NoBatch}, input: Nat, packed: Nat, damaged: Nat]

\* A deleted row keeps its id, which is not given out again.
NoRecord == [batch |-> NoBatch, input |-> 0, passed |-> 0, version |-> 0]
NoEntry == [batch |-> NoBatch, input |-> 0, packed |-> 0, damaged |-> 0]
NoPieces == [b \in Batches |-> 0]
NoTake == [e \in Entries |-> 0]
NoRequest ==
  [op |-> "none", locks |-> {}, batch |-> NoBatch, id |-> 0, row |-> NoRecord, input |-> 0,
   output |-> 0, damaged |-> 0, seen |-> 0, intake |-> 0, pieces |-> NoPieces, take |-> NoTake]

Request ==
  [op: {"none", "cut", "load", "resize", "revise", "passport", "sew", "look", "correct", "remove",
        "receive", "pack", "box", "unbox"},
   locks: SUBSET Locks, batch: Batches \cup {NoBatch}, id: Records \cup Entries \cup Boxes \cup {0},
   row: SewingRow, input: Nat, output: Nat, damaged: Nat, seen: Nat, intake: Nat,
   pieces: [Batches -> Nat], take: [Entries -> Nat]]

Init ==
  /\ cut = NoPieces /\ bundle = NoPieces
  /\ plan \in [Batches -> PlanQuantities] /\ revised = [b \in Batches |-> {}]
  /\ record = [r \in Records |-> NoRecord] /\ sewn = 0
  /\ received = NoPieces /\ entry = [e \in Entries |-> NoEntry] /\ intake = 0 /\ packed = 0
  /\ box = [x \in Boxes |-> NoPieces]
  /\ request = [c \in Clerks |-> NoRequest]

-----------------------------------------------------------------------------
(* Totals by batch                                                         *)

RecordSum(b, column) ==
  SumOf([r \in Records |-> IF record[r].batch = b THEN record[r][column] ELSE 0])
Input(b) == RecordSum(b, "input")
Sewn(b) == RecordSum(b, "passed")

EntrySum(b, column) ==
  SumOf([e \in Entries |-> IF entry[e].batch = b THEN entry[e][column] ELSE 0])
PackedOf(b) == EntrySum(b, "packed")
_existing_package_totals_by_batch(b, but) ==
  SumOf([x \in Boxes |-> IF x = but THEN 0 ELSE box[x][b]])

UsesReceipts == \E b \in Batches : received[b] > 0

\* Mutant: any plan of a batch that is cut counts, revised or not.
PlannedLimit(b) == IF cut[b] > 0 THEN Greatest(cut[b], plan[b]) ELSE cut[b]

\* A batch that is cut may be sewn up to the count Cutting has revised it to.  Another
\* plan, of the order or a passport, allows nothing beyond what was cut.
_revised_sewing_input_limit(b) ==
  IF cut[b] > 0 /\ plan[b] \in revised[b] THEN Greatest(cut[b], plan[b]) ELSE cut[b]

\* The most that any later stage has recorded of the batch.
downstream_quantity(b) ==
  Greatest(Greatest(Input(b), Sewn(b)),
           Greatest(Greatest(received[b], EntrySum(b, "input")), _existing_package_totals_by_batch(b, 0)))
physical_floor(b) == Greatest(Greatest(bundle[b], cut[b]), downstream_quantity(b))

\* The rest of the order, which the other batches do not plan.
planning_floor(b) ==
  Greatest(0, OrderQuantity - SumOf([d \in Batches |-> IF d = b THEN 0 ELSE plan[d]]))

\* min(output, receipts), or the output while nothing was received for the work order.
InputLimit(b) == IF UsesReceipts THEN Least(Sewn(b), received[b]) ELSE Sewn(b)
_packaging_input_budgets(b) == Greatest(0, InputLimit(b) - EntrySum(b, "input"))

\* Mutant: the freeze looks at what passed and forgets what was put in.
MutableUntilPassed(b) == Sewn(b) = 0

\* A batch with a saved sewing record is closed to Cutting.
Mutable(b) == \A r \in Records : record[r].batch # b

\* Mutant: only receipts count as a handover.
HandedOffByReceipt(b) == received[b] > 0

\* Packaging has received or entered pieces of the batch: its sewing is not corrected.
HandedOff(b) == received[b] > 0 \/ \E e \in Entries : entry[e].batch = b

-----------------------------------------------------------------------------
(* Requests                                                                *)

Idle(c) == request[c] = NoRequest

\* Nobody holds any of these rows.  Cutting does not wait for Sewing's row, it is refused.
Free(locks) == \A c \in Clerks : request[c].locks \cap locks = {}
\* Mutant: the rows are read without being locked.
Unlocked(c, locks, r) == request' = [request EXCEPT ![c] = r]

Locked(c, locks, r) == Free(locks) /\ request' = [request EXCEPT ![c] = [r EXCEPT !.locks = locks]]

Committed(c, op) == request[c].op = op /\ request' = [request EXCEPT ![c] = NoRequest]

\* The request is refused or fails, or the clerk leaves the form.
Abort(c) ==
  /\ ~Idle(c) /\ request' = [request EXCEPT ![c] = NoRequest]
  /\ UNCHANGED <<cutting, sewing, packaging, box>>

\* An id that was never given out and that no other request is about to use.
Fresh(id, op) == \A c \in Clerks : request[c].op = op => request[c].id # id

Reads == UNCHANGED <<cutting, sewing, packaging, box>>

-----------------------------------------------------------------------------
(* Cutting                                                                 *)

\* A passport has one cutting record, and its bundles are cut with it.  Further records,
\* which a batch without a passport may have, are left out.
post_cutting(c, b, n) ==
  /\ Idle(c) /\ cut[b] = 0 /\ n > 0
  /\ Mutable(b)
  /\ Locked(c, {"order", "sewing"}, [NoRequest EXCEPT !.op = "cut", !.batch = b, !.output = n])
  /\ Reads

CommitCutting(c) ==
  /\ Committed(c, "cut")
  /\ cut' = [cut EXCEPT ![request[c].batch] = request[c].output]
  /\ bundle' = [bundle EXCEPT ![request[c].batch] = request[c].output]
  /\ UNCHANGED <<plan, revised, sewing, packaging, box>>

\* The cutting record is loaded before anything is locked and not read again.
LoadCutting(c, b) ==
  /\ Idle(c) /\ cut[b] > 0
  /\ request' = [request EXCEPT ![c] = [NoRequest EXCEPT !.op = "load", !.batch = b, !.seen = cut[b]]]
  /\ Reads

update_cutting_bundle_quantities(c, n) ==
  LET b == request[c].batch
  IN /\ request[c].op = "load" /\ n > 0
     /\ Mutable(b) /\ n >= downstream_quantity(b)
     /\ Locked(c, {"sewing"},
               [request[c] EXCEPT !.op = "resize", !.output = n,
                 !.input = Greatest(Greatest(planning_floor(b), downstream_quantity(b)), n)])
     /\ Reads

\* A quantity equal to the loaded one is not written.  The plan follows unaudited.
CommitResize(c) ==
  /\ Committed(c, "resize")
  /\ LET b == request[c].batch
     IN /\ bundle' = [bundle EXCEPT ![b] = request[c].output]
        /\ cut' = [cut EXCEPT ![b] = IF request[c].output = request[c].seen THEN @ ELSE request[c].output]
        /\ plan' = [plan EXCEPT ![b] = request[c].input]
  /\ UNCHANGED <<revised, sewing, packaging, box>>

\* Cutting revises the count of a batch, before or after it is cut.
update_cutting_batch(c, b, n) ==
  /\ Idle(c) /\ n > 0
  /\ Mutable(b) /\ n >= physical_floor(b)
  /\ Locked(c, {"sewing"}, [NoRequest EXCEPT !.op = "revise", !.batch = b, !.output = n])
  /\ Reads

CommitRevision(c) ==
  /\ Committed(c, "revise")
  /\ LET b == request[c].batch
         n == request[c].output
     IN /\ plan' = [plan EXCEPT ![b] = n]
        /\ revised' = [revised EXCEPT ![b] = IF n = plan[b] THEN @ ELSE @ \cup {n}]
  /\ UNCHANGED <<cut, bundle, sewing, packaging, box>>

\* The pieces of a passport are the plan of its batch until the batch is cut.
update_passport(c, b, n) ==
  /\ Idle(c) /\ n > 0
  /\ Mutable(b) /\ cut[b] = 0 /\ bundle[b] = 0
  /\ Locked(c, {"order", "sewing"}, [NoRequest EXCEPT !.op = "passport", !.batch = b, !.output = n])
  /\ Reads

CommitPassport(c) ==
  /\ Committed(c, "passport")
  /\ plan' = [plan EXCEPT ![request[c].batch] = request[c].output]
  /\ UNCHANGED <<cut, bundle, revised, sewing, packaging, box>>

-----------------------------------------------------------------------------
(* Sewing                                                                  *)

\* More pieces may pass than were put in: the count is Sewing's own.
post_sewing(c, r, b, input, passed) ==
  /\ Idle(c) /\ record[r] = NoRecord /\ Fresh(r, "sew")
  /\ input + passed > 0 => cut[b] > 0
  /\ Input(b) + input <= _revised_sewing_input_limit(b)
  /\ Locked(c, {"sewing"}, [NoRequest EXCEPT !.op = "sew", !.id = r, !.batch = b, !.input = input,
                                             !.output = passed, !.seen = sewn])
  /\ Reads

CommitSewing(c) ==
  /\ Committed(c, "sew")
  /\ record' = [record EXCEPT ![request[c].id] =
       [batch |-> request[c].batch, input |-> request[c].input, passed |-> request[c].output,
        version |-> 0]]
  /\ sewn' = request[c].seen + request[c].output
  /\ UNCHANGED <<cutting, packaging, box>>

\* The clerk opens a record of the list; its version goes with the correction.
ReadRecord(c, r) ==
  /\ Idle(c) /\ record[r].batch # NoBatch /\ record[r].version < MaxVersion
  /\ request' = [request EXCEPT ![c] = [NoRequest EXCEPT !.op = "look", !.id = r, !.row = record[r]]]
  /\ Reads

\* Mutant: the version that was read is not compared.
locked_current(r, read) == record[r].batch # NoBatch /\ ~HandedOff(record[r].batch)

\* The record is there, unchanged since it was read, and not handed over.
locked_record(r, read) ==
  /\ record[r].batch # NoBatch
  /\ record[r].version = read.version
  /\ ~HandedOff(record[r].batch)

\* Totals may shrink while what passed stays covered, and grow as far as Cutting allows.
Correctable(r, input, passed) ==
  LET old == record[r]
      b == old.batch
      fed == Input(b) - old.input + input
  IN /\ input < old.input => Sewn(b) - old.passed + passed <= fed
     /\ input > old.input \/ passed > old.passed => cut[b] > 0
     /\ input > old.input => fed <= _revised_sewing_input_limit(b)

LockCorrection(c, op, input, passed) ==
  LET r == request[c].id
  IN /\ request[c].op = "look"
     /\ locked_record(r, request[c].row) /\ Correctable(r, input, passed)
     /\ Locked(c, {"sewing"}, [request[c] EXCEPT !.op = op, !.input = input, !.output = passed,
                                                 !.seen = sewn + passed - record[r].passed])
     /\ Reads

update(c, input, passed) == LockCorrection(c, "correct", input, passed)
delete(c) == LockCorrection(c, "remove", 0, 0)

CommitCorrection(c) ==
  /\ Committed(c, "correct")
  /\ LET r == request[c].id
     IN record' = [record EXCEPT ![r] =
          [record[r] EXCEPT !.input = request[c].input, !.passed = request[c].output,
                            !.version = record[r].version + 1]]
  /\ sewn' = request[c].seen
  /\ UNCHANGED <<cutting, packaging, box>>

CommitRemoval(c) ==
  /\ Committed(c, "remove")
  /\ record' = [record EXCEPT ![request[c].id] = [NoRecord EXCEPT !.version = record[request[c].id].version + 1]]
  /\ sewn' = request[c].seen
  /\ UNCHANGED <<cutting, packaging, box>>

-----------------------------------------------------------------------------
(* Packaging                                                               *)

receive_packaging_from_sewing(c, b, quantity) ==
  /\ Idle(c) /\ quantity > 0
  /\ quantity <= Greatest(0, Sewn(b) - received[b])
  /\ Locked(c, {"sewing", "packaging"},
            [NoRequest EXCEPT !.op = "receive", !.batch = b, !.input = quantity,
                              !.intake = intake + quantity])
  /\ Reads

CommitReceipt(c) ==
  /\ Committed(c, "receive")
  /\ received' = [received EXCEPT ![request[c].batch] = @ + request[c].input]
  /\ intake' = request[c].intake
  /\ UNCHANGED <<cutting, sewing, entry, packed, box>>

\* Receipts, once there are any, stand for the intake of the work order.
post_packaging(c, e, b, input, good, damaged) ==
  /\ Idle(c) /\ entry[e] = NoEntry /\ Fresh(e, "pack")
  /\ \A x \in Entries : x < e => entry[x] # NoEntry
  /\ good + damaged <= input
  /\ input <= _packaging_input_budgets(b)
  /\ Locked(c, Locks,
            [NoRequest EXCEPT !.op = "pack", !.id = e, !.batch = b, !.input = input, !.output = good,
                              !.damaged = damaged, !.seen = packed + good,
                              !.intake = IF UsesReceipts THEN intake ELSE intake + input])
  /\ Reads

CommitPacking(c) ==
  /\ Committed(c, "pack")
  /\ entry' = [entry EXCEPT ![request[c].id] =
       [batch |-> request[c].batch, input |-> request[c].input, packed |-> request[c].output,
        damaged |-> request[c].damaged]]
  /\ packed' = request[c].seen /\ intake' = request[c].intake
  /\ UNCHANGED <<cutting, sewing, received, box>>

-----------------------------------------------------------------------------
(* Packages                                                                *)

\* Only packed pieces that no other package holds, batch by batch.  The two cases in which
\* the code sets no limit are left out: graded stock, and an order without packaging records
\* for which no evidence is asked.
_enforce_packaged_quantity_available(x, pieces) ==
  \A b \in Batches : pieces[b] <= Greatest(0, PackedOf(b) - _existing_package_totals_by_batch(b, x))

\* create_package and the approved edit of a package: both write its whole contents.
create_package(c, x, pieces) ==
  /\ Idle(c) /\ pieces # NoPieces
  /\ _enforce_packaged_quantity_available(x, pieces)
  /\ Fresh(x, "box")
  /\ Locked(c, {"order"}, [NoRequest EXCEPT !.op = "box", !.id = x, !.pieces = pieces])
  /\ Reads

CommitPackage(c) ==
  /\ Committed(c, "box")
  /\ box' = [box EXCEPT ![request[c].id] = request[c].pieces]
  /\ UNCHANGED <<cutting, sewing, packaging>>

\* The entries of a batch that give up its pieces, the newest first.
Offer(b) == [e \in Entries |-> IF entry[e].batch = b THEN entry[e].packed ELSE 0]
Undone(x, b) == Drains(Offer(b), box[x][b], FALSE)

Taken(e, take) == IF entry[e].batch = NoBatch THEN 0 ELSE take[entry[e].batch][e]

\* The last good piece takes the unprocessed input with it; damaged pieces stay.
Reset(row, n) ==
  IF n = 0 THEN row
  ELSE [row EXCEPT !.packed = @ - n, !.input = IF n < row.packed THEN @ - n ELSE row.damaged]

undo_package_output(c, x, take) ==
  LET after == [e \in Entries |-> Reset(entry[e], Taken(e, take))]
  IN request' = [request EXCEPT ![c] =
       [NoRequest EXCEPT !.op = "unbox", !.locks = {"order", "packaging"}, !.id = x,
                         !.take = [e \in Entries |-> Taken(e, take)],
                         !.seen = SumOf([e \in Entries |-> after[e].packed]),
                         !.intake = IF UsesReceipts THEN intake
                                    ELSE SumOf([e \in Entries |-> after[e].input])]]

\* What is left packed has to cover the other packages.
delete_package(c, x) ==
  /\ Idle(c) /\ box[x] # NoPieces /\ Free({"order", "packaging"})
  /\ \A b \in Batches :
       box[x][b] > 0 => box[x][b] + _existing_package_totals_by_batch(b, x) <= PackedOf(b)
  /\ \E take \in [Batches -> UNION {Undone(x, b) : b \in Batches}] :
       /\ \A b \in Batches : take[b] \in Undone(x, b)
       /\ undo_package_output(c, x, take)
  /\ Reads

CommitDeletion(c) ==
  /\ Committed(c, "unbox")
  /\ entry' = [e \in Entries |-> Reset(entry[e], request[c].take[e])]
  /\ packed' = request[c].seen /\ intake' = request[c].intake
  /\ box' = [box EXCEPT ![request[c].id] = NoPieces]
  /\ UNCHANGED <<cutting, sewing, received>>

-----------------------------------------------------------------------------
(* The system                                                              *)

Cut(c) ==
  \/ \E b \in Batches, n \in CutQuantities : post_cutting(c, b, n)
  \/ \E b \in Batches : LoadCutting(c, b)
  \/ \E n \in CutQuantities : update_cutting_bundle_quantities(c, n)
  \/ \E b \in Batches, n \in PlanQuantities : update_cutting_batch(c, b, n)
  \/ \E b \in Batches, n \in PlanQuantities : update_passport(c, b, n)
Sew(c) ==
  \/ \E r \in Records, b \in Batches, i, n \in SewQuantities : post_sewing(c, r, b, i, n)
  \/ \E r \in Records : ReadRecord(c, r)
  \/ \E i, n \in SewQuantities : update(c, i, n)
  \/ delete(c)
Pack(c) ==
  \/ \E b \in Batches, n \in PackQuantities : receive_packaging_from_sewing(c, b, n)
  \/ \E e \in Entries, b \in Batches, i, n, d \in PackQuantities : post_packaging(c, e, b, i, n, d)
  \/ \E x \in Boxes, pieces \in [Batches -> PackQuantities] : create_package(c, x, pieces)
  \/ \E x \in Boxes : delete_package(c, x)
Commit(c) ==
  \/ CommitCutting(c) \/ CommitResize(c) \/ CommitRevision(c) \/ CommitPassport(c)
  \/ CommitSewing(c) \/ CommitCorrection(c) \/ CommitRemoval(c)
  \/ CommitReceipt(c) \/ CommitPacking(c)
  \/ CommitPackage(c) \/ CommitDeletion(c)

Next == \E c \in Clerks : Cut(c) \/ Sew(c) \/ Pack(c) \/ Commit(c) \/ Abort(c)

Spec == Init /\ [][Next]_vars

-----------------------------------------------------------------------------
(* Properties                                                              *)

TypeOK ==
  /\ cut \in [Batches -> Nat] /\ bundle \in [Batches -> Nat]
  /\ plan \in [Batches -> Nat] /\ revised \in [Batches -> SUBSET Nat]
  /\ record \in [Records -> SewingRow] /\ sewn \in Nat
  /\ received \in [Batches -> Nat] /\ entry \in [Entries -> PackingRow]
  /\ intake \in Nat /\ packed \in Nat
  /\ box \in [Boxes -> [Batches -> Nat]]
  /\ request \in [Clerks -> Request]

\* What Sewing put in was cut, or is within the count that Cutting has revised the batch to:
\* neither goes below it once it is recorded, no other plan lifts it, and no two entries or
\* corrections use the same pieces.
SewingWithinLimit ==
  \A b \in Batches :
    Input(b) > cut[b] => cut[b] > 0 /\ plan[b] \in revised[b] /\ Input(b) <= plan[b]

\* What Packaging received or put in passed Sewing, and still does after corrections;
\* what the packages hold was packed, and still is after other packages were undone.
HandedOverWithinMade ==
  \A b \in Batches :
    /\ received[b] <= Sewn(b) /\ EntrySum(b, "input") <= Sewn(b)
    /\ PackedOf(b) + EntrySum(b, "damaged") <= EntrySum(b, "input")
    /\ _existing_package_totals_by_batch(b, 0) <= PackedOf(b)

\* The counters of the work orders are the totals of their records, whichever requests
\* update them side by side.
CountersAgree ==
  /\ sewn = SumOf([r \in Records |-> record[r].passed])
  /\ packed = SumOf([e \in Entries |-> entry[e].packed])
  /\ IF UsesReceipts THEN SumOf(received) <= intake
     ELSE intake = SumOf([e \in Entries |-> entry[e].input])

\* A correction replaces the record its clerk was looking at, never what another clerk
\* made of it meanwhile.
CorrectsWhatWasSeen ==
  [][\A c \in Clerks :
       request[c].op \in {"correct", "remove"} /\ sewing' # sewing
         => record[request[c].id] = request[c].row \/ request'[c] = request[c]]_vars

Made == INSTANCE PieceFlow WITH
  made <- [b \in Batches |-> Sewn(b)], handed <- received,
  used <- [b \in Batches |-> EntrySum(b, "input")], packed <- [b \in Batches |-> PackedOf(b)],
  boxed <- [b \in Batches |-> _existing_package_totals_by_batch(b, 0)],
  fed <- [b \in Batches |-> Input(b)],
  allowed <- [b \in Batches |-> _revised_sewing_input_limit(b)]

\* Every request, whatever runs beside it, does to the pieces of its batch what the floor
\* promises: corrections, removals and undone packages included.
ImplementsPieceFlow == Made!Spec
=============================================================================
