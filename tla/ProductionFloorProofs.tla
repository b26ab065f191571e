----------------------- MODULE ProductionFloorProofs ------------------------
(***************************************************************************)
(* For every order, every number of batches, clerks, records and packages: *)
(* the types hold, no stage uses more than the stage before it has made,   *)
(* the counters of the work orders are the totals of their records, a      *)
(* correction replaces what its clerk has seen, and every commit is one    *)
(* step of PieceFlow.  A request writes what it decided a step earlier, so *)
(* the invariant says that its decision still stands (Decided), because    *)
(* nobody else holds its locks (Exclusive).                                *)
(***************************************************************************)
EXTENDS ProductionFloor, SumTheorems, TLAPS

\* The rows a request of each kind holds.
LocksOf(op) ==
  CASE op \in {"cut", "passport"} -> {"order", "sewing"}
    [] op \in {"resize", "revise", "sew", "correct", "remove"} -> {"sewing"}
    [] op = "receive" -> {"sewing", "packaging"}
    [] op = "pack" -> Locks
    [] op = "box" -> {"order"}
    [] op = "unbox" -> {"order", "packaging"}
    [] OTHER -> {}

Exclusive == \A c, d \in Clerks : c # d => request[c].locks \cap request[d].locks = {}

\* What the request q has decided under its locks is still right.
DecidedCut(q) ==
  q.op \in {"cut", "resize", "revise", "passport"} => q.batch \in Batches /\ Mutable(q.batch)

DecidedLoad(q) ==
  q.op = "load" => q.batch \in Batches

DecidedSew(q) ==
  q.op = "sew" =>
    /\ q.id \in Records /\ q.batch \in Batches /\ record[q.id] = NoRecord
    /\ Input(q.batch) + q.input <= _revised_sewing_input_limit(q.batch)
    /\ q.seen = sewn

\* A record with the version that was read is the record that was read.
DecidedLook(q) ==
  q.op \in {"look", "correct", "remove"} =>
    /\ q.id \in Records /\ q.row.batch \in Batches
    /\ q.row.version <= record[q.id].version
    /\ q.row.version = record[q.id].version => record[q.id] = q.row

DecidedCorrection(q) ==
  /\ q.op \in {"correct", "remove"} =>
       /\ locked_record(q.id, q.row) /\ Correctable(q.id, q.input, q.output)
       /\ q.seen = sewn + q.output - record[q.id].passed
  /\ q.op = "remove" => q.input = 0 /\ q.output = 0

DecidedReceipt(q) ==
  q.op = "receive" =>
    /\ q.batch \in Batches /\ q.input > 0
    /\ received[q.batch] + q.input <= Sewn(q.batch)
    /\ q.intake = intake + q.input

DecidedPacking(q) ==
  q.op = "pack" =>
    /\ q.id \in Entries /\ q.batch \in Batches /\ entry[q.id] = NoEntry
    /\ q.output + q.damaged <= q.input
    /\ EntrySum(q.batch, "input") + q.input <= Sewn(q.batch)
    /\ q.seen = packed + q.output
    /\ q.intake = IF UsesReceipts THEN intake ELSE intake + q.input

DecidedBox(q) ==
  q.op = "box" =>
    /\ q.id \in Boxes
    /\ \A b \in Batches : q.pieces[b] + _existing_package_totals_by_batch(b, q.id) <= PackedOf(b)

Left(q) == [e \in Entries |-> Reset(entry[e], q.take[e])]
TakenFrom(q, b) == SumOf([e \in Entries |-> IF entry[e].batch = b THEN q.take[e] ELSE 0])

DecidedUnboxing(q) ==
  q.op = "unbox" =>
    /\ q.id \in Boxes
    /\ \A e \in Entries : q.take[e] <= entry[e].packed
    /\ \A b \in Batches : TakenFrom(q, b) = box[q.id][b]
    /\ \A b \in Batches :
         _existing_package_totals_by_batch(b, q.id)
           <= SumOf([e \in Entries |-> IF entry[e].batch = b THEN Left(q)[e].packed ELSE 0])
    /\ q.seen = SumOf([e \in Entries |-> Left(q)[e].packed])
    /\ q.intake = IF UsesReceipts THEN intake ELSE SumOf([e \in Entries |-> Left(q)[e].input])

Decided(q) ==
  /\ q.locks = LocksOf(q.op)
  /\ DecidedCut(q) /\ DecidedLoad(q) /\ DecidedSew(q) /\ DecidedLook(q) /\ DecidedCorrection(q)
  /\ DecidedReceipt(q) /\ DecidedPacking(q) /\ DecidedBox(q) /\ DecidedUnboxing(q)

\* An entry never says more of its pieces than it put in.
EntriesSound == \A e \in Entries : entry[e].packed + entry[e].damaged <= entry[e].input

TablesType ==
  /\ cut \in [Batches -> Nat] /\ bundle \in [Batches -> Nat]
  /\ plan \in [Batches -> Nat] /\ revised \in [Batches -> SUBSET Nat]
  /\ record \in [Records -> SewingRow] /\ sewn \in Nat
  /\ received \in [Batches -> Nat] /\ entry \in [Entries -> PackingRow]
  /\ intake \in Nat /\ packed \in Nat
  /\ box \in [Boxes -> [Batches -> Nat]]

TablesSound ==
  /\ TablesType
  /\ EntriesSound
  /\ SewingWithinLimit
  /\ HandedOverWithinMade
  /\ CountersAgree

\* Named by a constant q, so that it is clear in proofs which state a decision is judged in.
RequestsSound ==
  /\ request \in [Clerks -> Request]
  /\ Exclusive
  /\ \A c \in Clerks : \A q \in Request : request[c] = q => Decided(q)

FloorInvariant == TablesSound /\ RequestsSound

-----------------------------------------------------------------------------
(* Totals                                                                  *)

\* Every table is finite, so its totals are sums.
LEMMA TablesFinite ==
  IsFiniteSet(Batches) /\ IsFiniteSet(Records) /\ IsFiniteSet(Entries) /\ IsFiniteSet(Boxes)
  BY ProductionFloorAssumption

\* The columns whose totals the floor uses are natural numbers, for each batch.
LEMMA TotalTypes ==
  ASSUME TablesType, NEW b \in Batches
  PROVE  /\ [r \in Records |-> IF record[r].batch = b THEN record[r].input ELSE 0] \in [Records -> Nat]
         /\ [r \in Records |-> IF record[r].batch = b THEN record[r].passed ELSE 0] \in [Records -> Nat]
         /\ [e \in Entries |-> IF entry[e].batch = b THEN entry[e].input ELSE 0] \in [Entries -> Nat]
         /\ [e \in Entries |-> IF entry[e].batch = b THEN entry[e].packed ELSE 0] \in [Entries -> Nat]
         /\ [e \in Entries |-> IF entry[e].batch = b THEN entry[e].damaged ELSE 0] \in [Entries -> Nat]
  BY DEF TablesType, SewingRow, PackingRow

\* What a batch has put in, sewn, packed and boxed are natural numbers.
LEMMA TotalsNat ==
  ASSUME TablesType, NEW b \in Batches
  PROVE  /\ Input(b) \in Nat /\ Sewn(b) \in Nat
         /\ EntrySum(b, "input") \in Nat /\ PackedOf(b) \in Nat /\ EntrySum(b, "damaged") \in Nat
         /\ \A x : _existing_package_totals_by_batch(b, x) \in Nat
<1> USE ProductionFloorAssumption
<1>1. Input(b) \in Nat /\ Sewn(b) \in Nat
  BY TotalTypes, UnitsFinite DEF Input, Sewn, RecordSum
<1>2. EntrySum(b, "input") \in Nat /\ PackedOf(b) \in Nat /\ EntrySum(b, "damaged") \in Nat
  BY TotalTypes, UnitsFinite DEF EntrySum, PackedOf
<1>3. \A x : _existing_package_totals_by_batch(b, x) \in Nat
  <2> TAKE x
  <2>1. [y \in Boxes |-> IF y = x THEN 0 ELSE box[y][b]] \in [Boxes -> Nat]
    BY ONLY TablesType, b \in Batches DEF TablesType
  <2>2. SumOf([y \in Boxes |-> IF y = x THEN 0 ELSE box[y][b]]) \in Nat
    BY ONLY <2>1, TablesFinite, UnitsFinite
  <2> QED
    BY ONLY <2>2 DEF _existing_package_totals_by_batch
<1> QED
  BY <1>1, <1>2, <1>3

\* The strongest evidence of later stages is a natural number.
LEMMA EvidenceNat ==
  ASSUME TablesType, NEW b \in Batches
  PROVE  downstream_quantity(b) \in Nat
<1>1. /\ Input(b) \in Nat /\ Sewn(b) \in Nat /\ EntrySum(b, "input") \in Nat
      /\ _existing_package_totals_by_batch(b, 0) \in Nat
  BY TotalsNat
<1>2. received[b] \in Nat
  BY DEF TablesType
<1>3. \A m, n \in Nat : Greatest(m, n) \in Nat
  BY DEF Greatest
<1> QED
  BY ONLY <1>1, <1>2, <1>3 DEF downstream_quantity

\* Sewing's limit is not below what was cut, and nothing before anything was cut.
LEMMA LimitCoversCut ==
  ASSUME TablesType, NEW b \in Batches
  PROVE  /\ cut[b] \in Nat /\ _revised_sewing_input_limit(b) \in Nat
         /\ cut[b] <= _revised_sewing_input_limit(b)
         /\ cut[b] = 0 => _revised_sewing_input_limit(b) = 0
<1>1. cut[b] \in Nat /\ plan[b] \in Nat
  BY DEF TablesType
<1> QED
  BY <1>1 DEF _revised_sewing_input_limit, Greatest

\* A count n is within Sewing's limit when it was cut, or is within what the batch was revised to.
LEMMA LimitSays ==
  ASSUME TablesType, NEW b \in Batches, NEW n \in Nat
  PROVE  n <= _revised_sewing_input_limit(b)
           <=> (n > cut[b] => cut[b] > 0 /\ plan[b] \in revised[b] /\ n <= plan[b])
<1>1. cut[b] \in Nat /\ plan[b] \in Nat
  BY DEF TablesType
<1> QED
  BY <1>1 DEF _revised_sewing_input_limit, Greatest

\* Writing one sewing record moves the totals by the difference.
LEMMA RecordReplaced ==
  ASSUME TablesType, NEW r \in Records, NEW row \in SewingRow,
         record' = [record EXCEPT ![r] = row]
  PROVE  /\ \A b \in Batches :
              /\ Input(b)' \in Nat /\ Sewn(b)' \in Nat
              /\ Input(b)' + (IF record[r].batch = b THEN record[r].input ELSE 0)
                   = Input(b) + (IF row.batch = b THEN row.input ELSE 0)
              /\ Sewn(b)' + (IF record[r].batch = b THEN record[r].passed ELSE 0)
                   = Sewn(b) + (IF row.batch = b THEN row.passed ELSE 0)
         /\ SumOf([s \in Records |-> record[s].passed])' + record[r].passed
              = SumOf([s \in Records |-> record[s].passed]) + row.passed
<1> USE ProductionFloorAssumption
<1>1. /\ record \in [Records -> SewingRow] /\ record' \in [Records -> SewingRow]
      /\ record'[r] = row /\ \A s \in Records : s # r => record'[s] = record[s]
  BY DEF TablesType
<1>2. ASSUME NEW b \in Batches
      PROVE  /\ Input(b)' \in Nat
             /\ Input(b)' + (IF record[r].batch = b THEN record[r].input ELSE 0)
                  = Input(b) + (IF row.batch = b THEN row.input ELSE 0)
  <2> DEFINE f == [s \in Records |-> IF record[s].batch = b THEN record[s].input ELSE 0]
             g == [s \in Records |-> IF record'[s].batch = b THEN record'[s].input ELSE 0]
  <2>1. f \in [Records -> Nat] /\ g \in [Records -> Nat]
    BY <1>1 DEF SewingRow
  <2>2. \A s \in Records : s # r => g[s] = f[s]
    BY <1>1
  <2>3. /\ f[r] = IF record[r].batch = b THEN record[r].input ELSE 0
        /\ g[r] = IF row.batch = b THEN row.input ELSE 0
        /\ Input(b) = SumOf(f) /\ Input(b)' = SumOf(g)
    BY <1>1 DEF Input, RecordSum
  <2> HIDE DEF f, g
  <2>4. SumOf(g) \in Nat
    BY <2>1, UnitsFinite
  <2>5. SumOf(g) + f[r] = SumOf(f) + g[r]
    BY <2>1, <2>2, SumReplaced
  <2> QED
    BY ONLY <2>3, <2>4, <2>5
<1>3. ASSUME NEW b \in Batches
      PROVE  /\ Sewn(b)' \in Nat
             /\ Sewn(b)' + (IF record[r].batch = b THEN record[r].passed ELSE 0)
                  = Sewn(b) + (IF row.batch = b THEN row.passed ELSE 0)
  <2> DEFINE f == [s \in Records |-> IF record[s].batch = b THEN record[s].passed ELSE 0]
             g == [s \in Records |-> IF record'[s].batch = b THEN record'[s].passed ELSE 0]
  <2>1. f \in [Records -> Nat] /\ g \in [Records -> Nat]
    BY <1>1 DEF SewingRow
  <2>2. \A s \in Records : s # r => g[s] = f[s]
    BY <1>1
  <2>3. /\ f[r] = IF record[r].batch = b THEN record[r].passed ELSE 0
        /\ g[r] = IF row.batch = b THEN row.passed ELSE 0
        /\ Sewn(b) = SumOf(f) /\ Sewn(b)' = SumOf(g)
    BY <1>1 DEF Sewn, RecordSum
  <2> HIDE DEF f, g
  <2>4. SumOf(g) \in Nat
    BY <2>1, UnitsFinite
  <2>5. SumOf(g) + f[r] = SumOf(f) + g[r]
    BY <2>1, <2>2, SumReplaced
  <2> QED
    BY ONLY <2>3, <2>4, <2>5
<1>4. SumOf([s \in Records |-> record[s].passed])' + record[r].passed
        = SumOf([s \in Records |-> record[s].passed]) + row.passed
  <2> DEFINE f == [s \in Records |-> record[s].passed]
             g == [s \in Records |-> record'[s].passed]
  <2>1. f \in [Records -> Nat] /\ g \in [Records -> Nat]
    BY <1>1 DEF SewingRow
  <2>2. \A s \in Records : s # r => g[s] = f[s]
    BY <1>1
  <2>3. f[r] = record[r].passed /\ g[r] = row.passed
    BY <1>1
  <2> QED
    BY <2>1, <2>2, <2>3, SumReplaced
<1> QED
  BY <1>2, <1>3, <1>4

\* Writing one packaging entry where there was none adds it to the totals.
LEMMA EntryAdded ==
  ASSUME TablesType, NEW e \in Entries, NEW row \in PackingRow, entry[e] = NoEntry,
         entry' = [entry EXCEPT ![e] = row], row.batch \in Batches
  PROVE  /\ \A b \in Batches :
              /\ EntrySum(b, "input")' = EntrySum(b, "input") + (IF row.batch = b THEN row.input ELSE 0)
              /\ PackedOf(b)' = PackedOf(b) + (IF row.batch = b THEN row.packed ELSE 0)
         /\ SumOf([s \in Entries |-> entry[s].packed])'
              = SumOf([s \in Entries |-> entry[s].packed]) + row.packed
         /\ SumOf([s \in Entries |-> entry[s].input])'
              = SumOf([s \in Entries |-> entry[s].input]) + row.input
<1> USE ProductionFloorAssumption
<1>1. /\ entry \in [Entries -> PackingRow] /\ entry' \in [Entries -> PackingRow]
      /\ entry'[e] = row /\ \A s \in Entries : s # e => entry'[s] = entry[s]
      /\ entry[e].batch \notin Batches /\ entry[e].input = 0 /\ entry[e].packed = 0
      /\ row.input \in Nat /\ row.packed \in Nat
  BY DEF TablesType, NoEntry, PackingRow
<1>2. ASSUME NEW b \in Batches
      PROVE  EntrySum(b, "input")' = EntrySum(b, "input") + (IF row.batch = b THEN row.input ELSE 0)
  <2> DEFINE f == [s \in Entries |-> IF entry[s].batch = b THEN entry[s].input ELSE 0]
             g == [s \in Entries |-> IF entry'[s].batch = b THEN entry'[s].input ELSE 0]
  <2>1. f \in [Entries -> Nat] /\ g \in [Entries -> Nat]
    BY <1>1 DEF PackingRow
  <2>2. \A s \in Entries : s # e => g[s] = f[s]
    BY <1>1
  <2>3. /\ f[e] = 0
        /\ g[e] = IF row.batch = b THEN row.input ELSE 0
        /\ EntrySum(b, "input") = SumOf(f) /\ EntrySum(b, "input")' = SumOf(g)
    BY <1>1 DEF EntrySum
  <2>4. SumOf(f) \in Nat /\ SumOf(g) \in Nat
    BY <2>1, UnitsFinite
  <2> HIDE DEF f, g
  <2>5. SumOf(g) + f[e] = SumOf(f) + g[e]
    BY ONLY <2>1, <2>2, e \in Entries, TablesFinite, SumReplaced
  <2> QED
    BY ONLY <2>1, <2>3, <2>4, <2>5, <1>1
<1>3. ASSUME NEW b \in Batches
      PROVE  PackedOf(b)' = PackedOf(b) + (IF row.batch = b THEN row.packed ELSE 0)
  <2> DEFINE f == [s \in Entries |-> IF entry[s].batch = b THEN entry[s].packed ELSE 0]
             g == [s \in Entries |-> IF entry'[s].batch = b THEN entry'[s].packed ELSE 0]
  <2>1. f \in [Entries -> Nat] /\ g \in [Entries -> Nat]
    BY <1>1 DEF PackingRow
  <2>2. \A s \in Entries : s # e => g[s] = f[s]
    BY <1>1
  <2>3. /\ f[e] = 0
        /\ g[e] = IF row.batch = b THEN row.packed ELSE 0
        /\ PackedOf(b) = SumOf(f) /\ PackedOf(b)' = SumOf(g)
    BY <1>1 DEF EntrySum, PackedOf
  <2>4. SumOf(f) \in Nat /\ SumOf(g) \in Nat
    BY <2>1, UnitsFinite
  <2> HIDE DEF f, g
  <2>5. SumOf(g) + f[e] = SumOf(f) + g[e]
    BY ONLY <2>1, <2>2, e \in Entries, TablesFinite, SumReplaced
  <2> QED
    BY ONLY <2>1, <2>3, <2>4, <2>5, <1>1
<1>4. /\ SumOf([s \in Entries |-> entry[s].packed])'
           = SumOf([s \in Entries |-> entry[s].packed]) + row.packed
      /\ SumOf([s \in Entries |-> entry[s].input])'
           = SumOf([s \in Entries |-> entry[s].input]) + row.input
  <2> DEFINE f == [s \in Entries |-> entry[s].packed]
             g == [s \in Entries |-> entry'[s].packed]
             i == [s \in Entries |-> entry[s].input]
             j == [s \in Entries |-> entry'[s].input]
  <2>1. /\ f \in [Entries -> Nat] /\ g \in [Entries -> Nat]
        /\ i \in [Entries -> Nat] /\ j \in [Entries -> Nat]
    BY <1>1 DEF PackingRow
  <2>2. \A s \in Entries : s # e => g[s] = f[s] /\ j[s] = i[s]
    BY <1>1
  <2>3. f[e] = 0 /\ g[e] = row.packed /\ i[e] = 0 /\ j[e] = row.input
    BY <1>1
  <2>4. SumOf(f) \in Nat /\ SumOf(g) \in Nat /\ SumOf(i) \in Nat /\ SumOf(j) \in Nat
    BY <2>1, UnitsFinite
  <2> HIDE DEF f, g, i, j
  <2>5. SumOf(g) + f[e] = SumOf(f) + g[e]
    BY ONLY <2>1, <2>2, e \in Entries, TablesFinite, SumReplaced
  <2>6. SumOf(j) + i[e] = SumOf(i) + j[e]
    BY ONLY <2>1, <2>2, e \in Entries, TablesFinite, SumReplaced
  <2>7. SumOf(g) = SumOf(f) + row.packed /\ SumOf(j) = SumOf(i) + row.input
    BY ONLY <2>3, <2>4, <2>5, <2>6, <1>1
  <2> QED
    BY <2>7 DEF f, g, i, j
<1> QED
  BY <1>2, <1>3, <1>4

\* Pieces packed or damaged in a batch were put in, if every entry says so after a step.
LEMMA EntriesCoveredNext ==
  ASSUME TablesType', EntriesSound', NEW b \in Batches
  PROVE  (PackedOf(b) + EntrySum(b, "damaged") <= EntrySum(b, "input"))'
<1> DEFINE f == [e \in Entries |-> IF entry'[e].batch = b THEN entry'[e].packed ELSE 0]
           g == [e \in Entries |-> IF entry'[e].batch = b THEN entry'[e].damaged ELSE 0]
           h == [e \in Entries |-> IF entry'[e].batch = b THEN entry'[e].input ELSE 0]
           k == [e \in Entries |-> f[e] + g[e]]
<1>1. f \in [Entries -> Nat] /\ g \in [Entries -> Nat] /\ h \in [Entries -> Nat] /\ k \in [Entries -> Nat]
  BY DEF TablesType, PackingRow
<1>2. \A e \in Entries : k[e] = f[e] + g[e]
  OBVIOUS
<1>3. \A e \in Entries : k[e] <= h[e]
  BY DEF TablesType, PackingRow, EntriesSound
<1>4. SumOf(f) = PackedOf(b)' /\ SumOf(g) = EntrySum(b, "damaged")' /\ SumOf(h) = EntrySum(b, "input")'
  BY DEF EntrySum, PackedOf
<1> HIDE DEF f, g, h, k
<1>5. SumOf(k) = SumOf(f) + SumOf(g)
  BY ONLY <1>1, <1>2, TablesFinite, SumAdds
<1>6. SumOf(k) <= SumOf(h)
  BY ONLY <1>1, <1>3, TablesFinite, SumMonotone
<1> QED
  BY ONLY <1>4, <1>5, <1>6

\* The pieces of a batch in all packages are those in x and those in the others.
LEMMA BoxesSplit ==
  ASSUME TablesType, NEW x \in Boxes, NEW b \in Batches
  PROVE  _existing_package_totals_by_batch(b, 0) = _existing_package_totals_by_batch(b, x) + box[x][b]
<1> USE ProductionFloorAssumption
<1> DEFINE f == [y \in Boxes |-> IF y = 0 THEN 0 ELSE box[y][b]]
           g == [y \in Boxes |-> IF y = x THEN 0 ELSE box[y][b]]
<1>1. f \in [Boxes -> Nat] /\ g \in [Boxes -> Nat]
  BY ONLY TablesType, b \in Batches DEF TablesType
<1>2. (\A y \in Boxes : y # x => g[y] = f[y]) /\ f[x] = box[x][b] /\ g[x] = 0
  OBVIOUS
<1>3. SumOf(f) \in Nat /\ SumOf(g) \in Nat
  BY <1>1, UnitsFinite
<1>4. SumOf(g) + f[x] = SumOf(f) + g[x]
  BY <1>1, <1>2, SumReplaced
<1>5. SumOf(f) = SumOf(g) + box[x][b]
  BY ONLY <1>1, <1>2, <1>3, <1>4
<1> QED
  BY <1>5 DEF _existing_package_totals_by_batch

\* Writing a package leaves the other packages as they were.
LEMMA BoxReplaced ==
  ASSUME TablesType, NEW x \in Boxes, NEW p \in [Batches -> Nat], box' = [box EXCEPT ![x] = p]
  PROVE  /\ box' \in [Boxes -> [Batches -> Nat]]
         /\ \A b \in Batches :
              _existing_package_totals_by_batch(b, 0)' = _existing_package_totals_by_batch(b, x) + p[b]
<1>1. box \in [Boxes -> [Batches -> Nat]] /\ 0 \notin Boxes
  BY ProductionFloorAssumption DEF TablesType
<1>2. /\ box' \in [Boxes -> [Batches -> Nat]] /\ box'[x] = p
      /\ \A y \in Boxes : y # x => box'[y] = box[y]
  BY <1>1
<1>3. ASSUME NEW b \in Batches
      PROVE  _existing_package_totals_by_batch(b, 0)' = _existing_package_totals_by_batch(b, x) + p[b]
  <2> DEFINE f == [y \in Boxes |-> IF y = 0 THEN 0 ELSE box'[y][b]]
             g == [y \in Boxes |-> IF y = x THEN 0 ELSE box[y][b]]
  <2>1. f \in [Boxes -> Nat] /\ g \in [Boxes -> Nat]
    BY <1>1, <1>2
  <2>2. (\A y \in Boxes : y # x => g[y] = f[y]) /\ f[x] = p[b] /\ g[x] = 0
    BY <1>1, <1>2
  <2>3. SumOf(f) = _existing_package_totals_by_batch(b, 0)'
    BY DEF _existing_package_totals_by_batch
  <2>4. SumOf(g) = _existing_package_totals_by_batch(b, x)
    BY DEF _existing_package_totals_by_batch
  <2> HIDE DEF f, g
  <2>5. SumOf(g) + f[x] = SumOf(f) + g[x]
    BY <2>1, <2>2, TablesFinite, SumReplaced
  <2>6. SumOf(f) \in Nat /\ SumOf(g) \in Nat
    BY <2>1, TablesFinite, UnitsFinite
  <2> QED
    BY <2>2, <2>3, <2>4, <2>5, <2>6
<1> QED
  BY <1>2, <1>3

-----------------------------------------------------------------------------
(* A request that looks                                                    *)

\* Where no table changes, decisions stand.
LEMMA DecisionsStand ==
  ASSUME Reads, NEW q
  PROVE  Decided(q)' <=> Decided(q)
<1>1. /\ cut' = cut /\ plan' = plan /\ revised' = revised
      /\ record' = record /\ sewn' = sewn /\ received' = received
      /\ entry' = entry /\ intake' = intake /\ packed' = packed /\ box' = box
  BY DEF Reads, cutting, sewing, packaging
<1>2. /\ \A b : Input(b)' = Input(b) /\ Sewn(b)' = Sewn(b) /\ PackedOf(b)' = PackedOf(b)
      /\ \A b : EntrySum(b, "input")' = EntrySum(b, "input") /\ Mutable(b)' = Mutable(b)
      /\ \A b : HandedOff(b)' = HandedOff(b)
      /\ \A b, x : _existing_package_totals_by_batch(b, x)' = _existing_package_totals_by_batch(b, x)
      /\ UsesReceipts' = UsesReceipts
      /\ \A b : _revised_sewing_input_limit(b)' = _revised_sewing_input_limit(b)
  BY <1>1 DEF Input, Sewn, RecordSum, PackedOf, EntrySum, Mutable, HandedOff,
     _existing_package_totals_by_batch, UsesReceipts, _revised_sewing_input_limit
<1>3. Left(q)' = Left(q) /\ \A b : TakenFrom(q, b)' = TakenFrom(q, b)
  BY <1>1 DEF Left, TakenFrom
<1>4. /\ DecidedCut(q)' <=> DecidedCut(q)
      /\ DecidedLoad(q)' <=> DecidedLoad(q)
      /\ DecidedSew(q)' <=> DecidedSew(q)
      /\ DecidedLook(q)' <=> DecidedLook(q)
  BY <1>1, <1>2 DEF DecidedCut, DecidedLoad, DecidedSew, DecidedLook
<1>5. DecidedCorrection(q)' <=> DecidedCorrection(q)
  BY <1>1, <1>2 DEF DecidedCorrection, locked_record, Correctable
<1>6. /\ DecidedReceipt(q)' <=> DecidedReceipt(q)
      /\ DecidedPacking(q)' <=> DecidedPacking(q)
      /\ DecidedBox(q)' <=> DecidedBox(q)
  BY <1>1, <1>2 DEF DecidedReceipt, DecidedPacking, DecidedBox
<1>7. DecidedUnboxing(q)' <=> DecidedUnboxing(q)
  BY <1>1, <1>2, <1>3 DEF DecidedUnboxing
<1> QED
  BY <1>4, <1>5, <1>6, <1>7 DEF Decided

\* Where no table changes, the tables stay sound.
LEMMA TablesStand ==
  ASSUME Reads, TablesSound
  PROVE  TablesSound'
  BY DEF Reads, cutting, sewing, packaging, TablesSound, TablesType, EntriesSound, SewingWithinLimit,
     HandedOverWithinMade, CountersAgree, Input, Sewn, RecordSum, PackedOf, EntrySum,
     _existing_package_totals_by_batch, UsesReceipts

\* A request that looks, locks what is free and decides rightly.
LEMMA LookKeeps ==
  ASSUME FloorInvariant, NEW c \in Clerks, NEW q \in Request, Reads,
         request' = [request EXCEPT ![c] = q], Free(q.locks), Decided(q)
  PROVE  FloorInvariant'
<1>1. TablesSound'
  BY TablesStand DEF FloorInvariant
<1>2. /\ request' \in [Clerks -> Request]
      /\ request'[c] = q
      /\ \A d \in Clerks : d # c => request'[d] = request[d]
  BY DEF FloorInvariant, RequestsSound
<1>3. Exclusive'
  BY <1>2 DEF Exclusive, Free, FloorInvariant, RequestsSound
<1>4. ASSUME NEW d \in Clerks, NEW p \in Request, request'[d] = p
      PROVE  Decided(p)'
  <2>1. Decided(p)
    BY <1>2, <1>4 DEF FloorInvariant, RequestsSound
  <2> QED
    BY ONLY <2>1, Reads, DecisionsStand
<1> QED
  BY <1>1, <1>2, <1>3, <1>4 DEF FloorInvariant, RequestsSound

\* A clerk with nothing open holds no lock and has decided nothing.
LEMMA NoRequestSound ==
  /\ NoRequest \in Request /\ NoRequest.op = "none" /\ NoRequest.locks = {}
  /\ Decided(NoRequest) /\ Decided(NoRequest)'
<1>1. /\ NoRequest \in Request /\ NoRequest.op = "none" /\ NoRequest.locks = {}
  BY DEF NoRequest, Request, NoRecord, SewingRow, NoPieces, NoTake
<1>2. LocksOf("none") = {}
  BY DEF LocksOf
<1> QED
  BY <1>1, <1>2 DEF Decided, DecidedCut, DecidedLoad, DecidedSew, DecidedLook, DecidedCorrection,
     DecidedReceipt, DecidedPacking, DecidedBox, DecidedUnboxing

\* A refused or abandoned request only lets go of its locks.
LEMMA AbortKeeps ==
  ASSUME FloorInvariant, NEW c \in Clerks, Abort(c)
  PROVE  FloorInvariant'
<1>1. Reads
  BY DEF Abort, Reads
<1>2. request' = [request EXCEPT ![c] = NoRequest]
  BY DEF Abort
<1>3. Free(NoRequest.locks)
  BY NoRequestSound DEF Free
<1> QED
  BY ONLY FloorInvariant, c \in Clerks, <1>1, <1>2, <1>3, NoRequestSound, LookKeeps

\* Posting cutting holds the locks of its order and of Sewing, and the batch still is open to it.
LEMMA CuttingLooks ==
  ASSUME FloorInvariant, NEW c \in Clerks, NEW b \in Batches, NEW n \in CutQuantities,
         post_cutting(c, b, n)
  PROVE  FloorInvariant'
<1> USE ProductionFloorAssumption
<1> DEFINE q == [[NoRequest EXCEPT !.op = "cut", !.batch = b, !.output = n]
                   EXCEPT !.locks = {"order", "sewing"}]
<1>1. q \in Request /\ q.op = "cut" /\ q.locks = {"order", "sewing"} /\ q.batch = b
  BY NoRequestSound DEF Request, Locks, NoRequest
<1>2. Reads /\ request' = [request EXCEPT ![c] = q] /\ Free({"order", "sewing"}) /\ Mutable(b)
  BY DEF post_cutting, Locked
<1> HIDE DEF q
<1>3. Decided(q)
  BY <1>1, <1>2 DEF Decided, LocksOf, DecidedCut, DecidedLoad, DecidedSew, DecidedLook,
     DecidedCorrection, DecidedReceipt, DecidedPacking, DecidedBox, DecidedUnboxing
<1> QED
  BY <1>1, <1>2, <1>3, LookKeeps

\* A revision of a batch holds Sewing, and the batch still is open to it.
LEMMA RevisionLooks ==
  ASSUME FloorInvariant, NEW c \in Clerks, NEW b \in Batches, NEW n \in PlanQuantities,
         update_cutting_batch(c, b, n)
  PROVE  FloorInvariant'
<1> USE ProductionFloorAssumption
<1> DEFINE q == [[NoRequest EXCEPT !.op = "revise", !.batch = b, !.output = n]
                   EXCEPT !.locks = {"sewing"}]
<1>1. q \in Request /\ q.op = "revise" /\ q.locks = {"sewing"} /\ q.batch = b
  BY NoRequestSound DEF Request, Locks, NoRequest
<1>2. Reads /\ request' = [request EXCEPT ![c] = q] /\ Free({"sewing"}) /\ Mutable(b)
  BY DEF update_cutting_batch, Locked
<1> HIDE DEF q
<1>3. Decided(q)
  BY <1>1, <1>2 DEF Decided, LocksOf, DecidedCut, DecidedLoad, DecidedSew, DecidedLook,
     DecidedCorrection, DecidedReceipt, DecidedPacking, DecidedBox, DecidedUnboxing
<1> QED
  BY <1>1, <1>2, <1>3, LookKeeps

\* An edited passport holds the order and Sewing, and its batch still is open to Cutting.
LEMMA PassportLooks ==
  ASSUME FloorInvariant, NEW c \in Clerks, NEW b \in Batches, NEW n \in PlanQuantities,
         update_passport(c, b, n)
  PROVE  FloorInvariant'
<1> USE ProductionFloorAssumption
<1> DEFINE q == [[NoRequest EXCEPT !.op = "passport", !.batch = b, !.output = n]
                   EXCEPT !.locks = {"order", "sewing"}]
<1>1. q \in Request /\ q.op = "passport" /\ q.locks = {"order", "sewing"} /\ q.batch = b
  BY NoRequestSound DEF Request, Locks, NoRequest
<1>2. Reads /\ request' = [request EXCEPT ![c] = q] /\ Free({"order", "sewing"}) /\ Mutable(b)
  BY DEF update_passport, Locked
<1> HIDE DEF q
<1>3. Decided(q)
  BY <1>1, <1>2 DEF Decided, LocksOf, DecidedCut, DecidedLoad, DecidedSew, DecidedLook,
     DecidedCorrection, DecidedReceipt, DecidedPacking, DecidedBox, DecidedUnboxing
<1> QED
  BY <1>1, <1>2, <1>3, LookKeeps

\* A cutting record loaded for a correction decides nothing yet.
LEMMA LoadLooks ==
  ASSUME FloorInvariant, NEW c \in Clerks, NEW b \in Batches, LoadCutting(c, b)
  PROVE  FloorInvariant'
<1> USE ProductionFloorAssumption
<1> DEFINE q == [NoRequest EXCEPT !.op = "load", !.batch = b, !.seen = cut[b]]
<1>1. q \in Request /\ q.op = "load" /\ q.locks = {} /\ q.batch = b
  BY NoRequestSound DEF Request, NoRequest, FloorInvariant, TablesSound, TablesType
<1>2. Reads /\ request' = [request EXCEPT ![c] = q] /\ Free({})
  BY DEF LoadCutting, Free
<1> HIDE DEF q
<1>3. Decided(q)
  BY <1>1 DEF Decided, LocksOf, DecidedCut, DecidedLoad, DecidedSew, DecidedLook,
     DecidedCorrection, DecidedReceipt, DecidedPacking, DecidedBox, DecidedUnboxing
<1> QED
  BY <1>1, <1>2, <1>3, LookKeeps

\* The request of a clerk, with what its decision says.
LEMMA RequestOf ==
  ASSUME FloorInvariant, NEW c \in Clerks
  PROVE  request[c] \in Request /\ Decided(request[c])
  BY DEF FloorInvariant, RequestsSound

\* Correcting a cutting record locks Sewing and finds the batch still open to it.
LEMMA ResizeLooks ==
  ASSUME FloorInvariant, NEW c \in Clerks, NEW n \in CutQuantities,
         update_cutting_bundle_quantities(c, n)
  PROVE  FloorInvariant'
<1> USE ProductionFloorAssumption
<1> DEFINE old == request[c]
           planned == Greatest(Greatest(planning_floor(old.batch), downstream_quantity(old.batch)), n)
           q == [[old EXCEPT !.op = "resize", !.output = n, !.input = planned]
                   EXCEPT !.locks = {"sewing"}]
<1>1. old \in Request /\ old.op = "load" /\ old.batch \in Batches
  BY RequestOf DEF Decided, DecidedLoad, update_cutting_bundle_quantities
<1>2. Reads /\ request' = [request EXCEPT ![c] = q] /\ Free({"sewing"}) /\ Mutable(old.batch)
  BY DEF update_cutting_bundle_quantities, Locked
<1> HIDE DEF old
<1>5. planned \in Nat
  <2>1. TablesType /\ n \in Nat
    BY DEF FloorInvariant, TablesSound
  <2>2. downstream_quantity(old.batch) \in Nat
    BY <1>1, <2>1, EvidenceNat
  <2>3. planning_floor(old.batch) \in Nat
    <3> DEFINE f == [d \in Batches |-> IF d = old.batch THEN 0 ELSE plan[d]]
    <3>1. f \in [Batches -> Nat]
      BY <2>1 DEF TablesType
    <3> HIDE DEF f
    <3>2. SumOf(f) \in Nat
      BY <3>1, TablesFinite, UnitsFinite
    <3> QED
      BY <3>2 DEF f, planning_floor, Greatest
  <2> QED
    BY <2>1, <2>2, <2>3 DEF Greatest
<1> HIDE DEF planned
<1>3. q \in Request /\ q.op = "resize" /\ q.locks = {"sewing"} /\ q.batch = old.batch
  BY <1>1, <1>5 DEF Request, Locks
<1> HIDE DEF q
<1>4. Decided(q)
  BY <1>1, <1>2, <1>3 DEF Decided, LocksOf, DecidedCut, DecidedLoad, DecidedSew, DecidedLook,
     DecidedCorrection, DecidedReceipt, DecidedPacking, DecidedBox, DecidedUnboxing
<1> QED
  BY <1>2, <1>3, <1>4, LookKeeps

\* Posting sewing finds the cut pieces left for it while it holds Sewing.
LEMMA SewingLooks ==
  ASSUME FloorInvariant, NEW c \in Clerks, NEW r \in Records, NEW b \in Batches,
         NEW i \in SewQuantities, NEW n \in SewQuantities, post_sewing(c, r, b, i, n)
  PROVE  FloorInvariant'
<1> USE ProductionFloorAssumption
<1> DEFINE q == [[NoRequest EXCEPT !.op = "sew", !.id = r, !.batch = b, !.input = i, !.output = n,
                                   !.seen = sewn] EXCEPT !.locks = {"sewing"}]
<1>1. /\ q \in Request /\ q.op = "sew" /\ q.locks = {"sewing"}
      /\ q.batch = b /\ q.id = r /\ q.input = i /\ q.seen = sewn
  BY NoRequestSound DEF Request, Locks, NoRequest, FloorInvariant, TablesSound, TablesType
<1>2. /\ Reads /\ request' = [request EXCEPT ![c] = q] /\ Free({"sewing"})
      /\ record[r] = NoRecord /\ Input(b) + i <= _revised_sewing_input_limit(b)
  BY DEF post_sewing, Locked
<1> HIDE DEF q
<1>3. Decided(q)
  BY <1>1, <1>2 DEF Decided, LocksOf, DecidedCut, DecidedLoad, DecidedSew, DecidedLook,
     DecidedCorrection, DecidedReceipt, DecidedPacking, DecidedBox, DecidedUnboxing
<1> QED
  BY <1>1, <1>2, <1>3, LookKeeps

\* The record a clerk opens is the one that has its version.
LEMMA RecordLooks ==
  ASSUME FloorInvariant, NEW c \in Clerks, NEW r \in Records, ReadRecord(c, r)
  PROVE  FloorInvariant'
<1> DEFINE q == [NoRequest EXCEPT !.op = "look", !.id = r, !.row = record[r]]
<1>1. record[r] \in SewingRow /\ record[r].batch \in Batches
  BY DEF ReadRecord, FloorInvariant, TablesSound, TablesType, SewingRow
<1>2. q \in Request /\ q.op = "look" /\ q.locks = {} /\ q.id = r /\ q.row = record[r]
  BY <1>1, NoRequestSound DEF Request, NoRequest
<1>3. Reads /\ request' = [request EXCEPT ![c] = q] /\ Free({})
  BY DEF ReadRecord, Free
<1> HIDE DEF q
<1>4. record[r].version \in Nat
  BY <1>1 DEF SewingRow
<1>5. Decided(q)
  BY <1>1, <1>2, <1>4 DEF Decided, LocksOf, DecidedCut, DecidedLoad, DecidedSew, DecidedLook,
     DecidedCorrection, DecidedReceipt, DecidedPacking, DecidedBox, DecidedUnboxing
<1> QED
  BY <1>2, <1>3, <1>5, LookKeeps

\* One record is part of the total.
LEMMA RecordInTotal ==
  ASSUME TablesSound, NEW r \in Records
  PROVE  record[r].passed \in Nat /\ record[r].passed <= sewn
<1> DEFINE f == [s \in Records |-> record[s].passed]
           g == [s \in Records |-> IF s = r THEN 0 ELSE record[s].passed]
<1>1. f \in [Records -> Nat] /\ g \in [Records -> Nat]
  BY DEF TablesSound, TablesType, SewingRow
<1>2. (\A s \in Records : s # r => g[s] = f[s]) /\ g[r] = 0 /\ f[r] = record[r].passed
  OBVIOUS
<1>3. SumOf(f) = sewn
  BY DEF TablesSound, CountersAgree
<1> HIDE DEF f, g
<1>4. SumOf(g) + f[r] = SumOf(f) + g[r]
  BY <1>1, <1>2, TablesFinite, SumReplaced
<1>5. SumOf(f) \in Nat /\ SumOf(g) \in Nat
  BY <1>1, TablesFinite, UnitsFinite
<1> QED
  BY <1>1, <1>2, <1>3, <1>4, <1>5

\* A correction or a removal holds Sewing, and the record has the version that was opened.
LEMMA CorrectionLooks ==
  ASSUME FloorInvariant, NEW c \in Clerks, NEW op \in {"correct", "remove"},
         NEW i \in Nat, NEW n \in Nat, op = "remove" => i = 0 /\ n = 0,
         LockCorrection(c, op, i, n)
  PROVE  FloorInvariant'
<1> DEFINE old == request[c]
           r == old.id
           q == [[old EXCEPT !.op = op, !.input = i, !.output = n,
                             !.seen = sewn + n - record[r].passed] EXCEPT !.locks = {"sewing"}]
<1>1. /\ old \in Request /\ old.op = "look"
      /\ r \in Records /\ old.row.batch \in Batches
      /\ old.row.version <= record[r].version
      /\ old.row.version = record[r].version => record[r] = old.row
  BY RequestOf DEF Decided, DecidedLook, LockCorrection
<1>2. /\ Reads /\ request' = [request EXCEPT ![c] = q] /\ Free({"sewing"})
      /\ locked_record(r, old.row) /\ Correctable(r, i, n)
  BY DEF LockCorrection, Locked
<1>3. sewn + n - record[r].passed \in Nat
  BY <1>1, RecordInTotal DEF FloorInvariant, TablesSound, TablesType
<1> HIDE DEF old
<1>4. /\ q \in Request /\ q.op = op /\ q.locks = {"sewing"}
      /\ q.id = r /\ q.row = old.row /\ q.input = i /\ q.output = n
      /\ q.seen = sewn + n - record[r].passed
  BY <1>1, <1>3 DEF Request, Locks
<1> HIDE DEF q, r
<1>5. LocksOf(op) = {"sewing"}
  BY DEF LocksOf
<1>6. Decided(q)
  BY <1>1, <1>2, <1>4, <1>5 DEF Decided, DecidedCut, DecidedLoad, DecidedSew, DecidedLook,
     DecidedCorrection, DecidedReceipt, DecidedPacking, DecidedBox, DecidedUnboxing
<1> QED
  BY <1>2, <1>4, <1>6, LookKeeps

\* A receipt finds the sewn pieces that Packaging has not taken while it holds both.
LEMMA ReceiptLooks ==
  ASSUME FloorInvariant, NEW c \in Clerks, NEW b \in Batches, NEW n \in PackQuantities,
         receive_packaging_from_sewing(c, b, n)
  PROVE  FloorInvariant'
<1> USE ProductionFloorAssumption
<1> DEFINE total == intake + n
           q == [[NoRequest EXCEPT !.op = "receive", !.batch = b, !.input = n, !.intake = total]
                   EXCEPT !.locks = {"sewing", "packaging"}]
<1>1. TablesType /\ total \in Nat /\ n \in Nat
  BY DEF FloorInvariant, TablesSound, TablesType
<1> HIDE DEF total
<1>2. /\ q \in Request /\ q.op = "receive" /\ q.locks = {"sewing", "packaging"}
      /\ q.batch = b /\ q.input = n /\ q.intake = total
  BY <1>1, NoRequestSound DEF Request, Locks, NoRequest
<1>3. /\ Reads /\ request' = [request EXCEPT ![c] = q] /\ Free({"sewing", "packaging"})
      /\ n > 0 /\ n <= Greatest(0, Sewn(b) - received[b])
  BY DEF receive_packaging_from_sewing, Locked, total
<1> HIDE DEF q
<1>4. received[b] + n <= Sewn(b)
  BY <1>1, <1>3, TotalsNat DEF Greatest, TablesType
<1>5. Decided(q)
  BY <1>2, <1>3, <1>4 DEF total, Decided, LocksOf, DecidedCut, DecidedLoad, DecidedSew, DecidedLook,
     DecidedCorrection, DecidedReceipt, DecidedPacking, DecidedBox, DecidedUnboxing
<1> QED
  BY <1>2, <1>3, <1>5, LookKeeps

\* Posting packaging finds the pieces it puts in while it holds the three rows.
LEMMA PackingLooks ==
  ASSUME FloorInvariant, NEW c \in Clerks, NEW e \in Entries, NEW b \in Batches,
         NEW i \in PackQuantities, NEW n \in PackQuantities, NEW d \in PackQuantities,
         post_packaging(c, e, b, i, n, d)
  PROVE  FloorInvariant'
<1> USE ProductionFloorAssumption
<1> DEFINE good == packed + n
           total == IF UsesReceipts THEN intake ELSE intake + i
           q == [[NoRequest EXCEPT !.op = "pack", !.id = e, !.batch = b, !.input = i, !.output = n,
                                   !.damaged = d, !.seen = good, !.intake = total]
                   EXCEPT !.locks = Locks]
<1>1. TablesType /\ EntrySum(b, "input") <= Sewn(b)
  BY DEF FloorInvariant, TablesSound, HandedOverWithinMade
<1>0. good \in Nat /\ total \in Nat /\ i \in Nat /\ n \in Nat /\ d \in Nat
  BY <1>1 DEF TablesType
<1> HIDE DEF good, total
<1>2. /\ q \in Request /\ q.op = "pack" /\ q.locks = Locks
      /\ q.id = e /\ q.batch = b /\ q.input = i /\ q.output = n /\ q.damaged = d
      /\ q.seen = good /\ q.intake = total
  BY <1>0, NoRequestSound DEF Request, Locks, NoRequest
<1>3. /\ Reads /\ request' = [request EXCEPT ![c] = q] /\ Free(Locks)
      /\ entry[e] = NoEntry /\ n + d <= i /\ i <= _packaging_input_budgets(b)
  BY DEF post_packaging, Locked, good, total
<1> HIDE DEF q
<1>4. EntrySum(b, "input") + i <= Sewn(b)
  BY <1>0, <1>1, <1>3, TotalsNat DEF _packaging_input_budgets, InputLimit, Greatest, Least, TablesType
<1>5. Decided(q)
  BY <1>2, <1>3, <1>4 DEF good, total, Decided, LocksOf, DecidedCut, DecidedLoad, DecidedSew, DecidedLook,
     DecidedCorrection, DecidedReceipt, DecidedPacking, DecidedBox, DecidedUnboxing
<1> QED
  BY <1>2, <1>3, <1>5, LookKeeps

\* The other packages hold no more than was packed.
LEMMA OthersCovered ==
  ASSUME TablesSound, NEW x \in Boxes, NEW b \in Batches
  PROVE  /\ box[x][b] \in Nat
         /\ _existing_package_totals_by_batch(b, x) + box[x][b] <= PackedOf(b)
<1>1. TablesType /\ box[x][b] \in Nat
  BY DEF TablesSound, TablesType
<1>2. _existing_package_totals_by_batch(b, 0) <= PackedOf(b)
  BY DEF TablesSound, HandedOverWithinMade
<1> QED
  BY <1>1, <1>2, BoxesSplit

\* A package finds the packed pieces that no other package holds while it holds the order.
LEMMA BoxLooks ==
  ASSUME FloorInvariant, NEW c \in Clerks, NEW x \in Boxes,
         NEW pieces \in [Batches -> PackQuantities], create_package(c, x, pieces)
  PROVE  FloorInvariant'
<1> USE ProductionFloorAssumption
<1> DEFINE q == [[NoRequest EXCEPT !.op = "box", !.id = x, !.pieces = pieces]
                   EXCEPT !.locks = {"order"}]
<1>1. pieces \in [Batches -> Nat] /\ TablesSound /\ TablesType
  BY DEF FloorInvariant, TablesSound
<1>2. /\ q \in Request /\ q.op = "box" /\ q.locks = {"order"} /\ q.id = x /\ q.pieces = pieces
  BY <1>1, NoRequestSound DEF Request, Locks, NoRequest
<1>3. /\ Reads /\ request' = [request EXCEPT ![c] = q] /\ Free({"order"})
      /\ _enforce_packaged_quantity_available(x, pieces)
  BY DEF create_package, Locked
<1> HIDE DEF q
<1>4. ASSUME NEW b \in Batches
      PROVE  pieces[b] + _existing_package_totals_by_batch(b, x) <= PackedOf(b)
  <2>1. pieces[b] <= Greatest(0, PackedOf(b) - _existing_package_totals_by_batch(b, x))
    BY <1>3 DEF _enforce_packaged_quantity_available
  <2>2. /\ pieces[b] \in Nat /\ PackedOf(b) \in Nat
        /\ _existing_package_totals_by_batch(b, x) \in Nat
    BY <1>1, TotalsNat
  <2>3. _existing_package_totals_by_batch(b, x) <= PackedOf(b)
    BY <1>1, <2>2, OthersCovered
  <2> QED
    BY ONLY <2>1, <2>2, <2>3 DEF Greatest
<1>5. Decided(q)
  BY <1>2, <1>3, <1>4 DEF Decided, LocksOf, DecidedCut, DecidedLoad, DecidedSew, DecidedLook,
     DecidedCorrection, DecidedReceipt, DecidedPacking, DecidedBox, DecidedUnboxing
<1> QED
  BY <1>2, <1>3, <1>5, LookKeeps

-----------------------------------------------------------------------------
(* Undoing a package                                                       *)

\* What an entry is after it gave up n of its pieces.
LEMMA ResetRow ==
  ASSUME NEW row \in PackingRow, row.packed + row.damaged <= row.input,
         NEW n \in Nat, n <= row.packed
  PROVE  /\ Reset(row, n) \in PackingRow
         /\ Reset(row, n).batch = row.batch
         /\ Reset(row, n).packed = row.packed - n
         /\ Reset(row, n).input <= row.input
         /\ Reset(row, n).packed + Reset(row, n).damaged <= Reset(row, n).input
         /\ n = 0 => Reset(row, n) = row
<1>1. row.packed \in Nat /\ row.damaged \in Nat /\ row.input \in Nat /\ row.packed - n \in Nat
  BY DEF PackingRow
<1>2. CASE n = 0
  BY <1>1, <1>2 DEF Reset
<1>3. CASE n # 0
  <2> DEFINE rest == IF n < row.packed THEN row.input - n ELSE row.damaged
  <2>1. Reset(row, n) = [row EXCEPT !.packed = row.packed - n, !.input = rest]
    BY <1>3 DEF Reset
  <2>2. rest \in Nat /\ rest <= row.input /\ row.packed - n + row.damaged <= rest
    BY <1>1
  <2> HIDE DEF rest
  <2> QED
    BY <1>1, <1>3, <2>1, <2>2 DEF PackingRow
<1> QED
  BY <1>2, <1>3

\* The newest entries of a batch give up exactly what the package holds.
LEMMA DrainedBatch ==
  ASSUME TablesSound, NEW x \in Boxes, NEW b \in Batches, NEW t \in Undone(x, b)
  PROVE  /\ t \in [Entries -> Nat]
         /\ \A e \in Entries : t[e] <= (IF entry[e].batch = b THEN entry[e].packed ELSE 0)
         /\ SumOf(t) = box[x][b]
<1>1. /\ box[x][b] \in Nat /\ PackedOf(b) \in Nat /\ box[x][b] <= PackedOf(b)
  <2>1. TablesType
    BY DEF TablesSound
  <2> QED
    BY <2>1, OthersCovered, TotalsNat
<1>2. DOMAIN Offer(b) = Entries /\ SumOf(Offer(b)) = PackedOf(b)
  BY DEF Offer, PackedOf, EntrySum
<1>3. /\ t \in [Entries -> 0 .. box[x][b]]
      /\ \A e \in Entries : t[e] <= Offer(b)[e]
      /\ SumOf(t) = Least(box[x][b], SumOf(Offer(b)))
  BY <1>2 DEF Undone, Drains
<1>4. SumOf(t) = box[x][b]
  BY ONLY <1>1, <1>2, <1>3 DEF Least
<1> QED
  BY <1>1, <1>3, <1>4 DEF Offer

\* A deletion takes back from entries what the other packages do not need.
LEMMA UnboxLooks ==
  ASSUME FloorInvariant, NEW c \in Clerks, NEW x \in Boxes, delete_package(c, x)
  PROVE  FloorInvariant'
<1>1. PICK take \in [Batches -> UNION {Undone(x, b) : b \in Batches}] :
        /\ \A b \in Batches : take[b] \in Undone(x, b)
        /\ undo_package_output(c, x, take)
  BY DEF delete_package
<1>2. TablesSound /\ TablesType /\ EntriesSound
  BY DEF FloorInvariant, TablesSound
<1> DEFINE given == [e \in Entries |-> Taken(e, take)]
           after == [e \in Entries |-> Reset(entry[e], Taken(e, take))]
           good == SumOf([e \in Entries |-> after[e].packed])
           total == IF UsesReceipts THEN intake ELSE SumOf([e \in Entries |-> after[e].input])
           q == [NoRequest EXCEPT !.op = "unbox", !.locks = {"order", "packaging"}, !.id = x,
                                  !.take = given, !.seen = good, !.intake = total]
<1>3. /\ Reads /\ Free({"order", "packaging"}) /\ request' = [request EXCEPT ![c] = q]
  BY <1>1 DEF delete_package, undo_package_output
<1>4. ASSUME NEW b \in Batches
      PROVE  /\ take[b] \in [Entries -> Nat]
             /\ \A e \in Entries : take[b][e] <= (IF entry[e].batch = b THEN entry[e].packed ELSE 0)
             /\ SumOf(take[b]) = box[x][b]
  BY <1>1, <1>2, DrainedBatch
<1>5. ASSUME NEW e \in Entries
      PROVE  given[e] \in Nat /\ given[e] <= entry[e].packed
  <2>1. entry[e].packed \in Nat /\ entry[e].batch \in Batches \cup {NoBatch}
    BY <1>2 DEF TablesType, PackingRow
  <2>2. CASE entry[e].batch = NoBatch
    BY <2>1, <2>2 DEF Taken
  <2>3. CASE entry[e].batch # NoBatch
    <3>1. given[e] = take[entry[e].batch][e]
      BY <2>3 DEF Taken
    <3> QED
      BY <2>1, <2>3, <3>1, <1>4
  <2> QED
    BY <2>2, <2>3
<1>6. ASSUME NEW e \in Entries
      PROVE  /\ after[e] = Reset(entry[e], given[e])
             /\ after[e] \in PackingRow
             /\ after[e].packed = entry[e].packed - given[e]
  <2>1. entry[e] \in PackingRow /\ entry[e].packed + entry[e].damaged <= entry[e].input
    BY <1>2 DEF TablesType, EntriesSound
  <2>2. after[e] = Reset(entry[e], given[e])
    OBVIOUS
  <2> HIDE DEF after, given
  <2> QED
    BY <2>1, <2>2, <1>5, ResetRow
<1>7. given \in [Entries -> Nat] /\ good \in Nat /\ total \in Nat
  <2>1. given \in [Entries -> Nat]
    BY <1>5
  <2>2. \A e \in Entries : after[e].packed \in Nat /\ after[e].input \in Nat
    BY <1>6 DEF PackingRow
  <2>3. intake \in Nat
    BY <1>2 DEF TablesType
  <2> HIDE DEF after, given
  <2>4. /\ [e \in Entries |-> after[e].packed] \in [Entries -> Nat]
        /\ [e \in Entries |-> after[e].input] \in [Entries -> Nat]
    BY <2>2
  <2>5. /\ SumOf([e \in Entries |-> after[e].packed]) \in Nat
        /\ SumOf([e \in Entries |-> after[e].input]) \in Nat
    BY <2>4, TablesFinite, UnitsFinite
  <2> QED
    BY <2>1, <2>3, <2>5
<1>8. ASSUME NEW b \in Batches
      PROVE  _existing_package_totals_by_batch(b, x)
               <= SumOf([e \in Entries |-> IF entry[e].batch = b THEN after[e].packed ELSE 0])
  <2> DEFINE f == [e \in Entries |-> IF entry[e].batch = b THEN entry[e].packed ELSE 0]
             g == [e \in Entries |-> IF entry[e].batch = b THEN after[e].packed ELSE 0]
  <2>1. f \in [Entries -> Nat] /\ SumOf(f) = PackedOf(b)
    BY <1>2, TotalTypes DEF PackedOf, EntrySum
  <2>2. ASSUME NEW e \in Entries
        PROVE  g[e] \in Nat /\ f[e] = g[e] + take[b][e]
    <3>1. take[b][e] \in Nat /\ take[b][e] <= (IF entry[e].batch = b THEN entry[e].packed ELSE 0)
      BY <1>4
    <3>2. CASE entry[e].batch # b
      BY <3>1, <3>2
    <3>3. CASE entry[e].batch = b
      <4>1. b # NoBatch
        BY ProductionFloorAssumption
      <4>2. given[e] = take[b][e]
        BY <3>3, <4>1 DEF Taken
      <4>3. entry[e].packed \in Nat
        BY <1>2 DEF TablesType, PackingRow
      <4>4. f[e] = entry[e].packed /\ g[e] = after[e].packed
        BY <3>3
      <4> HIDE DEF f, g, after, given
      <4> QED
        BY <1>5, <1>6, <4>2, <4>3, <4>4
    <3> QED
      BY <3>2, <3>3
  <2>3. g \in [Entries -> Nat]
    BY <2>2
  <2> HIDE DEF f, g
  <2>4. SumOf(f) = SumOf(g) + SumOf(take[b])
    <3> DEFINE h == take[b]
    <3>1. h \in [Entries -> Nat] /\ \A e \in Entries : f[e] = g[e] + h[e]
      BY <1>4, <2>2
    <3> HIDE DEF h
    <3>2. SumOf(f) = SumOf(g) + SumOf(h)
      BY ONLY <2>1, <2>3, <3>1, TablesFinite, SumAdds
    <3> QED
      BY <3>2 DEF h
  <2>5. SumOf(g) \in Nat /\ _existing_package_totals_by_batch(b, x) \in Nat
    BY <1>2, <2>3, TablesFinite, UnitsFinite, TotalsNat
  <2>6. /\ box[x][b] \in Nat
        /\ _existing_package_totals_by_batch(b, x) + box[x][b] <= PackedOf(b)
    BY <1>2, OthersCovered
  <2>7. _existing_package_totals_by_batch(b, x) <= SumOf(g)
    BY ONLY <2>1, <2>4, <2>5, <2>6, <1>4
  <2> QED
    BY <2>7 DEF g
<1>12. ASSUME NEW b \in Batches
       PROVE  SumOf([e \in Entries |-> IF entry[e].batch = b THEN given[e] ELSE 0]) = box[x][b]
  <2>1. ASSUME NEW e \in Entries
        PROVE  take[b][e] = IF entry[e].batch = b THEN given[e] ELSE 0
    <3>1. take[b][e] \in Nat /\ take[b][e] <= (IF entry[e].batch = b THEN entry[e].packed ELSE 0)
      BY <1>4
    <3>2. CASE entry[e].batch # b
      BY <3>1, <3>2
    <3>3. CASE entry[e].batch = b
      BY <3>3, ProductionFloorAssumption DEF Taken
    <3> QED
      BY <3>2, <3>3
  <2> HIDE DEF given
  <2>2. take[b] = [e \in Entries |-> IF entry[e].batch = b THEN given[e] ELSE 0]
    BY <1>4, <2>1
  <2> QED
    BY <1>4, <2>2
<1> HIDE DEF good, total, given
<1>9. /\ q \in Request /\ q.op = "unbox" /\ q.locks = {"order", "packaging"}
      /\ q.id = x /\ q.take = given /\ q.seen = good /\ q.intake = total
  BY <1>7, NoRequestSound DEF Request, Locks, NoRequest
<1> HIDE DEF q
<1>10. Left(q) = after
  <2>1. \A e \in Entries : Reset(entry[e], given[e]) = Reset(entry[e], Taken(e, take))
    BY DEF given
  <2> QED
    BY <1>9, <2>1 DEF Left
<1> HIDE DEF after
<1>11. Decided(q)
  <2>1. DecidedUnboxing(q)
    BY <1>5, <1>8, <1>9, <1>10, <1>12 DEF DecidedUnboxing, TakenFrom, good, total
  <2> QED
    BY <1>9, <2>1 DEF Decided, LocksOf, DecidedCut, DecidedLoad, DecidedSew, DecidedLook,
       DecidedCorrection, DecidedReceipt, DecidedPacking, DecidedBox
<1> QED
  BY <1>3, <1>9, <1>11, LookKeeps

-----------------------------------------------------------------------------
(* A request that writes                                                   *)

\* What a row lock protects, as long as only its holder writes.
Frame(c) ==
  /\ "sewing" \notin request[c].locks =>
       /\ UNCHANGED <<cut, plan, revised, record, sewn>>
       /\ \A b \in Batches : HandedOff(b)' => HandedOff(b)
  /\ "packaging" \notin request[c].locks => UNCHANGED <<received, entry, intake, packed>>
  /\ "order" \notin request[c].locks => UNCHANGED <<box, entry, packed>>

\* A record is written once, and then only under a higher version.
RecordsStep ==
  \A r \in Records :
    \/ record'[r] = record[r]
    \/ record[r] = NoRecord
    \/ record'[r].version > record[r].version

\* Totals depend on the tables alone.
LEMMA SumsStand ==
  /\ record' = record =>
       /\ \A b : Input(b)' = Input(b) /\ Sewn(b)' = Sewn(b) /\ Mutable(b)' = Mutable(b)
       /\ SumOf([r \in Records |-> record[r].passed])' = SumOf([r \in Records |-> record[r].passed])
  /\ entry' = entry =>
       /\ \A b : /\ EntrySum(b, "input")' = EntrySum(b, "input") /\ PackedOf(b)' = PackedOf(b)
                 /\ EntrySum(b, "damaged")' = EntrySum(b, "damaged")
       /\ SumOf([e \in Entries |-> entry[e].packed])' = SumOf([e \in Entries |-> entry[e].packed])
       /\ SumOf([e \in Entries |-> entry[e].input])' = SumOf([e \in Entries |-> entry[e].input])
       /\ \A q : Left(q)' = Left(q) /\ \A b : TakenFrom(q, b)' = TakenFrom(q, b)
  /\ box' = box =>
       \A b, x : _existing_package_totals_by_batch(b, x)' = _existing_package_totals_by_batch(b, x)
  /\ received' = received => UsesReceipts' = UsesReceipts /\ SumOf(received)' = SumOf(received)
  /\ cut' = cut /\ plan' = plan /\ revised' = revised =>
       \A b : _revised_sewing_input_limit(b)' = _revised_sewing_input_limit(b)
  BY DEF Input, Sewn, RecordSum, PackedOf, EntrySum, Mutable, Left, TakenFrom,
     _existing_package_totals_by_batch, UsesReceipts, _revised_sewing_input_limit

\* The requests that hold other locks keep their decisions.
LEMMA WriteKeepsDecisions ==
  ASSUME FloorInvariant, TablesType', NEW c \in Clerks, Frame(c), RecordsStep,
         request' = [request EXCEPT ![c] = NoRequest]
  PROVE  RequestsSound'
<1>1. /\ request' \in [Clerks -> Request]
      /\ request'[c] = NoRequest
      /\ \A d \in Clerks : d # c => request'[d] = request[d]
  BY NoRequestSound DEF FloorInvariant, RequestsSound
<1>2. Exclusive'
  BY <1>1, NoRequestSound DEF Exclusive, FloorInvariant, RequestsSound
<1>3. ASSUME NEW d \in Clerks, NEW q \in Request, request'[d] = q, d # c
      PROVE  Decided(q)'
  <2>1. /\ Decided(q) /\ q.locks \cap request[c].locks = {}
    BY <1>1, <1>3 DEF FloorInvariant, RequestsSound, Exclusive
  <2>2. q.locks = LocksOf(q.op)
    BY <2>1 DEF Decided
  <2>3. /\ "sewing" \in q.locks =>
             /\ cut' = cut /\ plan' = plan /\ revised' = revised
             /\ record' = record /\ sewn' = sewn
             /\ \A b \in Batches : HandedOff(b)' => HandedOff(b)
        /\ "packaging" \in q.locks =>
             received' = received /\ entry' = entry /\ intake' = intake /\ packed' = packed
        /\ "order" \in q.locks => box' = box /\ entry' = entry /\ packed' = packed
    BY <2>1 DEF Frame
  <2>4. DecidedCut(q)' /\ DecidedLoad(q)' /\ DecidedSew(q)'
    BY <2>1, <2>2, <2>3, SumsStand DEF Decided, DecidedCut, DecidedLoad, DecidedSew, LocksOf
  <2>5. DecidedLook(q)'
    <3>1. CASE q.op \in {"look", "correct", "remove"}
      <4>1. /\ q.id \in Records /\ q.row.batch \in Batches
            /\ q.row.version <= record[q.id].version
            /\ q.row.version = record[q.id].version => record[q.id] = q.row
        BY <2>1, <3>1 DEF Decided, DecidedLook
      <4>2. record[q.id].version \in Nat /\ q.row.version \in Nat /\ record'[q.id].version \in Nat
        <5>1. record[q.id] \in SewingRow /\ record'[q.id] \in SewingRow /\ q.row \in SewingRow
          BY <4>1 DEF FloorInvariant, TablesSound, TablesType, Request
        <5> QED
          BY <5>1 DEF SewingRow
      <4>3. record[q.id] # NoRecord
        BY <4>1, <4>2, ProductionFloorAssumption DEF NoRecord
      <4>4. record'[q.id] = record[q.id] \/ record'[q.id].version > record[q.id].version
        BY <4>1, <4>3 DEF RecordsStep
      <4> QED
        BY <4>1, <4>2, <4>4 DEF DecidedLook
    <3> QED
      BY <3>1 DEF DecidedLook
  <2>6. DecidedCorrection(q)'
    <3>1. CASE q.op \in {"correct", "remove"}
      <4>1. "sewing" \in q.locks
        BY <2>2, <3>1 DEF LocksOf
      <4>2. /\ locked_record(q.id, q.row) /\ Correctable(q.id, q.input, q.output)
            /\ q.seen = sewn + q.output - record[q.id].passed
            /\ q.op = "remove" => q.input = 0 /\ q.output = 0
            /\ q.id \in Records
        BY <2>1, <3>1 DEF Decided, DecidedCorrection, DecidedLook
      <4>3. record[q.id].batch \in Batches
        BY <4>2 DEF locked_record, FloorInvariant, TablesSound, TablesType, SewingRow
      <4>4. locked_record(q.id, q.row)'
        BY <2>3, <4>1, <4>2, <4>3 DEF locked_record
      <4>5. Correctable(q.id, q.input, q.output)'
        BY <2>3, <4>1, <4>2, SumsStand DEF Correctable
      <4> QED
        BY <2>3, <4>1, <4>2, <4>4, <4>5 DEF DecidedCorrection
    <3> QED
      BY <3>1 DEF DecidedCorrection
  <2>7. DecidedReceipt(q)' /\ DecidedPacking(q)' /\ DecidedBox(q)'
    BY <2>1, <2>2, <2>3, SumsStand
    DEF Decided, DecidedReceipt, DecidedPacking, DecidedBox, LocksOf, Locks
  <2>8. DecidedUnboxing(q)'
    BY <2>1, <2>2, <2>3, SumsStand DEF Decided, DecidedUnboxing, LocksOf
  <2> QED
    BY <2>2, <2>4, <2>5, <2>6, <2>7, <2>8 DEF Decided
<1> QED
  BY <1>1, <1>2, <1>3, NoRequestSound DEF RequestsSound

\* Nobody put in pieces of a batch without sewing records.
LEMMA NothingSewn ==
  ASSUME TablesType, NEW b \in Batches, Mutable(b)
  PROVE  Input(b) = 0
<1> DEFINE f == [r \in Records |-> IF record[r].batch = b THEN record[r].input ELSE 0]
<1>1. f \in [Records -> Nat] /\ \A r \in Records : f[r] = 0
  BY TotalTypes DEF Mutable
<1> HIDE DEF f
<1>2. SumOf(f) = 0
  BY ONLY <1>1, TablesFinite, SumZero
<1> QED
  BY <1>2 DEF f, Input, RecordSum

\* A commit of Cutting, whichever it is.
CutCommit(c) == CommitCutting(c) \/ CommitResize(c) \/ CommitRevision(c) \/ CommitPassport(c)

\* Cutting writes the count and the plan of the batch its request is about, and of no other.
LEMMA CutCommitWrites ==
  ASSUME FloorInvariant, NEW c \in Clerks, CutCommit(c)
  PROVE  /\ request[c].batch \in Batches /\ Mutable(request[c].batch)
         /\ "sewing" \in request[c].locks
         /\ request' = [request EXCEPT ![c] = NoRequest]
         /\ UNCHANGED <<sewing, packaging, box>>
         /\ cut' \in [Batches -> Nat] /\ bundle' \in [Batches -> Nat]
         /\ plan' \in [Batches -> Nat] /\ revised' \in [Batches -> SUBSET Nat]
         /\ \A b \in Batches : b # request[c].batch =>
              cut'[b] = cut[b] /\ plan'[b] = plan[b] /\ revised'[b] = revised[b]
<1> DEFINE q == request[c]
<1>1. /\ q \in Request /\ q.op \in {"cut", "resize", "revise", "passport"} /\ Decided(q)
      /\ request' = [request EXCEPT ![c] = NoRequest]
      /\ UNCHANGED <<sewing, packaging, box>>
  BY RequestOf DEF CutCommit, CommitCutting, CommitResize, CommitRevision, CommitPassport, Committed
<1>2. q.batch \in Batches /\ Mutable(q.batch) /\ "sewing" \in q.locks
  BY <1>1 DEF Decided, DecidedCut, LocksOf
<1>3. q.output \in Nat /\ q.input \in Nat
  BY <1>1 DEF Request
<1>4. /\ cut \in [Batches -> Nat] /\ bundle \in [Batches -> Nat]
      /\ plan \in [Batches -> Nat] /\ revised \in [Batches -> SUBSET Nat]
  BY DEF FloorInvariant, TablesSound, TablesType
<1>5. /\ cut' \in [Batches -> Nat] /\ bundle' \in [Batches -> Nat]
      /\ plan' \in [Batches -> Nat] /\ revised' \in [Batches -> SUBSET Nat]
      /\ \A b \in Batches : b # q.batch =>
           cut'[b] = cut[b] /\ plan'[b] = plan[b] /\ revised'[b] = revised[b]
  <2>1. CASE CommitCutting(c)
    BY <1>2, <1>3, <1>4, <2>1 DEF CommitCutting
  <2>2. CASE CommitResize(c)
    BY <1>2, <1>3, <1>4, <2>2 DEF CommitResize
  <2>3. CASE CommitRevision(c)
    BY <1>2, <1>3, <1>4, <2>3 DEF CommitRevision
  <2>4. CASE CommitPassport(c)
    BY <1>2, <1>3, <1>4, <2>4 DEF CommitPassport
  <2> QED
    BY <2>1, <2>2, <2>3, <2>4 DEF CutCommit
<1> QED
  BY <1>1, <1>2, <1>5

\* Writing what was cut or planned keeps the floor sound: the batch has no sewing to exceed it.
LEMMA CuttingWrites ==
  ASSUME FloorInvariant, NEW c \in Clerks, CutCommit(c)
  PROVE  FloorInvariant'
<1> DEFINE q == request[c]
<1>1. /\ q.batch \in Batches /\ Mutable(q.batch) /\ "sewing" \in q.locks
      /\ request' = [request EXCEPT ![c] = NoRequest]
      /\ record' = record /\ sewn' = sewn /\ received' = received /\ entry' = entry
      /\ intake' = intake /\ packed' = packed /\ box' = box
  BY CutCommitWrites DEF sewing, packaging
<1>2. TablesSound /\ TablesType
  BY DEF FloorInvariant, TablesSound
<1>3. /\ cut' \in [Batches -> Nat] /\ bundle' \in [Batches -> Nat]
      /\ plan' \in [Batches -> Nat] /\ revised' \in [Batches -> SUBSET Nat]
      /\ \A b \in Batches : b # q.batch =>
           cut'[b] = cut[b] /\ plan'[b] = plan[b] /\ revised'[b] = revised[b]
  BY CutCommitWrites
<1> HIDE DEF q
<1>4. TablesType'
  BY <1>1, <1>2, <1>3 DEF TablesType
<1>5. \A b \in Batches : Input(b)' = Input(b)
  BY <1>1, SumsStand
<1>6. SewingWithinLimit'
  <2>1. ASSUME NEW b \in Batches, Input(b) > cut'[b]
        PROVE  cut'[b] > 0 /\ plan'[b] \in revised'[b] /\ Input(b) <= plan'[b]
    <3>1. CASE b = q.batch
      <4>1. Input(b) = 0 /\ cut'[b] \in Nat
        BY <1>1, <1>2, <1>3, <3>1, NothingSewn
      <4> QED
        BY <2>1, <4>1
    <3>2. CASE b # q.batch
      BY <1>2, <1>3, <2>1, <3>2 DEF TablesSound, SewingWithinLimit
    <3> QED
      BY <3>1, <3>2
  <2> QED
    BY <1>5, <2>1 DEF SewingWithinLimit
<1>7. TablesSound'
  BY <1>1, <1>2, <1>4, <1>6, SumsStand
  DEF TablesSound, EntriesSound, HandedOverWithinMade, CountersAgree
<1>8. Frame(c) /\ RecordsStep
  BY <1>1 DEF Frame, RecordsStep, q
<1> QED
  BY <1>1, <1>4, <1>7, <1>8, WriteKeepsDecisions DEF FloorInvariant

\* A sewing record is written anew, corrected or removed: the batch b has put in i and passed n then.
RecordWrite(c, r, row, b, i, n) ==
  /\ request' = [request EXCEPT ![c] = NoRequest]
  /\ record' = [record EXCEPT ![r] = row]
  /\ UNCHANGED <<cutting, packaging, box>>
  /\ record[r] = NoRecord \/ row.version > record[r].version
  /\ \A x \in Batches : Input(x)' = (IF x = b THEN i ELSE Input(x))
  /\ \A x \in Batches : Sewn(x)' = (IF x = b THEN n ELSE Sewn(x))
  /\ sewn' + record[r].passed = sewn + row.passed /\ sewn' \in Int

\* What a request that writes to the batch b has made sure of under the lock of Sewing.
SewingAllowed(c, b, i, n) ==
  /\ "sewing" \in request[c].locks
  /\ i <= _revised_sewing_input_limit(b)
  /\ ~HandedOff(b) \/ (i >= Input(b) /\ n >= Sewn(b))

\* Writing one sewing record under the lock of Sewing keeps every decision of the others.
LEMMA RecordWrites ==
  ASSUME FloorInvariant, NEW c \in Clerks, NEW r \in Records, NEW row \in SewingRow,
         NEW b \in Batches, NEW i \in Nat, NEW n \in Nat, RecordWrite(c, r, row, b, i, n),
         SewingAllowed(c, b, i, n)
  PROVE  FloorInvariant'
<1> USE DEF RecordWrite, SewingAllowed
<1>1. /\ cut' = cut /\ bundle' = bundle /\ plan' = plan /\ revised' = revised
      /\ received' = received /\ entry' = entry
      /\ intake' = intake /\ packed' = packed /\ box' = box
  BY DEF cutting, packaging
<1>2. TablesSound /\ TablesType
  BY DEF FloorInvariant, TablesSound
<1>3. record' \in [Records -> SewingRow]
  BY <1>2 DEF TablesType
<1>4. sewn' = SumOf([s \in Records |-> record[s].passed])' /\ sewn' \in Nat
  <2> DEFINE total == SumOf([s \in Records |-> record[s].passed])
             totalNew == SumOf([s \in Records |-> record'[s].passed])
  <2>1. totalNew + record[r].passed = total + row.passed
    BY <1>2, RecordReplaced
  <2>2. sewn = total
    BY <1>2 DEF TablesSound, CountersAgree
  <2>3. totalNew \in Nat /\ total \in Nat
    <3> DEFINE f == [s \in Records |-> record[s].passed]
               g == [s \in Records |-> record'[s].passed]
    <3>1. f \in [Records -> Nat] /\ g \in [Records -> Nat]
      BY <1>2, <1>3 DEF TablesType, SewingRow
    <3> HIDE DEF f, g
    <3>2. SumOf(f) \in Nat /\ SumOf(g) \in Nat
      BY <3>1, TablesFinite, UnitsFinite
    <3> QED
      BY <3>2 DEF f, g
  <2>4. record[r].passed \in Nat /\ row.passed \in Nat
    BY <1>2 DEF TablesType, SewingRow
  <2> HIDE DEF total, totalNew
  <2>5. sewn' = totalNew
    BY <2>1, <2>2, <2>3, <2>4
  <2> QED
    BY <2>3, <2>5 DEF totalNew
<1>5. TablesType'
  BY <1>1, <1>2, <1>3, <1>4 DEF TablesType
<1>6. SewingWithinLimit'
  <2>1. ASSUME NEW x \in Batches, Input(x)' > cut[x]
        PROVE  cut[x] > 0 /\ plan[x] \in revised[x] /\ Input(x)' <= plan[x]
    <3>1. CASE x = b
      BY <1>2, <2>1, <3>1, LimitSays
    <3>2. CASE x # b
      BY <1>2, <2>1, <3>2 DEF TablesSound, SewingWithinLimit
    <3> QED
      BY <3>1, <3>2
  <2> QED
    BY <1>1, <2>1 DEF SewingWithinLimit
<1>7. HandedOverWithinMade'
  <2>1. ASSUME NEW x \in Batches
        PROVE  received[x] <= Sewn(x)' /\ EntrySum(x, "input") <= Sewn(x)'
    <3>1. /\ received[x] <= Sewn(x) /\ EntrySum(x, "input") <= Sewn(x)
          /\ received[x] \in Nat /\ EntrySum(x, "input") \in Nat /\ Sewn(x) \in Nat
      BY <1>2, TotalsNat DEF TablesSound, HandedOverWithinMade, TablesType
    <3>2. CASE x = b /\ ~HandedOff(b)
      <4>1. received[x] = 0
        BY <3>1, <3>2 DEF HandedOff
      <4>2. EntrySum(x, "input") = 0
        <5> DEFINE f == [e \in Entries |-> IF entry[e].batch = x THEN entry[e].input ELSE 0]
        <5>1. f \in [Entries -> Nat] /\ \A e \in Entries : f[e] = 0
          BY <1>2, <3>2, TotalTypes DEF HandedOff
        <5> HIDE DEF f
        <5>2. SumOf(f) = 0
          BY ONLY <5>1, TablesFinite, SumZero
        <5> QED
          BY <5>2 DEF f, EntrySum
      <4> QED
        BY <3>2, <4>1, <4>2
    <3>3. CASE x # b \/ n >= Sewn(b)
      BY <3>1, <3>3
    <3> QED
      BY <3>2, <3>3
  <2> QED
    BY <1>1, <1>2, <2>1, SumsStand DEF TablesSound, HandedOverWithinMade
<1>8. CountersAgree'
  BY <1>1, <1>2, <1>4, SumsStand DEF TablesSound, CountersAgree
<1>9. TablesSound'
  BY <1>1, <1>2, <1>5, <1>6, <1>7, <1>8 DEF TablesSound, EntriesSound
<1>10. Frame(c)
  BY <1>1 DEF Frame
<1>11. RecordsStep
  BY <1>2 DEF RecordsStep, TablesType
<1> QED
  BY <1>5, <1>9, <1>10, <1>11, WriteKeepsDecisions DEF FloorInvariant

\* A new sewing record adds to its batch what was cut or confirmed for it.
LEMMA SewingWritten ==
  ASSUME FloorInvariant, NEW c \in Clerks, CommitSewing(c)
  PROVE  \E r \in Records, row \in SewingRow, b \in Batches, i, n \in Nat :
           RecordWrite(c, r, row, b, i, n) /\ SewingAllowed(c, b, i, n)
<1> DEFINE q == request[c]
<1>1. /\ q \in Request /\ q.op = "sew" /\ Decided(q)
      /\ request' = [request EXCEPT ![c] = NoRequest]
      /\ record' = [record EXCEPT ![q.id] =
           [batch |-> q.batch, input |-> q.input, passed |-> q.output, version |-> 0]]
      /\ sewn' = q.seen + q.output
      /\ UNCHANGED <<cutting, packaging, box>>
  BY RequestOf DEF CommitSewing, Committed
<1>2. /\ q.id \in Records /\ q.batch \in Batches /\ record[q.id] = NoRecord
      /\ Input(q.batch) + q.input <= _revised_sewing_input_limit(q.batch)
      /\ q.seen = sewn /\ "sewing" \in q.locks
  BY <1>1 DEF Decided, DecidedSew, LocksOf
<1>3. TablesType
  BY DEF FloorInvariant, TablesSound
<1>4. q.input \in Nat /\ q.output \in Nat /\ sewn \in Nat
  BY <1>1, <1>3 DEF Request, TablesType
<1> HIDE DEF q
<1>5. PICK r \in Records, b \in Batches, row \in SewingRow :
        /\ r = q.id /\ b = q.batch
        /\ row = [batch |-> q.batch, input |-> q.input, passed |-> q.output, version |-> 0]
  BY <1>2, <1>4 DEF SewingRow
<1>6. /\ record' = [record EXCEPT ![r] = row]
      /\ row.batch = b /\ row.input = q.input /\ row.passed = q.output
      /\ record[r] = NoRecord
      /\ record[r].batch \notin Batches /\ record[r].passed = 0
  BY <1>1, <1>2, <1>5, ProductionFloorAssumption DEF NoRecord
<1>7. PICK i \in Nat, n \in Nat : i = Input(b) + q.input /\ n = Sewn(b) + q.output
  BY <1>3, <1>4, TotalsNat
<1>8. ASSUME NEW x \in Batches
      PROVE  /\ Input(x)' = IF x = b THEN i ELSE Input(x)
             /\ Sewn(x)' = IF x = b THEN n ELSE Sewn(x)
  <2>1. /\ Input(x)' \in Nat /\ Sewn(x)' \in Nat
        /\ Input(x)' + (IF record[r].batch = x THEN record[r].input ELSE 0)
             = Input(x) + (IF row.batch = x THEN row.input ELSE 0)
        /\ Sewn(x)' + (IF record[r].batch = x THEN record[r].passed ELSE 0)
             = Sewn(x) + (IF row.batch = x THEN row.passed ELSE 0)
    BY <1>3, <1>6, RecordReplaced
  <2>2. Input(x) \in Nat /\ Sewn(x) \in Nat
    BY <1>3, TotalsNat
  <2> QED
    BY <1>4, <1>6, <1>7, <2>1, <2>2
<1>9. sewn' + record[r].passed = sewn + row.passed /\ sewn' \in Int
  BY <1>1, <1>2, <1>4, <1>6
<1>10. i >= Input(b) /\ n >= Sewn(b) /\ i <= _revised_sewing_input_limit(b)
  <2>1. Input(b) \in Nat /\ Sewn(b) \in Nat
    BY <1>3, TotalsNat
  <2> QED
    BY <1>2, <1>4, <1>5, <1>7, <2>1
<1>11. "sewing" \in request[c].locks
  BY <1>2 DEF q
<1>12. RecordWrite(c, r, row, b, i, n)
  BY <1>1, <1>6, <1>8, <1>9 DEF RecordWrite
<1> QED
  BY <1>10, <1>11, <1>12 DEF SewingAllowed

\* A correction and a removal write the row of the record that was locked.
LEMMA CorrectionWritten ==
  ASSUME FloorInvariant, NEW c \in Clerks, CommitCorrection(c) \/ CommitRemoval(c)
  PROVE  \E r \in Records, row \in SewingRow, b \in Batches, i, n \in Nat :
           RecordWrite(c, r, row, b, i, n) /\ SewingAllowed(c, b, i, n)
<1> DEFINE q == request[c]
<1>1. /\ q \in Request /\ q.op \in {"correct", "remove"} /\ Decided(q)
      /\ request' = [request EXCEPT ![c] = NoRequest]
      /\ q.op = "correct" =>
           record' = [record EXCEPT ![q.id] =
             [record[q.id] EXCEPT !.input = q.input, !.passed = q.output,
                                  !.version = record[q.id].version + 1]]
      /\ q.op = "remove" =>
           record' = [record EXCEPT ![q.id] = [NoRecord EXCEPT !.version = record[q.id].version + 1]]
      /\ sewn' = q.seen
      /\ UNCHANGED <<cutting, packaging, box>>
  <2>1. q \in Request /\ Decided(q)
    BY RequestOf
  <2>2. CASE CommitCorrection(c)
    BY <2>1, <2>2 DEF CommitCorrection, Committed
  <2>3. CASE CommitRemoval(c)
    BY <2>1, <2>3 DEF CommitRemoval, Committed
  <2> QED
    BY <2>2, <2>3
<1>2. TablesSound /\ TablesType
  BY DEF FloorInvariant, TablesSound
<1>3. /\ q.id \in Records /\ "sewing" \in q.locks
      /\ locked_record(q.id, q.row) /\ Correctable(q.id, q.input, q.output)
      /\ q.seen = sewn + q.output - record[q.id].passed
      /\ q.op = "remove" => q.input = 0 /\ q.output = 0
  BY <1>1 DEF Decided, DecidedLook, DecidedCorrection, LocksOf
<1>4. q.input \in Nat /\ q.output \in Nat /\ sewn \in Nat
  BY <1>1, <1>2 DEF Request, TablesType
<1> HIDE DEF q
<1>5. PICK r \in Records, b \in Batches : r = q.id /\ b = record[r].batch
  BY <1>2, <1>3 DEF TablesType, SewingRow, locked_record
<1>6. /\ record[r] \in SewingRow /\ ~HandedOff(b)
      /\ record[r].input \in Nat /\ record[r].passed \in Nat /\ record[r].version \in Nat
      /\ _revised_sewing_input_limit(b) \in Nat
  BY <1>2, <1>3, <1>5, LimitCoversCut DEF TablesType, SewingRow, locked_record
<1>7. PICK row \in SewingRow :
        /\ record' = [record EXCEPT ![r] = row]
        /\ row.input = q.input /\ row.passed = q.output /\ row.version = record[r].version + 1
        /\ row.batch = b \/ (row.input = 0 /\ row.passed = 0 /\ row.batch = NoBatch)
  <2>1. CASE q.op = "correct"
    <3>1. PICK old \in SewingRow, i \in Nat, n \in Nat, v \in Nat :
            old = record[r] /\ i = q.input /\ n = q.output /\ v = record[r].version + 1
      BY <1>4, <1>6
    <3> DEFINE row == [old EXCEPT !.input = i, !.passed = n, !.version = v]
    <3>3. /\ row \in SewingRow /\ row.batch = old.batch
          /\ row.input = i /\ row.passed = n /\ row.version = v
      BY ONLY old \in SewingRow, i \in Nat, n \in Nat, v \in Nat DEF SewingRow
    <3>2. record' = [record EXCEPT ![r] = row]
      BY <1>1, <1>5, <2>1, <3>1
    <3> HIDE DEF row
    <3> QED
      BY <1>5, <3>1, <3>2, <3>3
  <2>2. CASE q.op = "remove"
    <3> DEFINE row == [NoRecord EXCEPT !.version = record[r].version + 1]
    <3>1. /\ row \in SewingRow /\ row.batch = NoBatch /\ row.input = 0 /\ row.passed = 0
          /\ row.version = record[r].version + 1
      BY <1>6 DEF SewingRow, NoRecord
    <3>2. record' = [record EXCEPT ![r] = row]
      BY <1>1, <1>5, <2>2
    <3> HIDE DEF row
    <3> QED
      BY <1>3, <2>2, <3>1, <3>2
  <2> QED
    BY <1>1, <2>1, <2>2
<1>8. PICK i \in Nat, n \in Nat : i = Input(b)' /\ n = Sewn(b)'
  <2>1. Input(b)' \in Nat /\ Sewn(b)' \in Nat
    BY <1>2, <1>7, RecordReplaced
  <2> QED
    BY <2>1
<1>9. ASSUME NEW x \in Batches
      PROVE  /\ Input(x) \in Nat /\ Sewn(x) \in Nat
             /\ x # b => Input(x)' = Input(x) /\ Sewn(x)' = Sewn(x)
             /\ x = b => Input(x)' = Input(x) - record[r].input + q.input
  <2>1. /\ Input(x)' \in Nat /\ Sewn(x)' \in Nat
        /\ Input(x)' + (IF record[r].batch = x THEN record[r].input ELSE 0)
             = Input(x) + (IF row.batch = x THEN row.input ELSE 0)
        /\ Sewn(x)' + (IF record[r].batch = x THEN record[r].passed ELSE 0)
             = Sewn(x) + (IF row.batch = x THEN row.passed ELSE 0)
    BY <1>2, <1>7, RecordReplaced
  <2>2. Input(x) \in Nat /\ Sewn(x) \in Nat
    BY <1>2, TotalsNat
  <2>3. record[r].batch = b /\ x # NoBatch
    BY <1>5, ProductionFloorAssumption
  <2> QED
    BY <1>4, <1>6, <1>7, <2>1, <2>2, <2>3
<1>10. i <= _revised_sewing_input_limit(b)
  <2>1. Input(b) <= _revised_sewing_input_limit(b)
    BY <1>2, <1>9, LimitSays DEF TablesSound, SewingWithinLimit
  <2>2. i = Input(b) - record[r].input + q.input /\ Input(b) \in Nat
    BY <1>8, <1>9
  <2>3. q.input > record[r].input
          => Input(b) - record[r].input + q.input <= _revised_sewing_input_limit(b)
    BY <1>3, <1>5 DEF Correctable
  <2> QED
    BY <1>4, <1>6, <2>1, <2>2, <2>3
<1>11. sewn' + record[r].passed = sewn + row.passed /\ sewn' \in Int
  BY <1>1, <1>3, <1>4, <1>5, <1>6, <1>7
<1>12. /\ \A x \in Batches : Input(x)' = (IF x = b THEN i ELSE Input(x))
       /\ \A x \in Batches : Sewn(x)' = (IF x = b THEN n ELSE Sewn(x))
  BY <1>8, <1>9
<1>13. row.version > record[r].version /\ "sewing" \in request[c].locks
  BY <1>3, <1>6, <1>7 DEF q
<1>14. RecordWrite(c, r, row, b, i, n)
  BY <1>1, <1>7, <1>11, <1>12, <1>13 DEF RecordWrite
<1> QED
  BY <1>6, <1>10, <1>13, <1>14 DEF SewingAllowed

\* Writing, correcting and removing a sewing record keep the floor sound.
LEMMA SewingWrites ==
  ASSUME FloorInvariant, NEW c \in Clerks,
         CommitSewing(c) \/ CommitCorrection(c) \/ CommitRemoval(c)
  PROVE  FloorInvariant'
  BY SewingWritten, CorrectionWritten, RecordWrites

\* Writing a receipt keeps the floor sound.
LEMMA ReceiptWrites ==
  ASSUME FloorInvariant, NEW c \in Clerks, CommitReceipt(c)
  PROVE  FloorInvariant'
<1> DEFINE q == request[c]
<1>1. /\ q \in Request /\ q.op = "receive" /\ Decided(q)
      /\ request' = [request EXCEPT ![c] = NoRequest]
      /\ received' = [received EXCEPT ![q.batch] = received[q.batch] + q.input]
      /\ intake' = q.intake
      /\ UNCHANGED <<cut, bundle, plan, revised>> /\ record' = record /\ sewn' = sewn
      /\ entry' = entry /\ packed' = packed /\ box' = box
  BY RequestOf DEF CommitReceipt, Committed, cutting, sewing
<1>2. TablesSound /\ TablesType
  BY DEF FloorInvariant, TablesSound
<1>3. /\ q.batch \in Batches /\ q.input > 0 /\ received[q.batch] + q.input <= Sewn(q.batch)
      /\ q.intake = intake + q.input /\ q.locks = {"sewing", "packaging"}
  BY <1>1 DEF Decided, DecidedReceipt, LocksOf
<1>4. q.input \in Nat /\ intake \in Nat /\ received \in [Batches -> Nat]
  BY <1>1, <1>2 DEF Request, TablesType
<1> HIDE DEF q
<1>5. PICK b \in Batches, n \in Nat : b = q.batch /\ n = received[b] + q.input
  BY <1>3, <1>4
<1>6. received' = [received EXCEPT ![b] = n] /\ received' \in [Batches -> Nat]
  BY <1>1, <1>4, <1>5
<1>7. SumOf(received') = SumOf(received) + q.input /\ SumOf(received) \in Nat
  <2> DEFINE g == [received EXCEPT ![b] = n]
  <2>1. /\ g \in [Batches -> Nat] /\ \A x \in Batches : x # b => g[x] = received[x]
        /\ g[b] = n
    BY <1>4
  <2> HIDE DEF g
  <2>2. SumOf(g) + received[b] = SumOf(received) + g[b]
    BY <1>4, <2>1, TablesFinite, SumReplaced
  <2>3. SumOf(g) \in Nat /\ SumOf(received) \in Nat
    BY <1>4, <2>1, TablesFinite, UnitsFinite
  <2>4. SumOf(g) = SumOf(received) + q.input
    BY <1>4, <1>5, <2>1, <2>2, <2>3
  <2> QED
    BY <1>6, <2>3, <2>4 DEF g
<1>8. UsesReceipts'
  <2>1. received'[b] > 0
    BY <1>3, <1>4, <1>5, <1>6
  <2> QED
    BY <2>1 DEF UsesReceipts
<1>9. SumOf(received) <= intake
  <2>1. CASE UsesReceipts
    BY <1>2, <2>1 DEF TablesSound, CountersAgree
  <2>2. CASE ~UsesReceipts
    <3>1. \A x \in Batches : received[x] = 0
      BY <1>4, <2>2 DEF UsesReceipts
    <3>2. SumOf(received) = 0
      BY ONLY <1>4, <3>1, TablesFinite, SumZero
    <3> QED
      BY <1>4, <3>2
  <2> QED
    BY <2>1, <2>2
<1>10. CountersAgree'
  <2>1. SumOf(received') <= intake'
    BY <1>1, <1>3, <1>4, <1>7, <1>9
  <2> QED
    BY <1>1, <1>2, <1>8, <2>1, SumsStand DEF TablesSound, CountersAgree
<1>11. TablesType'
  <2>1. intake' \in Nat
    BY <1>1, <1>3, <1>4
  <2> QED
    BY <1>1, <1>2, <1>6, <2>1 DEF TablesType
<1>12. HandedOverWithinMade'
  <2>1. ASSUME NEW x \in Batches PROVE received'[x] <= Sewn(x)
    BY <1>2, <1>3, <1>4, <1>5, <1>6 DEF TablesSound, HandedOverWithinMade
  <2> QED
    BY <1>1, <1>2, <2>1, SumsStand DEF TablesSound, HandedOverWithinMade
<1>13. TablesSound'
  BY <1>1, <1>2, <1>10, <1>11, <1>12, SumsStand DEF TablesSound, EntriesSound, SewingWithinLimit
<1>14. Frame(c) /\ RecordsStep
  BY <1>1, <1>3 DEF Frame, RecordsStep, q
<1> QED
  BY <1>1, <1>11, <1>13, <1>14, WriteKeepsDecisions DEF FloorInvariant

\* Writing a packaging entry keeps the floor sound.
LEMMA PackingWrites ==
  ASSUME FloorInvariant, NEW c \in Clerks, CommitPacking(c)
  PROVE  FloorInvariant'
<1> DEFINE q == request[c]
<1>1. /\ q \in Request /\ q.op = "pack" /\ Decided(q)
      /\ request' = [request EXCEPT ![c] = NoRequest]
      /\ entry' = [entry EXCEPT ![q.id] =
           [batch |-> q.batch, input |-> q.input, packed |-> q.output, damaged |-> q.damaged]]
      /\ packed' = q.seen /\ intake' = q.intake
      /\ UNCHANGED <<cut, bundle, plan, revised>> /\ record' = record /\ sewn' = sewn
      /\ received' = received /\ box' = box
  BY RequestOf DEF CommitPacking, Committed, cutting, sewing
<1>2. TablesSound /\ TablesType
  BY DEF FloorInvariant, TablesSound
<1>3. /\ q.id \in Entries /\ q.batch \in Batches /\ entry[q.id] = NoEntry
      /\ q.output + q.damaged <= q.input
      /\ EntrySum(q.batch, "input") + q.input <= Sewn(q.batch)
      /\ q.seen = packed + q.output
      /\ q.intake = (IF UsesReceipts THEN intake ELSE intake + q.input)
      /\ q.locks = Locks
  BY <1>1 DEF Decided, DecidedPacking, LocksOf
<1>4. /\ q.input \in Nat /\ q.output \in Nat /\ q.damaged \in Nat
      /\ intake \in Nat /\ packed \in Nat /\ entry \in [Entries -> PackingRow]
  BY <1>1, <1>2 DEF Request, TablesType
<1> HIDE DEF q
<1>5. PICK e \in Entries, b \in Batches, row \in PackingRow :
        /\ e = q.id /\ b = q.batch
        /\ row = [batch |-> q.batch, input |-> q.input, packed |-> q.output, damaged |-> q.damaged]
  BY <1>3, <1>4 DEF PackingRow
<1>6. /\ entry' = [entry EXCEPT ![e] = row] /\ entry[e] = NoEntry /\ row.batch = b
      /\ row.input = q.input /\ row.packed = q.output /\ row.damaged = q.damaged
      /\ row.batch \in Batches
  BY <1>1, <1>3, <1>5
<1>7. /\ \A x \in Batches :
           /\ EntrySum(x, "input")' = EntrySum(x, "input") + (IF row.batch = x THEN row.input ELSE 0)
           /\ PackedOf(x)' = PackedOf(x) + (IF row.batch = x THEN row.packed ELSE 0)
      /\ SumOf([s \in Entries |-> entry[s].packed])'
           = SumOf([s \in Entries |-> entry[s].packed]) + row.packed
      /\ SumOf([s \in Entries |-> entry[s].input])'
           = SumOf([s \in Entries |-> entry[s].input]) + row.input
  BY <1>2, <1>6, EntryAdded
<1>8. TablesType'
  <2>1. entry' \in [Entries -> PackingRow]
    BY <1>4, <1>6
  <2>2. packed' \in Nat /\ intake' \in Nat
    BY <1>1, <1>3, <1>4
  <2> QED
    BY <1>1, <1>2, <2>1, <2>2 DEF TablesType
<1>9. EntriesSound'
  <2>1. ASSUME NEW x \in Entries
        PROVE  entry'[x].packed + entry'[x].damaged <= entry'[x].input
    <3>1. CASE x = e
      BY <1>3, <1>4, <1>6, <3>1
    <3>2. CASE x # e
      BY <1>2, <1>4, <1>6, <3>2 DEF TablesSound, EntriesSound
    <3> QED
      BY <3>1, <3>2
  <2> QED
    BY <2>1 DEF EntriesSound
<1>10. HandedOverWithinMade'
  <2>1. ASSUME NEW x \in Batches
        PROVE  /\ EntrySum(x, "input")' <= Sewn(x)
               /\ _existing_package_totals_by_batch(x, 0) <= PackedOf(x)'
    <3>1. /\ EntrySum(x, "input") <= Sewn(x)
          /\ _existing_package_totals_by_batch(x, 0) <= PackedOf(x)
          /\ EntrySum(x, "input") \in Nat /\ PackedOf(x) \in Nat /\ Sewn(x) \in Nat
          /\ _existing_package_totals_by_batch(x, 0) \in Nat
      BY <1>2, TotalsNat DEF TablesSound, HandedOverWithinMade
    <3>2. /\ EntrySum(x, "input")' = EntrySum(x, "input") + (IF b = x THEN q.input ELSE 0)
          /\ PackedOf(x)' = PackedOf(x) + (IF b = x THEN q.output ELSE 0)
      BY <1>6, <1>7
    <3>3. b = x => EntrySum(x, "input") + q.input <= Sewn(x)
      BY <1>3, <1>5
    <3> QED
      BY <1>4, <3>1, <3>2, <3>3
  <2>2. \A x \in Batches : (PackedOf(x) + EntrySum(x, "damaged") <= EntrySum(x, "input"))'
    BY <1>8, <1>9, EntriesCoveredNext
  <2> QED
    BY <1>1, <1>2, <2>1, <2>2, SumsStand DEF TablesSound, HandedOverWithinMade
<1>11. CountersAgree'
  BY <1>1, <1>2, <1>3, <1>6, <1>7, SumsStand DEF TablesSound, CountersAgree
<1>12. TablesSound'
  BY <1>1, <1>2, <1>8, <1>9, <1>10, <1>11, SumsStand DEF TablesSound, SewingWithinLimit
<1>13. Frame(c) /\ RecordsStep
  BY <1>1, <1>3 DEF Frame, RecordsStep, Locks, q
<1> QED
  BY <1>1, <1>8, <1>12, <1>13, WriteKeepsDecisions DEF FloorInvariant

\* Writing a package keeps the floor sound.
LEMMA BoxWrites ==
  ASSUME FloorInvariant, NEW c \in Clerks, CommitPackage(c)
  PROVE  FloorInvariant'
<1> DEFINE q == request[c]
<1>1. /\ q \in Request /\ q.op = "box" /\ Decided(q)
      /\ request' = [request EXCEPT ![c] = NoRequest]
      /\ box' = [box EXCEPT ![q.id] = q.pieces]
      /\ UNCHANGED <<cut, bundle, plan, revised>> /\ record' = record /\ sewn' = sewn
      /\ received' = received /\ entry' = entry /\ intake' = intake /\ packed' = packed
  BY RequestOf DEF CommitPackage, Committed, cutting, sewing, packaging
<1>2. TablesSound /\ TablesType
  BY DEF FloorInvariant, TablesSound
<1>3. /\ q.id \in Boxes /\ q.locks = {"order"} /\ q.pieces \in [Batches -> Nat]
      /\ \A b \in Batches : q.pieces[b] + _existing_package_totals_by_batch(b, q.id) <= PackedOf(b)
  BY <1>1 DEF Decided, DecidedBox, LocksOf, Request
<1> HIDE DEF q
<1>4. PICK x \in Boxes, p \in [Batches -> Nat] : x = q.id /\ p = q.pieces
  BY <1>3
<1>5. /\ box' \in [Boxes -> [Batches -> Nat]]
      /\ \A b \in Batches :
           _existing_package_totals_by_batch(b, 0)' = _existing_package_totals_by_batch(b, x) + p[b]
  BY <1>1, <1>2, <1>4, BoxReplaced
<1>6. TablesType'
  BY <1>1, <1>2, <1>5 DEF TablesType
<1>7. ASSUME NEW b \in Batches
      PROVE  _existing_package_totals_by_batch(b, 0)' <= PackedOf(b)
  <2>1. p[b] \in Nat /\ _existing_package_totals_by_batch(b, x) \in Nat /\ PackedOf(b) \in Nat
    BY <1>2, TotalsNat
  <2> QED
    BY <1>3, <1>4, <1>5, <2>1
<1>8. HandedOverWithinMade'
  BY <1>1, <1>2, <1>7, SumsStand DEF TablesSound, HandedOverWithinMade
<1>9. TablesSound'
  BY <1>1, <1>2, <1>6, <1>8, SumsStand DEF TablesSound, EntriesSound, SewingWithinLimit, CountersAgree
<1>10. Frame(c) /\ RecordsStep
  BY <1>1, <1>3 DEF Frame, RecordsStep, HandedOff, q
<1> QED
  BY <1>1, <1>6, <1>9, <1>10, WriteKeepsDecisions DEF FloorInvariant

\* Deleting a package with the output it counted keeps the floor sound.
LEMMA UnboxWrites ==
  ASSUME FloorInvariant, NEW c \in Clerks, CommitDeletion(c)
  PROVE  FloorInvariant'
<1> DEFINE q == request[c]
<1>1. /\ q \in Request /\ q.op = "unbox" /\ Decided(q)
      /\ request' = [request EXCEPT ![c] = NoRequest]
      /\ entry' = Left(q)
      /\ packed' = q.seen /\ intake' = q.intake
      /\ box' = [box EXCEPT ![q.id] = NoPieces]
      /\ UNCHANGED <<cut, bundle, plan, revised>> /\ record' = record /\ sewn' = sewn /\ received' = received
  BY RequestOf DEF CommitDeletion, Committed, cutting, sewing, Left
<1>2. TablesSound /\ TablesType
  BY DEF FloorInvariant, TablesSound
<1>3. /\ q.id \in Boxes /\ q.locks = {"order", "packaging"} /\ q.take \in [Entries -> Nat]
      /\ q.seen \in Nat /\ q.intake \in Nat
      /\ \A e \in Entries : q.take[e] <= entry[e].packed
      /\ \A b \in Batches :
           _existing_package_totals_by_batch(b, q.id)
             <= SumOf([e \in Entries |-> IF entry[e].batch = b THEN Left(q)[e].packed ELSE 0])
      /\ q.seen = SumOf([e \in Entries |-> Left(q)[e].packed])
      /\ q.intake = IF UsesReceipts THEN intake ELSE SumOf([e \in Entries |-> Left(q)[e].input])
  BY <1>1 DEF Decided, DecidedUnboxing, LocksOf, Request
<1> HIDE DEF q
<1>4. ASSUME NEW e \in Entries
      PROVE  /\ entry[e] \in PackingRow /\ entry'[e] \in PackingRow
             /\ entry'[e].batch = entry[e].batch /\ entry'[e].input <= entry[e].input
             /\ entry'[e].packed + entry'[e].damaged <= entry'[e].input
  <2>1. entry[e] \in PackingRow /\ entry[e].packed + entry[e].damaged <= entry[e].input
    BY <1>2 DEF TablesType, TablesSound, EntriesSound
  <2>2. PICK n \in Nat : n = q.take[e] /\ n <= entry[e].packed
    BY <1>3
  <2>3. entry'[e] = Reset(entry[e], n)
    BY <1>1, <2>2 DEF Left
  <2> QED
    BY <2>1, <2>2, <2>3, ResetRow
<1>5. PICK x \in Boxes : x = q.id
  BY <1>3
<1>6. NoPieces \in [Batches -> Nat] /\ \A b \in Batches : NoPieces[b] = 0
  BY DEF NoPieces
<1>7. /\ box' \in [Boxes -> [Batches -> Nat]]
      /\ \A b \in Batches :
           _existing_package_totals_by_batch(b, 0)' = _existing_package_totals_by_batch(b, x) + NoPieces[b]
  BY <1>1, <1>2, <1>5, <1>6, BoxReplaced
<1>8. TablesType' /\ EntriesSound'
  <2>1. entry' \in [Entries -> PackingRow]
    BY <1>1, <1>4 DEF Left
  <2> QED
    BY <1>1, <1>2, <1>3, <1>4, <1>7, <2>1 DEF TablesType, EntriesSound
<1>9. ASSUME NEW b \in Batches
      PROVE  EntrySum(b, "input")' <= Sewn(b)
  <2> DEFINE f == [e \in Entries |-> IF entry[e].batch = b THEN entry[e].input ELSE 0]
             g == [e \in Entries |-> IF entry'[e].batch = b THEN entry'[e].input ELSE 0]
  <2>1. /\ f \in [Entries -> Nat] /\ g \in [Entries -> Nat]
        /\ \A e \in Entries : g[e] <= f[e]
    BY <1>4 DEF PackingRow
  <2>2. SumOf(f) = EntrySum(b, "input") /\ SumOf(g) = EntrySum(b, "input")'
    BY DEF EntrySum
  <2> HIDE DEF f, g
  <2>3. SumOf(g) <= SumOf(f)
    BY <2>1, TablesFinite, SumMonotone
  <2>4. SumOf(g) \in Nat /\ SumOf(f) \in Nat /\ Sewn(b) \in Nat
    BY <1>2, <2>1, TablesFinite, UnitsFinite, TotalsNat
  <2>5. EntrySum(b, "input") <= Sewn(b)
    BY <1>2 DEF TablesSound, HandedOverWithinMade
  <2> QED
    BY <2>2, <2>3, <2>4, <2>5
<1>10. ASSUME NEW b \in Batches
       PROVE  _existing_package_totals_by_batch(b, 0)' <= PackedOf(b)'
  <2> DEFINE f == [e \in Entries |-> IF entry[e].batch = b THEN Left(q)[e].packed ELSE 0]
             g == [e \in Entries |-> IF entry'[e].batch = b THEN entry'[e].packed ELSE 0]
  <2>1. f = g
    BY <1>1, <1>4
  <2>2. PackedOf(b)' = SumOf(g)
    BY DEF PackedOf, EntrySum
  <2>3. _existing_package_totals_by_batch(b, x) <= SumOf(f)
    BY <1>3, <1>5
  <2>4. _existing_package_totals_by_batch(b, 0)' = _existing_package_totals_by_batch(b, x)
    BY <1>2, <1>6, <1>7, TotalsNat
  <2> HIDE DEF f, g
  <2> QED
    BY <2>1, <2>2, <2>3, <2>4
<1>11. HandedOverWithinMade'
  <2>1. \A b \in Batches : (PackedOf(b) + EntrySum(b, "damaged") <= EntrySum(b, "input"))'
    BY <1>8, EntriesCoveredNext
  <2> QED
    BY <1>1, <1>2, <1>9, <1>10, <2>1, SumsStand DEF TablesSound, HandedOverWithinMade
<1>12. CountersAgree'
  <2>1. packed' = SumOf([e \in Entries |-> entry'[e].packed])
    BY <1>1, <1>3
  <2>2. intake' = IF UsesReceipts THEN intake ELSE SumOf([e \in Entries |-> entry'[e].input])
    BY <1>1, <1>3
  <2> QED
    BY <1>1, <1>2, <2>1, <2>2, SumsStand DEF TablesSound, CountersAgree
<1>13. TablesSound'
  BY <1>1, <1>2, <1>8, <1>11, <1>12, SumsStand DEF TablesSound, SewingWithinLimit
<1>14. Frame(c) /\ RecordsStep
  BY <1>1, <1>3, <1>4 DEF Frame, RecordsStep, HandedOff, q
<1> QED
  BY <1>1, <1>8, <1>13, <1>14, WriteKeepsDecisions DEF FloorInvariant

-----------------------------------------------------------------------------
(* Every step is one of PieceFlow                                          *)

\* The tables that PieceFlow sees.
FedTable == [b \in Batches |-> Input(b)]
LimitTable == [b \in Batches |-> _revised_sewing_input_limit(b)]
MadeTable == [b \in Batches |-> Sewn(b)]
UsedTable == [b \in Batches |-> EntrySum(b, "input")]
PackedTable == [b \in Batches |-> PackedOf(b)]
BoxedTable == [b \in Batches |-> _existing_package_totals_by_batch(b, 0)]

\* The tables of PieceFlow change with the records they add up.
LEMMA FlowStands ==
  /\ record' = record => FedTable' = FedTable /\ MadeTable' = MadeTable
  /\ entry' = entry => UsedTable' = UsedTable /\ PackedTable' = PackedTable
  /\ box' = box => BoxedTable' = BoxedTable
  /\ cut' = cut /\ plan' = plan /\ revised' = revised => LimitTable' = LimitTable
  BY SumsStand DEF FedTable, LimitTable, MadeTable, UsedTable, PackedTable, BoxedTable

\* A table that changes at one batch only is the old one with another value there.
LEMMA OnlyThere ==
  ASSUME NEW b \in Batches, NEW f, NEW g, f = [x \in Batches |-> f[x]], g = [x \in Batches |-> g[x]],
         \A x \in Batches : x # b => g[x] = f[x]
  PROVE  Made!Only(b, g, f)
  BY DEF Made!Only

\* Counting what was cut and revising a batch is a step of Cutting: nothing was put in.
LEMMA CuttingFlows ==
  ASSUME FloorInvariant, FloorInvariant', NEW c \in Clerks, CutCommit(c)
  PROVE  \E b \in Batches : Made!CutBatch(b)
<1>1. PICK b \in Batches :
        /\ b = request[c].batch /\ Mutable(b)
        /\ UNCHANGED <<sewing, packaging, box>>
        /\ \A x \in Batches : x # b => cut'[x] = cut[x] /\ plan'[x] = plan[x] /\ revised'[x] = revised[x]
  BY CutCommitWrites
<1>2. TablesType /\ TablesType'
  BY DEF FloorInvariant, TablesSound
<1>3. FedTable[b] = 0
  BY <1>1, <1>2, NothingSewn DEF FedTable
<1>4. Made!Only(b, cut', cut)
  <2>1. cut \in [Batches -> Nat] /\ cut' \in [Batches -> Nat]
    BY <1>2 DEF TablesType
  <2> QED
    BY <1>1, <2>1, OnlyThere
<1>5. Made!Only(b, LimitTable', LimitTable)
  <2>1. \A x \in Batches : x # b => LimitTable'[x] = LimitTable[x]
    BY <1>1 DEF LimitTable, _revised_sewing_input_limit
  <2>2. /\ LimitTable = [x \in Batches |-> LimitTable[x]]
        /\ LimitTable' = [x \in Batches |-> LimitTable'[x]]
    BY DEF LimitTable
  <2> QED
    BY <2>1, <2>2, OnlyThere
<1>6. cut'[b] <= LimitTable'[b] /\ (cut'[b] = 0 => LimitTable'[b] = 0)
  <2>1. /\ (cut[b] <= _revised_sewing_input_limit(b))'
        /\ (cut[b] = 0 => _revised_sewing_input_limit(b) = 0)'
    <3>1. (TablesType => /\ cut[b] <= _revised_sewing_input_limit(b)
                         /\ cut[b] = 0 => _revised_sewing_input_limit(b) = 0)'
      BY LimitCoversCut, PTL
    <3> QED
      BY <1>2, <3>1
  <2> QED
    BY <2>1 DEF LimitTable
<1>7. record' = record /\ received' = received /\ entry' = entry /\ box' = box
  BY <1>1 DEF sewing, packaging
<1>8. Made!CutBatch(b)
  BY <1>3, <1>4, <1>5, <1>6, <1>7, FlowStands
  DEF Made!CutBatch, FedTable, LimitTable, MadeTable, UsedTable, PackedTable, BoxedTable
<1> QED
  BY <1>8

\* Packaging has received nothing of a batch it did not take over, nor put anything in.
LEMMA NotHandedOff ==
  ASSUME TablesType, NEW b \in Batches, ~HandedOff(b)
  PROVE  received[b] = 0 /\ EntrySum(b, "input") = 0
<1>1. received[b] = 0
  BY DEF HandedOff, TablesType
<1> DEFINE f == [e \in Entries |-> IF entry[e].batch = b THEN entry[e].input ELSE 0]
<1>2. f \in [Entries -> Nat] /\ \A e \in Entries : f[e] = 0
  BY TotalTypes DEF HandedOff
<1> HIDE DEF f
<1>3. SumOf(f) = 0
  BY ONLY <1>2, TablesFinite, SumZero
<1> QED
  BY <1>1, <1>3 DEF f, EntrySum

\* Writing a sewing record is a step of Sewing: it takes nothing back that was handed over.
LEMMA SewingFlows ==
  ASSUME FloorInvariant, NEW c \in Clerks,
         CommitSewing(c) \/ CommitCorrection(c) \/ CommitRemoval(c)
  PROVE  \E b \in Batches : Made!SewBatch(b)
<1>1. PICK r \in Records, row \in SewingRow, b \in Batches, i \in Nat, n \in Nat :
        RecordWrite(c, r, row, b, i, n) /\ SewingAllowed(c, b, i, n)
  BY SewingWritten, CorrectionWritten
<1>2. TablesType
  BY DEF FloorInvariant, TablesSound
<1>3. /\ cut' = cut /\ plan' = plan /\ revised' = revised
      /\ received' = received /\ entry' = entry /\ box' = box
      /\ \A x \in Batches : Input(x)' = (IF x = b THEN i ELSE Input(x))
      /\ \A x \in Batches : Sewn(x)' = (IF x = b THEN n ELSE Sewn(x))
  BY <1>1 DEF RecordWrite, cutting, packaging
<1>4. FedTable' = [FedTable EXCEPT ![b] = i] /\ MadeTable' = [MadeTable EXCEPT ![b] = n]
  BY <1>3 DEF FedTable, MadeTable
<1>5. /\ FedTable[b] = Input(b) /\ FedTable'[b] = i /\ MadeTable[b] = Sewn(b) /\ MadeTable'[b] = n
      /\ UsedTable[b] = EntrySum(b, "input")
  BY <1>3 DEF FedTable, MadeTable, UsedTable
<1>6. Made!Only(b, FedTable', FedTable) /\ Made!Only(b, MadeTable', MadeTable)
  BY <1>4, <1>5 DEF Made!Only
<1>7. (received[b] = 0 /\ UsedTable[b] = 0) \/ (FedTable'[b] >= FedTable[b] /\ MadeTable'[b] >= MadeTable[b])
  BY <1>1, <1>2, <1>5, NotHandedOff DEF SewingAllowed
<1>8. FedTable'[b] <= LimitTable[b]
  BY <1>1, <1>5 DEF SewingAllowed, LimitTable
<1>9. Made!SewBatch(b)
  BY <1>3, <1>6, <1>7, <1>8, FlowStands
  DEF Made!SewBatch, Made!Untouched, FedTable, LimitTable, MadeTable, UsedTable, PackedTable, BoxedTable
<1> QED
  BY <1>9

\* A receipt hands over pieces that passed Sewing.
LEMMA ReceiptFlows ==
  ASSUME FloorInvariant, NEW c \in Clerks, CommitReceipt(c)
  PROVE  \E b \in Batches : Made!HandOver(b)
<1> DEFINE q == request[c]
<1>1. /\ q \in Request /\ q.op = "receive" /\ Decided(q)
      /\ received' = [received EXCEPT ![q.batch] = received[q.batch] + q.input]
      /\ UNCHANGED <<cut, plan, revised>> /\ record' = record /\ entry' = entry /\ box' = box
  BY RequestOf DEF CommitReceipt, Committed, cutting, sewing
<1>2. q.batch \in Batches /\ q.input > 0 /\ received[q.batch] + q.input <= Sewn(q.batch)
  BY <1>1 DEF Decided, DecidedReceipt
<1>3. q.input \in Nat /\ received \in [Batches -> Nat]
  BY <1>1 DEF Request, FloorInvariant, TablesSound, TablesType
<1> HIDE DEF q
<1>4. PICK b \in Batches : b = q.batch
  BY <1>2
<1>5. /\ Made!Only(b, received', received) /\ received[b] < received'[b]
      /\ received'[b] <= MadeTable[b]
  <2>1. PICK n \in Nat : n = received[b] + q.input
    BY <1>3
  <2>2. received' = [received EXCEPT ![b] = n] /\ received'[b] = n
    BY <1>1, <1>3, <1>4, <2>1
  <2>3. received[b] < n /\ n <= MadeTable[b]
    BY <1>2, <1>3, <1>4, <2>1 DEF MadeTable
  <2> QED
    BY <2>2, <2>3 DEF Made!Only
<1>6. Made!HandOver(b)
  BY <1>1, <1>5, FlowStands
  DEF Made!HandOver, FedTable, LimitTable, MadeTable, UsedTable, PackedTable, BoxedTable
<1> QED
  BY <1>6

\* A packaging entry puts in pieces that passed Sewing; an empty one changes nothing.
LEMMA PackingFlows ==
  ASSUME FloorInvariant, NEW c \in Clerks, CommitPacking(c)
  PROVE  (\E b \in Batches : Made!PackBatch(b)) \/ UNCHANGED Made!vars
<1> DEFINE q == request[c]
<1>1. /\ q \in Request /\ q.op = "pack" /\ Decided(q)
      /\ entry' = [entry EXCEPT ![q.id] =
           [batch |-> q.batch, input |-> q.input, packed |-> q.output, damaged |-> q.damaged]]
      /\ UNCHANGED <<cut, plan, revised>> /\ record' = record /\ received' = received /\ box' = box
  BY RequestOf DEF CommitPacking, Committed, cutting, sewing
<1>2. TablesType
  BY DEF FloorInvariant, TablesSound
<1>3. /\ q.id \in Entries /\ q.batch \in Batches /\ entry[q.id] = NoEntry
      /\ q.output + q.damaged <= q.input
      /\ EntrySum(q.batch, "input") + q.input <= Sewn(q.batch)
  BY <1>1 DEF Decided, DecidedPacking
<1>4. q.input \in Nat /\ q.output \in Nat /\ q.damaged \in Nat
  BY <1>1 DEF Request
<1> HIDE DEF q
<1>5. PICK e \in Entries, b \in Batches, row \in PackingRow :
        /\ e = q.id /\ b = q.batch
        /\ row = [batch |-> q.batch, input |-> q.input, packed |-> q.output, damaged |-> q.damaged]
  BY <1>3, <1>4 DEF PackingRow
<1>6. /\ entry' = [entry EXCEPT ![e] = row] /\ entry[e] = NoEntry /\ row.batch = b
      /\ row.input = q.input /\ row.packed = q.output /\ row.batch \in Batches
  BY <1>1, <1>3, <1>5
<1>7. \A x \in Batches :
        /\ EntrySum(x, "input")' = EntrySum(x, "input") + (IF row.batch = x THEN row.input ELSE 0)
        /\ PackedOf(x)' = PackedOf(x) + (IF row.batch = x THEN row.packed ELSE 0)
        /\ EntrySum(x, "input") \in Nat /\ PackedOf(x) \in Nat /\ Sewn(x) \in Nat
  BY <1>2, <1>6, EntryAdded, TotalsNat
<1>8. ASSUME NEW x \in Batches
      PROVE  /\ UsedTable'[x] = UsedTable[x] + (IF x = b THEN q.input ELSE 0)
             /\ PackedTable'[x] = PackedTable[x] + (IF x = b THEN q.output ELSE 0)
             /\ UsedTable[x] \in Nat /\ PackedTable[x] \in Nat /\ MadeTable[x] \in Nat
  BY <1>6, <1>7 DEF UsedTable, PackedTable, MadeTable
<1>9. /\ UsedTable = [x \in Batches |-> UsedTable[x]] /\ UsedTable' = [x \in Batches |-> UsedTable'[x]]
      /\ PackedTable = [x \in Batches |-> PackedTable[x]]
      /\ PackedTable' = [x \in Batches |-> PackedTable'[x]]
  BY DEF UsedTable, PackedTable
<1>10. /\ FedTable' = FedTable /\ MadeTable' = MadeTable /\ BoxedTable' = BoxedTable
      /\ LimitTable' = LimitTable
  BY <1>1, FlowStands
<1>11. CASE q.input > 0
  <2>1. \A x \in Batches : x # b => UsedTable'[x] = UsedTable[x] /\ PackedTable'[x] = PackedTable[x]
    BY <1>4, <1>8
  <2>2. Made!Only(b, UsedTable', UsedTable) /\ Made!Only(b, PackedTable', PackedTable)
    BY <1>9, <2>1, OnlyThere
  <2>3. UsedTable'[b] = UsedTable[b] + q.input /\ PackedTable'[b] = PackedTable[b] + q.output
    BY <1>8
  <2>4. UsedTable[b] + q.input <= MadeTable[b]
    BY <1>3, <1>5 DEF UsedTable, MadeTable
  <2>5. UsedTable[b] \in Nat /\ PackedTable[b] \in Nat /\ MadeTable[b] \in Nat
    BY <1>8
  <2>6. /\ UsedTable[b] < UsedTable'[b] /\ UsedTable'[b] <= MadeTable[b]
        /\ PackedTable[b] <= PackedTable'[b]
        /\ PackedTable'[b] - PackedTable[b] <= UsedTable'[b] - UsedTable[b]
    BY <1>3, <1>4, <1>11, <2>3, <2>4, <2>5
  <2>7. Made!PackBatch(b)
    BY <1>1, <1>10, <2>2, <2>6
    DEF Made!PackBatch, FedTable, LimitTable, MadeTable, UsedTable, PackedTable, BoxedTable
  <2> QED
    BY <2>7
<1>12. CASE q.input = 0
  <2>1. q.output = 0
    BY <1>3, <1>4, <1>12
  <2>2. \A x \in Batches : UsedTable'[x] = UsedTable[x] /\ PackedTable'[x] = PackedTable[x]
    BY <1>8, <1>12, <2>1
  <2>3. UsedTable' = UsedTable /\ PackedTable' = PackedTable
    BY <1>9, <2>2
  <2> QED
    BY <1>1, <1>10, <2>3
    DEF Made!vars, FedTable, LimitTable, MadeTable, UsedTable, PackedTable, BoxedTable
<1> QED
  BY <1>4, <1>11, <1>12

\* A package is filled with pieces that were packed.
LEMMA BoxFlows ==
  ASSUME FloorInvariant, FloorInvariant', NEW c \in Clerks, CommitPackage(c)
  PROVE  Made!FillPackage
<1>1. UNCHANGED <<cut, plan, revised>> /\ record' = record /\ received' = received /\ entry' = entry
  BY DEF CommitPackage, cutting, sewing, packaging
<1>2. \A b \in Batches : BoxedTable'[b] <= PackedTable[b]
  <2>1. \A b \in Batches : (_existing_package_totals_by_batch(b, 0) <= PackedOf(b))'
    BY DEF FloorInvariant, TablesSound, HandedOverWithinMade
  <2> QED
    BY <1>1, <2>1, SumsStand DEF BoxedTable, PackedTable
<1>3. BoxedTable' = [b \in Batches |-> BoxedTable'[b]]
  BY DEF BoxedTable
<1> QED
  BY <1>1, <1>2, <1>3, FlowStands
  DEF Made!FillPackage, FedTable, LimitTable, MadeTable, UsedTable, PackedTable, BoxedTable

\* Tables that add up to nothing have nothing in any row.
LEMMA NothingAdds ==
  ASSUME NEW S, IsFiniteSet(S), NEW f \in [S -> Nat], SumOf(f) = 0
  PROVE  \A x \in S : f[x] = 0
<1> SUFFICES ASSUME NEW x \in S PROVE f[x] = 0
  OBVIOUS
<1> DEFINE g == [y \in S |-> IF y = x THEN f[x] ELSE 0]
<1>1. g \in [S -> Nat] /\ (\A y \in S : g[y] <= f[y]) /\ (\A y \in S : y # x => g[y] = 0) /\ g[x] = f[x]
  OBVIOUS
<1> HIDE DEF g
<1>2. SumOf(g) <= SumOf(f) /\ SumOf(g) = g[x]
  BY ONLY IsFiniteSet(S), f \in [S -> Nat], x \in S, <1>1, SumMonotone, SumSingle
<1> QED
  BY <1>1, <1>2

\* Undoing a package takes its pieces out of what was packed, exactly as many as it held.
LEMMA UnboxFlows ==
  ASSUME FloorInvariant, FloorInvariant', NEW c \in Clerks, CommitDeletion(c)
  PROVE  Made!UndoPackage
<1> DEFINE q == request[c]
<1>1. /\ q \in Request /\ q.op = "unbox" /\ Decided(q)
      /\ entry' = Left(q) /\ box' = [box EXCEPT ![q.id] = NoPieces]
      /\ UNCHANGED <<cut, plan, revised>> /\ record' = record /\ received' = received
  BY RequestOf DEF CommitDeletion, Committed, cutting, sewing, Left
<1>2. TablesSound /\ TablesType /\ TablesType' /\ HandedOverWithinMade'
  BY DEF FloorInvariant, TablesSound
<1>3. /\ q.id \in Boxes /\ q.take \in [Entries -> Nat]
      /\ \A e \in Entries : q.take[e] <= entry[e].packed
      /\ \A b \in Batches : TakenFrom(q, b) = box[q.id][b]
  BY <1>1 DEF Decided, DecidedUnboxing, Request
<1> HIDE DEF q
<1>4. PICK x \in Boxes, take \in [Entries -> Nat] : x = q.id /\ take = q.take
  BY <1>3
<1>5. ASSUME NEW e \in Entries
      PROVE  /\ entry[e] \in PackingRow /\ entry'[e] \in PackingRow
             /\ entry'[e].batch = entry[e].batch /\ entry'[e].input <= entry[e].input
             /\ entry[e].packed = entry'[e].packed + take[e]
             /\ take[e] = 0 => entry'[e].input = entry[e].input
  <2>1. /\ entry[e] \in PackingRow /\ entry[e].packed + entry[e].damaged <= entry[e].input
        /\ entry[e].packed \in Nat
    BY <1>2 DEF TablesType, TablesSound, EntriesSound, PackingRow
  <2>2. PICK n \in Nat : n = take[e] /\ n <= entry[e].packed
    BY <1>3, <1>4
  <2>3. entry'[e] = Reset(entry[e], n)
    BY <1>1, <1>4, <2>2 DEF Left
  <2> QED
    BY <2>1, <2>2, <2>3, ResetRow
<1>6. NoPieces \in [Batches -> Nat] /\ \A b \in Batches : NoPieces[b] = 0
  BY DEF NoPieces
<1>7. ASSUME NEW b \in Batches
      PROVE  /\ BoxedTable[b] = BoxedTable'[b] + box[x][b]
             /\ box[x][b] \in Nat /\ BoxedTable'[b] \in Nat
  <2>1. _existing_package_totals_by_batch(b, 0) = _existing_package_totals_by_batch(b, x) + box[x][b]
    BY <1>2, BoxesSplit
  <2>2. _existing_package_totals_by_batch(b, 0)' = _existing_package_totals_by_batch(b, x) + NoPieces[b]
    BY <1>1, <1>2, <1>4, <1>6, BoxReplaced
  <2>3. box[x][b] \in Nat /\ _existing_package_totals_by_batch(b, x) \in Nat
    BY <1>2, OthersCovered, TotalsNat
  <2> QED
    BY <1>6, <2>1, <2>2, <2>3 DEF BoxedTable
<1>8. ASSUME NEW b \in Batches
      PROVE  PackedTable[b] = PackedTable'[b] + box[x][b] /\ PackedTable'[b] \in Nat
  <2> DEFINE f == [e \in Entries |-> IF entry[e].batch = b THEN entry[e].packed ELSE 0]
             g == [e \in Entries |-> IF entry'[e].batch = b THEN entry'[e].packed ELSE 0]
             h == [e \in Entries |-> IF entry[e].batch = b THEN take[e] ELSE 0]
  <2>1. f \in [Entries -> Nat] /\ g \in [Entries -> Nat] /\ h \in [Entries -> Nat]
    BY <1>5 DEF PackingRow
  <2>2. \A e \in Entries : f[e] = g[e] + h[e]
    BY <1>5 DEF PackingRow
  <2>3. SumOf(f) = PackedTable[b] /\ SumOf(g) = PackedTable'[b] /\ SumOf(h) = box[x][b]
    BY <1>3, <1>4 DEF PackedTable, PackedOf, EntrySum, TakenFrom
  <2> HIDE DEF f, g, h
  <2>4. SumOf(f) = SumOf(g) + SumOf(h)
    BY ONLY <2>1, <2>2, TablesFinite, SumAdds
  <2>5. SumOf(g) \in Nat
    BY ONLY <2>1, TablesFinite, UnitsFinite
  <2> QED
    BY <2>3, <2>4, <2>5
<1>9. ASSUME NEW b \in Batches
      PROVE  UsedTable'[b] <= UsedTable[b] /\ (box[x][b] = 0 => UsedTable'[b] = UsedTable[b])
  <2> DEFINE f == [e \in Entries |-> IF entry[e].batch = b THEN entry[e].input ELSE 0]
             g == [e \in Entries |-> IF entry'[e].batch = b THEN entry'[e].input ELSE 0]
             h == [e \in Entries |-> IF entry[e].batch = b THEN take[e] ELSE 0]
  <2>1. f \in [Entries -> Nat] /\ g \in [Entries -> Nat] /\ h \in [Entries -> Nat]
    BY <1>5 DEF PackingRow
  <2>2. SumOf(f) = UsedTable[b] /\ SumOf(g) = UsedTable'[b] /\ SumOf(h) = box[x][b]
    BY <1>3, <1>4 DEF UsedTable, EntrySum, TakenFrom
  <2>3. \A e \in Entries : g[e] <= f[e] /\ (h[e] = 0 => g[e] = f[e])
    BY <1>5 DEF PackingRow
  <2> HIDE DEF f, g, h
  <2>4. SumOf(g) <= SumOf(f)
    BY ONLY <2>1, <2>3, TablesFinite, SumMonotone
  <2>5. ASSUME SumOf(h) = 0 PROVE SumOf(g) = SumOf(f)
    <3>1. \A e \in Entries : h[e] = 0
      BY ONLY <2>1, <2>5, TablesFinite, NothingAdds
    <3>2. g = f
      BY <2>1, <2>3, <3>1
    <3> QED
      BY <3>2
  <2> QED
    BY <2>2, <2>4, <2>5
<1>10. \A b \in Batches : PackedTable'[b] <= UsedTable'[b]
  <2>1. ASSUME NEW b \in Batches PROVE PackedTable'[b] <= UsedTable'[b]
    <3>1. (PackedOf(b) + EntrySum(b, "damaged") <= EntrySum(b, "input"))'
      BY <1>2 DEF HandedOverWithinMade
    <3>2. (PackedOf(b) \in Nat /\ EntrySum(b, "damaged") \in Nat /\ EntrySum(b, "input") \in Nat)'
      BY <1>2, TotalsNat, PTL
    <3> QED
      BY <3>1, <3>2 DEF PackedTable, UsedTable
  <2> QED
    BY <2>1
<1>11. \A b \in Batches :
         /\ BoxedTable[b] - BoxedTable'[b] = PackedTable[b] - PackedTable'[b]
         /\ BoxedTable'[b] <= BoxedTable[b]
         /\ PackedTable'[b] <= UsedTable'[b] /\ UsedTable'[b] <= UsedTable[b]
         /\ BoxedTable'[b] = BoxedTable[b] => UsedTable'[b] = UsedTable[b]
  BY <1>7, <1>8, <1>9, <1>10
<1> QED
  BY <1>1, <1>11, FlowStands
  DEF Made!UndoPackage, FedTable, LimitTable, MadeTable, UsedTable, PackedTable, BoxedTable

\* Where no table changes, PieceFlow stands still.
LEMMA LooksStutter ==
  ASSUME Reads
  PROVE  UNCHANGED Made!vars
<1>1. UNCHANGED <<cut, plan, revised>> /\ record' = record /\ received' = received /\ entry' = entry /\ box' = box
  BY DEF Reads, cutting, sewing, packaging
<1> QED
  BY <1>1, FlowStands DEF Made!vars, FedTable, LimitTable, MadeTable, UsedTable, PackedTable, BoxedTable

\* Every step of every clerk is one of PieceFlow, or one that it does not see.
LEMMA FloorFlows ==
  ASSUME FloorInvariant, FloorInvariant', [Next]_vars
  PROVE  Made!Next \/ UNCHANGED Made!vars
<1>1. ASSUME NEW c \in Clerks, Cut(c) \/ Sew(c) \/ Pack(c) \/ Abort(c)
      PROVE  UNCHANGED Made!vars
  <2>1. Reads
    BY <1>1 DEF Cut, post_cutting, LoadCutting, update_cutting_bundle_quantities, update_cutting_batch,
       update_passport,
       Sew, post_sewing, ReadRecord, update, delete, LockCorrection,
       Pack, receive_packaging_from_sewing, post_packaging, create_package, delete_package, Abort, Reads
  <2> QED
    BY <2>1, LooksStutter
<1>2. ASSUME NEW c \in Clerks, Commit(c)
      PROVE  Made!Next \/ UNCHANGED Made!vars
  BY <1>2, CuttingFlows, SewingFlows, ReceiptFlows, PackingFlows, BoxFlows, UnboxFlows
  DEF Commit, CutCommit, Made!Next
<1>3. CASE UNCHANGED vars
  BY <1>3, LooksStutter DEF vars, Reads
<1> QED
  BY <1>1, <1>2, <1>3 DEF Next

\* The empty floor is PieceFlow's.
LEMMA FlowInit ==
  ASSUME Init, FloorInvariant
  PROVE  Made!Init
<1>1. TablesType /\ SewingWithinLimit /\ HandedOverWithinMade
  BY DEF FloorInvariant, TablesSound
<1>2. /\ cut = [b \in Batches |-> 0] /\ received = [b \in Batches |-> 0]
      /\ \A r \in Records : record[r].passed = 0
      /\ \A e \in Entries : entry[e].input = 0
  BY DEF Init, NoPieces, NoRecord, NoEntry
<1>3. ASSUME NEW b \in Batches
      PROVE  /\ Input(b) = 0 /\ Sewn(b) = 0 /\ EntrySum(b, "input") = 0 /\ PackedOf(b) = 0
             /\ _existing_package_totals_by_batch(b, 0) = 0
  <2> DEFINE f == [r \in Records |-> IF record[r].batch = b THEN record[r].passed ELSE 0]
  <2>1. f \in [Records -> Nat] /\ \A r \in Records : f[r] = 0
    BY <1>1, <1>2, TotalTypes
  <2> HIDE DEF f
  <2>2. SumOf(f) = 0
    BY ONLY <2>1, TablesFinite, SumZero
  <2>3. Sewn(b) = 0
    BY <2>2 DEF f, Sewn, RecordSum
  <2>4. /\ ~(Input(b) > 0) /\ EntrySum(b, "input") <= 0
        /\ PackedOf(b) + EntrySum(b, "damaged") <= EntrySum(b, "input")
        /\ _existing_package_totals_by_batch(b, 0) <= PackedOf(b)
    BY <1>1, <1>2, <2>3 DEF SewingWithinLimit, HandedOverWithinMade
  <2>5. /\ Input(b) \in Nat /\ EntrySum(b, "input") \in Nat /\ PackedOf(b) \in Nat
        /\ EntrySum(b, "damaged") \in Nat /\ _existing_package_totals_by_batch(b, 0) \in Nat
    BY <1>1, TotalsNat
  <2> QED
    BY <2>3, <2>4, <2>5
<1> QED
  BY <1>2, <1>3 DEF Made!Init, Made!None, _revised_sewing_input_limit

-----------------------------------------------------------------------------
(* The theorems                                                            *)

\* The empty floor is sound.
LEMMA FloorInit == Init => FloorInvariant
<1> SUFFICES ASSUME Init PROVE FloorInvariant
  OBVIOUS
<1>1. TablesType
  BY ProductionFloorAssumption
  DEF Init, TablesType, NoPieces, NoRecord, NoEntry, SewingRow, PackingRow
<1>2. /\ \A r \in Records : record[r].passed = 0 /\ record[r].batch \notin Batches
      /\ \A e \in Entries : /\ entry[e].packed = 0 /\ entry[e].input = 0 /\ entry[e].damaged = 0
                           /\ entry[e].batch \notin Batches
      /\ sewn = 0 /\ packed = 0 /\ intake = 0
      /\ \A b \in Batches : received[b] = 0 /\ cut[b] = 0
      /\ \A x \in Boxes : \A b \in Batches : box[x][b] = 0
  BY ProductionFloorAssumption DEF Init, NoRecord, NoEntry, NoPieces
<1>3. ASSUME NEW S, IsFiniteSet(S), NEW f \in [S -> Nat], \A x \in S : f[x] = 0
      PROVE  SumOf(f) = 0
  BY <1>3, SumZero
<1>4. ASSUME NEW b \in Batches
      PROVE  /\ Input(b) = 0 /\ EntrySum(b, "input") = 0 /\ PackedOf(b) = 0
             /\ EntrySum(b, "damaged") = 0 /\ _existing_package_totals_by_batch(b, 0) = 0
  <2> DEFINE f == [r \in Records |-> IF record[r].batch = b THEN record[r].input ELSE 0]
             g == [e \in Entries |-> IF entry[e].batch = b THEN entry[e].input ELSE 0]
             h == [e \in Entries |-> IF entry[e].batch = b THEN entry[e].packed ELSE 0]
             k == [e \in Entries |-> IF entry[e].batch = b THEN entry[e].damaged ELSE 0]
             l == [y \in Boxes |-> IF y = 0 THEN 0 ELSE box[y][b]]
  <2>1. /\ f \in [Records -> Nat] /\ \A r \in Records : f[r] = 0
        /\ g \in [Entries -> Nat] /\ \A e \in Entries : g[e] = 0
        /\ h \in [Entries -> Nat] /\ \A e \in Entries : h[e] = 0
        /\ k \in [Entries -> Nat] /\ \A e \in Entries : k[e] = 0
        /\ l \in [Boxes -> Nat] /\ \A y \in Boxes : l[y] = 0
    BY <1>2
  <2>2. /\ Input(b) = SumOf(f) /\ EntrySum(b, "input") = SumOf(g) /\ PackedOf(b) = SumOf(h)
        /\ EntrySum(b, "damaged") = SumOf(k) /\ _existing_package_totals_by_batch(b, 0) = SumOf(l)
    BY DEF Input, RecordSum, EntrySum, PackedOf, _existing_package_totals_by_batch
  <2> HIDE DEF f, g, h, k, l
  <2>3. /\ SumOf(f) = 0 /\ SumOf(g) = 0 /\ SumOf(h) = 0 /\ SumOf(k) = 0 /\ SumOf(l) = 0
    BY ONLY <2>1, TablesFinite, SumZero
  <2> QED
    BY <2>2, <2>3
<1>5. CountersAgree
  <2> DEFINE f == [r \in Records |-> record[r].passed]
             g == [e \in Entries |-> entry[e].packed]
             h == [e \in Entries |-> entry[e].input]
  <2>1. /\ f \in [Records -> Nat] /\ \A r \in Records : f[r] = 0
        /\ g \in [Entries -> Nat] /\ \A e \in Entries : g[e] = 0
        /\ h \in [Entries -> Nat] /\ \A e \in Entries : h[e] = 0
    BY <1>2
  <2> HIDE DEF f, g, h
  <2>2. SumOf(f) = 0 /\ SumOf(g) = 0 /\ SumOf(h) = 0
    BY ONLY <2>1, TablesFinite, SumZero
  <2>3. ~UsesReceipts
    BY <1>2 DEF UsesReceipts
  <2> QED
    BY <1>2, <2>2, <2>3 DEF CountersAgree, f, g, h
<1>6. TablesSound
  <2>1. \A b \in Batches : Sewn(b) \in Nat
    BY <1>1, TotalsNat
  <2> QED
    BY <1>1, <1>2, <1>4, <1>5, <2>1
    DEF TablesSound, EntriesSound, SewingWithinLimit, HandedOverWithinMade
<1>7. RequestsSound
  <2>1. request \in [Clerks -> Request] /\ \A c \in Clerks : request[c] = NoRequest
    BY NoRequestSound DEF Init
  <2> QED
    BY <2>1, NoRequestSound DEF RequestsSound, Exclusive
<1> QED
  BY <1>6, <1>7 DEF FloorInvariant

\* Every step of every clerk keeps the floor sound.
LEMMA FloorStep == FloorInvariant /\ [Next]_vars => FloorInvariant'
<1> SUFFICES ASSUME FloorInvariant, [Next]_vars PROVE FloorInvariant'
  OBVIOUS
<1>1. ASSUME NEW c \in Clerks, Cut(c) PROVE FloorInvariant'
  BY <1>1, CuttingLooks, LoadLooks, ResizeLooks, RevisionLooks, PassportLooks DEF Cut
<1>2. ASSUME NEW c \in Clerks, Sew(c) PROVE FloorInvariant'
  <2>1. ASSUME NEW i \in Nat, NEW n \in Nat, LockCorrection(c, "correct", i, n)
        PROVE  FloorInvariant'
    BY <2>1, CorrectionLooks
  <2>2. ASSUME LockCorrection(c, "remove", 0, 0) PROVE FloorInvariant'
    BY <2>2, CorrectionLooks
  <2>3. SewQuantities \subseteq Nat
    BY ProductionFloorAssumption
  <2> QED
    BY <1>2, <2>1, <2>2, <2>3, SewingLooks, RecordLooks DEF Sew, update, delete
<1>3. ASSUME NEW c \in Clerks, Pack(c) PROVE FloorInvariant'
  BY <1>3, ReceiptLooks, PackingLooks, BoxLooks, UnboxLooks DEF Pack
<1>4. ASSUME NEW c \in Clerks, Commit(c) PROVE FloorInvariant'
  BY <1>4, CuttingWrites, SewingWrites, ReceiptWrites, PackingWrites, BoxWrites,
     UnboxWrites DEF Commit, CutCommit
<1>5. ASSUME NEW c \in Clerks, Abort(c) PROVE FloorInvariant'
  BY <1>5, AbortKeeps
<1>6. CASE UNCHANGED vars
  <2>1. Reads /\ request' = request
    BY <1>6 DEF vars, Reads
  <2>2. TablesSound'
    BY <2>1, TablesStand DEF FloorInvariant
  <2>3. ASSUME NEW d \in Clerks, NEW q \in Request, request'[d] = q
        PROVE  Decided(q)'
    <3>1. Decided(q)
      BY <2>1, <2>3 DEF FloorInvariant, RequestsSound
    <3> QED
      BY ONLY <2>1, <3>1, DecisionsStand
  <2> QED
    BY <2>1, <2>2, <2>3 DEF FloorInvariant, RequestsSound, Exclusive
<1> QED
  BY <1>1, <1>2, <1>3, <1>4, <1>5, <1>6 DEF Next

\* The tables are sound, and what each open request has decided stands until it commits.
THEOREM FloorInvariantHolds == Spec => []FloorInvariant
  BY FloorInit, FloorStep, PTL DEF Spec

\* Every table keeps its types: in particular no quantity or counter ever is negative.
THEOREM FloorTypes == Spec => []TypeOK
<1>1. FloorInvariant => TypeOK
  BY DEF FloorInvariant, TablesSound, TablesType, RequestsSound, TypeOK
<1> QED
  BY <1>1, FloorInvariantHolds, PTL

\* What Sewing put in of a batch never exceeds what was cut of it, or the higher count to which
\* Cutting has revised the batch.
THEOREM SewingAlwaysWithinLimit == Spec => []SewingWithinLimit
<1>1. FloorInvariant => SewingWithinLimit
  BY DEF FloorInvariant, TablesSound
<1> QED
  BY <1>1, FloorInvariantHolds, PTL

\* Packaging and packages never hold more than the stage before them made.
THEOREM AlwaysHandedOverWithinMade == Spec => []HandedOverWithinMade
<1>1. FloorInvariant => HandedOverWithinMade
  BY DEF FloorInvariant, TablesSound
<1> QED
  BY <1>1, FloorInvariantHolds, PTL

\* The work orders' counters are always the totals of their records.
THEOREM CountersAlwaysAgree == Spec => []CountersAgree
<1>1. FloorInvariant => CountersAgree
  BY DEF FloorInvariant, TablesSound
<1> QED
  BY <1>1, FloorInvariantHolds, PTL

\* A correction never overwrites what another clerk made of the record since it was read.
THEOREM AlwaysCorrectsWhatWasSeen == Spec => CorrectsWhatWasSeen
<1> DEFINE Seen(c) == request[c].op \in {"correct", "remove"} /\ sewing' # sewing
                       => record[request[c].id] = request[c].row \/ request'[c] = request[c]
<1>1. ASSUME FloorInvariant, NEW c \in Clerks PROVE Seen(c)
  BY <1>1, RequestOf DEF Decided, DecidedLook, DecidedCorrection, locked_record
<1>2. FloorInvariant /\ [Next]_vars => [\A c \in Clerks : Seen(c)]_vars
  BY <1>1
<1> QED
  BY <1>2, FloorInvariantHolds, PTL DEF Spec, CorrectsWhatWasSeen

\* Whatever requests run side by side, the pieces of each batch move as PieceFlow promises:
\* a correction, a removal or an undone package never takes back more than it may.
THEOREM FloorImplementsPieceFlow == Spec => ImplementsPieceFlow
<1>1. Init => FloorInvariant /\ Made!Init
  BY FloorInit, FlowInit
<1>2. FloorInvariant /\ [Next]_vars => FloorInvariant' /\ [Made!Next]_(Made!vars)
  BY FloorStep, FloorFlows
<1> QED
  BY <1>1, <1>2, PTL DEF Spec, ImplementsPieceFlow, Made!Spec
=============================================================================
