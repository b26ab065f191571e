-------------------------- MODULE ShipmentsProofs --------------------------
(***************************************************************************)
(* Theorems of Shipments, for any number of packages, rows, orders,        *)
(* shipments and clerks.  The inductive invariant IInv is near the end;    *)
(* the README tells why each part of it is needed.                         *)
(***************************************************************************)
EXTENDS Shipments, SumTheorems

-----------------------------------------------------------------------------
(***************************************************************************)
(* Quantities.  A package never counts more pieces as dispatched than it   *)
(* was received with, so what remains of it is a count.                    *)
(***************************************************************************)
Within == \A r \in Rows : dispatched[r] <= stock[r].quantity

GoodsType ==
  /\ status \in [Packages -> PackageStatuses]
  /\ dispatched \in [Rows -> Nat] /\ direct \in SUBSET Packages
  /\ stock \in [Rows -> StockRow]
  /\ claim \in [Orders -> [Rows -> Nat]] /\ hold \in [Packages -> Nat]

DocumentType ==
  /\ shipment \in [Shipments -> Shipment] /\ pending \in [Clerks -> Reading]
  /\ answered \in SUBSET ({"ship", "deliver"} \X Shipments)

\* The type invariant of the module, in its two halves.
LEMMA TypeParts == TypeOK <=> GoodsType /\ DocumentType
  BY DEF TypeOK, GoodsType, DocumentType

\* The fields of the rows.
LEMMA RowFields ==
  ASSUME GoodsType
  PROVE  /\ \A r \in Rows : /\ stock[r] \in StockRow /\ dispatched[r] \in Nat
                            /\ stock[r].quantity \in Nat /\ stock[r].available \in Nat
                            /\ stock[r].reserved \in Nat /\ stock[r].sold \in Nat
         /\ \A o \in Orders, r \in Rows : claim[o][r] \in Nat
         /\ \A r \in Rows : PackageOf[r] \in Packages
<1>1. \A r \in Rows : stock[r] \in StockRow /\ dispatched[r] \in Nat
  BY DEF GoodsType
<1>2. \A o \in Orders, r \in Rows : claim[o][r] \in Nat
  BY DEF GoodsType
<1> QED
  BY <1>1, <1>2, ReadyStockAssumption DEF StockRow

\* A number in a table is at most the table's total.
LEMMA SumHolds ==
  ASSUME NEW S, IsFiniteSet(S), NEW f \in [S -> Nat], NEW x \in S
  PROVE  f[x] <= SumOf(f)
<1> DEFINE g == [y \in S |-> IF y = x THEN f[x] ELSE 0]
<1>1. g \in [S -> Nat] /\ \A y \in S : g[y] <= f[y]
  OBVIOUS
<1>2. \A y \in S : y # x => g[y] = 0
  OBVIOUS
<1>3. g[x] = f[x]
  OBVIOUS
<1> HIDE DEF g
<1>4. SumOf(g) <= SumOf(f)
  BY <1>1, SumMonotone
<1>5. SumOf(g) = g[x]
  BY <1>1, <1>2, SumSingle
<1> QED
  BY <1>3, <1>4, <1>5

\* A package has finitely many rows.
LEMMA RowsFinite ==
  ASSUME NEW p
  PROVE  RowsOf(p) \in SUBSET Rows /\ IsFiniteSet(RowsOf(p))
  BY ReadyStockAssumption, FS_Subset DEF RowsOf

\* What a package holds, and what remains of it, are counts.
LEMMA Quantities ==
  ASSUME GoodsType, Within, NEW p
  PROVE  Contents(p) \in Nat /\ remaining_quantity(p) \in Nat
<1> DEFINE f == [r \in RowsOf(p) |-> stock[r].quantity]
           g == [r \in RowsOf(p) |-> dispatched[r]]
<1>1. RowsOf(p) \in SUBSET Rows /\ IsFiniteSet(RowsOf(p))
  BY RowsFinite
<1>2. f \in [RowsOf(p) -> Nat] /\ g \in [RowsOf(p) -> Nat] /\ \A r \in RowsOf(p) : g[r] <= f[r]
  BY <1>1, RowFields DEF Within
<1>3. Contents(p) = SumOf(f) /\ remaining_quantity(p) = SumOf(f) - SumOf(g)
  BY DEF Contents, remaining_quantity
<1> HIDE DEF f, g
<1>4. SumOf(f) \in Nat /\ SumOf(g) \in Nat /\ SumOf(g) <= SumOf(f)
  BY <1>1, <1>2, UnitsFinite, SumMonotone
<1> QED
  BY <1>3, <1>4

\* The reservations on a row add up to a count, and none is above it.
LEMMA ClaimedHolds ==
  ASSUME GoodsType, NEW r \in Rows
  PROVE  Claimed(r) \in Nat /\ \A o \in Orders : claim[o][r] <= Claimed(r)
<1> DEFINE f == [o \in Orders |-> claim[o][r]]
<1>1. f \in [Orders -> Nat] /\ IsFiniteSet(Orders)
  BY RowFields, ReadyStockAssumption
<1>2. Claimed(r) = SumOf(f) /\ \A o \in Orders : f[o] = claim[o][r]
  BY DEF Claimed
<1> HIDE DEF f
<1> QED
  BY <1>1, <1>2, UnitsFinite, SumHolds

-----------------------------------------------------------------------------
(***************************************************************************)
(* Reservations.  Reserving, releasing and moving by a scan come to the    *)
(* same: an order gives up pieces of some rows and takes pieces of others. *)
(***************************************************************************)
Shift(o, old, new) ==
  /\ o \in Orders /\ old \in [Rows -> Nat] /\ new \in [Rows -> Nat]
  /\ \A r \in Rows : old[r] <= claim[o][r] /\ new[r] <= stock[r].available
  /\ stock' = [r \in Rows |-> [stock[r] EXCEPT !.available = @ + old[r] - new[r],
                                               !.reserved = Greatest(0, @ - old[r]) + new[r]]]
  /\ claim' = [claim EXCEPT ![o] = [r \in Rows |-> @[r] - old[r] + new[r]]]

NoPieces == [r \in Rows |-> 0]

\* A shift leaves the quantities and the sold pieces alone.
LEMMA ShiftFields ==
  ASSUME GoodsType, NEW o, NEW old, NEW new, Shift(o, old, new), NEW r \in Rows
  PROVE  /\ stock'[r].quantity = stock[r].quantity /\ stock'[r].sold = stock[r].sold
         /\ stock'[r].available = stock[r].available + old[r] - new[r]
         /\ stock'[r].reserved = Greatest(0, stock[r].reserved - old[r]) + new[r]
         /\ claim'[o][r] = claim[o][r] - old[r] + new[r]
         /\ \A x \in Orders \ {o} : claim'[x][r] = claim[x][r]
         /\ old[r] = 0 /\ new[r] = 0 => stock'[r] = stock[r]
<1>1. stock[r] \in StockRow /\ stock[r].reserved \in Nat /\ stock[r].available \in Nat
  BY RowFields
<1>2. stock'[r] = [stock[r] EXCEPT !.available = stock[r].available + old[r] - new[r],
                                   !.reserved = Greatest(0, stock[r].reserved - old[r]) + new[r]]
  BY DEF Shift
<1>3. /\ stock'[r].quantity = stock[r].quantity /\ stock'[r].sold = stock[r].sold
      /\ stock'[r].available = stock[r].available + old[r] - new[r]
      /\ stock'[r].reserved = Greatest(0, stock[r].reserved - old[r]) + new[r]
  BY <1>1, <1>2 DEF StockRow
<1>4. claim \in [Orders -> [Rows -> Nat]] /\ o \in Orders
  BY DEF GoodsType, Shift
<1>5. claim'[o][r] = claim[o][r] - old[r] + new[r] /\ \A x \in Orders \ {o} : claim'[x][r] = claim[x][r]
  BY <1>4 DEF Shift
<1>6. ASSUME old[r] = 0, new[r] = 0 PROVE stock'[r] = stock[r]
  <2>1. stock[r].available + old[r] - new[r] = stock[r].available
    BY <1>1, <1>6
  <2>2. Greatest(0, stock[r].reserved - old[r]) + new[r] = stock[r].reserved
    BY <1>1, <1>6 DEF Greatest
  <2>3. stock[r] = [stock[r] EXCEPT !.available = stock[r].available, !.reserved = stock[r].reserved]
    BY <1>1 DEF StockRow
  <2> QED
    BY <1>2, <2>1, <2>2, <2>3
<1> QED
  BY <1>3, <1>5, <1>6

\* A shift keeps the rows rows and the reservations counts.
LEMMA ShiftType ==
  ASSUME GoodsType, NEW o, NEW old, NEW new, Shift(o, old, new)
  PROVE  stock' \in [Rows -> StockRow] /\ claim' \in [Orders -> [Rows -> Nat]]
<1>1. ASSUME NEW r \in Rows PROVE stock'[r] \in StockRow /\ claim[o][r] - old[r] + new[r] \in Nat
  <2>1. /\ stock[r] \in StockRow /\ stock[r].available \in Nat /\ stock[r].reserved \in Nat
        /\ claim[o][r] \in Nat /\ old[r] \in Nat /\ new[r] \in Nat
        /\ old[r] <= claim[o][r] /\ new[r] <= stock[r].available
    BY RowFields DEF Shift
  <2>2. PICK a \in Nat : a = stock[r].available + old[r] - new[r]
    BY <2>1
  <2>3. PICK b \in Nat : b = Greatest(0, stock[r].reserved - old[r]) + new[r]
    BY <2>1 DEF Greatest
  <2>4. stock'[r] = [stock[r] EXCEPT !.available = a, !.reserved = b]
    BY <2>2, <2>3 DEF Shift
  <2>5. stock[r] \in StockRow /\ a \in Nat /\ b \in Nat
    BY <2>1
  <2>6. stock'[r] \in StockRow
    BY ONLY <2>4, <2>5 DEF StockRow
  <2>7. claim[o][r] - old[r] + new[r] \in Nat
    BY ONLY <2>1
  <2> QED
    BY <2>6, <2>7
<1>2. stock' \in [Rows -> StockRow]
  BY <1>1 DEF Shift
<1>3. claim' \in [Orders -> [Rows -> Nat]]
  BY <1>1 DEF Shift, GoodsType
<1> QED
  BY <1>2, <1>3

\* Reserving is a shift that gives up nothing.
LEMMA ReserveShifts ==
  ASSUME GoodsType, NEW o \in Orders, NEW take \in [Rows -> Nat],
         \A r \in Rows : take[r] <= stock[r].available, Reserve(o, take)
  PROVE  Shift(o, NoPieces, take)
<1>1. \A r \in Rows : /\ stock[r].available + NoPieces[r] - take[r] = stock[r].available - take[r]
                      /\ Greatest(0, stock[r].reserved - NoPieces[r]) + take[r] = stock[r].reserved + take[r]
                      /\ claim[o][r] - NoPieces[r] + take[r] = claim[o][r] + take[r]
                      /\ NoPieces[r] <= claim[o][r]
  BY RowFields DEF NoPieces, Greatest
<1>2. NoPieces \in [Rows -> Nat]
  BY DEF NoPieces
<1> QED
  BY <1>1, <1>2 DEF Reserve, Shift

\* Releasing is a shift that takes nothing.
LEMMA ReleaseShifts ==
  ASSUME GoodsType, NEW o \in Orders, NEW give \in [Rows -> Nat],
         \A r \in Rows : give[r] <= stock[r].reserved /\ give[r] <= claim[o][r], Release(o, give)
  PROVE  Shift(o, give, NoPieces)
<1>1. \A r \in Rows : /\ stock[r].available + give[r] - NoPieces[r] = stock[r].available + give[r]
                      /\ Greatest(0, stock[r].reserved - give[r]) + NoPieces[r] = stock[r].reserved - give[r]
                      /\ claim[o][r] - give[r] + NoPieces[r] = claim[o][r] - give[r]
                      /\ NoPieces[r] <= stock[r].available
  BY RowFields DEF NoPieces, Greatest
<1>2. NoPieces \in [Rows -> Nat]
  BY DEF NoPieces
<1> QED
  BY <1>1, <1>2 DEF Release, Shift

-----------------------------------------------------------------------------
\* A package loses its label only with its reserved pieces.
Relabelled ==
  /\ status' \in [Packages -> PackageStatuses]
  /\ \A p \in Packages :
       \/ status'[p] = status[p]
       \/ /\ status[p] \in ReadyStatuses /\ status'[p] = "received_in_storage"
          /\ \A r \in RowsOf(p) : stock'[r].reserved = 0

ShiftStep(o, old, new) ==
  Shift(o, old, new) /\ Relabelled /\ UNCHANGED <<dispatched, direct, hold>>

\* Nothing moves but labels.
LabelStep == Relabelled /\ UNCHANGED <<dispatched, direct, stock, claim, hold>>

\* Labels nobody touches are kept.
LEMMA SameLabels == ASSUME GoodsType, UNCHANGED status PROVE Relabelled
  BY DEF GoodsType, Relabelled

\* A whole package offers what is available of its rows.
LEMMA WholeTakes ==
  ASSUME GoodsType, NEW S
  PROVE  Whole(S) \in [Rows -> Nat] /\ \A r \in Rows : Whole(S)[r] <= stock[r].available
  BY RowFields DEF Whole

\* Pieces of one row only.
LEMMA OnlyTakes ==
  ASSUME NEW r \in Rows, NEW n \in Nat
  PROVE  /\ Only(r, n) \in [Rows -> Nat]
         /\ \A x \in Rows : Only(r, n)[x] = IF x = r THEN n ELSE 0
  BY DEF Only

\* Reserving some pieces of a row is a shift.
LEMMA PieceReserveShifts ==
  ASSUME GoodsType, NEW o \in Orders, NEW r \in Rows, NEW n \in 1 .. MaxPieces[r],
         _reserve_piece_stock(o, r, n)
  PROVE  ShiftStep(o, NoPieces, Only(r, n))
<1>1. n \in Nat /\ n <= stock[r].available /\ Reserve(o, Only(r, n))
  BY RowFields, ReadyStockAssumption DEF _reserve_piece_stock
<1>2. ASSUME NEW x \in Rows PROVE Only(r, n)[x] <= stock[x].available
  <2>1. Only(r, n)[x] = IF x = r THEN n ELSE 0
    BY <1>1, OnlyTakes
  <2> QED
    BY <1>1, <2>1, RowFields
<1>3. Shift(o, NoPieces, Only(r, n))
  BY <1>1, <1>2, OnlyTakes, ReserveShifts
<1>4. UNCHANGED <<status, dispatched, direct, hold>>
  BY DEF _reserve_piece_stock
<1> QED
  BY <1>3, <1>4, SameLabels DEF ShiftStep

\* Reserving whole packages is a shift.
LEMMA WholeReserveShifts ==
  ASSUME GoodsType, NEW o \in Orders, NEW S, Reserve(o, Whole(S)),
         UNCHANGED <<status, dispatched, direct, hold>>
  PROVE  ShiftStep(o, NoPieces, Whole(S))
<1>1. Shift(o, NoPieces, Whole(S))
  BY WholeTakes, ReserveShifts
<1> QED
  BY <1>1, SameLabels DEF ShiftStep

\* Releasing a row gives back what is reserved: no more than the row has.
LEMMA PieceReleaseShifts ==
  ASSUME GoodsType, NEW o \in Orders, NEW r \in Rows, _release_piece_reservation(o, r)
  PROVE  /\ ShiftStep(o, Only(r, claim[o][r]), NoPieces)
         /\ \A x \in Rows : Only(r, claim[o][r])[x] <= stock[x].reserved
<1>1. /\ claim[o][r] \in Nat /\ claim[o][r] <= Claimed(r) /\ Claimed(r) = stock[r].reserved
      /\ Release(o, Only(r, claim[o][r]))
  BY RowFields, ClaimedHolds DEF _release_piece_reservation
<1>2. ASSUME NEW x \in Rows
      PROVE  Only(r, claim[o][r])[x] <= stock[x].reserved /\ Only(r, claim[o][r])[x] <= claim[o][x]
  <2>1. Only(r, claim[o][r])[x] = IF x = r THEN claim[o][r] ELSE 0
    BY <1>1, OnlyTakes
  <2> QED
    BY <1>1, <2>1, RowFields
<1>3. Shift(o, Only(r, claim[o][r]), NoPieces)
  BY <1>1, <1>2, OnlyTakes, ReleaseShifts
<1>4. UNCHANGED <<status, dispatched, direct, hold>>
  BY DEF _release_piece_reservation
<1> QED
  BY <1>2, <1>3, <1>4, SameLabels DEF ShiftStep

\* Releasing a package received by hand gives back what is reserved of it.
LEMMA PackageReleaseShifts ==
  ASSUME GoodsType, NEW o \in Orders, NEW p \in Packages, _release_manual_package(o, p)
  PROVE  \E give \in [Rows -> Nat] :
           ShiftStep(o, give, NoPieces) /\ \A r \in Rows : give[r] <= stock[r].reserved
<1> DEFINE give == [r \in Rows |-> IF PackageOf[r] = p THEN claim[o][r] ELSE 0]
<1>1. give \in [Rows -> Nat] /\ \A r \in Rows : give[r] = IF PackageOf[r] = p THEN claim[o][r] ELSE 0
  BY RowFields
<1>2. Release(o, give)
  BY DEF _release_manual_package
<1>3. \A r \in RowsOf(p) : claim[o][r] = stock[r].reserved
  BY DEF _release_manual_package
<1> HIDE DEF give
<1>4. \A r \in Rows : give[r] <= stock[r].reserved /\ give[r] <= claim[o][r]
  BY <1>1, <1>3, RowFields DEF RowsOf
<1>5. Shift(o, give, NoPieces)
  BY <1>1, <1>2, <1>4, ReleaseShifts
<1>6. ASSUME NEW r \in RowsOf(p) PROVE stock'[r].reserved = 0
  <2>1. r \in Rows /\ give[r] = stock[r].reserved /\ stock[r].reserved \in Nat /\ NoPieces[r] = 0
    BY <1>1, <1>3, RowFields DEF RowsOf, NoPieces
  <2>2. stock'[r].reserved = Greatest(0, stock[r].reserved - give[r]) + NoPieces[r]
    BY <1>5, <2>1, ShiftFields
  <2> QED
    BY <2>1, <2>2 DEF Greatest
<1>7. Relabelled
  BY <1>6 DEF Relabelled, _release_manual_package, GoodsType, PackageStatuses, ReadyStatuses
<1> QED
  BY <1>1, <1>4, <1>5, <1>7 DEF ShiftStep, _release_manual_package

\* Detaching a package gives back the order's reservations, or drops a label.
LEMMA DetachShifts ==
  ASSUME GoodsType, NEW s \in Shipments, NEW p \in Packages, shipment[s].order \in Orders \cup {NoOrder},
         detach_shipment_package(s, p)
  PROVE  \/ LabelStep
         \/ \E o \in Orders, give \in [Rows -> Nat] :
              ShiftStep(o, give, NoPieces) /\ \A r \in Rows : give[r] <= stock[r].reserved
<1> DEFINE o == shipment[s].order
           give == [r \in Rows |-> IF PackageOf[r] = p /\ o # NoOrder THEN claim[o][r] ELSE 0]
<1>1. /\ \A r \in Rows : give[r] <= stock[r].reserved
      /\ IF o = NoOrder THEN UNCHANGED <<stock, claim>> ELSE Release(o, give)
      /\ status[p] \in ReadyStatuses
      /\ status' = [status EXCEPT ![p] = Unlabelled(p, [r \in Rows |-> stock[r].reserved - give[r]])]
      /\ UNCHANGED <<dispatched, direct, hold>>
  BY DEF detach_shipment_package
<1>2. ASSUME \A r \in RowsOf(p) : stock'[r].reserved = stock[r].reserved - give[r]
      PROVE  Relabelled
  <2> DEFINE rest == [r \in Rows |-> stock[r].reserved - give[r]]
  <2>1. \A r \in RowsOf(p) : rest[r] = stock'[r].reserved
    BY <1>2 DEF RowsOf
  <2>2. \A q \in Packages \ {p} : status'[q] = status[q]
    BY <1>1 DEF GoodsType
  <2>3. status'[p] = Unlabelled(p, rest)
    BY <1>1 DEF GoodsType
  <2> HIDE DEF rest
  <2>4. \/ status'[p] = status[p]
        \/ status'[p] = "received_in_storage" /\ \A r \in RowsOf(p) : stock'[r].reserved = 0
    BY <2>1, <2>3 DEF Unlabelled
  <2>5. status' \in [Packages -> PackageStatuses]
    <3>1. Unlabelled(p, rest) \in PackageStatuses
      BY DEF Unlabelled, PackageStatuses, ReadyStatuses, GoodsType
    <3>2. \A q \in Packages : status'[q] \in PackageStatuses
      BY <2>2, <2>3, <3>1 DEF GoodsType
    <3> QED
      BY <1>1, <3>2 DEF GoodsType
  <2> QED
    BY <1>1, <2>2, <2>4, <2>5 DEF Relabelled
<1>3. CASE o = NoOrder
  <2>1. \A r \in RowsOf(p) : stock'[r].reserved = stock[r].reserved - give[r]
    BY <1>1, <1>3, RowFields DEF RowsOf
  <2> QED
    BY <1>1, <1>2, <1>3, <2>1 DEF LabelStep
<1>4. CASE o \in Orders
  <2>1. o # NoOrder
    BY <1>4, ReadyStockAssumption
  <2>2. give \in [Rows -> Nat] /\ \A r \in Rows : give[r] <= claim[o][r]
    BY <1>4, RowFields
  <2>3. Release(o, give)
    BY <1>1, <2>1
  <2> HIDE DEF give
  <2>4. Shift(o, give, NoPieces)
    BY <1>1, <1>4, <2>2, <2>3, ReleaseShifts
  <2>5. ASSUME NEW r \in RowsOf(p) PROVE stock'[r].reserved = stock[r].reserved - give[r]
    <3>1. r \in Rows /\ give[r] \in Nat /\ give[r] <= stock[r].reserved /\ stock[r].reserved \in Nat
          /\ NoPieces[r] = 0
      BY <1>1, <2>2, RowFields DEF RowsOf, NoPieces
    <3>2. stock'[r].reserved = Greatest(0, stock[r].reserved - give[r]) + NoPieces[r]
      BY <2>4, <3>1, ShiftFields
    <3> QED
      BY <3>1, <3>2 DEF Greatest
  <2> QED
    BY <1>1, <1>2, <1>4, <2>2, <2>4, <2>5 DEF ShiftStep
<1> QED
  BY <1>3, <1>4

\* Deleting a manual shipment drops labels only.
LEMMA DeleteRelabels ==
  ASSUME GoodsType, NEW s \in Shipments, delete_manual_shipment(s)
  PROVE  LabelStep
<1> DEFINE attached == {p \in Packages : Attached(s, p)}
           now == [r \in Rows |-> stock[r].reserved]
<1>1. /\ \A p \in attached : status[p] \in ReadyStatuses
      /\ status' = [p \in Packages |-> IF p \in attached THEN Unlabelled(p, now) ELSE status[p]]
      /\ UNCHANGED <<dispatched, direct, stock, claim, hold>>
  BY DEF delete_manual_shipment
<1>2. ASSUME NEW p \in Packages
      PROVE  /\ status'[p] \in PackageStatuses
             /\ \/ status'[p] = status[p]
                \/ /\ status[p] \in ReadyStatuses /\ status'[p] = "received_in_storage"
                   /\ \A r \in RowsOf(p) : stock'[r].reserved = 0
  <2>1. \A r \in RowsOf(p) : now[r] = stock'[r].reserved
    BY <1>1 DEF RowsOf
  <2>2. status[p] \in PackageStatuses /\ "received_in_storage" \in PackageStatuses
    BY DEF GoodsType, PackageStatuses, ReadyStatuses
  <2> HIDE DEF now
  <2>3. status'[p] = IF p \in attached THEN Unlabelled(p, now) ELSE status[p]
    BY <1>1
  <2> QED
    BY <1>1, <2>1, <2>2, <2>3 DEF Unlabelled
<1> QED
  BY <1>1, <1>2 DEF LabelStep, Relabelled

\* A scan that moves reservations shifts those of the packages Q to the package scanned.
LEMMA MoveShifts ==
  ASSUME GoodsType, NEW o \in Orders, NEW Q, NEW p \in Packages,
         _move_package_reservations(o, Q, p), UNCHANGED <<status, dispatched, direct, hold>>
  PROVE  \/ LabelStep
         \/ \E new \in [Rows -> Nat] :
              /\ ShiftStep(o, [r \in Rows |-> IF PackageOf[r] \in Q THEN claim[o][r] ELSE 0], new)
              /\ \A r \in Rows : PackageOf[r] # p => new[r] = 0
<1> DEFINE old == [r \in Rows |-> IF PackageOf[r] \in Q THEN claim[o][r] ELSE 0]
           packs == Requested[o] > 0
           required == IF packs THEN Contents(p) ELSE SumOf(old)
           offer == [r \in RowsOf(p) |-> stock[r].available]
<1>1. CASE required = 0
  BY <1>1, SameLabels DEF _move_package_reservations, LabelStep
<1>2. CASE required # 0
  <2>1. PICK take \in Drains(offer, required, TRUE) :
          LET new == [r \in Rows |-> IF r \in RowsOf(p) THEN take[r] ELSE 0]
          IN /\ stock' = [r \in Rows |->
                   [stock[r] EXCEPT !.available = @ + old[r] - new[r],
                                    !.reserved = Greatest(0, @ - old[r]) + new[r]]]
             /\ claim' = [claim EXCEPT ![o] = [r \in Rows |-> @[r] - old[r] + new[r]]]
    BY <1>2 DEF _move_package_reservations
  <2> DEFINE new == [r \in Rows |-> IF r \in RowsOf(p) THEN take[r] ELSE 0]
  <2>2. \A r \in RowsOf(p) : take[r] \in Nat /\ take[r] <= stock[r].available
    <3>1. take \in [DOMAIN offer -> 0 .. required] /\ \A r \in DOMAIN offer : take[r] <= offer[r]
      BY DEF Drains
    <3>2. DOMAIN offer = RowsOf(p) /\ \A r \in RowsOf(p) : offer[r] = stock[r].available
      OBVIOUS
    <3> HIDE DEF offer, required
    <3> QED
      BY <3>1, <3>2
  <2>3. new \in [Rows -> Nat] /\ \A r \in Rows : new[r] <= stock[r].available
    BY <2>2, RowFields
  <2>4. old \in [Rows -> Nat] /\ \A r \in Rows : old[r] <= claim[o][r]
    BY RowFields
  <2>5. Shift(o, old, new)
    BY <2>1, <2>3, <2>4 DEF Shift
  <2>6. \A r \in Rows : PackageOf[r] # p => new[r] = 0
    BY DEF RowsOf
  <2> QED
    BY <2>3, <2>5, <2>6, SameLabels DEF ShiftStep
<1> QED
  BY <1>1, <1>2

-----------------------------------------------------------------------------
(* Types of the goods *)

\* A shift keeps the types of the goods.
LEMMA ShiftGoods ==
  ASSUME GoodsType, Within, NEW o, NEW old, NEW new, ShiftStep(o, old, new)
  PROVE  (GoodsType /\ Within)'
<1>1. Shift(o, old, new) /\ status' \in [Packages -> PackageStatuses]
      /\ UNCHANGED <<dispatched, direct, hold>>
  BY DEF ShiftStep, Relabelled
<1>2. stock' \in [Rows -> StockRow] /\ claim' \in [Orders -> [Rows -> Nat]]
  BY <1>1, ShiftType
<1>3. \A r \in Rows : stock'[r].quantity = stock[r].quantity
  BY <1>1, ShiftFields
<1> QED
  BY <1>1, <1>2, <1>3 DEF GoodsType, Within

\* So does a change of labels,
LEMMA LabelGoods == ASSUME GoodsType, Within, LabelStep PROVE (GoodsType /\ Within)'
  BY DEF GoodsType, Within, LabelStep, Relabelled

\* a hold for a customer, whose rows are all free,
LEMMA ReserveGoods ==
  ASSUME GoodsType, Within, NEW S \in SUBSET Packages, reserve_for_customer(S)
  PROVE  (GoodsType /\ Within)'
<1>1. \A p \in S : hold[p] = 0 /\ remaining_quantity(p) \in Nat
  BY Quantities DEF reserve_for_customer
<1>2. \A r \in Rows : PackageOf[r] \in S => stock[r].available = stock[r].quantity - stock[r].sold
  <2>1. ASSUME NEW r \in Rows, PackageOf[r] \in S
        PROVE  stock[r].available = stock[r].quantity - stock[r].sold
    <3>1. Untouched(PackageOf[r]) /\ r \in RowsOf(PackageOf[r])
      BY <2>1 DEF reserve_for_customer, RowsOf
    <3> QED
      BY <3>1 DEF Untouched
  <2> QED
    BY <2>1
<1>3. ASSUME NEW r \in Rows
      PROVE  stock'[r] \in StockRow /\ stock'[r].quantity = stock[r].quantity
  <2>1. stock[r] \in StockRow /\ stock[r].available \in Nat
    BY RowFields
  <2>2. CASE PackageOf[r] \in S
    <3>1. PICK a \in Nat, b \in Nat : stock'[r] = [stock[r] EXCEPT !.available = a, !.reserved = b]
      BY <1>2, <2>1, <2>2 DEF reserve_for_customer
    <3>2. stock[r] \in StockRow /\ a \in Nat /\ b \in Nat
      BY <2>1
    <3> QED
      BY ONLY <3>1, <3>2 DEF StockRow
  <2>3. CASE PackageOf[r] \notin S
    BY <2>1, <2>3 DEF reserve_for_customer
  <2> QED
    BY <2>2, <2>3
<1>4. /\ stock' = [r \in Rows |-> IF PackageOf[r] \in S
             THEN [stock[r] EXCEPT !.available = 0, !.reserved = stock[r].quantity - stock[r].sold]
             ELSE stock[r]]
      /\ hold' = [p \in Packages |-> IF p \in S THEN remaining_quantity(p) ELSE hold[p]]
      /\ status' = [p \in Packages |-> IF p \in S THEN "reserved" ELSE status[p]]
      /\ UNCHANGED <<dispatched, direct, claim>>
  BY DEF reserve_for_customer
<1>5. stock' \in [Rows -> StockRow]
  BY <1>3, <1>4
<1>6. hold' \in [Packages -> Nat] /\ status' \in [Packages -> PackageStatuses]
  BY <1>1, <1>4 DEF GoodsType, PackageStatuses, ReadyStatuses
<1> QED
  BY <1>3, <1>4, <1>5, <1>6 DEF GoodsType, Within

\* the release of a hold, whose rows are all reserved,
LEMMA ReleaseGoods ==
  ASSUME GoodsType, Within, NEW S \in SUBSET Packages, _release(S)
  PROVE  (GoodsType /\ Within)'
<1>1. ASSUME NEW r \in Rows
      PROVE  stock'[r] \in StockRow /\ stock'[r].quantity = stock[r].quantity
  <2>1. stock[r] \in StockRow /\ stock[r].reserved \in Nat
    BY RowFields
  <2>2. CASE PackageOf[r] \in S
    <3>1. r \in RowsOf(PackageOf[r])
      BY DEF RowsOf
    <3>2. stock[r].reserved = stock[r].quantity - stock[r].sold
      BY <2>2, <3>1 DEF _release
    <3>3. PICK a \in Nat, b \in Nat : stock'[r] = [stock[r] EXCEPT !.available = a, !.reserved = b]
      BY <2>1, <2>2, <3>2 DEF _release
    <3>4. stock[r] \in StockRow /\ a \in Nat /\ b \in Nat
      BY <2>1
    <3> QED
      BY ONLY <3>3, <3>4 DEF StockRow
  <2>3. CASE PackageOf[r] \notin S
    BY <2>1, <2>3 DEF _release
  <2> QED
    BY <2>2, <2>3
<1>2. /\ stock' = [r \in Rows |-> IF PackageOf[r] \in S
             THEN [stock[r] EXCEPT !.available = stock[r].quantity - stock[r].sold, !.reserved = 0]
             ELSE stock[r]]
      /\ hold' = [p \in Packages |-> IF p \in S THEN 0 ELSE hold[p]]
      /\ status' = [p \in Packages |-> IF p \in S THEN "received_in_storage" ELSE status[p]]
      /\ UNCHANGED <<dispatched, direct, claim>>
  BY DEF _release
<1>3. stock' \in [Rows -> StockRow]
  BY <1>1, <1>2
<1>4. hold' \in [Packages -> Nat] /\ status' \in [Packages -> PackageStatuses]
  BY <1>2 DEF GoodsType, PackageStatuses, ReadyStatuses
<1> QED
  BY <1>1, <1>2, <1>3, <1>4 DEF GoodsType, Within

\* What a row becomes when it leaves with its package.
LEMMA Decremented ==
  ASSUME NEW v \in StockRow
  PROVE  LET w == decrement_finished_goods_for_package(v)
             n == Least(v.quantity, v.available + v.reserved)
         IN /\ w \in StockRow /\ w.quantity = v.quantity /\ w.sold = v.sold + n
            /\ w.available + w.reserved + n = v.available + v.reserved
<1> DEFINE w == decrement_finished_goods_for_package(v)
<1>1. v.quantity \in Nat /\ v.available \in Nat /\ v.reserved \in Nat /\ v.sold \in Nat
  BY DEF StockRow
<1>2. PICK n \in Nat : n = Least(v.quantity, v.available + v.reserved) /\ n <= v.available + v.reserved
  BY <1>1 DEF Least
<1>3. PICK f \in Nat : f = Least(v.available, n) /\ f <= v.available /\ f <= n
                       /\ (f = n \/ f = v.available)
  BY <1>1, <1>2 DEF Least
<1>4. PICK a \in Nat : a = v.available - f
  BY <1>1, <1>3
<1>5. PICK b \in Nat : b = Greatest(0, v.reserved - (n - f)) /\ b = v.reserved - (n - f)
  BY <1>1, <1>2, <1>3 DEF Greatest
<1>6. PICK c \in Nat : c = v.sold + n
  BY <1>1, <1>2
<1>7. w = [v EXCEPT !.available = a, !.reserved = b, !.sold = c]
  BY <1>2, <1>3, <1>4, <1>5, <1>6 DEF decrement_finished_goods_for_package
<1> HIDE DEF w
<1>8. w \in StockRow /\ w.quantity = v.quantity /\ w.sold = c /\ w.available = a /\ w.reserved = b
  BY ONLY <1>7, v \in StockRow, a \in Nat, b \in Nat, c \in Nat DEF StockRow
<1>9. w.available + w.reserved + n = v.available + v.reserved
  BY <1>1, <1>3, <1>4, <1>5, <1>8
<1> QED
  BY <1>2, <1>6, <1>8, <1>9 DEF w

\* a package leaving through its own endpoint,
LEMMA DirectGoods ==
  ASSUME GoodsType, Within, NEW p \in Packages, ship_package(p)
  PROVE  (GoodsType /\ Within)'
<1>1. ASSUME NEW r \in Rows
      PROVE  stock'[r] \in StockRow /\ stock'[r].quantity = stock[r].quantity
  <2>1. stock[r] \in StockRow
    BY RowFields
  <2>2. stock'[r] = IF PackageOf[r] = p THEN decrement_finished_goods_for_package(stock[r]) ELSE stock[r]
    BY DEF ship_package
  <2> QED
    BY <2>1, <2>2, Decremented
<1>2. /\ stock' = [r \in Rows |-> IF PackageOf[r] = p THEN decrement_finished_goods_for_package(stock[r])
              ELSE stock[r]]
      /\ status' = [status EXCEPT ![p] = "shipped"] /\ direct' = direct \cup {p}
      /\ UNCHANGED <<dispatched, claim, hold>>
  BY DEF ship_package
<1>3. stock' \in [Rows -> StockRow]
  BY <1>1, <1>2
<1>4. status' \in [Packages -> PackageStatuses]
  BY <1>2 DEF GoodsType, PackageStatuses, GoneStatuses
<1> QED
  BY <1>1, <1>2, <1>3, <1>4 DEF GoodsType, Within

\* Only the status of packages changes.
StatusStep ==
  status' \in [Packages -> PackageStatuses] /\ UNCHANGED <<dispatched, direct, stock, claim, hold>>

\* and a change of status.
LEMMA StatusGoods == ASSUME GoodsType, Within, StatusStep PROVE (GoodsType /\ Within)'
  BY DEF GoodsType, Within, StatusStep

\* The endpoints of one package that change its status only.
LEMMA SingleStatus ==
  ASSUME GoodsType, NEW p \in Packages, reserve_package(p) \/ mark_delivered(p) \/ mark_damaged(p)
  PROVE  StatusStep
  BY DEF GoodsType, StatusStep, reserve_package, mark_delivered, mark_damaged,
         PackageStatuses, ReadyStatuses, GoneStatuses

\* A delivery changes the status of packages only.
LEMMA DeliverStatus == ASSUME GoodsType, NEW c, deliver(c) PROVE StatusStep
<1>1. /\ status' = [p \in Packages |-> IF pending[c].found[p] > 0 THEN "delivered" ELSE status[p]]
      /\ UNCHANGED <<dispatched, direct, stock, claim, hold>>
  BY DEF deliver
<1> QED
  BY <1>1 DEF GoodsType, StatusStep, PackageStatuses, GoneStatuses

\* What the corrected count n makes of a row of a available and b reserved pieces.
LEMMA CorrectedRow ==
  ASSUME NEW a \in Nat, NEW b \in Nat, NEW q \in Nat, NEW n \in Nat, a + b = q,
         NEW more, more = Greatest(0, n - q), NEW less, less = Greatest(0, q - n),
         NEW taken, taken = Least(a, less),
         NEW delta, delta = (IF b > 0 THEN more ELSE 0) - (less - taken),
         NEW free, free = a - taken + (IF b > 0 THEN 0 ELSE more)
  PROVE  b + delta \in Nat /\ free \in Nat /\ free + (b + delta) = n /\ (b = 0 => b + delta = 0)
<1>1. CASE n >= q
  <2>1. more = n - q /\ less = 0 /\ taken = 0
    BY <1>1 DEF Greatest, Least
  <2>2. CASE b > 0
    BY <1>1, <2>1, <2>2
  <2>3. CASE b = 0
    BY <1>1, <2>1, <2>3
  <2> QED
    BY <2>2, <2>3
<1>2. CASE n < q
  <2>1. more = 0 /\ less = q - n /\ less \in Nat
    BY <1>2 DEF Greatest
  <2>2. taken \in Nat /\ taken <= a /\ (taken = a \/ taken = less) /\ taken <= less
    BY ONLY <2>1, a \in Nat, taken = Least(a, less) DEF Least
  <2>3. CASE b > 0
    <3>1. delta = 0 - (less - taken) /\ free = a - taken
      BY <2>1, <2>2, <2>3
    <3> QED
      BY ONLY <2>1, <2>2, <2>3, <3>1, a \in Nat, b \in Nat, q \in Nat, n \in Nat, a + b = q
  <2>4. CASE b = 0
    <3>1. delta = 0 - (less - taken) /\ free = a - taken
      BY <2>1, <2>2, <2>4
    <3> QED
      BY ONLY <2>1, <2>2, <2>4, <3>1, a \in Nat, b \in Nat, q \in Nat, n \in Nat, a + b = q
  <2> QED
    BY <2>3, <2>4
<1> QED
  BY <1>1, <1>2

\* What a correction does: the row is the package's own, unsold, and ends balanced, with
\* the reservation of the shipment's order as its only claim.
LEMMA CorrectRows ==
  ASSUME GoodsType, NEW s \in Shipments, NEW p \in Packages, NEW quantities \in Counts(p),
         shipment[s].order \in Orders \cup {NoOrder}, correct_received_quantity(s, p, quantities)
  PROVE  /\ stock' = [r \in Rows |-> stock'[r]]
         /\ claim' = [x \in Orders |-> [r \in Rows |-> claim'[x][r]]]
         /\ \A r \in Rows :
              IF PackageOf[r] # p
                THEN stock'[r] = stock[r] /\ \A x \in Orders : claim'[x][r] = claim[x][r]
                ELSE /\ stock'[r] \in StockRow /\ quantities[r] \in Nat
                     /\ stock'[r].quantity = quantities[r]
                     /\ stock[r].sold = 0 /\ stock'[r].sold = 0 /\ dispatched[r] = 0
                     /\ quantities[r] = stock'[r].available + stock'[r].reserved
                     /\ \A x \in Orders :
                          claim'[x][r] = IF x = shipment[s].order THEN stock'[r].reserved ELSE 0
                     /\ shipment[s].order = NoOrder => stock'[r].reserved = 0
                     /\ stock[r].reserved = IF shipment[s].order = NoOrder THEN 0
                                            ELSE claim[shipment[s].order][r]
<1> DEFINE o == shipment[s].order
           own(r) == IF o = NoOrder THEN 0 ELSE claim[o][r]
           more(r) == Greatest(0, quantities[r] - stock[r].quantity)
           less(r) == Greatest(0, stock[r].quantity - quantities[r])
           fromFree(r) == Least(stock[r].available, less(r))
           delta(r) == (IF own(r) > 0 THEN more(r) ELSE 0) - (less(r) - fromFree(r))
           free(r) == stock[r].available - fromFree(r) + (IF own(r) > 0 THEN 0 ELSE more(r))
<1>1. /\ ~PartlyDispatched(p)
      /\ \A x \in Orders \ {o}, r \in RowsOf(p) : claim[x][r] = 0
      /\ \A r \in RowsOf(p) : /\ stock[r].sold = 0 /\ own(r) = stock[r].reserved
                              /\ stock[r].available + stock[r].reserved = stock[r].quantity
      /\ stock' = [r \in Rows |->
           IF PackageOf[r] # p THEN stock[r]
           ELSE [quantity |-> quantities[r], sold |-> 0, available |-> free(r),
                 reserved |-> stock[r].reserved + delta(r)]]
      /\ claim' = [x \in Orders |-> [r \in Rows |->
           IF x = o /\ PackageOf[r] = p THEN claim[x][r] + delta(r) ELSE claim[x][r]]]
  BY DEF correct_received_quantity
<1>2. ASSUME NEW r \in Rows, PackageOf[r] = p
      PROVE  /\ stock'[r] \in StockRow /\ quantities[r] \in Nat
             /\ stock'[r].quantity = quantities[r]
             /\ stock[r].sold = 0 /\ stock'[r].sold = 0 /\ dispatched[r] = 0
             /\ quantities[r] = stock'[r].available + stock'[r].reserved
             /\ \A x \in Orders : claim'[x][r] = IF x = o THEN stock'[r].reserved ELSE 0
             /\ o = NoOrder => stock'[r].reserved = 0
             /\ stock[r].reserved = own(r)
  <2>1. r \in RowsOf(p)
    BY <1>2 DEF RowsOf
  <2>2. /\ stock[r].available \in Nat /\ stock[r].reserved \in Nat /\ stock[r].quantity \in Nat
        /\ dispatched[r] \in Nat /\ \A x \in Orders : claim[x][r] \in Nat
    BY RowFields
  <2>3. quantities[r] \in Nat
    BY ReadyStockAssumption DEF Counts
  <2>4. /\ stock[r].sold = 0 /\ own(r) = stock[r].reserved /\ dispatched[r] = 0
        /\ stock[r].available + stock[r].reserved = stock[r].quantity
    <3>1. ~(dispatched[r] > 0)
      BY <1>1, <2>1 DEF PartlyDispatched
    <3> QED
      BY <1>1, <2>1, <2>2, <3>1
  <2>5. /\ stock[r].reserved + delta(r) \in Nat /\ free(r) \in Nat
        /\ free(r) + (stock[r].reserved + delta(r)) = quantities[r]
        /\ stock[r].reserved = 0 => stock[r].reserved + delta(r) = 0
    <3>1. own(r) = stock[r].reserved
      BY <2>4
    <3>2. PICK b : b = stock[r].reserved
      OBVIOUS
    <3>3. PICK m, l, f, d, g :
            /\ m = Greatest(0, quantities[r] - stock[r].quantity)
            /\ l = Greatest(0, stock[r].quantity - quantities[r])
            /\ f = Least(stock[r].available, l)
            /\ d = (IF b > 0 THEN m ELSE 0) - (l - f)
            /\ g = stock[r].available - f + (IF b > 0 THEN 0 ELSE m)
      OBVIOUS
    <3>4. d = delta(r) /\ g = free(r)
      BY <3>1, <3>2, <3>3
    <3>5. b + d \in Nat /\ g \in Nat /\ g + (b + d) = quantities[r] /\ (b = 0 => b + d = 0)
      BY ONLY <2>2, <2>3, <2>4, <3>2, <3>3, CorrectedRow
    <3> QED
      BY <3>2, <3>4, <3>5
  <2>6. PICK a \in Nat, b \in Nat : a = free(r) /\ b = stock[r].reserved + delta(r)
    BY <2>5
  <2>7. stock'[r] = [quantity |-> quantities[r], sold |-> 0, available |-> a, reserved |-> b]
    BY <1>1, <1>2, <2>6
  <2>8. stock'[r] \in StockRow /\ stock'[r].quantity = quantities[r] /\ stock'[r].sold = 0
        /\ stock'[r].available = a /\ stock'[r].reserved = b
    BY ONLY <2>3, <2>6, <2>7 DEF StockRow
  <2>9. ASSUME NEW x \in Orders
        PROVE  claim'[x][r] = IF x = o THEN b ELSE 0
    <3>1. CASE x = o
      <4>1. o # NoOrder
        BY <3>1, ReadyStockAssumption
      <4>2. claim[x][r] = stock[r].reserved
        BY <2>4, <3>1, <4>1
      <4>3. claim'[x][r] = claim[x][r] + delta(r)
        BY <1>1, <1>2, <3>1
      <4> QED
        BY <2>6, <3>1, <4>2, <4>3
    <3>2. CASE x # o
      BY <1>1, <2>1, <3>2
    <3> QED
      BY <3>1, <3>2
  <2> HIDE DEF delta, free
  <2>10. o = NoOrder => b = 0
    BY <2>2, <2>4, <2>5, <2>6
  <2> QED
    BY <2>3, <2>4, <2>5, <2>6, <2>8, <2>9, <2>10
<1>3. \A r \in Rows : PackageOf[r] # p => stock'[r] = stock[r] /\ \A x \in Orders : claim'[x][r] = claim[x][r]
  BY <1>1
<1>4. stock' = [r \in Rows |-> stock'[r]] /\ claim' = [x \in Orders |-> [r \in Rows |-> claim'[x][r]]]
  BY <1>1
<1> HIDE DEF o, own
<1>5. \A r \in Rows : stock[r].reserved = own(r) =>
        stock[r].reserved = IF shipment[s].order = NoOrder THEN 0 ELSE claim[shipment[s].order][r]
  BY DEF own, o
<1>6. o = shipment[s].order
  BY DEF o
<1> QED
  BY <1>2, <1>3, <1>4, <1>5, <1>6

\* A correction keeps the types of the goods.
LEMMA CorrectGoods ==
  ASSUME GoodsType, Within, NEW s \in Shipments, NEW p \in Packages, NEW quantities \in Counts(p),
         shipment[s].order \in Orders \cup {NoOrder}, correct_received_quantity(s, p, quantities)
  PROVE  (GoodsType /\ Within)'
<1>1. UNCHANGED <<status, dispatched, direct, hold>>
  BY DEF correct_received_quantity
<1>2. stock' = [r \in Rows |-> stock'[r]] /\ claim' = [x \in Orders |-> [r \in Rows |-> claim'[x][r]]]
  BY CorrectRows
<1>3. ASSUME NEW r \in Rows
      PROVE  /\ stock'[r] \in StockRow /\ \A x \in Orders : claim'[x][r] \in Nat
             /\ dispatched[r] <= stock'[r].quantity
  <2>1. CASE PackageOf[r] # p
    <3>1. stock'[r] = stock[r] /\ \A x \in Orders : claim'[x][r] = claim[x][r]
      BY <2>1, CorrectRows
    <3> QED
      BY <3>1, RowFields DEF Within
  <2>2. CASE PackageOf[r] = p
    <3>1. /\ stock'[r] \in StockRow /\ stock'[r].quantity \in Nat /\ dispatched[r] = 0
          /\ \A x \in Orders : claim'[x][r] = IF x = shipment[s].order THEN stock'[r].reserved ELSE 0
      BY <2>2, CorrectRows
    <3>2. stock'[r].reserved \in Nat
      BY <3>1 DEF StockRow
    <3> QED
      BY <3>1, <3>2
  <2> QED
    BY <2>1, <2>2
<1>4. stock' \in [Rows -> StockRow] /\ claim' \in [Orders -> [Rows -> Nat]]
  BY <1>2, <1>3
<1> QED
  BY <1>1, <1>3, <1>4 DEF GoodsType, Within

\* A package that went by no selection has nothing sold when its sold pieces are its
\* dispatched ones.
LEMMA Unsold ==
  ASSUME GoodsType, NEW p \in Packages, SoldAsDispatched(p), ~PartlyDispatched(p)
  PROVE  \A r \in RowsOf(p) : stock[r].sold = 0 /\ dispatched[r] = 0
<1> DEFINE f == [r \in RowsOf(p) |-> stock[r].sold]
           g == [r \in RowsOf(p) |-> dispatched[r]]
<1>1. IsFiniteSet(RowsOf(p)) /\ f \in [RowsOf(p) -> Nat] /\ g \in [RowsOf(p) -> Nat]
  BY RowsFinite, RowFields
<1>2. \A r \in RowsOf(p) : g[r] = 0
  BY <1>1 DEF PartlyDispatched
<1>3. SumOf(f) = SumOf(g) /\ \A r \in RowsOf(p) : f[r] = stock[r].sold /\ g[r] = dispatched[r]
  BY DEF SoldAsDispatched
<1> HIDE DEF f, g
<1>4. SumOf(f) = 0
  BY <1>1, <1>2, <1>3, SumZero
<1>5. \A r \in RowsOf(p) : f[r] <= 0 /\ f[r] \in Nat
  BY <1>1, <1>4, SumHolds
<1> QED
  BY <1>2, <1>3, <1>5

\* The packages of a shipment that go by pieces, and whole.
Pieces(s) == {p \in Packages : Attached(s, p) /\ ByPieces(s, p)}
Entire(s) == {p \in Packages : Attached(s, p) /\ ~ByPieces(s, p)}

\* The pieces selected of a row, or all that remain, are a count.
LEMMA SelectedIsCount ==
  ASSUME GoodsType, DocumentType, Within, NEW s \in Shipments, NEW r \in Rows
  PROVE  selected_items(s, r) \in Nat
<1>1. shipment[s].pick \in [Rows -> Nat]
  BY DEF DocumentType, Shipment
<1>2. stock[r].quantity \in Nat /\ dispatched[r] \in Nat /\ dispatched[r] <= stock[r].quantity
  BY RowFields DEF Within
<1> QED
  BY <1>1, <1>2 DEF selected_items

\* What a dispatch does to the rows.
LEMMA ShipRows ==
  ASSUME GoodsType, DocumentType, Within, NEW s \in Shipments, NEW posted \in BOOLEAN,
         _ship_verified_packages(s, posted)
  PROVE  /\ stock' = [r \in Rows |-> stock'[r]]
         /\ claim' = [x \in Orders |-> [r \in Rows |-> claim'[x][r]]]
         /\ dispatched' = [r \in Rows |-> dispatched'[r]]
         /\ \A r \in Rows :
              /\ stock'[r].quantity = stock[r].quantity
              /\ PackageOf[r] \in Pieces(s) =>
                   /\ stock'[r] \in StockRow
                   /\ stock[r].quantity = stock[r].available + stock[r].reserved + stock[r].sold
                   /\ selected_items(s, r) <= stock[r].quantity - dispatched[r]
                   /\ stock'[r].sold = stock[r].sold + selected_items(s, r) /\ stock'[r].reserved = 0
                   /\ stock'[r].available + selected_items(s, r) = stock[r].available + stock[r].reserved
                   /\ dispatched'[r] = dispatched[r] + selected_items(s, r)
                   /\ \A x \in Orders : claim'[x][r] = 0
              /\ PackageOf[r] \in Entire(s) =>
                   /\ stock'[r] \in StockRow
                   /\ stock[r].sold = 0 /\ dispatched[r] = 0 /\ stock'[r].sold = stock[r].quantity
                   /\ stock'[r].available = 0 /\ stock'[r].reserved = 0
                   /\ dispatched'[r] = dispatched[r] /\ \A x \in Orders : claim'[x][r] = claim[x][r]
              /\ ~Attached(s, PackageOf[r]) =>
                   /\ stock'[r] = stock[r] /\ dispatched'[r] = dispatched[r]
                   /\ \A x \in Orders : claim'[x][r] = claim[x][r]
<1> DEFINE attached == {p \in Packages : Attached(s, p)}
           pieces == {p \in attached : ByPieces(s, p)}
           sent == [r \in Rows |-> IF PackageOf[r] \in pieces THEN selected_items(s, r) ELSE 0]
<1>1. /\ \A p \in attached : Verified(s, p)
      /\ \A p \in pieces : Selectable(s, p)
      /\ stock' = [r \in Rows |->
           CASE PackageOf[r] \in pieces -> dispatch_selected(s, r)
             [] PackageOf[r] \in attached \ pieces -> decrement_finished_goods_for_package(stock[r])
             [] OTHER -> stock[r]]
      /\ claim' = [o \in Orders |-> [r \in Rows |->
           IF PackageOf[r] \in pieces THEN 0 ELSE claim[o][r]]]
      /\ dispatched' = [r \in Rows |-> dispatched[r] + sent[r]]
  BY DEF _ship_verified_packages
<1>2. pieces = Pieces(s) /\ attached \ pieces = Entire(s)
  BY DEF Pieces, Entire
<1>3. \A r \in Rows : sent[r] = IF PackageOf[r] \in pieces THEN selected_items(s, r) ELSE 0
  OBVIOUS
<1> HIDE DEF pieces, sent
<1>4. ASSUME NEW r \in Rows
      PROVE  /\ r \in RowsOf(PackageOf[r]) /\ PackageOf[r] \in Packages
             /\ stock[r] \in StockRow /\ stock[r].quantity \in Nat /\ stock[r].available \in Nat
             /\ stock[r].reserved \in Nat /\ stock[r].sold \in Nat /\ dispatched[r] \in Nat
             /\ PackageOf[r] \in attached =>
                  /\ stock[r].quantity = stock[r].available + stock[r].reserved + stock[r].sold
                  /\ SoldAsDispatched(PackageOf[r])
  <2>1. r \in RowsOf(PackageOf[r])
    BY DEF RowsOf
  <2> QED
    BY <1>1, <2>1, RowFields DEF Verified
<1>5. ASSUME NEW r \in Rows, PackageOf[r] \in Pieces(s)
      PROVE  /\ stock'[r] \in StockRow /\ stock'[r].quantity = stock[r].quantity
             /\ stock[r].quantity = stock[r].available + stock[r].reserved + stock[r].sold
             /\ selected_items(s, r) <= stock[r].quantity - dispatched[r]
             /\ stock'[r].sold = stock[r].sold + selected_items(s, r) /\ stock'[r].reserved = 0
             /\ stock'[r].available + selected_items(s, r) = stock[r].available + stock[r].reserved
             /\ dispatched'[r] = dispatched[r] + selected_items(s, r)
             /\ \A x \in Orders : claim'[x][r] = 0
  <2>1. PackageOf[r] \in pieces /\ PackageOf[r] \in attached
    BY <1>2, <1>5 DEF Pieces
  <2>2. PICK n \in Nat : n = selected_items(s, r)
    BY SelectedIsCount
  <2>3. n <= stock[r].quantity - dispatched[r] /\ stock[r].sold = dispatched[r]
    BY <1>1, <1>4, <2>1, <2>2 DEF Selectable
  <2>4. stock[r].quantity = stock[r].available + stock[r].reserved + stock[r].sold
    BY <1>4, <2>1
  <2>5. Least(n, stock[r].available + stock[r].reserved) = n
    BY <1>4, <2>3, <2>4 DEF Least
  <2>6. stock'[r] = dispatch_selected(s, r)
    BY <1>1, <2>1
  <2>7. PICK a \in Nat, c \in Nat :
          a = stock[r].available + stock[r].reserved - n /\ c = stock[r].sold + n
    BY <1>4, <2>3, <2>4
  <2>8. PICK b \in Nat : b = 0
    OBVIOUS
  <2>9. stock'[r] = [stock[r] EXCEPT !.available = a, !.reserved = b, !.sold = c]
    BY <2>2, <2>5, <2>6, <2>7, <2>8 DEF dispatch_selected
  <2>10. stock[r] \in StockRow
    BY <1>4
  <2>11. /\ stock'[r] \in StockRow /\ stock'[r].quantity = stock[r].quantity
         /\ stock'[r].available = a /\ stock'[r].reserved = b /\ stock'[r].sold = c
    BY ONLY <2>7, <2>8, <2>9, <2>10 DEF StockRow
  <2>12. dispatched'[r] = dispatched[r] + selected_items(s, r) /\ \A x \in Orders : claim'[x][r] = 0
    BY <1>1, <1>3, <2>1
  <2> QED
    BY <1>4, <2>2, <2>3, <2>4, <2>7, <2>8, <2>11, <2>12
<1>6. ASSUME NEW r \in Rows, PackageOf[r] \in Entire(s)
      PROVE  /\ stock'[r] \in StockRow /\ stock'[r].quantity = stock[r].quantity
             /\ stock[r].sold = 0 /\ dispatched[r] = 0 /\ stock'[r].sold = stock[r].quantity
             /\ stock'[r].available = 0 /\ stock'[r].reserved = 0
             /\ dispatched'[r] = dispatched[r] /\ \A x \in Orders : claim'[x][r] = claim[x][r]
  <2>1. PackageOf[r] \in attached \ pieces
    BY <1>2, <1>6
  <2>2. ~PartlyDispatched(PackageOf[r])
    BY <1>6 DEF Entire, ByPieces
  <2>3. stock[r].sold = 0 /\ dispatched[r] = 0
    BY <1>4, <2>1, <2>2, Unsold
  <2>4. stock[r].quantity = stock[r].available + stock[r].reserved + stock[r].sold
    BY <1>4, <2>1
  <2>5. stock'[r] = decrement_finished_goods_for_package(stock[r])
    BY <1>1, <2>1
  <2>6. PICK n : n = Least(stock[r].quantity, stock[r].available + stock[r].reserved)
    OBVIOUS
  <2>7. n = stock[r].quantity
    BY <1>4, <2>3, <2>4, <2>6 DEF Least
  <2>8. /\ stock'[r] \in StockRow /\ stock'[r].quantity = stock[r].quantity
        /\ stock'[r].sold = stock[r].sold + n
        /\ stock'[r].available + stock'[r].reserved + n = stock[r].available + stock[r].reserved
    BY <1>4, <2>5, <2>6, Decremented
  <2>9. stock'[r].available \in Nat /\ stock'[r].reserved \in Nat
    BY <2>8 DEF StockRow
  <2>10. dispatched'[r] = dispatched[r] /\ \A x \in Orders : claim'[x][r] = claim[x][r]
    BY <1>1, <1>3, <1>4, <2>1
  <2>11. /\ stock[r].quantity \in Nat /\ stock[r].available \in Nat
         /\ stock[r].reserved \in Nat /\ stock[r].sold \in Nat
    BY <1>4
  <2>12. stock'[r].sold = stock[r].quantity /\ stock'[r].available = 0 /\ stock'[r].reserved = 0
    <3>1. PICK q, a, b, x, y, z :
            /\ q = stock[r].quantity /\ a = stock[r].available /\ b = stock[r].reserved
            /\ x = stock'[r].available /\ y = stock'[r].reserved /\ z = stock'[r].sold
      OBVIOUS
    <3>2. q \in Nat /\ a \in Nat /\ b \in Nat /\ x \in Nat /\ y \in Nat
      BY ONLY <2>9, <2>11, <3>1
    <3>3. q = a + b + 0 /\ z = 0 + q /\ x + y + q = a + b
      BY ONLY <2>3, <2>4, <2>7, <2>8, <3>1
    <3>4. z = q /\ x = 0 /\ y = 0
      BY ONLY <3>2, <3>3
    <3> QED
      BY ONLY <3>1, <3>4
  <2> QED
    BY <2>3, <2>8, <2>10, <2>12
<1>7. ASSUME NEW r \in Rows, ~Attached(s, PackageOf[r])
      PROVE  stock'[r] = stock[r] /\ dispatched'[r] = dispatched[r]
             /\ \A x \in Orders : claim'[x][r] = claim[x][r]
  <2>1. PackageOf[r] \notin attached /\ PackageOf[r] \notin pieces
    BY <1>2, <1>7 DEF Pieces
  <2> QED
    BY <1>1, <1>3, <1>4, <2>1
<1>8. \A r \in Rows : ~Attached(s, PackageOf[r]) \/ PackageOf[r] \in Pieces(s) \/ PackageOf[r] \in Entire(s)
  BY <1>4 DEF Pieces, Entire
<1>9. /\ stock' = [r \in Rows |-> stock'[r]]
      /\ claim' = [x \in Orders |-> [r \in Rows |-> claim'[x][r]]]
      /\ dispatched' = [r \in Rows |-> dispatched'[r]]
  BY <1>1
<1>10. \A r \in Rows : stock'[r].quantity = stock[r].quantity
  BY <1>5, <1>6, <1>7, <1>8
<1> QED
  BY <1>5, <1>6, <1>7, <1>9, <1>10

\* A dispatch keeps the types of the goods.
LEMMA ShipGoods ==
  ASSUME GoodsType, DocumentType, Within, NEW s \in Shipments, NEW posted \in BOOLEAN,
         _ship_verified_packages(s, posted)
  PROVE  (GoodsType /\ Within)'
<1> DEFINE pieces == {p \in {q \in Packages : Attached(s, q)} : ByPieces(s, p)}
           whole == {q \in Packages : Attached(s, q)} \ pieces
<1>1. /\ UNCHANGED <<direct, hold>>
      /\ status' = [p \in Packages |->
           CASE p \in pieces -> IF remaining_quantity(p) > shipment[s].links[p]
                                  THEN "received_in_storage" ELSE "shipped"
             [] p \in whole -> "shipped"
             [] OTHER -> status[p]]
  BY DEF _ship_verified_packages
<1>2. /\ stock' = [r \in Rows |-> stock'[r]]
      /\ claim' = [x \in Orders |-> [r \in Rows |-> claim'[x][r]]]
      /\ dispatched' = [r \in Rows |-> dispatched'[r]]
  BY ShipRows
<1>3. \A r \in Rows : ~Attached(s, PackageOf[r]) \/ PackageOf[r] \in Pieces(s) \/ PackageOf[r] \in Entire(s)
  BY RowFields DEF Pieces, Entire
<1>4. ASSUME NEW r \in Rows
      PROVE  /\ stock'[r] \in StockRow /\ \A x \in Orders : claim'[x][r] \in Nat
             /\ dispatched'[r] \in Nat /\ dispatched'[r] <= stock'[r].quantity
  <2>1. /\ stock[r] \in StockRow /\ stock[r].quantity \in Nat /\ dispatched[r] \in Nat
        /\ dispatched[r] <= stock[r].quantity /\ \A x \in Orders : claim[x][r] \in Nat
        /\ selected_items(s, r) \in Nat
    BY RowFields, SelectedIsCount DEF Within
  <2>2. stock'[r].quantity = stock[r].quantity
    BY ShipRows
  <2>3. CASE ~Attached(s, PackageOf[r])
    <3>1. stock'[r] = stock[r] /\ dispatched'[r] = dispatched[r] /\ \A x \in Orders : claim'[x][r] = claim[x][r]
      BY <2>3, ShipRows
    <3> QED
      BY <2>1, <3>1
  <2>4. CASE PackageOf[r] \in Pieces(s)
    <3>1. /\ stock'[r] \in StockRow /\ dispatched'[r] = dispatched[r] + selected_items(s, r)
          /\ selected_items(s, r) <= stock[r].quantity - dispatched[r]
          /\ \A x \in Orders : claim'[x][r] = 0
      BY <2>4, ShipRows
    <3> QED
      BY <2>1, <2>2, <3>1
  <2>5. CASE PackageOf[r] \in Entire(s)
    <3>1. stock'[r] \in StockRow /\ dispatched'[r] = dispatched[r] /\ \A x \in Orders : claim'[x][r] = claim[x][r]
      BY <2>5, ShipRows
    <3> QED
      BY <2>1, <2>2, <3>1
  <2> QED
    BY <1>3, <2>3, <2>4, <2>5
<1>5. stock' \in [Rows -> StockRow] /\ claim' \in [Orders -> [Rows -> Nat]] /\ dispatched' \in [Rows -> Nat]
  BY <1>2, <1>4
<1>6. status' \in [Packages -> PackageStatuses]
  BY <1>1 DEF GoodsType, PackageStatuses, ReadyStatuses, GoneStatuses
<1> QED
  BY <1>1, <1>4, <1>5, <1>6 DEF GoodsType, Within

\* What a return does to the rows.
LEMMA ReopenRows ==
  ASSUME GoodsType, NEW s \in Shipments, reopen_shipment(s)
  PROVE  /\ stock' = [r \in Rows |-> stock'[r]]
         /\ \A r \in Rows :
              /\ stock'[r] \in StockRow
              /\ IF Attached(s, PackageOf[r])
                   THEN /\ stock'[r].quantity = stock[r].quantity /\ stock'[r].sold = 0
                        /\ stock'[r].reserved = Claimed(r) /\ stock'[r].available + Claimed(r) = stock[r].quantity
                        /\ dispatched'[r] = 0 /\ stock[r].quantity > 0 /\ stock[r].reserved = 0
                        /\ stock[r].quantity = stock[r].available + stock[r].sold
                        /\ \A x \in Shipments \ {s} : Live(x) => ~Attached(x, PackageOf[r])
                   ELSE stock'[r] = stock[r] /\ dispatched'[r] = dispatched[r]
<1> DEFINE attached == {p \in Packages : Attached(s, p)}
           back(r) == PackageOf[r] \in attached
<1>1. /\ \A p \in attached : Returnable(s, p)
      /\ stock' = [r \in Rows |->
           IF back(r) THEN [stock[r] EXCEPT !.sold = 0, !.reserved = Claimed(r),
                                            !.available = stock[r].quantity - Claimed(r)]
           ELSE stock[r]]
      /\ dispatched' = [r \in Rows |-> IF back(r) THEN 0 ELSE dispatched[r]]
  BY DEF reopen_shipment
<1>2. ASSUME NEW r \in Rows
      PROVE  /\ stock'[r] \in StockRow
             /\ IF Attached(s, PackageOf[r])
                  THEN /\ stock'[r].quantity = stock[r].quantity /\ stock'[r].sold = 0
                       /\ stock'[r].reserved = Claimed(r) /\ stock'[r].available + Claimed(r) = stock[r].quantity
                       /\ dispatched'[r] = 0 /\ stock[r].quantity > 0 /\ stock[r].reserved = 0
                       /\ stock[r].quantity = stock[r].available + stock[r].sold
                       /\ \A x \in Shipments \ {s} : Live(x) => ~Attached(x, PackageOf[r])
                  ELSE stock'[r] = stock[r] /\ dispatched'[r] = dispatched[r]
  <2>1. /\ stock[r] \in StockRow /\ stock[r].quantity \in Nat /\ Claimed(r) \in Nat
        /\ r \in RowsOf(PackageOf[r]) /\ PackageOf[r] \in Packages
    BY RowFields, ClaimedHolds DEF RowsOf
  <2>2. CASE ~Attached(s, PackageOf[r])
    BY <1>1, <2>1, <2>2
  <2>3. CASE Attached(s, PackageOf[r])
    <3>1. Returnable(s, PackageOf[r]) /\ back(r)
      BY <1>1, <2>1, <2>3
    <3>2. /\ stock[r].quantity > 0 /\ stock[r].reserved = 0 /\ Claimed(r) <= stock[r].quantity
          /\ stock[r].quantity = stock[r].available + stock[r].sold
          /\ \A x \in Shipments \ {s} : Live(x) => ~Attached(x, PackageOf[r])
      BY <2>1, <3>1 DEF Returnable
    <3>a. PICK a \in Nat, b \in Nat, c \in Nat :
            a = stock[r].quantity - Claimed(r) /\ b = Claimed(r) /\ c = 0
      BY <2>1, <3>2
    <3>b. stock'[r] = [stock[r] EXCEPT !.sold = 0, !.reserved = Claimed(r),
                                       !.available = stock[r].quantity - Claimed(r)]
      BY <1>1, <2>1, <3>1
    <3>3. /\ a \in Nat /\ b \in Nat /\ c \in Nat
          /\ a = stock[r].quantity - Claimed(r) /\ b = Claimed(r) /\ c = 0
          /\ stock'[r] = [stock[r] EXCEPT !.sold = c, !.reserved = b, !.available = a]
      BY <3>a, <3>b
    <3>4. stock[r] \in StockRow
      BY <2>1
    <3>5. /\ stock'[r] \in StockRow /\ stock'[r].quantity = stock[r].quantity
          /\ stock'[r].available = a /\ stock'[r].reserved = b /\ stock'[r].sold = c
      BY ONLY <3>3, <3>4 DEF StockRow
    <3>6. dispatched'[r] = 0
      BY <1>1, <3>1
    <3> QED
      BY <2>1, <2>3, <3>2, <3>3, <3>5, <3>6
  <2> QED
    BY <2>2, <2>3
<1>3. stock' = [r \in Rows |-> stock'[r]]
  BY <1>1
<1> QED
  BY <1>2, <1>3

\* So does a return.
LEMMA ReopenGoods ==
  ASSUME GoodsType, Within, NEW s \in Shipments, reopen_shipment(s)
  PROVE  (GoodsType /\ Within)'
<1> DEFINE attached == {p \in Packages : Attached(s, p)}
<1>1. /\ UNCHANGED <<direct, claim, hold>>
      /\ status' = [p \in Packages |->
           CASE p \in attached /\ HasClaim(p) -> "reserved"
             [] p \in attached /\ ~HasClaim(p) -> "received_in_storage"
             [] OTHER -> status[p]]
      /\ dispatched' = [r \in Rows |-> IF PackageOf[r] \in attached THEN 0 ELSE dispatched[r]]
  BY DEF reopen_shipment
<1>2. stock' \in [Rows -> StockRow]
  BY ReopenRows
<1>3. status' \in [Packages -> PackageStatuses]
  BY <1>1 DEF GoodsType, PackageStatuses, ReadyStatuses
<1>4. dispatched' \in [Rows -> Nat]
  BY <1>1, RowFields
<1>5. ASSUME NEW r \in Rows PROVE dispatched'[r] <= stock'[r].quantity
  <2>1. CASE Attached(s, PackageOf[r])
    BY <2>1, RowFields, ReopenRows
  <2>2. CASE ~Attached(s, PackageOf[r])
    <3>1. stock'[r] = stock[r] /\ dispatched'[r] = dispatched[r]
      BY <2>2, ReopenRows
    <3> QED
      BY <3>1 DEF Within
  <2> QED
    BY <2>1, <2>2
<1> QED
  BY <1>1, <1>2, <1>3, <1>4, <1>5 DEF GoodsType, Within

-----------------------------------------------------------------------------
(***************************************************************************)
(* Sheets.  The documents of one shipment: what is scanned is attached,    *)
(* what is selected is scanned, and pieces are picked of selected packages *)
(* only.                                                                   *)
(***************************************************************************)
Sound(sh) ==
  /\ sh.selected \subseteq sh.scanned
  /\ \A p \in sh.scanned : RowsOf(p) # {} => sh.links[p] > 0
  /\ \A p \in sh.selected : sh.links[p] > 0
  /\ \A r \in Rows : sh.pick[r] > 0 => PackageOf[r] \in sh.selected

Marks == \A s \in Shipments : Sound(shipment[s])

\* A package has pieces, and until it has gone some of them remain.
Filled ==
  \A p \in Packages : RowsOf(p) # {} =>
    /\ \E r \in RowsOf(p) : stock[r].quantity > 0
    /\ status[p] \notin GoneStatuses => remaining_quantity(p) > 0

\* An open shipment that no request holds gets another sheet.
Edited(s, sh) ==
  /\ Open(s) /\ Unlocked(s) /\ shipment' = [shipment EXCEPT ![s] = sh]
  /\ sh \in Shipment /\ sh.order = shipment[s].order /\ sh.status \in {"created", "cancelled"}
  /\ Sound(shipment[s]) => Sound(sh)
  /\ UNCHANGED <<pending, answered>>

\* The fields of a sheet.
LEMMA SheetFields ==
  ASSUME DocumentType, NEW s \in Shipments
  PROVE  /\ shipment[s] \in Shipment
         /\ shipment[s].links \in [Packages -> Nat] /\ shipment[s].pick \in [Rows -> Nat]
         /\ shipment[s].scanned \subseteq Packages /\ shipment[s].selected \subseteq Packages
         /\ shipment[s].order \in Orders \cup {NoOrder} /\ shipment[s].posted \in BOOLEAN
         /\ shipment[s].status \in {"none", "created", "shipped", "delivered", "cancelled"}
<1>1. shipment[s] \in Shipment
  BY DEF DocumentType
<1> QED
  BY <1>1 DEF Shipment

\* Of a package that is ready, if it has rows at all, some pieces remain.
LEMMA StillRemains ==
  ASSUME Filled, NEW p \in Packages, status[p] \in ReadyStatuses
  PROVE  RowsOf(p) # {} => remaining_quantity(p) > 0
  BY DEF Filled, ReadyStatuses, GoneStatuses

\* The sheet sh with the links L and one more package scanned.
WithScan(sh, L, p) == [sh EXCEPT !.links = L, !.scanned = sh.scanned \cup {p}]

\* The sheet after a scan.
LEMMA ScannedSheet ==
  ASSUME NEW sh \in Shipment, NEW L \in [Packages -> Nat], NEW p \in Packages, NEW v,
         v = WithScan(sh, L, p)
  PROVE  /\ v \in Shipment /\ v.order = sh.order /\ v.status = sh.status
         /\ v.links = L /\ v.scanned = sh.scanned \cup {p}
         /\ v.selected = sh.selected /\ v.pick = sh.pick
BY DEF Shipment, WithScan

\* A scan that leaves the scanned packages attached keeps the sheet sound.
LEMMA ScanSound ==
  ASSUME NEW sh \in Shipment, NEW L \in [Packages -> Nat], NEW p \in Packages, NEW v,
         v = WithScan(sh, L, p),
         \A q \in sh.scanned : L[q] = sh.links[q] \/ q = p,
         RowsOf(p) # {} => L[p] > 0, Sound(sh) /\ p \in sh.selected => L[p] > 0
  PROVE  Sound(sh) => Sound(v)
<1>1. /\ v.links = L /\ v.scanned = sh.scanned \cup {p}
      /\ v.selected = sh.selected /\ v.pick = sh.pick
  BY ScannedSheet
<1> SUFFICES ASSUME Sound(sh) PROVE Sound(v)
  OBVIOUS
<1>2. /\ sh.selected \subseteq sh.scanned
      /\ \A q \in sh.scanned : RowsOf(q) # {} => sh.links[q] > 0
      /\ \A q \in sh.selected : sh.links[q] > 0
      /\ \A r \in Rows : sh.pick[r] > 0 => PackageOf[r] \in sh.selected
  BY DEF Sound
<1>3. \A q \in v.scanned : RowsOf(q) # {} => L[q] > 0
  BY <1>1, <1>2
<1>4. \A q \in v.selected : L[q] > 0
  BY <1>1, <1>2
<1> QED
  BY <1>1, <1>2, <1>3, <1>4 DEF Sound

\* Such a scan is an edit of an open sheet,
LEMMA ScanEdits ==
  ASSUME DocumentType, NEW s \in Shipments, NEW p \in Packages, NEW L \in [Packages -> Nat],
         Open(s), Unlocked(s), UNCHANGED <<pending, answered>>,
         shipment' = [shipment EXCEPT ![s] = WithScan(shipment[s], L, p)],
         \A q \in shipment[s].scanned : L[q] = shipment[s].links[q] \/ q = p,
         RowsOf(p) # {} => L[p] > 0, Sound(shipment[s]) /\ p \in shipment[s].selected => L[p] > 0
  PROVE  \E sh \in Shipment : Edited(s, sh)
<1> DEFINE v == WithScan(shipment[s], L, p)
<1>1. shipment[s] \in Shipment
  BY SheetFields
<1>2. v \in Shipment /\ v.order = shipment[s].order /\ v.status = shipment[s].status
  BY <1>1, ScannedSheet
<1>3. Sound(shipment[s]) => Sound(v)
  BY <1>1, ScanSound
<1>4. shipment' = [shipment EXCEPT ![s] = v]
  OBVIOUS
<1> HIDE DEF v
<1> QED
  BY <1>2, <1>3, <1>4 DEF Edited, Open

\* as is the scan of an attached package,
LEMMA ScanAttachedEdits ==
  ASSUME DocumentType, NEW s \in Shipments, NEW p \in Packages, ScanAttached(s, p)
  PROVE  \E sh \in Shipment : Edited(s, sh)
<1>1. /\ Open(s) /\ Unlocked(s) /\ shipment[s].links[p] > 0
      /\ shipment' = [shipment EXCEPT ![s] = [shipment[s] EXCEPT !.scanned = @ \cup {p}]]
      /\ UNCHANGED <<pending, answered>>
  BY DEF ScanAttached, ScanAllowed, Attached, Scanned
<1>2. PICK L \in [Packages -> Nat] : L = shipment[s].links
  BY SheetFields
<1>3. shipment[s] \in Shipment
  BY SheetFields
<1>4. [shipment[s] EXCEPT !.scanned = @ \cup {p}]
        = WithScan(shipment[s], L, p)
  BY ONLY <1>2, <1>3 DEF Shipment, WithScan
<1> QED
  BY <1>1, <1>2, <1>4, ScanEdits

\* the scan of a package that was not attached, of which pieces remain,
LEMMA FreshScanEdits ==
  ASSUME GoodsType, DocumentType, Within, Filled, NEW s \in Shipments, NEW p \in Packages,
         ScanAllowed(s, p), ~Attached(s, p), UNCHANGED <<pending, answered>>,
         Scanned(s, p, [shipment[s] EXCEPT !.links[p] = remaining_quantity(p)])
  PROVE  \E sh \in Shipment : Edited(s, sh)
<1>1. /\ Open(s) /\ Unlocked(s) /\ status[p] \in ReadyStatuses
      /\ shipment' = [shipment EXCEPT ![s] =
           [[shipment[s] EXCEPT !.links[p] = remaining_quantity(p)] EXCEPT !.scanned = @ \cup {p}]]
      /\ UNCHANGED <<pending, answered>> /\ ~Attached(s, p)
  BY DEF ScanAllowed, Scanned
<1>2. PICK n \in Nat : n = remaining_quantity(p)
  BY Quantities
<1>3. PICK L : L = [shipment[s].links EXCEPT ![p] = n]
  OBVIOUS
<1>4. shipment[s] \in Shipment /\ shipment[s].links \in [Packages -> Nat]
  BY SheetFields
<1>5. [[shipment[s] EXCEPT !.links[p] = n] EXCEPT !.scanned = @ \cup {p}]
        = WithScan(shipment[s], L, p)
  BY ONLY <1>3, <1>4 DEF Shipment, WithScan
<1>6. L \in [Packages -> Nat] /\ L[p] = n /\ \A q \in Packages : q = p \/ L[q] = shipment[s].links[q]
  BY <1>2, <1>3, <1>4
<1>7. RowsOf(p) # {} => L[p] > 0
  BY <1>1, <1>2, <1>6, StillRemains
<1>8. shipment[s].scanned \subseteq Packages
  BY SheetFields
<1>9. ~(Sound(shipment[s]) /\ p \in shipment[s].selected)
  BY <1>1 DEF Sound, Attached
<1>10. shipment' = [shipment EXCEPT ![s] = WithScan(shipment[s], L, p)]
  BY <1>1, <1>2, <1>5
<1> QED
  BY <1>1, <1>6, <1>7, <1>8, <1>9, <1>10, ScanEdits

\* and the scan that puts a package in the place of another.
LEMMA ReplaceEdits ==
  ASSUME GoodsType, DocumentType, Within, Filled, NEW s \in Shipments, NEW q \in Packages,
         NEW p \in Packages, _replace_unscanned_same_model_package(s, q, p)
  PROVE  \E sh \in Shipment : Edited(s, sh)
<1>1. /\ Open(s) /\ Unlocked(s) /\ status[p] \in ReadyStatuses
      /\ shipment' = [shipment EXCEPT ![s] =
           [[shipment[s] EXCEPT !.links[q] = 0, !.links[p] = remaining_quantity(p)]
              EXCEPT !.scanned = @ \cup {p}]]
      /\ UNCHANGED <<pending, answered>> /\ ~Attached(s, p) /\ q \notin shipment[s].scanned /\ q # p
  BY DEF _replace_unscanned_same_model_package, ScanAllowed, Scanned
<1>2. PICK n \in Nat : n = remaining_quantity(p)
  BY Quantities
<1>3. PICK L : L = [shipment[s].links EXCEPT ![q] = 0, ![p] = n]
  OBVIOUS
<1>4. shipment[s] \in Shipment /\ shipment[s].links \in [Packages -> Nat]
  BY SheetFields
<1>5. [[shipment[s] EXCEPT !.links[q] = 0, !.links[p] = n] EXCEPT !.scanned = @ \cup {p}]
        = WithScan(shipment[s], L, p)
  BY ONLY <1>3, <1>4 DEF Shipment, WithScan
<1>6. L \in [Packages -> Nat] /\ L[p] = n /\ \A x \in Packages : x = p \/ x = q \/ L[x] = shipment[s].links[x]
  BY <1>2, <1>3, <1>4
<1>7. RowsOf(p) # {} => L[p] > 0
  BY <1>1, <1>2, <1>6, StillRemains
<1>8. \A x \in shipment[s].scanned : L[x] = shipment[s].links[x] \/ x = p
  BY <1>1, <1>6, SheetFields
<1>9. ~(Sound(shipment[s]) /\ p \in shipment[s].selected)
  BY <1>1 DEF Sound, Attached
<1>10. shipment' = [shipment EXCEPT ![s] = WithScan(shipment[s], L, p)]
  BY <1>1, <1>2, <1>5
<1> QED
  BY <1>1, <1>6, <1>7, <1>8, <1>9, <1>10, ScanEdits

\* What leaves a shipment leaves nothing behind.
LEMMA WithoutSheet ==
  ASSUME NEW sh \in Shipment, NEW S \in SUBSET Packages
  PROVE  /\ Without(sh, S) \in Shipment
         /\ Without(sh, S).order = sh.order /\ Without(sh, S).status = sh.status
         /\ Without(sh, S).links = [p \in Packages |-> IF p \in S THEN 0 ELSE sh.links[p]]
         /\ Without(sh, S).scanned = sh.scanned \ S /\ Without(sh, S).selected = sh.selected \ S
         /\ Without(sh, S).pick = [r \in Rows |-> IF PackageOf[r] \in S THEN 0 ELSE sh.pick[r]]
<1>0. PICK v : v = Without(sh, S)
  OBVIOUS
<1>1. PICK L : L = [p \in Packages |-> IF p \in S THEN 0 ELSE sh.links[p]]
  OBVIOUS
<1>2. PICK K : K = [r \in Rows |-> IF PackageOf[r] \in S THEN 0 ELSE sh.pick[r]]
  OBVIOUS
<1>3. sh.links \in [Packages -> Nat] /\ sh.pick \in [Rows -> Nat]
      /\ sh.scanned \subseteq Packages /\ sh.selected \subseteq Packages
  BY DEF Shipment
<1>4. L \in [Packages -> Nat] /\ K \in [Rows -> Nat]
  BY <1>1, <1>2, <1>3
<1>5. v = [sh EXCEPT !.links = L, !.scanned = sh.scanned \ S, !.selected = sh.selected \ S, !.pick = K]
  BY <1>0, <1>1, <1>2 DEF Without
<1>6. sh.scanned \ S \subseteq Packages /\ sh.selected \ S \subseteq Packages
  BY <1>3
<1>7. /\ v \in Shipment /\ v.order = sh.order /\ v.status = sh.status /\ v.links = L
      /\ v.scanned = sh.scanned \ S /\ v.selected = sh.selected \ S /\ v.pick = K
  BY ONLY <1>4, <1>5, <1>6, sh \in Shipment DEF Shipment
<1> QED
  BY <1>0, <1>1, <1>2, <1>7

\* A sound sheet is sound without the packages of S.
LEMMA WithoutSound ==
  ASSUME NEW sh \in Shipment, NEW S \in SUBSET Packages, NEW v, v.links = Without(sh, S).links,
         v.scanned = Without(sh, S).scanned, v.selected = Without(sh, S).selected,
         v.pick = Without(sh, S).pick
  PROVE  Sound(sh) => Sound(v)
<1>1. /\ v.links = [p \in Packages |-> IF p \in S THEN 0 ELSE sh.links[p]]
      /\ v.scanned = sh.scanned \ S /\ v.selected = sh.selected \ S
      /\ v.pick = [r \in Rows |-> IF PackageOf[r] \in S THEN 0 ELSE sh.pick[r]]
  BY WithoutSheet
<1>2. sh.scanned \subseteq Packages /\ sh.selected \subseteq Packages
  BY DEF Shipment
<1> SUFFICES ASSUME Sound(sh) PROVE Sound(v)
  OBVIOUS
<1>3. v.selected \subseteq v.scanned
  BY <1>1 DEF Sound
<1>4. \A p \in v.scanned : RowsOf(p) # {} => v.links[p] > 0
  BY <1>1, <1>2 DEF Sound
<1>5. \A p \in v.selected : v.links[p] > 0
  BY <1>1, <1>2 DEF Sound
<1>6. \A r \in Rows : v.pick[r] > 0 => PackageOf[r] \in v.selected
  BY <1>1 DEF Sound
<1> QED
  BY <1>3, <1>4, <1>5, <1>6 DEF Sound

\* Detaching edits an open sheet,
LEMMA DetachEdits ==
  ASSUME DocumentType, NEW s \in Shipments, NEW p \in Packages, detach_shipment_package(s, p)
  PROVE  \E sh \in Shipment : Edited(s, sh)
<1> DEFINE v == Without(shipment[s], {p})
<1>1. /\ Open(s) /\ Unlocked(s) /\ UNCHANGED <<pending, answered>>
      /\ shipment' = [shipment EXCEPT ![s] = v]
  BY DEF detach_shipment_package
<1>2. shipment[s] \in Shipment /\ {p} \in SUBSET Packages
  BY SheetFields
<1>3. v \in Shipment /\ v.order = shipment[s].order /\ v.status = shipment[s].status
  BY <1>2, WithoutSheet
<1>4. Sound(shipment[s]) => Sound(v)
  BY <1>2, WithoutSound
<1> HIDE DEF v
<1> QED
  BY <1>1, <1>3, <1>4 DEF Edited, Open

\* deleting a manual shipment does,
LEMMA DeleteEdits ==
  ASSUME DocumentType, NEW s \in Shipments, delete_manual_shipment(s)
  PROVE  \E sh \in Shipment : Edited(s, sh)
<1> DEFINE S == {p \in Packages : Attached(s, p)}
           w == Without(shipment[s], S)
           v == [w EXCEPT !.status = "cancelled"]
<1>1. /\ Open(s) /\ Unlocked(s) /\ UNCHANGED <<pending, answered>>
      /\ shipment' = [shipment EXCEPT ![s] = v]
  BY DEF delete_manual_shipment
<1>2. shipment[s] \in Shipment /\ S \in SUBSET Packages
  BY SheetFields
<1>3. w \in Shipment /\ w.order = shipment[s].order
  BY <1>2, WithoutSheet
<1> HIDE DEF w, S
<1>4. /\ v \in Shipment /\ v.order = w.order /\ v.status = "cancelled" /\ v.links = w.links
      /\ v.scanned = w.scanned /\ v.selected = w.selected /\ v.pick = w.pick
  BY ONLY <1>3 DEF Shipment, v
<1> HIDE DEF v
<1>5. Sound(shipment[s]) => Sound(v)
  BY <1>2, <1>4, WithoutSound DEF w
<1> QED
  BY <1>1, <1>3, <1>4, <1>5 DEF Edited

\* selecting pieces of a scanned package does,
LEMMA SelectEdits ==
  ASSUME GoodsType, DocumentType, NEW s \in Shipments, NEW p \in Packages, NEW quantities \in Counts(p),
         select_dispatch_quantity(s, p, quantities)
  PROVE  \E sh \in Shipment : Edited(s, sh)
<1>1. quantities \in [Rows -> Nat]
  BY ReadyStockAssumption DEF Counts
<1>2. PICK n \in Nat : n = SumOf(quantities)
  BY <1>1, ReadyStockAssumption, UnitsFinite
<1>3. PICK L, D, K :
        /\ L = [shipment[s].links EXCEPT ![p] = n] /\ D = shipment[s].selected \cup {p}
        /\ K = [r \in Rows |-> IF PackageOf[r] = p THEN quantities[r] ELSE shipment[s].pick[r]]
  OBVIOUS
<1>4. /\ shipment[s] \in Shipment /\ shipment[s].links \in [Packages -> Nat]
      /\ shipment[s].pick \in [Rows -> Nat] /\ shipment[s].selected \subseteq Packages
      /\ shipment \in [Shipments -> Shipment]
  BY SheetFields DEF DocumentType
<1>5. L \in [Packages -> Nat] /\ D \subseteq Packages /\ K \in [Rows -> Nat]
  BY <1>1, <1>2, <1>3, <1>4
<1>6. PICK v : v = [shipment[s] EXCEPT !.links = L, !.selected = D, !.pick = K]
  OBVIOUS
<1>7. /\ v \in Shipment /\ v.order = shipment[s].order /\ v.status = shipment[s].status
      /\ v.links = L /\ v.scanned = shipment[s].scanned /\ v.selected = D /\ v.pick = K
  BY ONLY <1>4, <1>5, <1>6 DEF Shipment
<1>8. /\ Open(s) /\ Unlocked(s) /\ p \in shipment[s].scanned /\ n > 0
      /\ shipment' = [shipment EXCEPT ![s].links[p] = SumOf(quantities),
                        ![s].selected = @ \cup {p},
                        ![s].pick = [r \in Rows |-> IF PackageOf[r] = p THEN quantities[r] ELSE @[r]]]
      /\ UNCHANGED <<pending, answered>>
  BY <1>2 DEF select_dispatch_quantity
<1>9. shipment' = [shipment EXCEPT ![s] = v]
  BY <1>2, <1>3, <1>4, <1>6, <1>8
<1>10. ASSUME Sound(shipment[s]) PROVE Sound(v)
  <2>1. /\ shipment[s].selected \subseteq shipment[s].scanned
        /\ \A x \in shipment[s].scanned : RowsOf(x) # {} => shipment[s].links[x] > 0
        /\ \A x \in shipment[s].selected : shipment[s].links[x] > 0
        /\ \A r \in Rows : shipment[s].pick[r] > 0 => PackageOf[r] \in shipment[s].selected
    BY <1>10 DEF Sound
  <2>2. L[p] = n /\ \A x \in Packages : x = p \/ L[x] = shipment[s].links[x]
    BY <1>3, <1>4
  <2>3. shipment[s].scanned \subseteq Packages
    BY SheetFields
  <2>4. \A x \in v.scanned : RowsOf(x) # {} => v.links[x] > 0
    BY <1>7, <1>8, <2>1, <2>2, <2>3
  <2>5. \A x \in v.selected : v.links[x] > 0
    BY <1>3, <1>4, <1>7, <1>8, <2>1, <2>2
  <2>6. v.selected \subseteq v.scanned
    BY <1>3, <1>7, <1>8, <2>1
  <2>7. \A r \in Rows : v.pick[r] > 0 => PackageOf[r] \in v.selected
    BY <1>3, <1>7, <2>1
  <2> QED
    BY <2>4, <2>5, <2>6, <2>7 DEF Sound
<1> QED
  BY <1>7, <1>8, <1>9, <1>10 DEF Edited, Open

\* and so does correcting the count of one.
LEMMA CorrectEdits ==
  ASSUME GoodsType, DocumentType, NEW s \in Shipments, NEW p \in Packages, NEW quantities \in Counts(p),
         correct_received_quantity(s, p, quantities)
  PROVE  \E sh \in Shipment : Edited(s, sh)
<1>1. quantities \in [Rows -> Nat]
  BY ReadyStockAssumption DEF Counts
<1>2. PICK n \in Nat : n = SumOf(quantities)
  BY <1>1, ReadyStockAssumption, UnitsFinite
<1>3. PICK L : L = [shipment[s].links EXCEPT ![p] = n]
  OBVIOUS
<1>4. /\ shipment[s] \in Shipment /\ shipment[s].links \in [Packages -> Nat]
      /\ shipment \in [Shipments -> Shipment]
  BY SheetFields DEF DocumentType
<1>5. L \in [Packages -> Nat]
  BY <1>2, <1>3, <1>4
<1>6. PICK v : v = [shipment[s] EXCEPT !.links = L]
  OBVIOUS
<1>7. /\ v \in Shipment /\ v.order = shipment[s].order /\ v.status = shipment[s].status
      /\ v.links = L /\ v.scanned = shipment[s].scanned /\ v.selected = shipment[s].selected
      /\ v.pick = shipment[s].pick
  BY ONLY <1>4, <1>5, <1>6 DEF Shipment
<1>8. /\ Open(s) /\ Unlocked(s) /\ n > 0
      /\ shipment' = [shipment EXCEPT ![s].links[p] = SumOf(quantities)]
      /\ UNCHANGED <<pending, answered>>
  BY <1>2 DEF correct_received_quantity
<1>9. shipment' = [shipment EXCEPT ![s] = v]
  BY <1>2, <1>3, <1>4, <1>6, <1>8
<1>10. ASSUME Sound(shipment[s]) PROVE Sound(v)
  <2>1. L[p] = n /\ \A x \in Packages : x = p \/ L[x] = shipment[s].links[x]
    BY <1>3, <1>4
  <2>2. shipment[s].scanned \subseteq Packages /\ shipment[s].selected \subseteq Packages
    BY SheetFields
  <2> QED
    BY <1>7, <1>8, <1>10, <2>1, <2>2 DEF Sound
<1> QED
  BY <1>7, <1>8, <1>9, <1>10 DEF Edited, Open

-----------------------------------------------------------------------------
(***************************************************************************)
(* Locks.  What a slow request has read is still so as long as it relies   *)
(* on it: nobody else changes its shipment or takes its order.             *)
(***************************************************************************)
Right(rd) ==
  /\ rd.kind = "create" =>
       /\ shipment[rd.shipment] = Absent /\ rd.order \in Orders
       /\ \A x \in Shipments : Live(x) => shipment[x].order # rd.order
  /\ rd.kind \in {"add", "addReady"} => Live(rd.shipment)
  /\ rd.kind = "deliver" => shipment[rd.shipment].status = "shipped"

Locks ==
  /\ \A c \in Clerks : pending[c] # Nothing => pending[c].shipment \in Shipments /\ Right(pending[c])
  /\ \A c, d \in Clerks : c # d /\ pending[c] # Nothing /\ pending[d] # Nothing =>
       /\ pending[c].shipment # pending[d].shipment
       /\ pending[c].kind = "create" /\ pending[d].kind = "create" => pending[c].order # pending[d].order

\* A clerk at rest has read nothing.
LEMMA NothingRead ==
  /\ Nothing \in Reading /\ Nothing.kind = "none" /\ Nothing.shipment = NoShipment
  /\ Nothing.found = NoLinks /\ NoLinks \in [Packages -> Nat] /\ NoPick \in [Rows -> Nat]
  BY DEF Nothing, Reading, NoLinks, NoPick, PackageStatuses

\* A shipment not created has an empty, sound sheet.
LEMMA AbsentSheet ==
  /\ Absent \in Shipment /\ Sound(Absent) /\ Absent.status = "none" /\ Absent.order = NoOrder
  /\ Absent.scanned = {} /\ Absent.selected = {} /\ Absent.pick = NoPick /\ Absent.posted = FALSE
<1>1. NoLinks \in [Packages -> Nat] /\ NoPick \in [Rows -> Nat] /\ \A r \in Rows : NoPick[r] = 0
  BY DEF NoLinks, NoPick
<1>2. /\ Absent \in Shipment /\ Absent.status = "none" /\ Absent.order = NoOrder
      /\ Absent.scanned = {} /\ Absent.selected = {} /\ Absent.pick = NoPick /\ Absent.posted = FALSE
  BY <1>1 DEF Absent, Shipment
<1>3. Sound(Absent)
  BY <1>1, <1>2 DEF Sound
<1> QED
  BY <1>2, <1>3

\* The fields of what a clerk has read.
LEMMA PendingFields ==
  ASSUME DocumentType, NEW c \in Clerks
  PROVE  /\ pending[c] \in Reading /\ pending[c].found \in [Packages -> Nat]
         /\ pending[c].shipment \in Shipments \cup {NoShipment}
         /\ pending[c].order \in Orders \cup {NoOrder}
         /\ pending[c].kind \in {"none", "create", "add", "addReady", "deliver"}
         /\ pending[c].kind # "none" => pending[c] # Nothing
<1>1. pending[c] \in Reading
  BY DEF DocumentType
<1> QED
  BY <1>1, NothingRead DEF Reading

\* The packages a delivery has read are attached and have gone.
Arrives(rd) ==
  rd.kind = "deliver" =>
    \A p \in Packages : rd.found[p] > 0 => Attached(rd.shipment, p) /\ status[p] \in GoneStatuses

\* A request begins: it has read rd, and locks a free shipment.
Reads(c, rd) ==
  /\ Begin(c, rd) /\ rd \in Reading /\ rd.shipment \in Shipments /\ Unlocked(rd.shipment)
  /\ Right(rd) /\ Arrives(rd) /\ (rd.kind = "create" => ~OrderLocked(rd.order))

\* The ready packages of an order are counted by their remaining pieces.
LEMMA ReadyCounts ==
  ASSUME GoodsType, Within, NEW o
  PROVE  Ready(o) \in [Packages -> Nat]
  BY Quantities DEF Ready

\* Every read begins a request that holds its shipment and is right: creating,
LEMMA CreateReads ==
  ASSUME GoodsType, Within, NEW c \in Clerks, NEW s \in Shipments, NEW o \in Orders, BeginCreate(c, s, o)
  PROVE  \E rd : Reads(c, rd)
<1>1. PICK f \in [Packages -> Nat] : f = Ready(o)
  BY ReadyCounts
<1>2. PICK rd : rd = [Nothing EXCEPT !.kind = "create", !.shipment = s, !.order = o, !.found = f]
  OBVIOUS
<1>3. rd \in Reading /\ rd.kind = "create" /\ rd.shipment = s /\ rd.order = o
  BY ONLY <1>1, <1>2, NothingRead, s \in Shipments, o \in Orders DEF Reading
<1>4. /\ shipment[s] = Absent /\ Unlocked(s) /\ ~OrderLocked(o)
      /\ ~ \E x \in Shipments : Live(x) /\ shipment[x].order = o
      /\ Begin(c, rd)
  BY <1>1, <1>2 DEF BeginCreate
<1> QED
  BY <1>3, <1>4 DEF Reads, Right, Arrives

\* adding the ready packages,
LEMMA AddReadyReads ==
  ASSUME GoodsType, Within, NEW c \in Clerks, NEW s \in Shipments, BeginAddReady(c, s)
  PROVE  \E rd : Reads(c, rd)
<1>1. PICK f : f = [p \in Packages |-> IF Attached(s, p) THEN 0 ELSE Ready(shipment[s].order)[p]]
  OBVIOUS
<1>2. f \in [Packages -> Nat]
  BY <1>1, ReadyCounts
<1>3. PICK rd : rd = [Nothing EXCEPT !.kind = "addReady", !.shipment = s, !.found = f]
  OBVIOUS
<1>4. rd \in Reading /\ rd.kind = "addReady" /\ rd.shipment = s
  BY ONLY <1>2, <1>3, NothingRead, s \in Shipments DEF Reading
<1>5. Open(s) /\ Unlocked(s) /\ Begin(c, rd)
  BY <1>1, <1>3 DEF BeginAddReady
<1> QED
  BY <1>4, <1>5 DEF Reads, Right, Arrives, Open, Live

\* adding one package,
LEMMA AddReads ==
  ASSUME GoodsType, Within, NEW c \in Clerks, NEW s \in Shipments, NEW p \in Packages, BeginAdd(c, s, p)
  PROVE  \E rd : Reads(c, rd)
<1>1. PICK n \in Nat, e \in PackageStatuses : n = remaining_quantity(p) /\ e = status[p]
  BY Quantities DEF GoodsType
<1>2. PICK f : f = [NoLinks EXCEPT ![p] = n]
  OBVIOUS
<1>3. f \in [Packages -> Nat]
  BY <1>1, <1>2, NothingRead
<1>4. PICK rd : rd = [Nothing EXCEPT !.kind = "add", !.shipment = s, !.seen = e, !.found = f]
  OBVIOUS
<1>5. rd \in Reading /\ rd.kind = "add" /\ rd.shipment = s
  BY ONLY <1>1, <1>3, <1>4, NothingRead, s \in Shipments DEF Reading
<1>6. [Nothing EXCEPT !.kind = "add", !.shipment = s, !.seen = e, !.found[p] = n] = rd
  BY ONLY <1>2, <1>4, NothingRead DEF Reading
<1>7. Live(s) /\ Unlocked(s) /\ Begin(c, rd)
  BY <1>1, <1>6 DEF BeginAdd
<1> QED
  BY <1>5, <1>7 DEF Reads, Right, Arrives

\* and delivering, which reads only packages that have gone.
LEMMA DeliverReads ==
  ASSUME NEW c \in Clerks, NEW s \in Shipments, BeginDeliver(c, s)
  PROVE  \E rd : Reads(c, rd)
<1> DEFINE arrives(p) ==
             /\ Attached(s, p) /\ status[p] = "shipped"
             /\ PartlyDispatched(p) =>
                  \A x \in Shipments \ {s} : Live(x) /\ Attached(x, p) => shipment[x].status = "delivered"
<1>1. PICK f : f = [p \in Packages |-> IF arrives(p) THEN 1 ELSE 0]
  OBVIOUS
<1>2. f \in [Packages -> Nat]
  BY <1>1
<1>3. PICK rd : rd = [Nothing EXCEPT !.kind = "deliver", !.shipment = s, !.found = f]
  OBVIOUS
<1>4. rd \in Reading /\ rd.kind = "deliver" /\ rd.shipment = s /\ rd.found = f
  BY ONLY <1>2, <1>3, NothingRead, s \in Shipments DEF Reading
<1>5. shipment[s].status = "shipped" /\ Unlocked(s) /\ Begin(c, rd)
  BY <1>1, <1>3 DEF BeginDeliver
<1>6. \A p \in Packages : f[p] > 0 => Attached(s, p) /\ status[p] \in GoneStatuses
  BY <1>1 DEF GoneStatuses
<1> QED
  BY <1>4, <1>5, <1>6 DEF Reads, Right, Arrives

\* There is no other read.
LEMMA ReadSteps ==
  ASSUME GoodsType, Within, Read
  PROVE  \E c \in Clerks : \E rd : Reads(c, rd)
<1>1. PICK c \in Clerks, s \in Shipments :
        \/ \E o \in Orders : BeginCreate(c, s, o)
        \/ BeginAddReady(c, s)
        \/ \E p \in Single : BeginAdd(c, s, p)
        \/ BeginDeliver(c, s)
  BY DEF Read
<1>2. \A p \in Single : p \in Packages
  BY ReadyStockAssumption
<1> QED
  BY <1>1, <1>2, CreateReads, AddReadyReads, AddReads, DeliverReads

\* A read takes only a shipment, and an order, that nobody holds.
LEMMA ReadsKeep ==
  ASSUME DocumentType, Locks, NEW c \in Clerks, NEW rd, Reads(c, rd)
  PROVE  (DocumentType /\ Locks)' /\ UNCHANGED <<shipment, answered>>
<1>1. /\ pending[c] = Nothing /\ pending' = [pending EXCEPT ![c] = rd]
      /\ UNCHANGED <<shipment, answered>> /\ rd \in Reading /\ rd.shipment \in Shipments
  BY DEF Reads, Begin
<1>2. DocumentType'
  BY <1>1 DEF DocumentType
<1>3. pending'[c] = rd /\ \A d \in Clerks : d # c => pending'[d] = pending[d]
  BY <1>1 DEF DocumentType
<1>4. ASSUME NEW d \in Clerks, pending'[d] # Nothing
      PROVE  pending'[d].shipment \in Shipments /\ Right(pending[d])'
  <2>1. Right(pending'[d]) /\ pending'[d].shipment \in Shipments
    <3>1. CASE d = c
      BY <1>1, <1>3, <3>1 DEF Reads
    <3>2. CASE d # c
      <4>1. pending'[d] = pending[d]
        BY <1>3, <3>2
      <4> QED
        BY <1>4, <4>1 DEF Locks
    <3> QED
      BY <3>1, <3>2
  <2> QED
    BY <1>1, <2>1 DEF Right, Live
<1>5. ASSUME NEW d \in Clerks, d # c, pending[d] # Nothing
      PROVE  /\ pending[d].shipment # rd.shipment
             /\ pending[d].kind = "create" /\ rd.kind = "create" => pending[d].order # rd.order
  BY DEF Reads, Unlocked, OrderLocked
<1>6. ASSUME NEW d \in Clerks, NEW e \in Clerks, d # e, pending'[d] # Nothing, pending'[e] # Nothing
      PROVE  /\ pending'[d].shipment # pending'[e].shipment
             /\ pending'[d].kind = "create" /\ pending'[e].kind = "create"
                  => pending'[d].order # pending'[e].order
  <2>1. CASE d = c
    BY <1>3, <1>5, <1>6, <2>1
  <2>2. CASE e = c
    BY <1>3, <1>5, <1>6, <2>2
  <2>3. CASE d # c /\ e # c
    <3>1. pending'[d] = pending[d] /\ pending'[e] = pending[e]
      BY <1>3, <2>3
    <3> QED
      BY <1>6, <3>1 DEF Locks
  <2> QED
    BY <2>1, <2>2, <2>3
<1>7. Locks'
  BY <1>4, <1>6 DEF Locks
<1> QED
  BY <1>1, <1>2, <1>7

\* What a request decided stands while others work on shipments it does not hold, and
\* give no order a shipment.
LEMMA LocksStand ==
  ASSUME DocumentType, Locks, NEW s \in Shipments, Unlocked(s), UNCHANGED pending,
         \A x \in Shipments \ {s} : shipment'[x] = shipment[x],
         Live(s)' => shipment'[s].order = NoOrder \/ (Live(s) /\ shipment'[s].order = shipment[s].order)
  PROVE  Locks'
<1>1. ASSUME NEW d \in Clerks, pending[d] # Nothing
      PROVE  pending[d].shipment \in Shipments /\ Right(pending[d])'
  <2>1. pending[d].shipment \in Shipments \ {s} /\ Right(pending[d])
    BY <1>1 DEF Locks, Unlocked
  <2>2. pending'[d] = pending[d] /\ shipment'[pending[d].shipment] = shipment[pending[d].shipment]
    BY <2>1
  <2>3. ASSUME pending[d].kind = "create", NEW x \in Shipments, Live(x)'
        PROVE  shipment'[x].order # pending[d].order
    <3>1. pending[d].order \in Orders /\ (Live(x) => shipment[x].order # pending[d].order)
      BY <2>1, <2>3 DEF Right
    <3>2. CASE x = s
      BY <2>3, <3>1, <3>2, ReadyStockAssumption
    <3>3. CASE x # s
      BY <2>3, <3>1, <3>3 DEF Live
    <3> QED
      BY <3>2, <3>3
  <2> QED
    BY <2>1, <2>2, <2>3 DEF Right, Live
<1> QED
  BY <1>1 DEF Locks

\* The same when a request ends, with what it does to its own shipment.
LEMMA LocksEnd ==
  ASSUME DocumentType, Locks, NEW c \in Clerks, NEW s \in Shipments, s = pending[c].shipment,
         pending[c] # Nothing, Finish(c), \A x \in Shipments \ {s} : shipment'[x] = shipment[x],
         Live(s)' => \/ Live(s) /\ shipment'[s].order = shipment[s].order
                     \/ pending[c].kind = "create" /\ shipment'[s].order = pending[c].order
  PROVE  Locks'
<1>1. pending'[c] = Nothing /\ \A d \in Clerks : d # c => pending'[d] = pending[d]
  BY DEF DocumentType, Finish
<1>3. ASSUME NEW d \in Clerks, pending'[d] # Nothing
      PROVE  pending'[d].shipment \in Shipments /\ Right(pending[d])'
  <2>1. d # c /\ pending'[d] = pending[d] /\ pending[d] # Nothing
    BY <1>1, <1>3
  <2>2. pending[d].shipment \in Shipments \ {s} /\ Right(pending[d])
    BY <2>1 DEF Locks
  <2>3. shipment'[pending[d].shipment] = shipment[pending[d].shipment]
    BY <2>2
  <2>4. ASSUME pending[d].kind = "create", NEW x \in Shipments, Live(x)'
        PROVE  shipment'[x].order # pending[d].order
    <3>1. pending[d].order \in Orders /\ (Live(x) => shipment[x].order # pending[d].order)
      BY <2>2, <2>4 DEF Right
    <3>2. CASE x = s
      <4>1. pending[c].kind = "create" => pending[c].order # pending[d].order
        BY <2>1, <2>4 DEF Locks
      <4> QED
        BY <2>4, <3>1, <3>2, <4>1
    <3>3. CASE x # s
      BY <2>4, <3>1, <3>3 DEF Live
    <3> QED
      BY <3>2, <3>3
  <2> QED
    BY <2>1, <2>2, <2>3, <2>4 DEF Right, Live
<1>4. ASSUME NEW d \in Clerks, NEW e \in Clerks, d # e, pending'[d] # Nothing, pending'[e] # Nothing
      PROVE  /\ pending'[d].shipment # pending'[e].shipment
             /\ pending'[d].kind = "create" /\ pending'[e].kind = "create"
                  => pending'[d].order # pending'[e].order
  <2>1. pending'[d] = pending[d] /\ pending'[e] = pending[e]
    BY <1>1, <1>4
  <2> QED
    BY <1>4, <2>1 DEF Locks
<1> QED
  BY <1>3, <1>4 DEF Locks

-----------------------------------------------------------------------------
(***************************************************************************)
(* Standing.  Of a shipment that has gone a step changes at most that it   *)
(* is delivered, or links more packages; only dispatch and return make or  *)
(* unmake a gone one.                                                      *)
(***************************************************************************)
Stood(v, w) ==
  /\ w.status \in GoneStatuses <=> v.status \in GoneStatuses
  /\ v.status \in GoneStatuses =>
       /\ w.scanned = v.scanned /\ w.selected = v.selected /\ w.pick = v.pick /\ w.order = v.order
       /\ w.status \in {v.status, "delivered"}
       /\ \A p \in Packages : v.links[p] > 0 => w.links[p] > 0
  /\ Sound(v) => Sound(w)

\* Each clerk goes on with what was read, has just read, or is done.
Waiting ==
  \A c \in Clerks : pending'[c] \in {pending[c], Nothing} \/ Arrives(pending'[c])

Standing == (\A x \in Shipments : Stood(shipment[x], shipment'[x])) /\ Waiting

\* A step that leaves the clerks alone,
LEMMA SameWaiting == ASSUME UNCHANGED pending PROVE Waiting
  BY DEF Waiting

\* one that ends a request,
LEMMA FinishWaiting == ASSUME DocumentType, NEW c \in Clerks, Finish(c) PROVE Waiting
  BY DEF Waiting, Finish, DocumentType

\* and one that begins a request let the others go on.
LEMMA ReadWaiting == ASSUME DocumentType, NEW c \in Clerks, NEW rd, Reads(c, rd) PROVE Waiting
  BY DEF Waiting, Reads, Begin, DocumentType

\* A sheet nobody touches stands.
LEMMA SameStood == ASSUME NEW v, NEW w, w = v PROVE Stood(v, w)
  BY DEF Stood

\* A step that changes one sheet.
LEMMA OneSheet ==
  ASSUME NEW s \in Shipments, \A x \in Shipments \ {s} : shipment'[x] = shipment[x],
         Stood(shipment[s], shipment'[s]), Waiting
  PROVE  Standing
  BY SameStood DEF Standing

\* An order keeps one shipment at most when a step gives one to a free order only.
LEMMA OrdersStand ==
  ASSUME OneShipmentPerOrder, NEW s \in Shipments,
         \A x \in Shipments \ {s} : shipment'[x] = shipment[x],
         Live(s)' => \/ shipment'[s].order = NoOrder
                     \/ Live(s) /\ shipment'[s].order = shipment[s].order
                     \/ \A x \in Shipments : Live(x) => shipment[x].order # shipment'[s].order
  PROVE  OneShipmentPerOrder'
<1>1. ASSUME NEW x \in Shipments \ {s}, Live(x)', Live(s)', shipment'[s].order # NoOrder
      PROVE  shipment'[x].order # shipment'[s].order
  BY <1>1 DEF OneShipmentPerOrder, Live
<1>2. ASSUME NEW x \in Shipments, NEW y \in Shipments, x # y, Live(x)', Live(y)', shipment'[x].order # NoOrder
      PROVE  shipment'[x].order # shipment'[y].order
  <2>1. CASE x = s
    BY <1>1, <1>2, <2>1
  <2>2. CASE y = s
    BY <1>1, <1>2, <2>2
  <2>3. CASE x # s /\ y # s
    BY <1>2, <2>3 DEF OneShipmentPerOrder, Live
  <2> QED
    BY <2>1, <2>2, <2>3
<1> QED
  BY <1>2 DEF OneShipmentPerOrder

\* What was answered stays true.
LEMMA AnswersKept ==
  ASSUME DocumentType, Standing, AnswersStand,
         \A a \in answered' : a \in answered \/ (a[1] = "deliver" /\ shipment'[a[2]].status = "delivered")
  PROVE  AnswersStand'
<1>1. ASSUME NEW a \in answered' PROVE IF a[1] = "ship" THEN Gone(a[2])' ELSE shipment'[a[2]].status = "delivered"
  <2>1. CASE a \in answered
    <3>1. a[2] \in Shipments /\ a[1] \in {"ship", "deliver"}
      BY <2>1 DEF DocumentType
    <3>2. IF a[1] = "ship" THEN Gone(a[2]) ELSE shipment[a[2]].status = "delivered"
      BY <2>1 DEF AnswersStand
    <3>3. Stood(shipment[a[2]], shipment'[a[2]])
      BY <3>1 DEF Standing
    <3> QED
      BY <3>1, <3>2, <3>3 DEF Stood, Gone, GoneStatuses
  <2>2. CASE a \notin answered
    BY <1>1, <2>2
  <2> QED
    BY <2>1, <2>2
<1> QED
  BY <1>1 DEF AnswersStand

-----------------------------------------------------------------------------
(* Every step on the documents but dispatch and return                     *)

Papers ==
  /\ DocumentType /\ Locks /\ OneShipmentPerOrder /\ AnswersStand

\* A step that leaves the documents alone keeps the papers.
LEMMA SamePapers == ASSUME Papers, UNCHANGED documents PROVE Papers' /\ Standing
<1>1. UNCHANGED <<shipment, pending, answered>>
  BY DEF documents
<1>2. Standing
  BY <1>1, SameStood, SameWaiting DEF Standing
<1> QED
  BY <1>1, <1>2 DEF Papers, DocumentType, Locks, Right, Live, OneShipmentPerOrder, AnswersStand, Gone

\* So does a read,
LEMMA ReadPapers ==
  ASSUME Papers, NEW c \in Clerks, NEW rd, Reads(c, rd)
  PROVE  Papers' /\ Standing
<1>1. (DocumentType /\ Locks)' /\ UNCHANGED <<shipment, answered>>
  BY ReadsKeep DEF Papers
<1>2. Standing
  BY <1>1, SameStood, ReadWaiting DEF Standing, Papers
<1>3. OneShipmentPerOrder' /\ AnswersStand'
  BY <1>1 DEF Papers, Live, OneShipmentPerOrder, AnswersStand, Gone
<1> QED
  BY <1>1, <1>2, <1>3 DEF Papers

\* A step that gives the shipment s, which nobody holds, the sheet sh.
LEMMA PutPapers ==
  ASSUME Papers, NEW s \in Shipments, NEW sh \in Shipment, Unlocked(s),
         shipment' = [shipment EXCEPT ![s] = sh], UNCHANGED <<pending, answered>>,
         Stood(shipment[s], sh), sh.order = NoOrder \/ (Live(s) /\ sh.order = shipment[s].order)
  PROVE  Papers' /\ Standing
<1>1. DocumentType /\ Locks /\ OneShipmentPerOrder /\ AnswersStand
  BY DEF Papers
<1>2. shipment'[s] = sh /\ \A x \in Shipments \ {s} : shipment'[x] = shipment[x]
  BY <1>1 DEF DocumentType
<1>3. Standing
  BY <1>2, OneSheet, SameWaiting
<1>4. DocumentType'
  BY <1>1 DEF DocumentType
<1>5. Locks'
  BY <1>1, <1>2, LocksStand
<1>6. OneShipmentPerOrder'
  BY <1>1, <1>2, OrdersStand
<1>7. AnswersStand'
  BY <1>1, <1>3, AnswersKept
<1> QED
  BY <1>3, <1>4, <1>5, <1>6, <1>7 DEF Papers

\* and an edit of an open sheet.
LEMMA EditPapers ==
  ASSUME Papers, NEW s \in Shipments, NEW sh, Edited(s, sh)
  PROVE  Papers' /\ Standing
<1>1. Stood(shipment[s], sh)
  BY DEF Edited, Stood, Open, GoneStatuses
<1> QED
  BY <1>1, PutPapers DEF Edited, Open, Live

\* A new shipment without an order, with the links L.
Bare(L) == [Absent EXCEPT !.status = "created", !.links = L]

\* The sheet of a new shipment without an order.
LEMMA BareStood ==
  ASSUME NEW L \in [Packages -> Nat]
  PROVE  Bare(L) \in Shipment /\ Bare(L).order = NoOrder /\ Stood(Absent, Bare(L))
<1>1. PICK v : v = Bare(L)
  OBVIOUS
<1>2. /\ v \in Shipment /\ v.order = NoOrder /\ v.status = "created" /\ v.scanned = {}
      /\ v.selected = {} /\ v.pick = NoPick
  BY <1>1, AbsentSheet DEF Bare, Shipment
<1>3. \A r \in Rows : NoPick[r] = 0
  BY DEF NoPick
<1>4. Sound(v)
  BY <1>2, <1>3 DEF Sound
<1> QED
  BY <1>1, <1>2, <1>4, AbsentSheet DEF Stood, GoneStatuses

\* Creating a shipment without an order keeps the papers,
LEMMA BarePapers ==
  ASSUME Papers, NEW s \in Shipments, CreateBare(s)
  PROVE  Papers' /\ Standing
<1>1. [Absent EXCEPT !.status = "created"] = Bare(NoLinks)
  <2>1. PICK a, L : a = Absent /\ L = NoLinks
    OBVIOUS
  <2>2. a \in Shipment /\ a.links = L
    BY <2>1, AbsentSheet DEF Absent
  <2>3. [a EXCEPT !.status = "created"] = [a EXCEPT !.status = "created", !.links = L]
    BY ONLY <2>2 DEF Shipment
  <2> QED
    BY <2>1, <2>3 DEF Bare
<1>2. PICK v : v = Bare(NoLinks)
  OBVIOUS
<1>3. /\ shipment[s] = Absent /\ Unlocked(s) /\ shipment' = [shipment EXCEPT ![s] = v]
      /\ UNCHANGED <<pending, answered>>
  BY <1>1, <1>2 DEF CreateBare
<1>4. v \in Shipment /\ v.order = NoOrder /\ Stood(Absent, v)
  BY <1>2, BareStood, NothingRead
<1> QED
  BY <1>3, <1>4, PutPapers

\* as does making one of the held packages,
LEMMA PreparePapers ==
  ASSUME Papers, GoodsType, Within, NEW s \in Shipments, NEW S, prepare_shipment(s, S)
  PROVE  Papers' /\ Standing
<1>1. PICK L : L = [p \in Packages |-> IF p \in S THEN remaining_quantity(p) ELSE 0]
  OBVIOUS
<1>2. L \in [Packages -> Nat]
  BY <1>1, Quantities
<1>3. PICK v : v = Bare(L)
  OBVIOUS
<1>4. /\ shipment[s] = Absent /\ Unlocked(s) /\ shipment' = [shipment EXCEPT ![s] = v]
      /\ UNCHANGED <<pending, answered>>
  BY <1>1, <1>3 DEF prepare_shipment, Bare
<1>5. v \in Shipment /\ v.order = NoOrder /\ Stood(Absent, v)
  BY <1>2, <1>3, BareStood
<1> QED
  BY <1>4, <1>5, PutPapers

\* and posting a manual shipment after it has gone.
LEMMA AmountPapers ==
  ASSUME Papers, NEW s \in Shipments, review_shipment_amount(s)
  PROVE  Papers' /\ Standing
<1>1. /\ Gone(s) /\ Unlocked(s) /\ shipment' = [shipment EXCEPT ![s].posted = TRUE]
      /\ UNCHANGED <<pending, answered>>
  BY DEF review_shipment_amount
<1>2. PICK v : v = [shipment[s] EXCEPT !.posted = TRUE]
  OBVIOUS
<1>3. shipment[s] \in Shipment
  BY SheetFields DEF Papers
<1>4. /\ v \in Shipment /\ v.order = shipment[s].order /\ v.status = shipment[s].status
      /\ v.links = shipment[s].links /\ v.scanned = shipment[s].scanned
      /\ v.selected = shipment[s].selected /\ v.pick = shipment[s].pick
  BY ONLY <1>2, <1>3 DEF Shipment
<1>5. Stood(shipment[s], v)
  BY <1>4 DEF Stood, Sound
<1>6. shipment' = [shipment EXCEPT ![s] = v]
  BY <1>1, <1>2 DEF Papers, DocumentType
<1> QED
  BY <1>1, <1>4, <1>5, <1>6, PutPapers DEF Gone, GoneStatuses, Live

-----------------------------------------------------------------------------
(* Slow requests end                                                       *)

\* The clerk c is done, and its shipment s has the sheet sh.
LEMMA EndPapers ==
  ASSUME Papers, NEW c \in Clerks, NEW s \in Shipments, s = pending[c].shipment, pending[c] # Nothing,
         NEW sh \in Shipment, Finish(c), shipment' = [shipment EXCEPT ![s] = sh],
         Stood(shipment[s], sh),
         \/ Live(s) /\ sh.order = shipment[s].order
         \/ pending[c].kind = "create" /\ sh.order = pending[c].order,
         \/ answered' = answered
         \/ answered' = answered \cup {<<"deliver", s>>} /\ sh.status = "delivered"
  PROVE  Papers' /\ Standing
<1>1. DocumentType /\ Locks /\ OneShipmentPerOrder /\ AnswersStand
  BY DEF Papers
<1>2. shipment'[s] = sh /\ \A x \in Shipments \ {s} : shipment'[x] = shipment[x]
  BY <1>1 DEF DocumentType
<1>3. Standing
  BY <1>1, <1>2, OneSheet, FinishWaiting
<1>4. DocumentType'
  <2>1. pending' \in [Clerks -> Reading]
    BY <1>1, NothingRead DEF DocumentType, Finish
  <2>2. answered' \in SUBSET ({"ship", "deliver"} \X Shipments)
    BY <1>1 DEF DocumentType
  <2> QED
    BY <1>1, <2>1, <2>2 DEF DocumentType
<1>5. Locks'
  BY <1>1, <1>2, LocksEnd
<1>6. pending[c].kind = "create" =>
        \A x \in Shipments : Live(x) => shipment[x].order # pending[c].order
  BY <1>1 DEF Locks, Right
<1>7. OneShipmentPerOrder'
  BY <1>1, <1>2, <1>6, OrdersStand
<1>8. AnswersStand'
  BY <1>1, <1>2, <1>3, AnswersKept
<1> QED
  BY <1>3, <1>4, <1>5, <1>7, <1>8 DEF Papers

\* A create writes the order's first live shipment: the order has been locked.
LEMMA CreatePapers ==
  ASSUME Papers, NEW c \in Clerks, create_shipment(c)
  PROVE  Papers' /\ Standing
<1>1. PICK s, o, L : s = pending[c].shipment /\ o = pending[c].order /\ L = pending[c].found
  OBVIOUS
<1>2. pending[c].kind = "create" /\ pending[c] # Nothing
  BY NothingRead DEF create_shipment
<1>3. s \in Shipments /\ shipment[s] = Absent /\ o \in Orders /\ L \in [Packages -> Nat]
  BY <1>1, <1>2, PendingFields DEF Papers, Locks, Right
<1>4. PICK v : v = [Absent EXCEPT !.status = "created", !.order = o, !.links = L]
  OBVIOUS
<1>5. /\ v \in Shipment /\ v.order = o /\ v.status = "created" /\ v.scanned = {}
      /\ v.selected = {} /\ v.pick = NoPick
  BY <1>3, <1>4, AbsentSheet DEF Shipment
<1>6. Sound(v)
  <2>1. \A r \in Rows : NoPick[r] = 0
    BY DEF NoPick
  <2> QED
    BY <1>5, <2>1 DEF Sound
<1>7. Stood(shipment[s], v)
  BY <1>3, <1>5, <1>6, AbsentSheet DEF Stood, GoneStatuses
<1>8. shipment' = [shipment EXCEPT ![s] = v] /\ Finish(c) /\ answered' = answered
  BY <1>1, <1>4 DEF create_shipment
<1> QED
  BY <1>1, <1>2, <1>3, <1>5, <1>7, <1>8, EndPapers

\* An add writes to a live shipment, which it has locked.
LEMMA ExtendPapers ==
  ASSUME Papers, NEW c \in Clerks, pending[c].kind \in {"add", "addReady"}, Finish(c), answered' = answered,
         shipment' = [shipment EXCEPT ![pending[c].shipment].links =
                        [p \in Packages |-> @[p] + pending[c].found[p]]]
  PROVE  Papers' /\ Standing
<1>1. PICK s : s = pending[c].shipment
  OBVIOUS
<1>2. pending[c] # Nothing
  BY NothingRead
<1>3. s \in Shipments /\ Live(s) /\ pending[c].found \in [Packages -> Nat]
  BY <1>1, <1>2, PendingFields DEF Papers, Locks, Right
<1>4. /\ shipment[s] \in Shipment /\ shipment[s].links \in [Packages -> Nat]
      /\ shipment[s].scanned \subseteq Packages /\ shipment[s].selected \subseteq Packages
      /\ shipment \in [Shipments -> Shipment]
  BY <1>3, SheetFields DEF Papers, DocumentType
<1>5. PICK L : L = [p \in Packages |-> shipment[s].links[p] + pending[c].found[p]]
  OBVIOUS
<1>6. L \in [Packages -> Nat] /\ \A p \in Packages : shipment[s].links[p] > 0 => L[p] > 0
  BY <1>3, <1>4, <1>5
<1>7. PICK v : v = [shipment[s] EXCEPT !.links = L]
  OBVIOUS
<1>8. /\ v \in Shipment /\ v.order = shipment[s].order /\ v.status = shipment[s].status
      /\ v.links = L /\ v.scanned = shipment[s].scanned
      /\ v.selected = shipment[s].selected /\ v.pick = shipment[s].pick
  BY ONLY <1>4, <1>6, <1>7 DEF Shipment
<1>9. Sound(shipment[s]) => Sound(v)
  BY <1>4, <1>6, <1>8 DEF Sound
<1>10. Stood(shipment[s], v)
  BY <1>6, <1>8, <1>9 DEF Stood
<1>11. shipment' = [shipment EXCEPT ![s] = v]
  BY <1>1, <1>3, <1>4, <1>5, <1>7
<1> QED
  BY <1>1, <1>2, <1>3, <1>8, <1>10, <1>11, EndPapers

\* A delivery is of a shipment still shipped: nobody could return it meanwhile.
LEMMA DeliverPapers ==
  ASSUME Papers, NEW c \in Clerks, deliver(c)
  PROVE  Papers' /\ Standing
<1>1. PICK s : s = pending[c].shipment
  OBVIOUS
<1>2. /\ pending[c].kind = "deliver" /\ Finish(c) /\ answered' = answered \cup {<<"deliver", s>>}
      /\ shipment' = [shipment EXCEPT ![s].status = "delivered"]
  BY <1>1 DEF deliver
<1>3. pending[c] # Nothing
  BY <1>2, NothingRead
<1>4. s \in Shipments /\ shipment[s].status = "shipped"
  BY <1>1, <1>2, <1>3 DEF Papers, Locks, Right
<1>5. shipment[s] \in Shipment /\ shipment \in [Shipments -> Shipment]
  BY <1>4, SheetFields DEF Papers, DocumentType
<1>6. PICK v : v = [shipment[s] EXCEPT !.status = "delivered"]
  OBVIOUS
<1>7. /\ v \in Shipment /\ v.order = shipment[s].order /\ v.status = "delivered"
      /\ v.links = shipment[s].links /\ v.scanned = shipment[s].scanned
      /\ v.selected = shipment[s].selected /\ v.pick = shipment[s].pick
  BY ONLY <1>5, <1>6 DEF Shipment
<1>8. Stood(shipment[s], v)
  BY <1>4, <1>7 DEF Stood, GoneStatuses, Sound
<1>9. shipment' = [shipment EXCEPT ![s] = v]
  BY <1>2, <1>4, <1>5, <1>6
<1>10. Live(s)
  BY <1>4 DEF Live
<1> QED
  BY <1>1, <1>2, <1>3, <1>4, <1>7, <1>8, <1>9, <1>10, EndPapers

\* A failed request gives up its locks.
LEMMA AbortPapers ==
  ASSUME Papers, NEW c \in Clerks, Abort(c)
  PROVE  Papers' /\ Standing
<1>1. PICK s : s = pending[c].shipment
  OBVIOUS
<1>2. pending[c] # Nothing /\ Finish(c) /\ UNCHANGED <<shipment, answered>>
  BY DEF Abort
<1>3. s \in Shipments /\ DocumentType /\ Locks
  BY <1>1, <1>2 DEF Papers, Locks
<1>4. DocumentType'
  BY <1>2, <1>3, NothingRead DEF DocumentType, Finish
<1>5. Locks'
  BY <1>1, <1>2, <1>3, LocksEnd DEF Live
<1>6. Standing
  BY <1>2, <1>3, SameStood, FinishWaiting DEF Standing
<1>7. OneShipmentPerOrder' /\ AnswersStand'
  BY <1>2 DEF Papers, Live, OneShipmentPerOrder, AnswersStand, Gone
<1> QED
  BY <1>4, <1>5, <1>6, <1>7 DEF Papers

-----------------------------------------------------------------------------
(***************************************************************************)
(* Turns.  Dispatch and return: a live shipment that nobody holds goes or  *)
(* comes back, and every other sheet stays.                                *)
(***************************************************************************)
Turned(s, sh) ==
  /\ Live(s) /\ Unlocked(s) /\ sh \in Shipment /\ shipment' = [shipment EXCEPT ![s] = sh]
  /\ sh.order = shipment[s].order /\ sh.links = shipment[s].links /\ sh.scanned = shipment[s].scanned
  /\ sh.status \in {"created", "shipped"} /\ (Sound(shipment[s]) => Sound(sh))
  /\ UNCHANGED pending

\* A dispatch or a return keeps the papers when the answers about its shipment are right.
LEMMA TurnPapers ==
  ASSUME Papers, NEW s \in Shipments, NEW sh, Turned(s, sh),
         \A a \in answered' : \/ a \in answered /\ a[2] # s
                              \/ a = <<"ship", s>> /\ sh.status = "shipped"
  PROVE  Papers'
<1>1. DocumentType /\ Locks /\ OneShipmentPerOrder /\ AnswersStand
  BY DEF Papers
<1>2. shipment'[s] = sh /\ \A x \in Shipments \ {s} : shipment'[x] = shipment[x]
  BY <1>1 DEF DocumentType, Turned
<1>3. DocumentType'
  <2>1. answered' \in SUBSET ({"ship", "deliver"} \X Shipments)
    BY <1>1 DEF DocumentType
  <2> QED
    BY <1>1, <2>1 DEF DocumentType, Turned
<1>4. Locks'
  BY <1>1, <1>2, LocksStand DEF Turned
<1>5. OneShipmentPerOrder'
  BY <1>1, <1>2, OrdersStand DEF Turned
<1>6. AnswersStand'
  <2>1. ASSUME NEW a \in answered'
        PROVE  IF a[1] = "ship" THEN Gone(a[2])' ELSE shipment'[a[2]].status = "delivered"
    <3>1. CASE a \in answered /\ a[2] # s
      <4>1. a[2] \in Shipments \ {s}
        BY <1>1, <3>1 DEF DocumentType
      <4>2. shipment'[a[2]] = shipment[a[2]]
        BY <1>2, <4>1
      <4>3. IF a[1] = "ship" THEN Gone(a[2]) ELSE shipment[a[2]].status = "delivered"
        BY <1>1, <3>1 DEF AnswersStand
      <4> QED
        BY <4>2, <4>3 DEF Gone
    <3>2. CASE a = <<"ship", s>> /\ sh.status = "shipped"
      BY <1>2, <3>2 DEF Gone, GoneStatuses
    <3> QED
      BY <2>1, <3>1, <3>2
  <2> QED
    BY <2>1 DEF AnswersStand
<1> QED
  BY <1>3, <1>4, <1>5, <1>6 DEF Papers

\* The sheet of a shipment that goes.
Dispatched(s, posted) ==
  [shipment[s] EXCEPT !.status = "shipped", !.posted = posted, !.selected = @ \cup Pieces(s),
     !.pick = [r \in Rows |-> IF PackageOf[r] \in Pieces(s) THEN selected_items(s, r)
                              ELSE shipment[s].pick[r]]]

\* The fields of the dispatched sheet.
LEMMA DispatchedSheet ==
  ASSUME GoodsType, DocumentType, Within, NEW s \in Shipments, NEW posted \in BOOLEAN
  PROVE  /\ Dispatched(s, posted) \in Shipment /\ Dispatched(s, posted).status = "shipped"
         /\ Dispatched(s, posted).order = shipment[s].order
         /\ Dispatched(s, posted).links = shipment[s].links
         /\ Dispatched(s, posted).scanned = shipment[s].scanned
         /\ Dispatched(s, posted).selected = shipment[s].selected \cup Pieces(s)
         /\ \A r \in Rows : Dispatched(s, posted).pick[r] =
              IF PackageOf[r] \in Pieces(s) THEN selected_items(s, r) ELSE shipment[s].pick[r]
<1>1. PICK v : v = Dispatched(s, posted)
  OBVIOUS
<1>2. PICK K : K = [r \in Rows |-> IF PackageOf[r] \in Pieces(s) THEN selected_items(s, r)
                                   ELSE shipment[s].pick[r]]
  OBVIOUS
<1>3. PICK D : D = shipment[s].selected \cup Pieces(s)
  OBVIOUS
<1>4. shipment[s] \in Shipment /\ shipment[s].pick \in [Rows -> Nat] /\ shipment[s].selected \subseteq Packages
  BY SheetFields
<1>5. K \in [Rows -> Nat] /\ D \subseteq Packages
  BY <1>2, <1>3, <1>4, SelectedIsCount DEF Pieces
<1>6. v = [shipment[s] EXCEPT !.status = "shipped", !.posted = posted, !.selected = D, !.pick = K]
  BY <1>1, <1>2, <1>3 DEF Dispatched
<1>7. /\ v \in Shipment /\ v.order = shipment[s].order /\ v.status = "shipped"
      /\ v.links = shipment[s].links /\ v.scanned = shipment[s].scanned
      /\ v.selected = D /\ v.pick = K
  BY ONLY <1>4, <1>5, <1>6, posted \in BOOLEAN DEF Shipment
<1> QED
  BY <1>1, <1>2, <1>3, <1>7

\* A dispatch is a turn of an open shipment whose packages are all verified.
LEMMA ShipTurns ==
  ASSUME GoodsType, DocumentType, Within, NEW s \in Shipments, NEW posted \in BOOLEAN,
         _ship_verified_packages(s, posted)
  PROVE  /\ Open(s) /\ Turned(s, Dispatched(s, posted))
         /\ answered' = answered \cup {<<"ship", s>>}
         /\ \A p \in Packages : Attached(s, p) => Verified(s, p)
         /\ \A p \in Pieces(s) : Selectable(s, p)
<1> DEFINE attached == {p \in Packages : Attached(s, p)}
           pieces == {p \in attached : ByPieces(s, p)}
           sh == shipment[s]
<1>1. /\ Open(s) /\ Unlocked(s) /\ UNCHANGED pending
      /\ \A p \in attached : Verified(s, p)
      /\ \A p \in pieces : Selectable(s, p)
      /\ shipment' = [shipment EXCEPT ![s] =
          [sh EXCEPT !.status = "shipped", !.posted = posted, !.selected = @ \cup pieces,
                     !.pick = [r \in Rows |-> IF PackageOf[r] \in pieces THEN selected_items(s, r) ELSE @[r]]]]
      /\ answered' = answered \cup {<<"ship", s>>}
  BY DEF _ship_verified_packages
<1>2. pieces = Pieces(s)
  BY DEF Pieces
<1>3. shipment' = [shipment EXCEPT ![s] = Dispatched(s, posted)]
  BY <1>1, <1>2 DEF Dispatched
<1>4. PICK v : v = Dispatched(s, posted)
  OBVIOUS
<1>5. /\ v \in Shipment /\ v.status = "shipped" /\ v.order = shipment[s].order
      /\ v.links = shipment[s].links /\ v.scanned = shipment[s].scanned
      /\ v.selected = shipment[s].selected \cup Pieces(s)
      /\ \A r \in Rows : v.pick[r] =
           IF PackageOf[r] \in Pieces(s) THEN selected_items(s, r) ELSE shipment[s].pick[r]
  BY <1>4, DispatchedSheet
<1>6. \A p \in Pieces(s) : p \in shipment[s].scanned /\ shipment[s].links[p] > 0
  BY <1>1 DEF Pieces, Verified, Attached
<1>7. Sound(shipment[s]) => Sound(v)
  BY <1>5, <1>6 DEF Sound
<1>8. Turned(s, v)
  BY <1>1, <1>3, <1>4, <1>5, <1>7 DEF Turned, Open, Live
<1> QED
  BY <1>1, <1>2, <1>4, <1>8

\* A dispatch keeps the papers: no answer about an open shipment is remembered.
LEMMA ShipPapers ==
  ASSUME GoodsType, Papers, Within, NEW s \in Shipments, NEW posted \in BOOLEAN,
         _ship_verified_packages(s, posted)
  PROVE  Papers'
<1>1. DocumentType /\ AnswersStand
  BY DEF Papers
<1>2. Open(s) /\ Turned(s, Dispatched(s, posted)) /\ answered' = answered \cup {<<"ship", s>>}
  BY <1>1, ShipTurns
<1>3. \A a \in answered : a[2] # s
  BY <1>1, <1>2 DEF AnswersStand, Open, Gone, GoneStatuses
<1>4. Dispatched(s, posted).status = "shipped"
  BY <1>1, DispatchedSheet
<1> QED
  BY <1>2, <1>3, <1>4, TurnPapers

\* The sheet of a shipment that comes back.
Reopened(s) == [shipment[s] EXCEPT !.status = "created", !.posted = FALSE]

\* The fields of the reopened sheet.
LEMMA ReopenedSheet ==
  ASSUME DocumentType, NEW s \in Shipments
  PROVE  /\ Reopened(s) \in Shipment /\ Reopened(s).status = "created"
         /\ Reopened(s).order = shipment[s].order /\ Reopened(s).links = shipment[s].links
         /\ Reopened(s).scanned = shipment[s].scanned /\ Reopened(s).selected = shipment[s].selected
         /\ Reopened(s).pick = shipment[s].pick
<1>1. PICK v : v = Reopened(s)
  OBVIOUS
<1>2. shipment[s] \in Shipment
  BY SheetFields
<1>3. v = [shipment[s] EXCEPT !.status = "created", !.posted = FALSE]
  BY <1>1 DEF Reopened
<1>4. /\ v \in Shipment /\ v.order = shipment[s].order /\ v.status = "created"
      /\ v.links = shipment[s].links /\ v.scanned = shipment[s].scanned
      /\ v.selected = shipment[s].selected /\ v.pick = shipment[s].pick
  BY ONLY <1>2, <1>3 DEF Shipment
<1> QED
  BY <1>1, <1>4

\* A return is a turn of a gone shipment, and its answers are forgotten.
LEMMA ReopenTurns ==
  ASSUME DocumentType, NEW s \in Shipments, reopen_shipment(s)
  PROVE  /\ Gone(s) /\ Turned(s, Reopened(s)) /\ answered' = Remembered(s)
         /\ \A p \in Packages : Attached(s, p) => Returnable(s, p)
<1> DEFINE attached == {p \in Packages : Attached(s, p)}
<1>1. /\ Gone(s) /\ Unlocked(s) /\ UNCHANGED pending /\ answered' = Remembered(s)
      /\ \A p \in attached : Returnable(s, p)
      /\ shipment' = [shipment EXCEPT ![s] = [shipment[s] EXCEPT !.status = "created", !.posted = FALSE]]
  BY DEF reopen_shipment
<1>2. shipment' = [shipment EXCEPT ![s] = Reopened(s)]
  BY <1>1 DEF Reopened
<1>3. PICK v : v = Reopened(s)
  OBVIOUS
<1>4. /\ v \in Shipment /\ v.order = shipment[s].order /\ v.status = "created"
      /\ v.links = shipment[s].links /\ v.scanned = shipment[s].scanned
      /\ v.selected = shipment[s].selected /\ v.pick = shipment[s].pick
  BY <1>3, ReopenedSheet
<1>5. Turned(s, v)
  BY <1>1, <1>2, <1>3, <1>4 DEF Turned, Sound, Gone, GoneStatuses, Live
<1> QED
  BY <1>1, <1>3, <1>5

\* A return keeps the papers.
LEMMA ReopenPapers ==
  ASSUME Papers, NEW s \in Shipments, reopen_shipment(s)
  PROVE  Papers'
<1>1. Turned(s, Reopened(s)) /\ answered' = Remembered(s)
  BY ReopenTurns DEF Papers
<1> QED
  BY <1>1, TurnPapers DEF Remembered

-----------------------------------------------------------------------------
(***************************************************************************)
(* Ordinary steps: all but dispatch and return.  Of the goods they change  *)
(* reservations, labels, holds, a corrected count or one package that      *)
(* leaves through its own endpoint.                                        *)
(***************************************************************************)
\* The order gives up pieces that are reserved.
Fits(old) == \A r \in Kept : old[r] <= stock[r].reserved

\* A package that has gone stays gone.
GoneStays == \A p \in Packages : status[p] \in GoneStatuses => status'[p] \in GoneStatuses

StatusKeeps ==
  StatusStep /\ GoneStays /\ \A p \in Packages : status[p] = "reserved" => status'[p] = "reserved"

Ordinary ==
  \/ LabelStep
  \/ \E o \in Orders : \E old, new : ShiftStep(o, old, new) /\ Fits(old)
  \/ \E S \in SUBSET Packages : reserve_for_customer(S) \/ _release(S)
  \/ \E p \in Packages : ship_package(p)
  \/ StatusKeeps
  \/ \E s \in Shipments, p \in Packages : \E quantities \in Counts(p) : correct_received_quantity(s, p, quantities)

\* Two tables, the second nowhere above the first.
LEMMA SumSurplus ==
  ASSUME NEW S, IsFiniteSet(S), NEW f \in [S -> Nat], NEW g \in [S -> Nat], \A x \in S : g[x] <= f[x]
  PROVE  SumOf(f) - SumOf(g) > 0 <=> \E x \in S : g[x] < f[x]
<1> DEFINE h == [x \in S |-> f[x] - g[x]]
<1>1. h \in [S -> Nat] /\ \A x \in S : h[x] = f[x] - g[x] /\ f[x] = g[x] + h[x]
  OBVIOUS
<1> HIDE DEF h
<1>2. SumOf(f) = SumOf(g) + SumOf(h)
  BY <1>1, SumAdds
<1>3. SumOf(f) \in Nat /\ SumOf(g) \in Nat /\ SumOf(h) \in Nat
  BY <1>1, UnitsFinite
<1>4. ASSUME NEW x \in S, g[x] < f[x] PROVE SumOf(f) - SumOf(g) > 0
  <2>1. h[x] <= SumOf(h) /\ h[x] = f[x] - g[x] /\ h[x] \in Nat
    BY <1>1, SumHolds
  <2>2. f[x] \in Nat /\ g[x] \in Nat
    OBVIOUS
  <2> QED
    BY ONLY <1>2, <1>3, <1>4, <2>1, <2>2
<1>5. ASSUME \A x \in S : ~(g[x] < f[x]) PROVE ~(SumOf(f) - SumOf(g) > 0)
  <2>1. \A x \in S : h[x] = 0
    BY <1>1, <1>5
  <2>2. SumOf(h) = 0
    BY <1>1, <2>1, SumZero
  <2> QED
    BY ONLY <1>2, <1>3, <2>2
<1> QED
  BY <1>4, <1>5

\* Pieces of a package remain when some row has not gone entirely.
LEMMA RemainsRow ==
  ASSUME GoodsType, Within, NEW p
  PROVE  remaining_quantity(p) > 0 <=> \E r \in RowsOf(p) : dispatched[r] < stock[r].quantity
<1> DEFINE f == [r \in RowsOf(p) |-> stock[r].quantity]
           g == [r \in RowsOf(p) |-> dispatched[r]]
<1>1. RowsOf(p) \in SUBSET Rows /\ IsFiniteSet(RowsOf(p))
  BY RowsFinite
<1>2. f \in [RowsOf(p) -> Nat] /\ g \in [RowsOf(p) -> Nat]
      /\ \A r \in RowsOf(p) : g[r] <= f[r] /\ f[r] = stock[r].quantity /\ g[r] = dispatched[r]
  BY <1>1, RowFields DEF Within
<1>3. remaining_quantity(p) = SumOf(f) - SumOf(g)
  BY DEF Contents, remaining_quantity
<1> HIDE DEF f, g
<1>4. remaining_quantity(p) > 0 <=> \E r \in RowsOf(p) : g[r] < f[r]
  BY <1>1, <1>2, <1>3, SumSurplus
<1> QED
  BY <1>2, <1>4

\* Filled, told by the rows.
Remaining ==
  \A p \in Packages : RowsOf(p) # {} =>
    /\ \E r \in RowsOf(p) : stock[r].quantity > 0
    /\ status[p] \notin GoneStatuses => \E r \in RowsOf(p) : dispatched[r] < stock[r].quantity

\* The two forms of Filled agree.
LEMMA RemainingIsFilled == ASSUME GoodsType, Within PROVE Filled <=> Remaining
<1>1. \A p \in Packages : remaining_quantity(p) > 0 <=> \E r \in RowsOf(p) : dispatched[r] < stock[r].quantity
  BY RemainsRow
<1> QED
  BY <1>1 DEF Filled, Remaining

\* A step that changes no count keeps the packages filled.
LEMMA RemainingKeeps ==
  ASSUME Remaining, GoneStays, UNCHANGED dispatched, \A r \in Rows : stock'[r].quantity = stock[r].quantity
  PROVE  Remaining'
<1>1. ASSUME NEW p \in Packages, RowsOf(p) # {}
      PROVE  /\ \E r \in RowsOf(p) : stock'[r].quantity > 0
             /\ status'[p] \notin GoneStatuses => \E r \in RowsOf(p) : dispatched'[r] < stock'[r].quantity
  BY <1>1 DEF Remaining, GoneStays, RowsOf
<1> QED
  BY <1>1 DEF Remaining, RowsOf

\* Relabelling brings no package back.
LEMMA RelabelledStays == ASSUME GoodsType, Relabelled PROVE GoneStays
  BY DEF Relabelled, GoneStays, ReadyStatuses, GoneStatuses

\* What every ordinary step leaves as it was.
LEMMA OrdinaryGoods ==
  ASSUME GoodsType, DocumentType, Within, Ordinary
  PROVE  (GoodsType /\ Within)' /\ GoneStays /\ UNCHANGED dispatched /\ direct \subseteq direct'
<1>1. CASE LabelStep
  BY <1>1, LabelGoods, RelabelledStays DEF LabelStep
<1>2. CASE \E o \in Orders : \E old, new : ShiftStep(o, old, new) /\ Fits(old)
  BY <1>2, ShiftGoods, RelabelledStays DEF ShiftStep
<1>3. CASE \E S \in SUBSET Packages : reserve_for_customer(S) \/ _release(S)
  <2>1. PICK S \in SUBSET Packages : reserve_for_customer(S) \/ _release(S)
    BY <1>3
  <2>2. CASE reserve_for_customer(S)
    <3>1. /\ \A p \in S : status[p] = "received_in_storage"
          /\ status' = [p \in Packages |-> IF p \in S THEN "reserved" ELSE status[p]]
          /\ UNCHANGED <<dispatched, direct>>
      BY <2>2 DEF reserve_for_customer
    <3>2. GoneStays
      BY <3>1 DEF GoneStays, GoneStatuses
    <3> QED
      BY <2>2, <3>1, <3>2, ReserveGoods
  <2>3. CASE _release(S)
    <3>1. /\ \A p \in S : status[p] = "reserved"
          /\ status' = [p \in Packages |-> IF p \in S THEN "received_in_storage" ELSE status[p]]
          /\ UNCHANGED <<dispatched, direct>>
      BY <2>3 DEF _release
    <3>2. GoneStays
      BY <3>1 DEF GoneStays, GoneStatuses
    <3> QED
      BY <2>3, <3>1, <3>2, ReleaseGoods
  <2> QED
    BY <2>1, <2>2, <2>3
<1>4. CASE \E p \in Packages : ship_package(p)
  <2>1. PICK p \in Packages : ship_package(p)
    BY <1>4
  <2>2. status' = [status EXCEPT ![p] = "shipped"] /\ direct' = direct \cup {p} /\ UNCHANGED dispatched
    BY <2>1 DEF ship_package
  <2>3. GoneStays
    BY <2>2 DEF GoneStays, GoneStatuses, GoodsType
  <2> QED
    BY <2>1, <2>2, <2>3, DirectGoods
<1>5. CASE StatusKeeps
  BY <1>5, StatusGoods DEF StatusKeeps, StatusStep
<1>6. CASE \E s \in Shipments, p \in Packages : \E quantities \in Counts(p) :
             correct_received_quantity(s, p, quantities)
  <2>1. PICK s \in Shipments, p \in Packages : \E quantities \in Counts(p) :
             correct_received_quantity(s, p, quantities)
    BY <1>6
  <2>2. PICK quantities \in Counts(p) : correct_received_quantity(s, p, quantities)
    BY <2>1
  <2>3. shipment[s].order \in Orders \cup {NoOrder}
    BY SheetFields
  <2>4. (GoodsType /\ Within)'
    BY <2>2, <2>3, CorrectGoods
  <2>5. UNCHANGED <<status, dispatched, direct>>
    BY <2>2 DEF correct_received_quantity
  <2> QED
    BY <2>4, <2>5 DEF GoneStays
<1> QED
  BY <1>1, <1>2, <1>3, <1>4, <1>5, <1>6 DEF Ordinary

\* A corrected package has pieces again.
LEMMA CorrectRemaining ==
  ASSUME GoodsType, DocumentType, Remaining, NEW s \in Shipments, NEW p \in Packages,
         NEW quantities \in Counts(p), correct_received_quantity(s, p, quantities)
  PROVE  Remaining'
<1>1. quantities \in [Rows -> Nat] /\ \A r \in Rows : PackageOf[r] # p => quantities[r] = 0
  BY ReadyStockAssumption DEF Counts
<1>2. SumOf(quantities) > 0 /\ UNCHANGED <<status, dispatched>>
  BY DEF correct_received_quantity
<1>3. \E r \in RowsOf(p) : quantities[r] > 0
  <2>1. SUFFICES ASSUME \A r \in RowsOf(p) : ~(quantities[r] > 0) PROVE FALSE
    OBVIOUS
  <2>2. \A r \in Rows : quantities[r] = 0
    BY <1>1, <2>1 DEF RowsOf
  <2>3. SumOf(quantities) = 0
    BY <1>1, <2>2, SumZero, ReadyStockAssumption
  <2> QED
    BY <1>2, <2>3
<1>4. shipment[s].order \in Orders \cup {NoOrder}
  BY SheetFields
<1>5. \A r \in Rows : IF PackageOf[r] # p THEN stock'[r] = stock[r]
                      ELSE stock'[r].quantity = quantities[r] /\ dispatched[r] = 0
  BY <1>4, CorrectRows
<1>6. ASSUME NEW q \in Packages, RowsOf(q) # {}
      PROVE  /\ \E r \in RowsOf(q) : stock'[r].quantity > 0
             /\ status'[q] \notin GoneStatuses => \E r \in RowsOf(q) : dispatched'[r] < stock'[r].quantity
  <2>1. CASE q = p
    <3>1. PICK r \in RowsOf(p) : quantities[r] > 0
      BY <1>3
    <3>2. r \in Rows /\ stock'[r].quantity = quantities[r] /\ dispatched'[r] = 0
      BY <1>2, <1>5 DEF RowsOf
    <3> QED
      BY <2>1, <3>1, <3>2
  <2>2. CASE q # p
    <3>1. \A r \in RowsOf(q) : stock'[r] = stock[r] /\ dispatched'[r] = dispatched[r]
      BY <1>2, <1>5, <2>2 DEF RowsOf
    <3> QED
      BY <1>2, <1>6, <3>1 DEF Remaining
  <2> QED
    BY <2>1, <2>2
<1> QED
  BY <1>6 DEF Remaining, RowsOf

\* Only a correction changes what a row was received with.
LEMMA OrdinaryQuantities ==
  ASSUME GoodsType, Ordinary
  PROVE  \/ \A r \in Rows : stock'[r].quantity = stock[r].quantity
         \/ \E s \in Shipments, p \in Packages : \E quantities \in Counts(p) :
              correct_received_quantity(s, p, quantities)
<1>1. ASSUME NEW o \in Orders, NEW old, NEW new, ShiftStep(o, old, new), NEW r \in Rows
      PROVE  stock'[r].quantity = stock[r].quantity
  BY <1>1, ShiftFields DEF ShiftStep
<1>2. ASSUME NEW S \in SUBSET Packages, reserve_for_customer(S), NEW r \in Rows
      PROVE  stock'[r].quantity = stock[r].quantity
  <2>1. \/ stock'[r] = [stock[r] EXCEPT !.available = 0, !.reserved = stock[r].quantity - stock[r].sold]
        \/ stock'[r] = stock[r]
    BY <1>2 DEF reserve_for_customer
  <2> QED
    BY <2>1, RowFields DEF StockRow
<1>3. ASSUME NEW S \in SUBSET Packages, _release(S), NEW r \in Rows
      PROVE  stock'[r].quantity = stock[r].quantity
  <2>1. \/ stock'[r] = [stock[r] EXCEPT !.available = stock[r].quantity - stock[r].sold, !.reserved = 0]
        \/ stock'[r] = stock[r]
    BY <1>3 DEF _release
  <2> QED
    BY <2>1, RowFields DEF StockRow
<1>4. ASSUME NEW p \in Packages, ship_package(p), NEW r \in Rows
      PROVE  stock'[r].quantity = stock[r].quantity
  <2>1. stock'[r] = decrement_finished_goods_for_package(stock[r]) \/ stock'[r] = stock[r]
    BY <1>4 DEF ship_package
  <2> QED
    BY <2>1, RowFields, Decremented
<1> QED
  BY <1>1, <1>2, <1>3, <1>4 DEF Ordinary, LabelStep, StatusKeeps, StatusStep

\* Ordinary steps keep the packages filled.
LEMMA OrdinaryFilled ==
  ASSUME GoodsType, DocumentType, Within, Filled, Ordinary
  PROVE  Filled'
<1>1. Remaining
  BY RemainingIsFilled
<1>2. GoneStays /\ UNCHANGED dispatched /\ (GoodsType /\ Within)'
  BY OrdinaryGoods
<1>3. Remaining'
  BY <1>1, <1>2, OrdinaryQuantities, RemainingKeeps, CorrectRemaining
<1>4. (GoodsType /\ Within => (Filled <=> Remaining))'
  BY RemainingIsFilled, PTL
<1> QED
  BY <1>2, <1>3, <1>4

-----------------------------------------------------------------------------
(* What the gone shipments sent *)

\* Every delivery under way has read packages that went with its shipment.
Delivering == \A c \in Clerks : Arrives(pending[c])

\* Sheets that stand stay sound.
LEMMA MarksStand == ASSUME Marks, Standing PROVE Marks'
  BY DEF Marks, Standing, Stood

\* A delivery under way relies on a shipment that stays shipped, and on packages that stay gone.
LEMMA DeliveringKeeps ==
  ASSUME Locks', Delivering, Standing, GoneStays
  PROVE  Delivering'
<1>1. ASSUME NEW c \in Clerks, pending'[c].kind = "deliver", NEW p \in Packages, pending'[c].found[p] > 0
      PROVE  shipment'[pending'[c].shipment].links[p] > 0 /\ status'[p] \in GoneStatuses
  <2>1. PICK s : s = pending'[c].shipment
    OBVIOUS
  <2>2. s \in Shipments /\ shipment'[s].status = "shipped"
    BY <1>1, <2>1, NothingRead DEF Locks, Right
  <2>3. Stood(shipment[s], shipment'[s])
    BY <2>2 DEF Standing
  <2>4. shipment[s].status \in GoneStatuses
    BY <2>2, <2>3 DEF Stood, GoneStatuses
  <2>5. Arrives(pending'[c])
    BY <1>1, NothingRead DEF Standing, Waiting, Delivering
  <2>6. shipment[s].links[p] > 0 /\ status[p] \in GoneStatuses
    BY <1>1, <2>1, <2>5 DEF Arrives, Attached
  <2> QED
    BY <2>1, <2>3, <2>4, <2>6 DEF Stood, GoneStays
<1> QED
  BY <1>1 DEF Delivering, Arrives, Attached

\* The pieces that gone shipments picked of the row.
Picked(r) == [s \in Shipments |-> IF Gone(s) THEN shipment[s].pick[r] ELSE 0]
Sent(r) == [s \in Shipments |-> SentBy(s, r)]

\* What the shipments picked of a row is a table of counts,
LEMMA PickedCounts ==
  ASSUME DocumentType, NEW r \in Rows
  PROVE  Picked(r) \in [Shipments -> Nat] /\ IsFiniteSet(Shipments)
<1>1. \A s \in Shipments : shipment[s].pick[r] \in Nat
  BY SheetFields
<1> QED
  BY <1>1, ReadyStockAssumption DEF Picked

\* and so is what they sent.
LEMMA SentCounts ==
  ASSUME GoodsType, DocumentType, NEW r \in Rows
  PROVE  Sent(r) \in [Shipments -> Nat] /\ IsFiniteSet(Shipments)
<1>1. \A s \in Shipments : shipment[s].pick[r] \in Nat
  BY SheetFields
<1>2. stock[r].quantity \in Nat
  BY RowFields
<1> QED
  BY <1>1, <1>2, ReadyStockAssumption DEF Sent, SentBy

\* The picks of gone shipments stand, so a package counts the same as dispatched.
LEMMA StandingPicked ==
  ASSUME Standing, UNCHANGED dispatched, DispatchedAccounted
  PROVE  DispatchedAccounted'
<1>1. ASSUME NEW r \in Rows, NEW s \in Shipments
      PROVE  (IF Gone(s) THEN shipment[s].pick[r] ELSE 0)' = IF Gone(s) THEN shipment[s].pick[r] ELSE 0
  BY DEF Standing, Stood, Gone
<1>2. \A r \in Rows : [s \in Shipments |-> (IF Gone(s) THEN shipment[s].pick[r] ELSE 0)']
                        = [s \in Shipments |-> IF Gone(s) THEN shipment[s].pick[r] ELSE 0]
  BY <1>1
<1> QED
  BY <1>2 DEF DispatchedAccounted

\* A shipment that went sends the same, unless the count of the row is corrected.
LEMMA StandingSent ==
  ASSUME Standing, NEW r \in Rows, NEW s \in Shipments,
         \/ stock'[r].quantity = stock[r].quantity
         \/ PackageOf[r] \notin shipment[s].scanned
  PROVE  SentBy(s, r)' = SentBy(s, r)
<1>1. /\ shipment'[s].status \in GoneStatuses <=> shipment[s].status \in GoneStatuses
      /\ shipment[s].status \in GoneStatuses =>
           /\ shipment'[s].scanned = shipment[s].scanned /\ shipment'[s].selected = shipment[s].selected
           /\ shipment'[s].pick = shipment[s].pick
  BY DEF Standing, Stood
<1> QED
  BY <1>1 DEF SentBy, Gone

\* Only the package leaving through its own endpoint changes what is sold of its rows.
LEMMA OrdinarySold ==
  ASSUME GoodsType, DocumentType, Ordinary, NEW r \in Rows, PackageOf[r] \notin direct'
  PROVE  stock'[r].sold = stock[r].sold
<1>1. ASSUME NEW o \in Orders, NEW old, NEW new, ShiftStep(o, old, new)
      PROVE  stock'[r].sold = stock[r].sold
  BY <1>1, ShiftFields DEF ShiftStep
<1>2. ASSUME NEW S \in SUBSET Packages, reserve_for_customer(S)
      PROVE  stock'[r].sold = stock[r].sold
  <2>1. \/ stock'[r] = [stock[r] EXCEPT !.available = 0, !.reserved = stock[r].quantity - stock[r].sold]
        \/ stock'[r] = stock[r]
    BY <1>2 DEF reserve_for_customer
  <2> QED
    BY <2>1, RowFields DEF StockRow
<1>3. ASSUME NEW S \in SUBSET Packages, _release(S)
      PROVE  stock'[r].sold = stock[r].sold
  <2>1. \/ stock'[r] = [stock[r] EXCEPT !.available = stock[r].quantity - stock[r].sold, !.reserved = 0]
        \/ stock'[r] = stock[r]
    BY <1>3 DEF _release
  <2> QED
    BY <2>1, RowFields DEF StockRow
<1>4. ASSUME NEW p \in Packages, ship_package(p)
      PROVE  stock'[r].sold = stock[r].sold
  BY <1>4 DEF ship_package
<1>5. ASSUME NEW s \in Shipments, NEW p \in Packages, NEW quantities \in Counts(p),
             correct_received_quantity(s, p, quantities)
      PROVE  stock'[r].sold = stock[r].sold
  <2>1. shipment[s].order \in Orders \cup {NoOrder}
    BY SheetFields
  <2>2. IF PackageOf[r] # p THEN stock'[r] = stock[r] ELSE stock[r].sold = 0 /\ stock'[r].sold = 0
    BY <1>5, <2>1, CorrectRows
  <2> QED
    BY <2>2
<1> QED
  BY <1>1, <1>2, <1>3, <1>4, <1>5 DEF Ordinary, LabelStep, StatusKeeps, StatusStep

\* A package whose count is corrected is in the scans of no shipment that has gone.
LEMMA CorrectedUnsent ==
  ASSUME DocumentType, Marks, NEW s \in Shipments, NEW p \in Packages, NEW quantities \in Counts(p),
         correct_received_quantity(s, p, quantities), NEW x \in Shipments, Gone(x), NEW r \in RowsOf(p)
  PROVE  p \notin shipment[x].scanned
<1>1. Open(s) /\ \A y \in Shipments \ {s} : ~Attached(y, p)
  BY DEF correct_received_quantity
<1>2. x # s
  BY <1>1 DEF Open, Gone, GoneStatuses
<1>3. ~(shipment[x].links[p] > 0) /\ RowsOf(p) # {}
  BY <1>1, <1>2 DEF Attached
<1>4. Sound(shipment[x])
  BY DEF Marks
<1> QED
  BY <1>3, <1>4 DEF Sound

\* After an ordinary step the sold pieces are still those the gone shipments sent.
LEMMA OrdinarySent ==
  ASSUME GoodsType, DocumentType, Marks, Standing, Ordinary, direct \subseteq direct', SoldAccounted
  PROVE  SoldAccounted'
<1>1. ASSUME NEW r \in Rows, PackageOf[r] \notin direct', NEW s \in Shipments
      PROVE  SentBy(s, r)' = SentBy(s, r)
  <2>1. CASE stock'[r].quantity = stock[r].quantity
    BY <2>1, StandingSent
  <2>2. CASE stock'[r].quantity # stock[r].quantity
    <3>1. PICK z \in Shipments, p \in Packages : \E quantities \in Counts(p) :
            correct_received_quantity(z, p, quantities)
      BY <2>2, OrdinaryQuantities
    <3>2. PICK quantities \in Counts(p) : correct_received_quantity(z, p, quantities)
      BY <3>1
    <3>3. shipment[z].order \in Orders \cup {NoOrder}
      BY SheetFields
    <3>4. PackageOf[r] = p /\ r \in RowsOf(p)
      BY <2>2, <3>2, <3>3, CorrectRows DEF RowsOf
    <3>5. CASE Gone(s)
      BY <3>2, <3>4, <3>5, CorrectedUnsent, StandingSent
    <3>6. CASE ~Gone(s)
      BY <3>6 DEF SentBy, Gone, Standing, Stood
    <3> QED
      BY <3>5, <3>6
  <2> QED
    BY <2>1, <2>2
<1>2. ASSUME NEW r \in Kept' PROVE stock'[r].sold = SumOf([s \in Shipments |-> SentBy(s, r)'])
  <2>1. r \in Kept /\ r \in Rows /\ PackageOf[r] \notin direct'
    BY DEF Kept
  <2>2. [s \in Shipments |-> SentBy(s, r)'] = [s \in Shipments |-> SentBy(s, r)]
    BY <1>1, <2>1
  <2>3. stock'[r].sold = stock[r].sold
    BY <2>1, OrdinarySold
  <2> QED
    BY <2>1, <2>2, <2>3 DEF SoldAccounted
<1> QED
  BY <1>2 DEF SoldAccounted

-----------------------------------------------------------------------------
(***************************************************************************)
(* The ledger of a row: its pieces are in one place each, the reserved     *)
(* ones are claimed or held, and the evidence on a row sold out is that of *)
(* an order whose shipment took it.                                        *)
(***************************************************************************)
Balance(r) == stock[r].quantity = stock[r].available + stock[r].reserved + stock[r].sold
Owed(r) ==
  stock[r].sold < stock[r].quantity =>
    stock[r].reserved = (IF hold[PackageOf[r]] > 0 THEN stock[r].quantity - stock[r].sold ELSE 0)
                          + Claimed(r)
Proven(r) ==
  \A o \in Orders : stock[r].sold = stock[r].quantity /\ claim[o][r] > 0 =>
    \E x \in Shipments : Gone(x) /\ shipment[x].order = o /\ Attached(x, PackageOf[r])

Ledger == \A r \in Kept : Balance(r) /\ Owed(r) /\ Proven(r)

\* A held package is labelled, whole, and nobody else's.
Keeps(p) ==
  hold[p] > 0 =>
    /\ status[p] = "reserved" /\ ~HasClaim(p)
    /\ \E r \in RowsOf(p) : stock[r].sold < stock[r].quantity
    /\ \A r \in RowsOf(p) : stock[r].available = 0 /\ stock[r].reserved = stock[r].quantity - stock[r].sold

Held == \A p \in Packages : Keeps(p)

\* The shipments that prove the evidence are still there.
LEMMA ProofStands ==
  ASSUME Standing, NEW o, NEW p \in Packages,
         \E x \in Shipments : Gone(x) /\ shipment[x].order = o /\ Attached(x, p)
  PROVE  \E x \in Shipments : Gone(x)' /\ shipment'[x].order = o /\ Attached(x, p)'
<1>1. PICK x \in Shipments : Gone(x) /\ shipment[x].order = o /\ Attached(x, p)
  OBVIOUS
<1>2. Stood(shipment[x], shipment'[x])
  BY DEF Standing
<1> QED
  BY <1>1, <1>2 DEF Stood, Gone, Attached

\* A row the step leaves alone.
LEMMA RowStands ==
  ASSUME GoodsType, NEW r \in Rows, stock'[r] = stock[r], \A o \in Orders : claim'[o][r] = claim[o][r],
         hold'[PackageOf[r]] = hold[PackageOf[r]], Standing, Balance(r), Owed(r), Proven(r)
  PROVE  Balance(r)' /\ Owed(r)' /\ Proven(r)'
<1>1. [o \in Orders |-> claim'[o][r]] = [o \in Orders |-> claim[o][r]]
  OBVIOUS
<1>2. Claimed(r)' = Claimed(r)
  BY <1>1 DEF Claimed
<1>3. ASSUME NEW o \in Orders, stock'[r].sold = stock'[r].quantity, claim'[o][r] > 0
      PROVE  \E x \in Shipments : Gone(x)' /\ shipment'[x].order = o /\ Attached(x, PackageOf[r])'
  <2>1. \E x \in Shipments : Gone(x) /\ shipment[x].order = o /\ Attached(x, PackageOf[r])
    BY <1>3 DEF Proven
  <2> QED
    BY <2>1, ProofStands, RowFields
<1>4. Proven(r)'
  BY <1>3 DEF Proven
<1> QED
  BY <1>2, <1>4 DEF Balance, Owed

\* A hold that the step leaves alone.
LEMMA KeepsStands ==
  ASSUME NEW p \in Packages, hold'[p] = hold[p], status[p] = "reserved" => status'[p] = "reserved",
         \A r \in RowsOf(p) : stock'[r] = stock[r] /\ \A o \in Orders : claim'[o][r] = claim[o][r],
         Keeps(p)
  PROVE  Keeps(p)'
<1>1. \A r \in RowsOf(p)' : r \in RowsOf(p)
  BY DEF RowsOf
<1>2. HasClaim(p)' => HasClaim(p)
  BY <1>1 DEF HasClaim
<1> QED
  BY <1>1, <1>2 DEF Keeps, RowsOf

\* What a shift does to the claims of a row.
LEMMA ShiftClaimed ==
  ASSUME GoodsType, NEW o, NEW old, NEW new, Shift(o, old, new), NEW r \in Rows
  PROVE  Claimed(r)' = Claimed(r) - old[r] + new[r]
<1> DEFINE f == [x \in Orders |-> claim[x][r]]
           g == [x \in Orders |-> claim'[x][r]]
<1>1. o \in Orders /\ old[r] \in Nat /\ new[r] \in Nat /\ old[r] <= claim[o][r]
  BY DEF Shift
<1>2. claim'[o][r] = claim[o][r] - old[r] + new[r] /\ \A x \in Orders \ {o} : claim'[x][r] = claim[x][r]
  BY ShiftFields
<1>3. f \in [Orders -> Nat] /\ \A x \in Orders : f[x] = claim[x][r]
  BY RowFields
<1>4. g \in [Orders -> Nat] /\ \A x \in Orders : g[x] = claim'[x][r]
  BY <1>1, <1>2, RowFields
<1>5. Claimed(r) = SumOf(f) /\ Claimed(r)' = SumOf(g)
  BY DEF Claimed
<1> HIDE DEF f, g
<1>6. \A x \in Orders : x # o => g[x] = f[x]
  BY <1>2, <1>3, <1>4
<1>7. SumOf(g) + f[o] = SumOf(f) + g[o]
  BY <1>1, <1>3, <1>4, <1>6, SumReplaced, ReadyStockAssumption
<1>8. SumOf(f) \in Nat /\ SumOf(g) \in Nat
  BY <1>3, <1>4, UnitsFinite, ReadyStockAssumption
<1>9. PICK c \in Nat, d \in Nat, m \in Nat, n \in Nat :
        c = claim[o][r] /\ d = claim'[o][r] /\ m = old[r] /\ n = new[r]
  BY <1>1, <1>3, <1>4
<1>10. d = c - m + n /\ SumOf(g) + c = SumOf(f) + d
  BY <1>1, <1>2, <1>3, <1>4, <1>7, <1>9
<1>11. SumOf(g) = SumOf(f) - m + n
  BY ONLY <1>8, <1>9, <1>10
<1> QED
  BY <1>5, <1>9, <1>11

\* A shift that fits moves pieces between available and reserved, and the claims with them.
\* On a row sold out it adds no claim: nothing is available there.
LEMMA ShiftLedgerRow ==
  ASSUME GoodsType, NEW o, NEW old, NEW new, ShiftStep(o, old, new), Fits(old), Standing,
         NEW r \in Kept, Balance(r), Owed(r), Proven(r)
  PROVE  Balance(r)' /\ Owed(r)' /\ Proven(r)'
<1>1. r \in Rows /\ Shift(o, old, new) /\ UNCHANGED hold
  BY DEF Kept, ShiftStep
<1>2. /\ stock'[r].quantity = stock[r].quantity /\ stock'[r].sold = stock[r].sold
      /\ stock'[r].available = stock[r].available + old[r] - new[r]
      /\ stock'[r].reserved = Greatest(0, stock[r].reserved - old[r]) + new[r]
      /\ claim'[o][r] = claim[o][r] - old[r] + new[r]
      /\ \A x \in Orders \ {o} : claim'[x][r] = claim[x][r]
  BY <1>1, ShiftFields
<1>3. Claimed(r)' = Claimed(r) - old[r] + new[r]
  BY <1>1, ShiftClaimed
<1>4. /\ old[r] \in Nat /\ new[r] \in Nat /\ old[r] <= claim[o][r] /\ new[r] <= stock[r].available
      /\ old[r] <= stock[r].reserved /\ o \in Orders
  BY <1>1 DEF Shift, Fits
<1>5. /\ stock[r].quantity \in Nat /\ stock[r].available \in Nat /\ stock[r].reserved \in Nat
      /\ stock[r].sold \in Nat /\ Claimed(r) \in Nat /\ \A x \in Orders : claim[x][r] \in Nat
  BY <1>1, RowFields, ClaimedHolds
<1>6. stock'[r].reserved = stock[r].reserved - old[r] + new[r]
  BY <1>2, <1>4, <1>5 DEF Greatest
<1>7. Balance(r)'
  BY <1>2, <1>4, <1>5, <1>6 DEF Balance
<1>8. Owed(r)'
  <2>1. PICK h : h = IF hold[PackageOf[r]] > 0 THEN stock[r].quantity - stock[r].sold ELSE 0
    OBVIOUS
  <2>2. h \in Int
    BY <1>5, <2>1
  <2>3. stock[r].sold < stock[r].quantity => stock[r].reserved = h + Claimed(r)
    BY <2>1 DEF Owed
  <2>4. stock'[r].sold < stock'[r].quantity => stock'[r].reserved = h + Claimed(r)'
    BY <1>2, <1>3, <1>4, <1>5, <1>6, <2>2, <2>3
  <2> QED
    BY <1>1, <1>2, <2>1, <2>4 DEF Owed
<1>9. ASSUME NEW x \in Orders, stock'[r].sold = stock'[r].quantity, claim'[x][r] > 0
      PROVE  \E y \in Shipments : Gone(y)' /\ shipment'[y].order = x /\ Attached(y, PackageOf[r])'
  <2>1. stock[r].sold = stock[r].quantity
    BY <1>2, <1>9
  <2>2. new[r] = 0
    BY <1>4, <1>5, <2>1 DEF Balance
  <2>3. claim[x][r] > 0
    BY <1>2, <1>4, <1>5, <1>9, <2>2
  <2>4. \E y \in Shipments : Gone(y) /\ shipment[y].order = x /\ Attached(y, PackageOf[r])
    BY <2>1, <2>3 DEF Proven
  <2> QED
    BY <1>1, <2>4, ProofStands, RowFields
<1>10. Proven(r)'
  BY <1>9 DEF Proven
<1> QED
  BY <1>7, <1>8, <1>10

\* A shift leaves held packages alone: nothing of them is available or claimed.
LEMMA ShiftKeeps ==
  ASSUME GoodsType, NEW o, NEW old, NEW new, ShiftStep(o, old, new), NEW p \in Packages, Keeps(p)
  PROVE  Keeps(p)'
<1>1. Shift(o, old, new) /\ Relabelled /\ UNCHANGED hold
  BY DEF ShiftStep
<1>2. CASE ~(hold[p] > 0)
  BY <1>1, <1>2 DEF Keeps
<1>3. CASE hold[p] > 0
  <2>1. /\ status[p] = "reserved" /\ ~HasClaim(p)
        /\ \E r \in RowsOf(p) : stock[r].sold < stock[r].quantity
        /\ \A r \in RowsOf(p) : stock[r].available = 0 /\ stock[r].reserved = stock[r].quantity - stock[r].sold
    BY <1>3 DEF Keeps
  <2>2. ASSUME NEW r \in RowsOf(p)
        PROVE  stock'[r] = stock[r] /\ \A x \in Orders : claim'[x][r] = claim[x][r]
    <3>1. r \in Rows /\ o \in Orders /\ old[r] \in Nat /\ new[r] \in Nat
          /\ old[r] <= claim[o][r] /\ new[r] <= stock[r].available
      BY <1>1 DEF Shift, RowsOf
    <3>2. claim[o][r] = 0
      BY <2>1, <3>1, RowFields DEF HasClaim
    <3>3. old[r] = 0 /\ new[r] = 0
      BY <2>1, <3>1, <3>2
    <3>4. stock'[r] = stock[r] /\ claim'[o][r] = claim[o][r] - old[r] + new[r]
          /\ \A x \in Orders \ {o} : claim'[x][r] = claim[x][r]
      BY <1>1, <3>1, <3>3, ShiftFields
    <3> QED
      BY <3>2, <3>3, <3>4
  <2>3. PICK r \in RowsOf(p) : stock[r].sold < stock[r].quantity
    BY <2>1
  <2>4. stock'[r].reserved # 0
    <3>1. stock[r].sold \in Nat /\ stock[r].quantity \in Nat
      BY RowFields DEF RowsOf
    <3> QED
      BY <2>1, <2>2, <2>3, <3>1
  <2>5. status'[p] = "reserved"
    BY <1>1, <2>1, <2>3, <2>4 DEF Relabelled
  <2> QED
    BY <1>1, <2>2, <2>5, KeepsStands
<1> QED
  BY <1>2, <1>3

\* Without a claim the claims add up to nothing.
LEMMA NoClaimed ==
  ASSUME GoodsType, NEW r \in Rows, \A o \in Orders : ~(claim[o][r] > 0)
  PROVE  Claimed(r) = 0
<1> DEFINE f == [o \in Orders |-> claim[o][r]]
<1>1. f \in [Orders -> Nat] /\ \A o \in Orders : f[o] = 0
  BY RowFields
<1>2. Claimed(r) = SumOf(f)
  BY DEF Claimed
<1> HIDE DEF f
<1> QED
  BY <1>1, <1>2, SumZero, ReadyStockAssumption

\* A package of which pieces remain, sold as dispatched, has a row that is not sold out.
LEMMA UnsoldRow ==
  ASSUME GoodsType, NEW p \in Packages, SoldAsDispatched(p), remaining_quantity(p) > 0,
         \A r \in RowsOf(p) : stock[r].sold <= stock[r].quantity
  PROVE  \E r \in RowsOf(p) : stock[r].sold < stock[r].quantity
<1> DEFINE f == [r \in RowsOf(p) |-> stock[r].quantity]
           g == [r \in RowsOf(p) |-> stock[r].sold]
<1>1. RowsOf(p) \in SUBSET Rows /\ IsFiniteSet(RowsOf(p))
  BY RowsFinite
<1>2. f \in [RowsOf(p) -> Nat] /\ g \in [RowsOf(p) -> Nat]
      /\ \A r \in RowsOf(p) : g[r] <= f[r] /\ f[r] = stock[r].quantity /\ g[r] = stock[r].sold
  BY <1>1, RowFields
<1>3. SumOf(f) - SumOf(g) > 0
  BY DEF Contents, remaining_quantity, SoldAsDispatched
<1> HIDE DEF f, g
<1>4. \E r \in RowsOf(p) : g[r] < f[r]
  BY <1>1, <1>2, <1>3, SumSurplus
<1> QED
  BY <1>2, <1>4

\* A customer's hold takes all that is left of the package.
LEMMA HoldRow ==
  ASSUME GoodsType, NEW S \in SUBSET Packages, reserve_for_customer(S), NEW r \in Rows, PackageOf[r] \in S
  PROVE  /\ stock'[r].quantity = stock[r].quantity /\ stock'[r].sold = stock[r].sold
         /\ stock'[r].available = 0 /\ stock'[r].reserved = stock[r].quantity - stock[r].sold
         /\ stock[r].sold <= stock[r].quantity
         /\ \A o \in Orders : ~(claim[o][r] > 0)
         /\ hold'[PackageOf[r]] > 0 /\ hold'[PackageOf[r]] = remaining_quantity(PackageOf[r])
<1>1. /\ Untouched(PackageOf[r]) /\ ~HasClaim(PackageOf[r])
      /\ stock'[r] = [stock[r] EXCEPT !.available = 0, !.reserved = stock[r].quantity - stock[r].sold]
      /\ hold'[PackageOf[r]] = remaining_quantity(PackageOf[r])
  BY RowFields DEF reserve_for_customer
<1>2. r \in RowsOf(PackageOf[r])
  BY DEF RowsOf
<1>3. /\ stock[r].available = stock[r].quantity - stock[r].sold
      /\ remaining_quantity(PackageOf[r]) > 0 /\ \A o \in Orders : ~(claim[o][r] > 0)
  BY <1>1, <1>2 DEF Untouched, HasClaim
<1>4. /\ stock[r] \in StockRow /\ stock[r].available \in Nat
      /\ stock[r].quantity \in Nat /\ stock[r].sold \in Nat
  BY RowFields
<1>5. PICK a, b : a = 0 /\ b = stock[r].quantity - stock[r].sold
  OBVIOUS
<1>6. stock'[r] = [stock[r] EXCEPT !.available = a, !.reserved = b]
  BY <1>1, <1>5
<1>7. /\ stock'[r].quantity = stock[r].quantity /\ stock'[r].sold = stock[r].sold
      /\ stock'[r].available = a /\ stock'[r].reserved = b
  BY ONLY <1>4, <1>6 DEF StockRow
<1> QED
  BY <1>1, <1>3, <1>4, <1>5, <1>7

\* A hold reserves what is not sold of a row nobody claims.
LEMMA HoldLedgerRow ==
  ASSUME GoodsType, NEW S \in SUBSET Packages, reserve_for_customer(S), Standing,
         NEW r \in Kept, Balance(r), Owed(r), Proven(r)
  PROVE  Balance(r)' /\ Owed(r)' /\ Proven(r)'
<1>1. r \in Rows /\ UNCHANGED claim /\ PackageOf[r] \in Packages
  BY RowFields DEF Kept, reserve_for_customer
<1>2. CASE PackageOf[r] \notin S
  <2>1. stock'[r] = stock[r] /\ hold'[PackageOf[r]] = hold[PackageOf[r]]
    BY <1>1, <1>2 DEF reserve_for_customer
  <2> QED
    BY <1>1, <2>1, RowStands
<1>3. CASE PackageOf[r] \in S
  <2>1. /\ stock'[r].quantity = stock[r].quantity /\ stock'[r].sold = stock[r].sold
        /\ stock'[r].available = 0 /\ stock'[r].reserved = stock[r].quantity - stock[r].sold
        /\ hold'[PackageOf[r]] > 0 /\ \A o \in Orders : ~(claim[o][r] > 0)
    BY <1>1, <1>3, HoldRow
  <2>2. Claimed(r)' = 0
    BY <1>1, <2>1, NoClaimed DEF Claimed
  <2>3. stock[r].quantity \in Nat /\ stock[r].sold \in Nat
    BY <1>1, RowFields
  <2>4. Balance(r)'
    BY <2>1, <2>3 DEF Balance
  <2>5. Owed(r)'
    BY <2>1, <2>2, <2>3 DEF Owed
  <2>6. Proven(r)'
    BY <1>1, <2>1 DEF Proven
  <2> QED
    BY <2>4, <2>5, <2>6
<1> QED
  BY <1>2, <1>3

\* After a hold the packages are held.
LEMMA HoldKeeps ==
  ASSUME GoodsType, Within, NEW S \in SUBSET Packages, reserve_for_customer(S), NEW p \in Packages, Keeps(p)
  PROVE  Keeps(p)'
<1>1. /\ UNCHANGED claim /\ \A q \in S : Untouched(q) /\ ~HasClaim(q)
      /\ \A r \in Rows : PackageOf[r] \notin S => stock'[r] = stock[r]
      /\ hold' = [q \in Packages |-> IF q \in S THEN remaining_quantity(q) ELSE hold[q]]
      /\ status' = [q \in Packages |-> IF q \in S THEN "reserved" ELSE status[q]]
  BY DEF reserve_for_customer
<1>2. CASE p \notin S
  <2>1. hold'[p] = hold[p] /\ status'[p] = status[p]
    BY <1>1, <1>2
  <2>2. \A r \in RowsOf(p) : stock'[r] = stock[r] /\ \A o \in Orders : claim'[o][r] = claim[o][r]
    BY <1>1, <1>2 DEF RowsOf
  <2> QED
    BY <2>1, <2>2, KeepsStands
<1>3. CASE p \in S
  <2>1. \A r \in RowsOf(p) :
          /\ stock'[r].quantity = stock[r].quantity /\ stock'[r].sold = stock[r].sold
          /\ stock'[r].available = 0 /\ stock'[r].reserved = stock[r].quantity - stock[r].sold
          /\ stock[r].sold <= stock[r].quantity
    <3>1. \A r \in RowsOf(p) : r \in Rows /\ PackageOf[r] \in S
      BY <1>3 DEF RowsOf
    <3> QED
      BY <3>1, HoldRow
  <2>2. SoldAsDispatched(p) /\ remaining_quantity(p) > 0 /\ ~HasClaim(p)
    BY <1>1, <1>3 DEF Untouched
  <2>3. \E r \in RowsOf(p) : stock[r].sold < stock[r].quantity
    BY <2>1, <2>2, UnsoldRow
  <2>4. ~HasClaim(p)' /\ status'[p] = "reserved"
    BY <1>1, <1>3, <2>2 DEF HasClaim, RowsOf
  <2> QED
    BY <2>1, <2>3, <2>4 DEF Keeps, RowsOf
<1> QED
  BY <1>2, <1>3

\* A released hold gives back all that is left of the package.
LEMMA UnholdLedgerRow ==
  ASSUME GoodsType, NEW S \in SUBSET Packages, _release(S), Standing,
         NEW r \in Kept, Balance(r), Owed(r), Proven(r)
  PROVE  Balance(r)' /\ Owed(r)' /\ Proven(r)'
<1>1. r \in Rows /\ UNCHANGED claim /\ PackageOf[r] \in Packages /\ r \in RowsOf(PackageOf[r])
  BY RowFields DEF Kept, _release, RowsOf
<1>2. CASE PackageOf[r] \notin S
  <2>1. stock'[r] = stock[r] /\ hold'[PackageOf[r]] = hold[PackageOf[r]]
    BY <1>1, <1>2 DEF _release
  <2> QED
    BY <1>1, <2>1, RowStands
<1>3. CASE PackageOf[r] \in S
  <2>1. /\ ~HasClaim(PackageOf[r]) /\ stock[r].reserved = stock[r].quantity - stock[r].sold
        /\ stock'[r] = [stock[r] EXCEPT !.available = stock[r].quantity - stock[r].sold, !.reserved = 0]
        /\ hold'[PackageOf[r]] = 0
    BY <1>1, <1>3 DEF _release
  <2>2. stock[r] \in StockRow /\ stock[r].quantity \in Nat /\ stock[r].sold \in Nat
    BY <1>1, RowFields
  <2>3. PICK a, b : a = stock[r].quantity - stock[r].sold /\ b = 0
    OBVIOUS
  <2>4. stock'[r] = [stock[r] EXCEPT !.available = a, !.reserved = b]
    BY <2>1, <2>3
  <2>5. /\ stock'[r].quantity = stock[r].quantity /\ stock'[r].sold = stock[r].sold
        /\ stock'[r].available = a /\ stock'[r].reserved = b
    BY ONLY <2>2, <2>4 DEF StockRow
  <2>6. \A o \in Orders : ~(claim[o][r] > 0)
    BY <1>1, <2>1 DEF HasClaim
  <2>7. Claimed(r)' = 0
    BY <1>1, <2>6, NoClaimed DEF Claimed
  <2>8. Balance(r)'
    BY <2>2, <2>3, <2>5 DEF Balance
  <2>9. Owed(r)'
    BY <2>1, <2>2, <2>3, <2>5, <2>7 DEF Owed
  <2>10. Proven(r)'
    BY <1>1, <2>6 DEF Proven
  <2> QED
    BY <2>8, <2>9, <2>10
<1> QED
  BY <1>2, <1>3

\* Releasing a hold leaves the others.
LEMMA UnholdKeeps ==
  ASSUME NEW S \in SUBSET Packages, _release(S), NEW p \in Packages, Keeps(p)
  PROVE  Keeps(p)'
<1>1. /\ UNCHANGED claim
      /\ \A r \in Rows : PackageOf[r] \notin S => stock'[r] = stock[r]
      /\ hold' = [q \in Packages |-> IF q \in S THEN 0 ELSE hold[q]]
      /\ status' = [q \in Packages |-> IF q \in S THEN "received_in_storage" ELSE status[q]]
  BY DEF _release
<1>2. CASE p \notin S
  <2>1. hold'[p] = hold[p] /\ status'[p] = status[p]
    BY <1>1, <1>2
  <2>2. \A r \in RowsOf(p) : stock'[r] = stock[r] /\ \A o \in Orders : claim'[o][r] = claim[o][r]
    BY <1>1, <1>2 DEF RowsOf
  <2> QED
    BY <2>1, <2>2, KeepsStands
<1>3. CASE p \in S
  BY <1>1, <1>3 DEF Keeps
<1> QED
  BY <1>2, <1>3

\* A held package leaves through no endpoint of its own.
LEMMA DirectKeeps ==
  ASSUME NEW q \in Packages, ship_package(q), NEW p \in Packages, Keeps(p)
  PROVE  Keeps(p)'
<1>1. /\ hold[q] = 0 /\ UNCHANGED <<claim, hold>> /\ status' = [status EXCEPT ![q] = "shipped"]
      /\ \A r \in Rows : PackageOf[r] # q => stock'[r] = stock[r]
  BY DEF ship_package
<1>2. CASE p = q
  BY <1>1, <1>2 DEF Keeps
<1>3. CASE p # q
  <2>1. \A r \in RowsOf(p) : stock'[r] = stock[r] /\ \A o \in Orders : claim'[o][r] = claim[o][r]
    BY <1>1, <1>3 DEF RowsOf
  <2>2. hold'[p] = hold[p] /\ (status[p] = "reserved" => status'[p] = "reserved")
    BY <1>1, <1>3
  <2> QED
    BY <2>1, <2>2, KeepsStands
<1> QED
  BY <1>2, <1>3

\* A hold keeps its label.
LEMMA LabelKeeps ==
  ASSUME GoodsType, LabelStep, NEW p \in Packages, Keeps(p)
  PROVE  Keeps(p)'
<1>1. Relabelled /\ UNCHANGED <<dispatched, direct, stock, claim, hold>>
  BY DEF LabelStep
<1>2. CASE ~(hold[p] > 0)
  BY <1>1, <1>2 DEF Keeps
<1>3. CASE hold[p] > 0
  <2>1. PICK r \in RowsOf(p) : stock[r].sold < stock[r].quantity /\ stock[r].reserved = stock[r].quantity - stock[r].sold
    BY <1>3 DEF Keeps
  <2>2. stock[r].sold \in Nat /\ stock[r].quantity \in Nat
    BY RowFields DEF RowsOf
  <2>3. stock'[r].reserved # 0
    BY <1>1, <2>1, <2>2
  <2>4. status[p] = "reserved" => status'[p] = "reserved"
    BY <1>1, <2>1, <2>3 DEF Relabelled
  <2> QED
    BY <1>1, <2>4, KeepsStands DEF RowsOf
<1> QED
  BY <1>2, <1>3

\* A package whose reserved pieces are an order's is not held.
LEMMA CorrectUnheld ==
  ASSUME GoodsType, DocumentType, NEW s \in Shipments, NEW p \in Packages, NEW quantities \in Counts(p),
         correct_received_quantity(s, p, quantities), Keeps(p)
  PROVE  ~(hold[p] > 0)
<1>1. SUFFICES ASSUME hold[p] > 0 PROVE FALSE
  OBVIOUS
<1>2. PICK r \in RowsOf(p) : stock[r].sold < stock[r].quantity /\ stock[r].reserved = stock[r].quantity - stock[r].sold
  BY <1>1 DEF Keeps
<1>3. r \in Rows /\ PackageOf[r] = p /\ ~HasClaim(p)
  BY <1>1 DEF RowsOf, Keeps
<1>4. shipment[s].order \in Orders \cup {NoOrder}
  BY SheetFields
<1>5. stock[r].reserved = IF shipment[s].order = NoOrder THEN 0 ELSE claim[shipment[s].order][r]
  BY <1>3, <1>4, CorrectRows
<1>6. stock[r].sold \in Nat /\ stock[r].quantity \in Nat
  BY <1>3, RowFields
<1>7. stock[r].reserved > 0
  BY <1>2, <1>6
<1> QED
  BY <1>3, <1>4, <1>5, <1>7 DEF HasClaim

\* A corrected row balances, and its reserved pieces are the order's.
LEMMA CorrectLedgerRow ==
  ASSUME GoodsType, DocumentType, NEW s \in Shipments, NEW p \in Packages, NEW quantities \in Counts(p),
         correct_received_quantity(s, p, quantities), Held, Standing, (GoodsType)',
         NEW r \in Kept, Balance(r), Owed(r), Proven(r)
  PROVE  Balance(r)' /\ Owed(r)' /\ Proven(r)'
<1> DEFINE o == shipment[s].order
<1>1. r \in Rows /\ UNCHANGED hold /\ PackageOf[r] \in Packages
  BY RowFields DEF Kept, correct_received_quantity
<1>2. o \in Orders \cup {NoOrder}
  BY SheetFields
<1>3. IF PackageOf[r] # p
        THEN stock'[r] = stock[r] /\ \A x \in Orders : claim'[x][r] = claim[x][r]
        ELSE /\ stock'[r] \in StockRow /\ stock'[r].quantity = quantities[r] /\ stock'[r].sold = 0
             /\ quantities[r] = stock'[r].available + stock'[r].reserved
             /\ \A x \in Orders : claim'[x][r] = IF x = o THEN stock'[r].reserved ELSE 0
             /\ o = NoOrder => stock'[r].reserved = 0
  BY <1>1, <1>2, CorrectRows
<1> HIDE DEF o
<1>4. CASE PackageOf[r] # p
  <2>1. stock'[r] = stock[r] /\ \A x \in Orders : claim'[x][r] = claim[x][r]
    BY <1>3, <1>4
  <2> QED
    BY <1>1, <2>1, RowStands
<1>5. CASE PackageOf[r] = p
  <2>1. /\ stock'[r].quantity = quantities[r] /\ stock'[r].sold = 0
        /\ quantities[r] = stock'[r].available + stock'[r].reserved
        /\ o = NoOrder => stock'[r].reserved = 0
        /\ \A x \in Orders : claim'[x][r] = IF x = o THEN stock'[r].reserved ELSE 0
    BY <1>3, <1>5
  <2>2. stock'[r].available \in Nat /\ stock'[r].reserved \in Nat
    BY <1>3, <1>5 DEF StockRow
  <2>3. Claimed(r)' = stock'[r].reserved
    <3> DEFINE f == [x \in Orders |-> claim'[x][r]]
    <3>1. f \in [Orders -> Nat] /\ \A x \in Orders : f[x] = IF x = o THEN stock'[r].reserved ELSE 0
      BY <2>1, <2>2
    <3>2. Claimed(r)' = SumOf(f)
      BY DEF Claimed
    <3> HIDE DEF f
    <3>3. CASE o = NoOrder
      <4>1. \A x \in Orders : f[x] = 0
        BY <3>1, <3>3, ReadyStockAssumption
      <4>2. SumOf(f) = 0
        BY <3>1, <4>1, SumZero, ReadyStockAssumption
      <4> QED
        BY <2>1, <3>2, <3>3, <4>2
    <3>4. CASE o \in Orders
      <4>1. SumOf(f) = f[o]
        BY <3>1, <3>4, SumSingle, ReadyStockAssumption
      <4> QED
        BY <3>1, <3>2, <3>4, <4>1
    <3> QED
      BY <1>2, <3>3, <3>4
  <2>4. ~(hold'[PackageOf[r]] > 0)
    BY <1>1, <1>5, CorrectUnheld DEF Held
  <2>5. Balance(r)'
    BY <2>1, <2>2 DEF Balance
  <2>6. Owed(r)'
    <3>1. stock'[r].reserved = 0 + stock'[r].reserved
      BY <2>2
    <3>2. (IF hold'[PackageOf[r]] > 0 THEN stock'[r].quantity - stock'[r].sold ELSE 0) = 0
      BY <2>4
    <3> QED
      BY <2>3, <3>1, <3>2 DEF Owed
  <2>7. Proven(r)'
    <3>1. ASSUME NEW x \in Orders, stock'[r].sold = stock'[r].quantity PROVE ~(claim'[x][r] > 0)
      <4>1. stock'[r].reserved = 0
        BY <2>1, <2>2, <3>1
      <4> QED
        BY <2>1, <4>1
    <3> QED
      BY <3>1 DEF Proven
  <2> QED
    BY <2>5, <2>6, <2>7
<1> QED
  BY <1>4, <1>5

\* A correction leaves held packages alone.
LEMMA CorrectKeeps ==
  ASSUME GoodsType, DocumentType, NEW s \in Shipments, NEW q \in Packages, NEW quantities \in Counts(q),
         correct_received_quantity(s, q, quantities), Held, NEW p \in Packages
  PROVE  Keeps(p)'
<1>1. UNCHANGED <<status, hold>> /\ shipment[s].order \in Orders \cup {NoOrder} /\ Keeps(p)
  BY SheetFields DEF correct_received_quantity, Held
<1>2. CASE p = q
  BY <1>1, <1>2, CorrectUnheld DEF Keeps
<1>3. CASE p # q
  <2>1. \A r \in RowsOf(p) : r \in Rows /\ PackageOf[r] # q
    BY <1>3 DEF RowsOf
  <2>2. \A r \in RowsOf(p) : stock'[r] = stock[r] /\ \A o \in Orders : claim'[o][r] = claim[o][r]
    BY <1>1, <2>1, CorrectRows
  <2> QED
    BY <1>1, <2>2, KeepsStands
<1> QED
  BY <1>2, <1>3

\* Every ordinary step keeps the ledger of the rows and the holds.
LEMMA OrdinaryLedger ==
  ASSUME GoodsType, DocumentType, Within, Ordinary, Standing, Ledger, Held
  PROVE  Ledger' /\ Held'
<1>1. (GoodsType /\ Within)' /\ direct \subseteq direct'
  BY OrdinaryGoods
<1>2. ASSUME NEW r \in Kept'
      PROVE  r \in Kept /\ r \in Rows /\ PackageOf[r] \notin direct' /\ Balance(r) /\ Owed(r) /\ Proven(r)
  BY <1>1 DEF Kept, Ledger
<1>3. CASE LabelStep
  <2>1. ASSUME NEW r \in Kept' PROVE Balance(r)' /\ Owed(r)' /\ Proven(r)'
    BY <1>2, <1>3, RowStands DEF LabelStep
  <2> QED
    BY <1>3, <2>1, LabelKeeps DEF Ledger, Held
<1>4. CASE \E o \in Orders : \E old, new : ShiftStep(o, old, new) /\ Fits(old)
  <2>1. PICK o \in Orders : \E old, new : ShiftStep(o, old, new) /\ Fits(old)
    BY <1>4
  <2>2. PICK old, new : ShiftStep(o, old, new) /\ Fits(old)
    BY <2>1
  <2>3. ASSUME NEW r \in Kept' PROVE Balance(r)' /\ Owed(r)' /\ Proven(r)'
    BY <1>2, <2>2, ShiftLedgerRow
  <2> QED
    BY <2>2, <2>3, ShiftKeeps DEF Ledger, Held
<1>5. CASE \E S \in SUBSET Packages : reserve_for_customer(S) \/ _release(S)
  <2>1. PICK S \in SUBSET Packages : reserve_for_customer(S) \/ _release(S)
    BY <1>5
  <2>2. ASSUME NEW r \in Kept' PROVE Balance(r)' /\ Owed(r)' /\ Proven(r)'
    BY <1>2, <2>1, HoldLedgerRow, UnholdLedgerRow
  <2> QED
    BY <2>1, <2>2, HoldKeeps, UnholdKeeps DEF Ledger, Held
<1>6. CASE \E p \in Packages : ship_package(p)
  <2>1. PICK p \in Packages : ship_package(p)
    BY <1>6
  <2>2. ASSUME NEW r \in Kept' PROVE Balance(r)' /\ Owed(r)' /\ Proven(r)'
    <3>1. UNCHANGED <<claim, hold>> /\ stock'[r] = stock[r]
      BY <1>2, <2>1 DEF ship_package
    <3> QED
      BY <1>2, <3>1, RowStands
  <2> QED
    BY <2>1, <2>2, DirectKeeps DEF Ledger, Held
<1>7. CASE StatusKeeps
  <2>1. UNCHANGED <<stock, claim, hold>> /\ \A p \in Packages : status[p] = "reserved" => status'[p] = "reserved"
    BY <1>7 DEF StatusKeeps, StatusStep
  <2>2. ASSUME NEW r \in Kept' PROVE Balance(r)' /\ Owed(r)' /\ Proven(r)'
    BY <1>2, <2>1, RowStands
  <2>3. ASSUME NEW p \in Packages PROVE Keeps(p)'
    BY <2>1, KeepsStands DEF Held
  <2> QED
    BY <2>2, <2>3 DEF Ledger, Held
<1>8. CASE \E s \in Shipments, p \in Packages : \E quantities \in Counts(p) :
             correct_received_quantity(s, p, quantities)
  <2>1. PICK s \in Shipments, p \in Packages : \E quantities \in Counts(p) :
             correct_received_quantity(s, p, quantities)
    BY <1>8
  <2>2. PICK quantities \in Counts(p) : correct_received_quantity(s, p, quantities)
    BY <2>1
  <2>3. ASSUME NEW r \in Kept' PROVE Balance(r)' /\ Owed(r)' /\ Proven(r)'
    BY <1>1, <1>2, <2>2, CorrectLedgerRow
  <2> QED
    BY <2>2, <2>3, CorrectKeeps DEF Ledger, Held
<1> QED
  BY <1>3, <1>4, <1>5, <1>6, <1>7, <1>8 DEF Ordinary

-----------------------------------------------------------------------------
(* Dispatch *)

\* A turn changes one sheet.
LEMMA TurnedSheets ==
  ASSUME DocumentType, NEW s \in Shipments, NEW sh, Turned(s, sh)
  PROVE  shipment'[s] = sh /\ \A x \in Shipments \ {s} : shipment'[x] = shipment[x]
  BY DEF DocumentType, Turned

\* A turn keeps the sheets sound.
LEMMA TurnedMarks ==
  ASSUME DocumentType, Marks, NEW s \in Shipments, NEW sh, Turned(s, sh)
  PROVE  Marks'
<1>1. shipment'[s] = sh /\ \A x \in Shipments \ {s} : shipment'[x] = shipment[x]
  BY TurnedSheets
<1>2. Sound(shipment[s]) => Sound(sh)
  BY DEF Turned
<1> QED
  BY <1>1, <1>2 DEF Marks

\* A delivery under way holds another shipment.
LEMMA TurnedDelivering ==
  ASSUME DocumentType, Locks, Delivering, NEW s \in Shipments, NEW sh, Turned(s, sh),
         \A x \in Shipments \ {s}, p \in Packages :
           Live(x) /\ Attached(x, p) /\ status[p] \in GoneStatuses => status'[p] \in GoneStatuses
  PROVE  Delivering'
<1>1. ASSUME NEW c \in Clerks, pending[c].kind = "deliver", NEW p \in Packages, pending[c].found[p] > 0
      PROVE  shipment'[pending[c].shipment].links[p] > 0 /\ status'[p] \in GoneStatuses
  <2>1. PICK x : x = pending[c].shipment
    OBVIOUS
  <2>2. x \in Shipments /\ shipment[x].status = "shipped"
    BY <1>1, <2>1, NothingRead DEF Locks, Right
  <2>3. x # s
    BY <2>1 DEF Turned, Unlocked
  <2>4. Attached(x, p) /\ status[p] \in GoneStatuses
    BY <1>1, <2>1 DEF Delivering, Arrives
  <2>5. shipment'[x] = shipment[x] /\ Live(x)
    BY <2>2, <2>3, TurnedSheets DEF Live
  <2> QED
    BY <2>1, <2>2, <2>3, <2>4, <2>5 DEF Attached
<1>2. pending' = pending
  BY DEF Turned
<1> QED
  BY <1>1, <1>2 DEF Delivering, Arrives, Attached

\* What the dispatch of s needs and does, in terms of its packages.
LEMMA ShipStatus ==
  ASSUME NEW s \in Shipments, NEW posted \in BOOLEAN, _ship_verified_packages(s, posted)
  PROVE  /\ \A p \in Packages : Attached(s, p) =>
              p \in shipment[s].scanned /\ hold[p] = 0 /\ status[p] \in ReadyStatuses
         /\ \A p \in Packages : status'[p] =
              IF p \in Pieces(s)
                THEN IF remaining_quantity(p) > shipment[s].links[p] THEN "received_in_storage" ELSE "shipped"
                ELSE IF Attached(s, p) THEN "shipped" ELSE status[p]
         /\ UNCHANGED <<direct, hold>>
<1> DEFINE attached == {p \in Packages : Attached(s, p)}
           pieces == {p \in attached : ByPieces(s, p)}
<1>1. /\ \A p \in attached : Verified(s, p)
      /\ status' = [p \in Packages |->
           CASE p \in pieces -> IF remaining_quantity(p) > shipment[s].links[p]
                                  THEN "received_in_storage" ELSE "shipped"
             [] p \in attached \ pieces -> "shipped"
             [] OTHER -> status[p]]
      /\ UNCHANGED <<direct, hold>>
  BY DEF _ship_verified_packages
<1>2. pieces = Pieces(s) /\ \A p \in Packages : p \in attached <=> Attached(s, p)
  BY DEF Pieces
<1>3. pieces \subseteq attached
  OBVIOUS
<1> HIDE DEF pieces, attached
<1>4. \A p \in Packages : Attached(s, p) =>
        p \in shipment[s].scanned /\ hold[p] = 0 /\ status[p] \in ReadyStatuses
  BY <1>1, <1>2 DEF Verified
<1>5. ASSUME NEW p \in Packages
      PROVE  status'[p] =
              IF p \in pieces
                THEN IF remaining_quantity(p) > shipment[s].links[p] THEN "received_in_storage" ELSE "shipped"
                ELSE IF p \in attached THEN "shipped" ELSE status[p]
  <2>1. CASE p \in pieces
    BY <1>1, <2>1
  <2>2. CASE p \in attached \ pieces
    BY <1>1, <2>2
  <2>3. CASE p \notin attached
    BY <1>1, <1>3, <2>3
  <2> QED
    BY <2>1, <2>2, <2>3
<1> QED
  BY <1>1, <1>2, <1>4, <1>5

\* A dispatch sends only ready packages: what has gone stays gone.
LEMMA ShipStays ==
  ASSUME NEW s \in Shipments, NEW posted \in BOOLEAN, _ship_verified_packages(s, posted)
  PROVE  GoneStays
<1>1. \A p \in Packages : Attached(s, p) => status[p] \notin GoneStatuses
  BY ShipStatus DEF ReadyStatuses, GoneStatuses
<1>2. \A p \in Packages : p \in Pieces(s) => Attached(s, p)
  BY DEF Pieces
<1>3. \A p \in Packages : ~Attached(s, p) => status'[p] = status[p]
  BY <1>2, ShipStatus
<1> QED
  BY <1>1, <1>3 DEF GoneStays

\* What was selected of a package is what its link counts, and leaves the rest.
LEMMA ShipLeaves ==
  ASSUME GoodsType, DocumentType, Within, NEW s \in Shipments, NEW posted \in BOOLEAN,
         _ship_verified_packages(s, posted), (GoodsType /\ Within)',
         NEW p \in Pieces(s), remaining_quantity(p) > shipment[s].links[p]
  PROVE  \E r \in RowsOf(p) : dispatched'[r] < stock'[r].quantity
<1> DEFINE f == [r \in RowsOf(p) |-> stock[r].quantity]
           d == [r \in RowsOf(p) |-> dispatched[r]]
           e == [r \in RowsOf(p) |-> selected_items(s, r)]
           g == [r \in RowsOf(p) |-> dispatched'[r]]
<1>1. RowsOf(p) \in SUBSET Rows /\ IsFiniteSet(RowsOf(p)) /\ \A r \in RowsOf(p) : PackageOf[r] = p
  BY RowsFinite DEF RowsOf
<1>2. \A r \in RowsOf(p) :
        /\ stock'[r].quantity = stock[r].quantity
        /\ dispatched'[r] = dispatched[r] + selected_items(s, r)
  BY <1>1, ShipRows
<1>3. /\ f \in [RowsOf(p) -> Nat] /\ d \in [RowsOf(p) -> Nat]
      /\ \A r \in RowsOf(p) : f[r] = stock[r].quantity /\ d[r] = dispatched[r]
  BY <1>1, RowFields
<1>4. e \in [RowsOf(p) -> Nat] /\ \A r \in RowsOf(p) : e[r] = selected_items(s, r)
  BY <1>1, SelectedIsCount
<1>5. \A r \in RowsOf(p) : dispatched'[r] \in Nat /\ dispatched'[r] <= stock'[r].quantity
  BY <1>1 DEF GoodsType, Within
<1>6. g \in [RowsOf(p) -> Nat] /\ \A r \in RowsOf(p) : g[r] = dispatched'[r] /\ g[r] <= f[r] /\ g[r] = d[r] + e[r]
  BY <1>2, <1>3, <1>4, <1>5
<1>7. SumOf(e) = shipment[s].links[p] /\ remaining_quantity(p) = SumOf(f) - SumOf(d)
  BY ShipTurns DEF Selectable, Contents, remaining_quantity
<1> HIDE DEF f, d, e, g
<1>8. SumOf(g) = SumOf(d) + SumOf(e)
  BY <1>1, <1>3, <1>4, <1>6, SumAdds
<1>9. SumOf(f) \in Nat /\ SumOf(d) \in Nat /\ SumOf(e) \in Nat /\ SumOf(g) \in Nat
  BY <1>1, <1>3, <1>4, <1>6, UnitsFinite
<1>10. SumOf(f) - SumOf(g) > 0
  BY <1>7, <1>8, <1>9
<1>11. \E r \in RowsOf(p) : g[r] < f[r]
  BY <1>1, <1>3, <1>6, <1>10, SumSurplus
<1> QED
  BY <1>2, <1>3, <1>6, <1>11

\* A dispatch keeps the packages filled: one that is not sent entirely stays in storage.
LEMMA ShipFilled ==
  ASSUME GoodsType, DocumentType, Within, Filled, NEW s \in Shipments, NEW posted \in BOOLEAN,
         _ship_verified_packages(s, posted)
  PROVE  Filled'
<1>1. Remaining /\ (GoodsType /\ Within)'
  BY RemainingIsFilled, ShipGoods
<1>2. ASSUME NEW p \in Packages, RowsOf(p) # {}
      PROVE  /\ \E r \in RowsOf(p) : stock'[r].quantity > 0
             /\ status'[p] \notin GoneStatuses => \E r \in RowsOf(p) : dispatched'[r] < stock'[r].quantity
  <2>1. \A r \in RowsOf(p) : r \in Rows /\ PackageOf[r] = p /\ stock'[r].quantity = stock[r].quantity
    BY ShipRows DEF RowsOf
  <2>2. CASE ~Attached(s, p)
    <3>1. \A r \in RowsOf(p) : dispatched'[r] = dispatched[r]
      BY <2>1, <2>2, ShipRows
    <3> QED
      BY <1>1, <1>2, <2>1, <3>1, ShipStays DEF Remaining, GoneStays
  <2>3. CASE Attached(s, p)
    <3>1. status'[p] \notin GoneStatuses => p \in Pieces(s) /\ remaining_quantity(p) > shipment[s].links[p]
      BY <2>3, ShipStatus DEF GoneStatuses
    <3>2. status'[p] \notin GoneStatuses => \E r \in RowsOf(p) : dispatched'[r] < stock'[r].quantity
      BY <1>1, <3>1, ShipLeaves
    <3> QED
      BY <1>1, <1>2, <2>1, <3>2 DEF Remaining
  <2> QED
    BY <2>2, <2>3
<1>3. Remaining'
  BY <1>2 DEF Remaining, RowsOf
<1>4. (GoodsType /\ Within => (Filled <=> Remaining))'
  BY RemainingIsFilled, PTL
<1> QED
  BY <1>1, <1>3, <1>4

\* The packages of s fall in two kinds.
LEMMA PackageKinds ==
  ASSUME NEW s, NEW p \in Packages
  PROVE  /\ ~Attached(s, p) \/ p \in Pieces(s) \/ p \in Entire(s)
         /\ p \in Pieces(s) => Attached(s, p) /\ p \notin Entire(s)
         /\ p \in Entire(s) => Attached(s, p) /\ p \notin Pieces(s) /\ p \notin shipment[s].selected
  BY DEF Pieces, Entire, ByPieces

\* Pieces are picked of what goes by pieces only.
LEMMA PickedGo ==
  ASSUME DocumentType, Marks, NEW s \in Shipments, NEW r \in Rows, PackageOf[r] \in Packages
  PROVE  PackageOf[r] \notin Pieces(s) => shipment[s].pick[r] = 0
<1>1. Sound(shipment[s]) /\ shipment[s].pick[r] \in Nat
  BY SheetFields DEF Marks
<1>2. ASSUME shipment[s].pick[r] > 0 PROVE PackageOf[r] \in Pieces(s)
  BY <1>1, <1>2 DEF Sound, Pieces, ByPieces, Attached
<1> QED
  BY <1>1, <1>2

\* A dispatch counts as dispatched what it picks.
LEMMA ShipPicked ==
  ASSUME GoodsType, DocumentType, Within, Marks, DispatchedAccounted, NEW s \in Shipments,
         NEW posted \in BOOLEAN, _ship_verified_packages(s, posted), (DocumentType)'
  PROVE  DispatchedAccounted'
<1>1. Open(s) /\ Turned(s, Dispatched(s, posted))
  BY ShipTurns
<1>2. /\ shipment'[s] = Dispatched(s, posted) /\ \A x \in Shipments \ {s} : shipment'[x] = shipment[x]
  BY <1>1, TurnedSheets
<1>3. /\ shipment'[s].status = "shipped"
      /\ \A r \in Rows : shipment'[s].pick[r] =
              IF PackageOf[r] \in Pieces(s) THEN selected_items(s, r) ELSE shipment[s].pick[r]
  BY <1>2, DispatchedSheet
<1>4. ASSUME NEW r \in Rows
      PROVE  dispatched'[r] = SumOf([x \in Shipments |-> (IF Gone(x) THEN shipment[x].pick[r] ELSE 0)'])
  <2> DEFINE f == [x \in Shipments |-> IF Gone(x) THEN shipment[x].pick[r] ELSE 0]
             g == [x \in Shipments |-> (IF Gone(x) THEN shipment[x].pick[r] ELSE 0)']
  <2>1. \A x \in Shipments : shipment[x].pick[r] \in Nat /\ shipment'[x].pick[r] \in Nat
    BY SheetFields DEF DocumentType, Shipment
  <2>2. f \in [Shipments -> Nat] /\ g \in [Shipments -> Nat] /\ IsFiniteSet(Shipments)
    BY <2>1, ReadyStockAssumption
  <2>3. f[s] = 0 /\ g[s] = shipment'[s].pick[r]
    BY <1>1, <1>3 DEF Open, Gone, GoneStatuses
  <2>4. \A x \in Shipments : x # s => g[x] = f[x]
    BY <1>2 DEF Gone
  <2>5. dispatched[r] = SumOf(f)
    BY DEF DispatchedAccounted
  <2> HIDE DEF f, g
  <2>6. SumOf(g) + f[s] = SumOf(f) + g[s]
    BY <2>2, <2>4, SumReplaced
  <2>7. dispatched'[r] = dispatched[r] + shipment'[s].pick[r]
    <3>1. PackageOf[r] \in Packages /\ dispatched[r] \in Nat
      BY RowFields
    <3>2. CASE PackageOf[r] \in Pieces(s)
      BY <1>3, <3>2, ShipRows
    <3>3. CASE PackageOf[r] \notin Pieces(s)
      <4>1. shipment'[s].pick[r] = 0
        BY <1>3, <3>1, <3>3, PickedGo
      <4>2. dispatched'[r] = dispatched[r]
        BY <3>1, <3>3, ShipRows, PackageKinds
      <4> QED
        BY <3>1, <4>1, <4>2
    <3> QED
      BY <3>2, <3>3
  <2>8. SumOf(g) \in Nat /\ SumOf(f) \in Nat
    BY <2>2, UnitsFinite
  <2>9. dispatched'[r] = SumOf(g)
    BY <2>1, <2>3, <2>5, <2>6, <2>7, <2>8
  <2> QED
    BY <2>9 DEF g
<1> QED
  BY <1>4 DEF DispatchedAccounted

\* A dispatch sells what it sends.
LEMMA ShipSent ==
  ASSUME GoodsType, DocumentType, Within, Marks, SoldAccounted, NEW s \in Shipments,
         NEW posted \in BOOLEAN, _ship_verified_packages(s, posted), (GoodsType /\ DocumentType)'
  PROVE  SoldAccounted'
<1>1. Open(s) /\ Turned(s, Dispatched(s, posted)) /\ UNCHANGED direct
  BY ShipTurns, ShipStatus
<1>2. /\ shipment'[s] = Dispatched(s, posted) /\ \A x \in Shipments \ {s} : shipment'[x] = shipment[x]
  BY <1>1, TurnedSheets
<1>3. /\ shipment'[s].status = "shipped" /\ shipment'[s].scanned = shipment[s].scanned
      /\ shipment'[s].selected = shipment[s].selected \cup Pieces(s)
      /\ \A r \in Rows : shipment'[s].pick[r] =
              IF PackageOf[r] \in Pieces(s) THEN selected_items(s, r) ELSE shipment[s].pick[r]
  BY <1>2, DispatchedSheet
<1>4. ASSUME NEW r \in Kept
      PROVE  stock'[r].sold = SumOf([x \in Shipments |-> SentBy(x, r)'])
  <2> DEFINE f == [x \in Shipments |-> SentBy(x, r)]
             g == [x \in Shipments |-> SentBy(x, r)']
  <2>1. r \in Rows /\ PackageOf[r] \in Packages /\ r \in RowsOf(PackageOf[r])
    BY RowFields DEF Kept, RowsOf
  <2>2. f \in [Shipments -> Nat] /\ IsFiniteSet(Shipments) /\ stock[r].sold = SumOf(f)
    BY <2>1, SentCounts DEF Sent, SoldAccounted
  <2>3. (GoodsType /\ DocumentType /\ r \in Rows => Sent(r) \in [Shipments -> Nat])'
    <3>1. GoodsType /\ DocumentType /\ r \in Rows => Sent(r) \in [Shipments -> Nat]
      BY SentCounts
    <3>2. \A x \in Shipments : shipment'[x].pick[r] \in Nat
      BY <2>1 DEF DocumentType, Shipment
    <3>3. stock'[r].quantity \in Nat
      BY <2>1 DEF GoodsType, StockRow
    <3> QED
      BY <3>2, <3>3 DEF Sent, SentBy
  <2>4. g \in [Shipments -> Nat]
    BY <2>1, <2>3 DEF Sent
  <2>5. f[s] = 0 /\ g[s] = SentBy(s, r)'
    BY <1>1 DEF Open, Gone, GoneStatuses, SentBy
  <2>6. \A x \in Shipments : x # s => g[x] = f[x]
    <3>1. stock'[r].quantity = stock[r].quantity
      BY <2>1, ShipRows
    <3> QED
      BY <1>2, <3>1 DEF SentBy, Gone
  <2> HIDE DEF f, g
  <2>7. SumOf(g) + f[s] = SumOf(f) + g[s]
    BY <2>2, <2>4, <2>6, SumReplaced
  <2>8. stock'[r].sold = stock[r].sold + SentBy(s, r)'
    <3>1. stock[r].sold \in Nat /\ stock[r].quantity \in Nat
      BY <2>1, RowFields
    <3>2. CASE PackageOf[r] \in Pieces(s)
      <4>1. PackageOf[r] \in shipment[s].scanned
        BY <2>1, <3>2, ShipStatus, PackageKinds
      <4>2. SentBy(s, r)' = selected_items(s, r)
        BY <1>3, <2>1, <3>2, <4>1 DEF SentBy, Gone, GoneStatuses
      <4> QED
        BY <2>1, <3>2, <4>2, ShipRows
    <3>3. CASE PackageOf[r] \in Entire(s)
      <4>1. /\ PackageOf[r] \in shipment[s].scanned /\ PackageOf[r] \notin Pieces(s)
            /\ PackageOf[r] \notin shipment[s].selected
        BY <2>1, <3>3, ShipStatus, PackageKinds
      <4>2. stock[r].sold = 0 /\ stock'[r].sold = stock[r].quantity /\ stock'[r].quantity = stock[r].quantity
        BY <2>1, <3>3, ShipRows
      <4>3. SentBy(s, r)' = stock'[r].quantity
        BY <1>3, <4>1 DEF SentBy, Gone, GoneStatuses
      <4> QED
        BY <3>1, <4>2, <4>3
    <3>4. CASE ~Attached(s, PackageOf[r])
      <4>1. PackageOf[r] \notin shipment[s].scanned
        BY <2>1, <3>4 DEF Marks, Sound, Attached
      <4>2. SentBy(s, r)' = 0
        BY <1>3, <4>1 DEF SentBy
      <4>3. stock'[r] = stock[r]
        BY <2>1, <3>4, ShipRows
      <4> QED
        BY <3>1, <4>2, <4>3
    <3> QED
      BY <2>1, <3>2, <3>3, <3>4, PackageKinds
  <2>9. SumOf(g) \in Nat /\ SumOf(f) \in Nat /\ g[s] \in Nat
    BY <2>2, <2>4, UnitsFinite
  <2>10. stock'[r].sold = SumOf(g)
    BY <2>2, <2>5, <2>7, <2>8, <2>9
  <2> QED
    BY <2>10 DEF g
<1> QED
  BY <1>1, <1>4 DEF SoldAccounted, Kept

\* A dispatch keeps the ledger: pieces sold leave no reservation, and the claims that stay on
\* a row sold out are those of the order of this shipment.
LEMMA ShipLedger ==
  ASSUME GoodsType, DocumentType, Within, Ledger, NEW s \in Shipments, NEW posted \in BOOLEAN,
         _ship_verified_packages(s, posted), (GoodsType)'
  PROVE  Ledger'
<1>1. Open(s) /\ Turned(s, Dispatched(s, posted)) /\ UNCHANGED <<direct, hold>>
  BY ShipTurns, ShipStatus
<1>2. /\ shipment'[s] = Dispatched(s, posted) /\ \A x \in Shipments \ {s} : shipment'[x] = shipment[x]
  BY <1>1, TurnedSheets
<1>3. /\ shipment'[s].status = "shipped" /\ shipment'[s].order = shipment[s].order
      /\ shipment'[s].links = shipment[s].links
  BY <1>2, DispatchedSheet
<1>4. ASSUME NEW r \in Kept PROVE Balance(r)' /\ Owed(r)' /\ Proven(r)'
  <2>1. r \in Rows /\ PackageOf[r] \in Packages /\ r \in RowsOf(PackageOf[r])
        /\ Balance(r) /\ Owed(r) /\ Proven(r)
    BY RowFields DEF Kept, RowsOf, Ledger
  <2>2. /\ stock[r].quantity \in Nat /\ stock[r].available \in Nat
        /\ stock[r].reserved \in Nat /\ stock[r].sold \in Nat
        /\ stock'[r].available \in Nat
    <3>1. stock'[r] \in StockRow
      BY <2>1 DEF GoodsType
    <3> QED
      BY <2>1, <3>1, RowFields DEF StockRow
  <2>3. CASE PackageOf[r] \in Pieces(s)
    <3>1. /\ stock'[r].quantity = stock[r].quantity
          /\ stock[r].quantity = stock[r].available + stock[r].reserved + stock[r].sold
          /\ stock'[r].sold = stock[r].sold + selected_items(s, r) /\ stock'[r].reserved = 0
          /\ stock'[r].available + selected_items(s, r) = stock[r].available + stock[r].reserved
          /\ \A x \in Orders : claim'[x][r] = 0
      BY <2>1, <2>3, ShipRows
    <3>2. PICK n \in Nat : n = selected_items(s, r)
      BY <2>1, SelectedIsCount
    <3>3. Balance(r)'
      BY <2>2, <3>1, <3>2 DEF Balance
    <3>4. Claimed(r)' = 0
      <4> DEFINE f == [x \in Orders |-> claim'[x][r]]
      <4>1. f \in [Orders -> Nat] /\ \A x \in Orders : f[x] = 0
        BY <3>1
      <4>2. Claimed(r)' = SumOf(f)
        BY DEF Claimed
      <4> HIDE DEF f
      <4> QED
        BY <4>1, <4>2, SumZero, ReadyStockAssumption
    <3>5. hold'[PackageOf[r]] = 0
      BY <1>1, <2>1, <2>3, ShipStatus, PackageKinds
    <3> QED
      BY <3>1, <3>3, <3>4, <3>5 DEF Owed, Proven
  <2>4. CASE PackageOf[r] \in Entire(s)
    <3>1. /\ stock'[r].quantity = stock[r].quantity /\ stock'[r].sold = stock[r].quantity
          /\ stock'[r].available = 0 /\ stock'[r].reserved = 0
          /\ \A x \in Orders : claim'[x][r] = claim[x][r]
      BY <2>1, <2>4, ShipRows
    <3>2. Verified(s, PackageOf[r])
      BY <2>1, <2>4, ShipTurns, PackageKinds
    <3>3. Balance(r)' /\ Owed(r)'
      BY <2>2, <3>1 DEF Balance, Owed
    <3>4. ASSUME NEW o \in Orders, claim'[o][r] > 0
          PROVE  Gone(s)' /\ shipment'[s].order = o /\ Attached(s, PackageOf[r])'
      <4>1. claim[o][r] > 0
        BY <3>1, <3>4
      <4>2. o = shipment[s].order
        BY <2>1, <3>2, <4>1 DEF Verified
      <4>3. shipment[s].links[PackageOf[r]] > 0
        BY <2>1, <2>4, PackageKinds DEF Attached
      <4> QED
        BY <1>3, <4>2, <4>3 DEF Gone, GoneStatuses, Attached
    <3> QED
      BY <3>3, <3>4 DEF Proven
  <2>5. CASE ~Attached(s, PackageOf[r])
    <3>1. stock'[r] = stock[r] /\ \A x \in Orders : claim'[x][r] = claim[x][r]
      BY <2>1, <2>5, ShipRows
    <3>2. [x \in Orders |-> claim'[x][r]] = [x \in Orders |-> claim[x][r]]
      BY <3>1
    <3>3. Claimed(r)' = Claimed(r)
      BY <3>2 DEF Claimed
    <3>4. Balance(r)' /\ Owed(r)'
      BY <1>1, <2>1, <3>1, <3>3 DEF Balance, Owed
    <3>5. ASSUME NEW o \in Orders, stock'[r].sold = stock'[r].quantity, claim'[o][r] > 0
          PROVE  \E x \in Shipments : Gone(x)' /\ shipment'[x].order = o /\ Attached(x, PackageOf[r])'
      <4>1. PICK x \in Shipments : Gone(x) /\ shipment[x].order = o /\ Attached(x, PackageOf[r])
        BY <2>1, <3>1, <3>5 DEF Proven
      <4>2. x # s
        BY <2>5, <4>1
      <4> QED
        BY <1>2, <4>1, <4>2 DEF Gone, Attached
    <3> QED
      BY <3>4, <3>5 DEF Proven
  <2> QED
    BY <2>1, <2>3, <2>4, <2>5, PackageKinds
<1> QED
  BY <1>1, <1>4 DEF Ledger, Kept

\* No held package is dispatched.
LEMMA ShipHeld ==
  ASSUME GoodsType, DocumentType, Within, Held, NEW s \in Shipments, NEW posted \in BOOLEAN,
         _ship_verified_packages(s, posted)
  PROVE  Held'
<1>1. ASSUME NEW p \in Packages PROVE Keeps(p)'
  <2>1. UNCHANGED hold /\ Keeps(p)
    BY ShipStatus DEF Held
  <2>2. CASE Attached(s, p)
    BY <2>1, <2>2, ShipStatus DEF Keeps
  <2>3. CASE ~Attached(s, p)
    <3>1. \A r \in RowsOf(p) : stock'[r] = stock[r] /\ \A o \in Orders : claim'[o][r] = claim[o][r]
      BY <2>3, ShipRows DEF RowsOf
    <3>2. status'[p] = status[p]
      BY <2>3, ShipStatus, PackageKinds
    <3> QED
      BY <2>1, <3>1, <3>2, KeepsStands
  <2> QED
    BY <2>2, <2>3
<1> QED
  BY <1>1 DEF Held

-----------------------------------------------------------------------------
(* Return *)

\* What a return finds and does, in terms of the packages.
LEMMA ReopenStatus ==
  ASSUME NEW s \in Shipments, reopen_shipment(s)
  PROVE  /\ UNCHANGED <<direct, claim, hold>>
         /\ \A p \in Packages : Attached(s, p) =>
              /\ status[p] # "reserved"
              /\ \A x \in Shipments \ {s} : Live(x) => ~Attached(x, p)
         /\ \A p \in Packages : ~Attached(s, p) => status'[p] = status[p]
<1> DEFINE attached == {p \in Packages : Attached(s, p)}
<1>1. /\ UNCHANGED <<direct, claim, hold>>
      /\ \A p \in attached : Returnable(s, p)
      /\ status' = [p \in Packages |->
           CASE p \in attached /\ HasClaim(p) -> "reserved"
             [] p \in attached /\ ~HasClaim(p) -> "received_in_storage"
             [] OTHER -> status[p]]
  BY DEF reopen_shipment
<1>2. \A p \in attached : /\ status[p] \in GoneStatuses \cup {"received_in_storage"}
                          /\ \A x \in Shipments \ {s} : Live(x) => ~Attached(x, p)
  BY <1>1 DEF Returnable
<1>3. \A p \in Packages : p \notin attached => status'[p] = status[p]
  BY <1>1
<1> QED
  BY <1>1, <1>2, <1>3 DEF GoneStatuses

\* A gone shipment has neither picked nor sent what is not attached to it.
LEMMA UnattachedUnsent ==
  ASSUME DocumentType, Marks, NEW x \in Shipments, NEW r \in Rows, PackageOf[r] \in Packages,
         Gone(x) => ~Attached(x, PackageOf[r])
  PROVE  SentBy(x, r) = 0 /\ (Gone(x) => shipment[x].pick[r] = 0)
<1>1. Sound(shipment[x]) /\ shipment[x].pick[r] \in Nat /\ r \in RowsOf(PackageOf[r])
  BY SheetFields DEF Marks, RowsOf
<1>2. CASE ~Gone(x)
  BY <1>2 DEF SentBy
<1>3. CASE Gone(x)
  BY <1>1, <1>3 DEF Sound, SentBy, Attached
<1> QED
  BY <1>2, <1>3

\* Nobody but s has sent pieces of its packages.
LEMMA ReopenAlone ==
  ASSUME GoodsType, DocumentType, Marks, NEW s \in Shipments, reopen_shipment(s), NEW r \in Rows,
         Attached(s, PackageOf[r]), NEW x \in Shipments \ {s}
  PROVE  SentBy(x, r) = 0 /\ (Gone(x) => shipment[x].pick[r] = 0)
<1>1. PackageOf[r] \in Packages
  BY RowFields
<1>2. Gone(x) => Live(x)
  BY DEF Gone, GoneStatuses, Live
<1>3. Gone(x) => ~Attached(x, PackageOf[r])
  BY <1>1, <1>2, ReopenStatus
<1> QED
  BY <1>1, <1>3, UnattachedUnsent

\* A return keeps the packages filled.
LEMMA ReopenFilled ==
  ASSUME GoodsType, DocumentType, Within, Filled, NEW s \in Shipments, reopen_shipment(s)
  PROVE  Filled'
<1>1. Remaining /\ (GoodsType /\ Within)'
  BY RemainingIsFilled, ReopenGoods
<1>2. ASSUME NEW p \in Packages, RowsOf(p) # {}
      PROVE  /\ \E r \in RowsOf(p) : stock'[r].quantity > 0
             /\ status'[p] \notin GoneStatuses => \E r \in RowsOf(p) : dispatched'[r] < stock'[r].quantity
  <2>1. \A r \in RowsOf(p) : r \in Rows /\ PackageOf[r] = p
    BY DEF RowsOf
  <2>2. CASE Attached(s, p)
    <3>1. PICK r \in RowsOf(p) : stock[r].quantity > 0
      BY <1>1, <1>2 DEF Remaining
    <3>2. stock'[r].quantity = stock[r].quantity /\ dispatched'[r] = 0
      BY <2>1, <2>2, ReopenRows
    <3> QED
      BY <3>1, <3>2
  <2>3. CASE ~Attached(s, p)
    <3>1. \A r \in RowsOf(p) : stock'[r] = stock[r] /\ dispatched'[r] = dispatched[r]
      BY <2>1, <2>3, ReopenRows
    <3>2. status'[p] = status[p]
      BY <2>3, ReopenStatus
    <3> QED
      BY <1>1, <1>2, <3>1, <3>2 DEF Remaining
  <2> QED
    BY <2>2, <2>3
<1>3. Remaining'
  BY <1>2 DEF Remaining, RowsOf
<1>4. (GoodsType /\ Within => (Filled <=> Remaining))'
  BY RemainingIsFilled, PTL
<1> QED
  BY <1>1, <1>3, <1>4

\* The sheets after a return.
LEMMA ReopenSheets ==
  ASSUME DocumentType, NEW s \in Shipments, reopen_shipment(s)
  PROVE  /\ Gone(s) /\ ~Gone(s)' /\ shipment'[s].links = shipment[s].links
         /\ \A x \in Shipments \ {s} : shipment'[x] = shipment[x]
<1>1. Gone(s) /\ Turned(s, Reopened(s))
  BY ReopenTurns
<1>2. shipment'[s] = Reopened(s) /\ \A x \in Shipments \ {s} : shipment'[x] = shipment[x]
  BY <1>1, TurnedSheets
<1>3. shipment'[s].status = "created" /\ shipment'[s].links = shipment[s].links
  BY <1>2, ReopenedSheet
<1> QED
  BY <1>1, <1>2, <1>3 DEF Gone, GoneStatuses

\* A return takes back all the pieces the shipment picked, and nobody else had picked any.
LEMMA ReopenPicked ==
  ASSUME GoodsType, DocumentType, Marks, DispatchedAccounted, NEW s \in Shipments, reopen_shipment(s)
  PROVE  DispatchedAccounted'
<1>1. Gone(s) /\ ~Gone(s)' /\ \A x \in Shipments \ {s} : shipment'[x] = shipment[x]
  BY ReopenSheets
<1>2. ASSUME NEW r \in Rows
      PROVE  dispatched'[r] = SumOf([x \in Shipments |-> (IF Gone(x) THEN shipment[x].pick[r] ELSE 0)'])
  <2> DEFINE f == [x \in Shipments |-> IF Gone(x) THEN shipment[x].pick[r] ELSE 0]
             g == [x \in Shipments |-> (IF Gone(x) THEN shipment[x].pick[r] ELSE 0)']
  <2>1. PackageOf[r] \in Packages /\ IsFiniteSet(Shipments) /\ \A x \in Shipments : shipment[x].pick[r] \in Nat
    BY RowFields, SheetFields, ReadyStockAssumption
  <2>2. \A x \in Shipments : g[x] = IF x = s THEN 0 ELSE f[x]
    BY <1>1 DEF Gone
  <2>3. CASE Attached(s, PackageOf[r])
    <3>1. \A x \in Shipments : g[x] = 0
      BY <2>2, <2>3, ReopenAlone
    <3>2. g \in [Shipments -> Nat]
      BY <3>1
    <3> HIDE DEF g
    <3>3. SumOf(g) = 0
      BY <2>1, <3>1, <3>2, SumZero
    <3>4. dispatched'[r] = 0
      BY <2>3, ReopenRows
    <3> QED
      BY <3>3, <3>4 DEF g
  <2>4. CASE ~Attached(s, PackageOf[r])
    <3>1. f[s] = 0
      BY <1>1, <2>1, <2>4, UnattachedUnsent
    <3>2. f = g
      BY <2>2, <3>1
    <3>3. dispatched'[r] = dispatched[r] /\ dispatched[r] = SumOf(f)
      BY <2>4, ReopenRows DEF DispatchedAccounted
    <3> QED
      BY <3>2, <3>3
  <2> QED
    BY <2>3, <2>4
<1> QED
  BY <1>2 DEF DispatchedAccounted

\* A return takes back all the pieces the shipment sent, and nobody else had sent any.
LEMMA ReopenSent ==
  ASSUME GoodsType, DocumentType, Marks, SoldAccounted, NEW s \in Shipments, reopen_shipment(s)
  PROVE  SoldAccounted'
<1>1. Gone(s) /\ ~Gone(s)' /\ \A x \in Shipments \ {s} : shipment'[x] = shipment[x]
  BY ReopenSheets
<1>2. ASSUME NEW r \in Kept
      PROVE  stock'[r].sold = SumOf([x \in Shipments |-> SentBy(x, r)'])
  <2> DEFINE f == [x \in Shipments |-> SentBy(x, r)]
             g == [x \in Shipments |-> SentBy(x, r)']
  <2>1. r \in Rows /\ PackageOf[r] \in Packages /\ IsFiniteSet(Shipments)
    BY RowFields, ReadyStockAssumption DEF Kept
  <2>2. stock'[r].quantity = stock[r].quantity
    BY <2>1, ReopenRows
  <2>3. \A x \in Shipments : g[x] = IF x = s THEN 0 ELSE f[x]
    BY <1>1, <2>2 DEF Gone, SentBy
  <2>4. CASE Attached(s, PackageOf[r])
    <3>1. \A x \in Shipments : g[x] = 0
      BY <2>1, <2>3, <2>4, ReopenAlone
    <3>2. g \in [Shipments -> Nat]
      BY <3>1
    <3> HIDE DEF g
    <3>3. SumOf(g) = 0
      BY <2>1, <3>1, <3>2, SumZero
    <3>4. stock'[r].sold = 0
      BY <2>1, <2>4, ReopenRows
    <3> QED
      BY <3>3, <3>4 DEF g
  <2>5. CASE ~Attached(s, PackageOf[r])
    <3>1. f[s] = 0
      BY <2>1, <2>5, UnattachedUnsent
    <3>2. f = g
      BY <2>3, <3>1
    <3>3. stock'[r].sold = stock[r].sold /\ stock[r].sold = SumOf(f)
      BY <2>1, <2>5, ReopenRows DEF SoldAccounted
    <3> QED
      BY <3>2, <3>3
  <2> QED
    BY <2>4, <2>5
<1>3. UNCHANGED direct
  BY ReopenStatus
<1> QED
  BY <1>2, <1>3 DEF SoldAccounted, Kept

\* A returned row is free but for its reservations.
LEMMA ReopenLedger ==
  ASSUME GoodsType, DocumentType, Ledger, Held, NEW s \in Shipments, reopen_shipment(s), (GoodsType)'
  PROVE  Ledger'
<1>1. Gone(s) /\ ~Gone(s)' /\ \A x \in Shipments \ {s} : shipment'[x] = shipment[x]
  BY ReopenSheets
<1>2. UNCHANGED <<direct, claim, hold>>
  BY ReopenStatus
<1>3. ASSUME NEW r \in Kept PROVE Balance(r)' /\ Owed(r)' /\ Proven(r)'
  <2>1. r \in Rows /\ PackageOf[r] \in Packages /\ Balance(r) /\ Owed(r) /\ Proven(r)
    BY RowFields DEF Kept, Ledger
  <2>2. Claimed(r)' = Claimed(r) /\ Claimed(r) \in Nat
    BY <1>2, <2>1, ClaimedHolds DEF Claimed
  <2>3. CASE Attached(s, PackageOf[r])
    <3>1. /\ stock'[r].quantity = stock[r].quantity /\ stock'[r].sold = 0
          /\ stock'[r].reserved = Claimed(r) /\ stock'[r].available + Claimed(r) = stock[r].quantity
          /\ stock[r].quantity > 0
      BY <2>1, <2>3, ReopenRows
    <3>2. /\ stock[r].quantity \in Nat /\ stock'[r].available \in Nat
      BY <2>1, RowFields DEF GoodsType, StockRow
    <3>3. ~(hold'[PackageOf[r]] > 0)
      BY <1>2, <2>1, <2>3, ReopenStatus DEF Held, Keeps
    <3>4. Balance(r)'
      BY <2>2, <3>1, <3>2 DEF Balance
    <3>5. (IF hold'[PackageOf[r]] > 0 THEN stock'[r].quantity - stock'[r].sold ELSE 0) = 0
      BY <3>3
    <3>6. Claimed(r) = 0 + Claimed(r)
      BY <2>2
    <3>7. Owed(r)'
      BY <2>2, <3>1, <3>5, <3>6 DEF Owed
    <3>8. Proven(r)'
      BY <3>1, <3>2 DEF Proven
    <3> QED
      BY <3>4, <3>7, <3>8
  <2>4. CASE ~Attached(s, PackageOf[r])
    <3>1. stock'[r] = stock[r]
      BY <2>1, <2>4, ReopenRows
    <3>2. Balance(r)' /\ Owed(r)'
      BY <1>2, <2>1, <2>2, <3>1 DEF Balance, Owed
    <3>3. ASSUME NEW o \in Orders, stock'[r].sold = stock'[r].quantity, claim'[o][r] > 0
          PROVE  \E x \in Shipments : Gone(x)' /\ shipment'[x].order = o /\ Attached(x, PackageOf[r])'
      <4>1. PICK x \in Shipments : Gone(x) /\ shipment[x].order = o /\ Attached(x, PackageOf[r])
        BY <1>2, <2>1, <3>1, <3>3 DEF Proven
      <4>2. x # s
        BY <2>4, <4>1
      <4> QED
        BY <1>1, <4>1, <4>2 DEF Gone, Attached
    <3> QED
      BY <3>2, <3>3 DEF Proven
  <2> QED
    BY <2>3, <2>4
<1> QED
  BY <1>2, <1>3 DEF Ledger, Kept

\* No held package is returned.
LEMMA ReopenHeld ==
  ASSUME GoodsType, Held, NEW s \in Shipments, reopen_shipment(s)
  PROVE  Held'
<1>1. ASSUME NEW p \in Packages PROVE Keeps(p)'
  <2>1. UNCHANGED <<claim, hold>> /\ Keeps(p)
    BY ReopenStatus DEF Held
  <2>2. CASE Attached(s, p)
    BY <2>1, <2>2, ReopenStatus DEF Keeps
  <2>3. CASE ~Attached(s, p)
    <3>1. \A r \in RowsOf(p) : stock'[r] = stock[r] /\ \A o \in Orders : claim'[o][r] = claim[o][r]
      BY <2>1, <2>3, ReopenRows DEF RowsOf
    <3>2. status'[p] = status[p]
      BY <2>3, ReopenStatus
    <3> QED
      BY <2>1, <3>1, <3>2, KeepsStands
  <2> QED
    BY <2>2, <2>3
<1> QED
  BY <1>1 DEF Held

-----------------------------------------------------------------------------
(***************************************************************************)
(* Which step is ordinary.  Every step is ordinary, and keeps the papers,  *)
(* or it is a dispatch or a return.                                        *)
(***************************************************************************)
\* A shipment that is open and has an order is its order's only one: the rows it moves
\* reservations from hold no evidence of the order, only reserved pieces.
LEMMA MoveFits ==
  ASSUME GoodsType, DocumentType, OneShipmentPerOrder, Ledger, NEW s \in Shipments, Open(s),
         NEW o \in Orders, o = shipment[s].order, NEW Q
  PROVE  Fits([r \in Rows |-> IF PackageOf[r] \in Q THEN claim[o][r] ELSE 0])
<1>1. ASSUME NEW r \in Kept PROVE r \in Rows /\ claim[o][r] <= stock[r].reserved
  <2>1. r \in Rows /\ Balance(r) /\ Owed(r) /\ Proven(r)
    BY DEF Kept, Ledger
  <2>2. /\ stock[r].quantity \in Nat /\ stock[r].available \in Nat /\ stock[r].reserved \in Nat
        /\ stock[r].sold \in Nat /\ claim[o][r] \in Nat
    BY <2>1, RowFields
  <2>3. stock[r].quantity = stock[r].available + stock[r].reserved + stock[r].sold
    BY <2>1 DEF Balance
  <2>4. CASE stock[r].sold < stock[r].quantity
    <3>1. Claimed(r) \in Nat /\ claim[o][r] <= Claimed(r)
      BY <2>1, ClaimedHolds
    <3>2. stock[r].reserved = stock[r].quantity - stock[r].sold + Claimed(r)
          \/ stock[r].reserved = 0 + Claimed(r)
      BY <2>1, <2>4 DEF Owed
    <3> QED
      BY <2>1, <2>2, <2>4, <3>1, <3>2
  <2>5. CASE stock[r].sold = stock[r].quantity
    <3>1. SUFFICES ASSUME claim[o][r] > 0 PROVE FALSE
      BY <2>1, <2>2
    <3>2. PICK x \in Shipments : Gone(x) /\ shipment[x].order = o
      BY <2>1, <2>5, <3>1 DEF Proven
    <3>3. x # s /\ Live(x) /\ Live(s)
      BY <3>2 DEF Gone, GoneStatuses, Open, Live
    <3>4. shipment[x].order # NoOrder
      BY <3>2, ReadyStockAssumption
    <3> QED
      BY <3>2, <3>3, <3>4 DEF OneShipmentPerOrder
  <2> QED
    BY <2>2, <2>3, <2>4, <2>5
<1> DEFINE old == [r \in Rows |-> IF PackageOf[r] \in Q THEN claim[o][r] ELSE 0]
<1>2. ASSUME NEW r \in Kept PROVE old[r] <= stock[r].reserved
  <2>1. r \in Rows /\ claim[o][r] <= stock[r].reserved /\ 0 <= stock[r].reserved
    BY <1>1, RowFields
  <2>2. old[r] = IF PackageOf[r] \in Q THEN claim[o][r] ELSE 0
    BY <2>1
  <2> QED
    BY <2>1, <2>2
<1> HIDE DEF old
<1>3. Fits(old)
  BY <1>2 DEF Fits
<1> QED
  BY <1>3 DEF old

\* To give up nothing fits,
LEMMA NothingFits == ASSUME GoodsType PROVE Fits(NoPieces)
<1>1. \A r \in Kept : r \in Rows /\ NoPieces[r] = 0
  BY DEF Kept, NoPieces
<1> QED
  BY <1>1, RowFields DEF Fits

\* and so does giving up what is reserved.
LEMMA ReservedFits ==
  ASSUME NEW give, \A r \in Rows : give[r] <= stock[r].reserved
  PROVE  Fits(give)
  BY DEF Fits, Kept

\* A shift that fits is an ordinary step.
LEMMA ShiftOrdinary ==
  ASSUME NEW o \in Orders, NEW old, NEW new, ShiftStep(o, old, new), Fits(old)
  PROVE  Ordinary
  BY DEF Ordinary

\* The endpoints of the warehouse.
LEMMA StockOrdinary ==
  ASSUME GoodsType, StockStep
  PROVE  Ordinary /\ UNCHANGED documents
<1>1. ASSUME NEW o \in Orders, NEW r \in Rows, NEW n \in 1 .. MaxPieces[r], _reserve_piece_stock(o, r, n)
      PROVE  Ordinary /\ UNCHANGED documents
  BY <1>1, PieceReserveShifts, NothingFits, ShiftOrdinary DEF _reserve_piece_stock
<1>2. ASSUME NEW o \in Orders, NEW r \in Rows, _release_piece_reservation(o, r)
      PROVE  Ordinary /\ UNCHANGED documents
  BY <1>2, PieceReleaseShifts, ReservedFits, ShiftOrdinary DEF _release_piece_reservation
<1>3. ASSUME NEW o \in Orders, NEW p \in Packages, _reserve_manual_package(o, p)
      PROVE  Ordinary /\ UNCHANGED documents
  <2>1. Reserve(o, Whole({p})) /\ UNCHANGED <<status, dispatched, direct, hold, documents>>
    BY <1>3 DEF _reserve_manual_package
  <2> QED
    BY <2>1, WholeReserveShifts, NothingFits, ShiftOrdinary
<1>4. ASSUME NEW o \in Orders, NEW p \in Packages, _release_manual_package(o, p)
      PROVE  Ordinary /\ UNCHANGED documents
  <2>1. UNCHANGED documents
    BY <1>4 DEF _release_manual_package
  <2> QED
    BY <1>4, <2>1, PackageReleaseShifts, ReservedFits, ShiftOrdinary
<1>5. ASSUME NEW o \in Orders, NEW S \in SUBSET Packages, reserve_pieces(o, S) \/ reserve_packs(o, S)
      PROVE  Ordinary /\ UNCHANGED documents
  <2>1. Reserve(o, Whole(S)) /\ UNCHANGED <<status, dispatched, direct, hold, documents>>
    BY <1>5 DEF reserve_pieces, reserve_packs
  <2> QED
    BY <2>1, WholeReserveShifts, NothingFits, ShiftOrdinary
<1>6. ASSUME NEW S \in SUBSET Packages, reserve_for_customer(S)
      PROVE  Ordinary /\ UNCHANGED documents
  <2>1. UNCHANGED documents
    BY <1>6 DEF reserve_for_customer
  <2> QED
    BY <1>6, <2>1 DEF Ordinary
<1>7. ASSUME NEW S \in SUBSET Packages, release_packs(S)
      PROVE  Ordinary /\ UNCHANGED documents
  BY <1>7 DEF release_packs, Ordinary
<1>8. ASSUME NEW p \in Single, ship_package(p)
      PROVE  Ordinary /\ UNCHANGED documents
  <2>1. p \in Packages
    BY ReadyStockAssumption
  <2>2. UNCHANGED documents
    BY <1>8 DEF ship_package
  <2> QED
    BY <1>8, <2>1, <2>2 DEF Ordinary
<1>9. ASSUME NEW p \in Single, reserve_package(p) \/ mark_delivered(p) \/ mark_damaged(p)
      PROVE  Ordinary /\ UNCHANGED documents
  <2>1. p \in Packages
    BY ReadyStockAssumption
  <2>2. StatusStep
    BY <1>9, <2>1, SingleStatus
  <2>3. GoneStays /\ \A q \in Packages : status[q] = "reserved" => status'[q] = "reserved"
    BY <1>9, <2>1 DEF reserve_package, mark_delivered, mark_damaged, GoneStays, GoneStatuses, GoodsType
  <2>4. UNCHANGED documents
    BY <1>9 DEF reserve_package, mark_delivered, mark_damaged
  <2> QED
    BY <2>2, <2>3, <2>4 DEF Ordinary, StatusKeeps
<1> QED
  BY <1>1, <1>2, <1>3, <1>4, <1>5, <1>6, <1>7, <1>8, <1>9 DEF StockStep

\* So is a step that leaves the goods alone.
LEMMA SameOrdinary == ASSUME GoodsType, UNCHANGED goods PROVE Ordinary
<1>1. UNCHANGED <<status, dispatched, direct, stock, claim, hold>>
  BY DEF goods
<1>2. LabelStep
  BY <1>1, SameLabels DEF LabelStep
<1> QED
  BY <1>2 DEF Ordinary

\* Reads are ordinary steps and keep the papers,
LEMMA ReadOrdinary ==
  ASSUME GoodsType, Within, Papers, Read
  PROVE  Ordinary /\ Papers' /\ Standing
<1>1. PICK c \in Clerks : \E rd : Reads(c, rd)
  BY ReadSteps
<1>2. PICK rd : Reads(c, rd)
  BY <1>1
<1>3. UNCHANGED goods
  BY <1>2 DEF Reads, Begin
<1> QED
  BY <1>2, <1>3, SameOrdinary, ReadPapers

\* A delivery makes delivered what has gone.
LEMMA DeliverOrdinary ==
  ASSUME GoodsType, Delivering, NEW c \in Clerks, deliver(c)
  PROVE  Ordinary
<1>1. StatusStep
  BY DeliverStatus
<1>2. /\ pending[c].kind = "deliver"
      /\ status' = [p \in Packages |-> IF pending[c].found[p] > 0 THEN "delivered" ELSE status[p]]
  BY DEF deliver
<1>3. \A p \in Packages : pending[c].found[p] > 0 => status[p] \in GoneStatuses
  BY <1>2 DEF Delivering, Arrives
<1>4. GoneStays /\ \A p \in Packages : status[p] = "reserved" => status'[p] = "reserved"
  BY <1>2, <1>3 DEF GoneStays, GoneStatuses
<1> QED
  BY <1>1, <1>4 DEF Ordinary, StatusKeeps

\* as do the writes that end slow requests,
LEMMA WriteOrdinary ==
  ASSUME GoodsType, Papers, Delivering, Write
  PROVE  Ordinary /\ Papers' /\ Standing
<1>1. PICK c \in Clerks :
        create_shipment(c) \/ add_ready_packages(c) \/ add_package(c) \/ deliver(c) \/ Abort(c)
  BY DEF Write
<1>2. CASE create_shipment(c)
  BY <1>2, SameOrdinary, CreatePapers DEF create_shipment
<1>3. CASE add_ready_packages(c) \/ add_package(c)
  <2>1. /\ pending[c].kind \in {"add", "addReady"} /\ Finish(c) /\ UNCHANGED <<goods, answered>>
        /\ shipment' = [shipment EXCEPT ![pending[c].shipment].links =
                          [p \in Packages |-> @[p] + pending[c].found[p]]]
    BY <1>3 DEF add_ready_packages, add_package
  <2> QED
    BY <2>1, SameOrdinary, ExtendPapers
<1>4. CASE deliver(c)
  BY <1>4, DeliverOrdinary, DeliverPapers
<1>5. CASE Abort(c)
  BY <1>5, SameOrdinary, AbortPapers DEF Abort
<1> QED
  BY <1>1, <1>2, <1>3, <1>4, <1>5

\* A scan that brings a package nobody planned moves reservations of the order.
LEMMA MoveOrdinary ==
  ASSUME GoodsType, DocumentType, OneShipmentPerOrder, Ledger, NEW s \in Shipments, Open(s),
         NEW p \in Packages, NEW Q, shipment[s].order # NoOrder,
         _move_package_reservations(shipment[s].order, Q, p), UNCHANGED <<status, dispatched, direct, hold>>
  PROVE  Ordinary
<1>1. PICK o \in Orders : o = shipment[s].order
  BY SheetFields
<1>2. \/ LabelStep
      \/ \E new \in [Rows -> Nat] :
           ShiftStep(o, [r \in Rows |-> IF PackageOf[r] \in Q THEN claim[o][r] ELSE 0], new)
  BY <1>1, MoveShifts
<1>3. Fits([r \in Rows |-> IF PackageOf[r] \in Q THEN claim[o][r] ELSE 0])
  BY <1>1, MoveFits
<1>4. PICK old : old = [r \in Rows |-> IF PackageOf[r] \in Q THEN claim[o][r] ELSE 0]
  OBVIOUS
<1>5. CASE LabelStep
  BY <1>5 DEF Ordinary
<1>6. CASE \E new \in [Rows -> Nat] : ShiftStep(o, old, new)
  BY <1>3, <1>4, <1>6, ShiftOrdinary
<1> QED
  BY <1>2, <1>4, <1>5, <1>6

\* scans, and
LEMMA ScanOrdinary ==
  ASSUME GoodsType, Within, Papers, Filled, Ledger, Scan
  PROVE  Ordinary /\ Papers' /\ Standing
<1>1. PICK s \in Shipments, p \in Packages :
        \/ ScanAttached(s, p) \/ ScanNew(s, p) \/ ScanExtraPack(s, p)
        \/ \E q \in Packages : _replace_unscanned_same_model_package(s, q, p)
  BY DEF Scan
<1>2. DocumentType /\ OneShipmentPerOrder
  BY DEF Papers
<1>3. CASE ScanAttached(s, p)
  <2>1. UNCHANGED goods
    BY <1>3 DEF ScanAttached
  <2> QED
    BY <1>2, <1>3, <2>1, ScanAttachedEdits, EditPapers, SameOrdinary
<1>4. CASE ScanNew(s, p)
  <2>1. /\ ScanAllowed(s, p) /\ ~Attached(s, p) /\ UNCHANGED goods /\ UNCHANGED <<pending, answered>>
        /\ Scanned(s, p, [shipment[s] EXCEPT !.links[p] = remaining_quantity(p)])
    BY <1>4 DEF ScanNew
  <2> QED
    BY <1>2, <2>1, FreshScanEdits, EditPapers, SameOrdinary
<1>5. CASE ScanExtraPack(s, p)
  <2>1. /\ ScanAllowed(s, p) /\ ~Attached(s, p) /\ shipment[s].order # NoOrder
        /\ _move_package_reservations(shipment[s].order, {}, p)
        /\ UNCHANGED <<status, dispatched, direct, hold>> /\ UNCHANGED <<pending, answered>>
        /\ Scanned(s, p, [shipment[s] EXCEPT !.links[p] = remaining_quantity(p)])
    BY <1>5 DEF ScanExtraPack
  <2>2. Open(s)
    BY <2>1 DEF ScanAllowed
  <2>3. Ordinary
    BY <1>2, <2>1, <2>2, MoveOrdinary
  <2> QED
    BY <1>2, <2>1, <2>3, FreshScanEdits, EditPapers
<1>6. CASE \E q \in Packages : _replace_unscanned_same_model_package(s, q, p)
  <2>1. PICK q \in Packages : _replace_unscanned_same_model_package(s, q, p)
    BY <1>6
  <2>2. /\ ScanAllowed(s, p) /\ shipment[s].order # NoOrder
        /\ _move_package_reservations(shipment[s].order, {q}, p)
        /\ UNCHANGED <<status, dispatched, direct, hold>>
    BY <2>1 DEF _replace_unscanned_same_model_package
  <2>3. Open(s)
    BY <2>2 DEF ScanAllowed
  <2>4. Ordinary
    BY <1>2, <2>2, <2>3, MoveOrdinary
  <2> QED
    BY <1>2, <2>1, <2>4, ReplaceEdits, EditPapers
<1> QED
  BY <1>1, <1>3, <1>4, <1>5, <1>6

\* the review before a dispatch.
LEMMA ReviewOrdinary ==
  ASSUME GoodsType, Within, Papers, Review
  PROVE  Ordinary /\ Papers' /\ Standing
<1>1. PICK s \in Shipments :
        \/ CreateBare(s)
        \/ \E S \in SUBSET Packages : prepare_shipment(s, S)
        \/ \E p \in Packages : detach_shipment_package(s, p)
        \/ \E p \in shipment[s].scanned : \E quantities \in Counts(p) :
             select_dispatch_quantity(s, p, quantities) \/ correct_received_quantity(s, p, quantities)
        \/ delete_manual_shipment(s)
  BY DEF Review
<1>2. DocumentType /\ shipment[s].scanned \subseteq Packages /\ shipment[s].order \in Orders \cup {NoOrder}
  BY SheetFields DEF Papers
<1>3. CASE CreateBare(s)
  BY <1>3, BarePapers, SameOrdinary DEF CreateBare
<1>4. ASSUME NEW S \in SUBSET Packages, prepare_shipment(s, S)
      PROVE  Ordinary /\ Papers' /\ Standing
  <2>1. _release(S)
    BY <1>4 DEF prepare_shipment
  <2> QED
    BY <1>4, <2>1, PreparePapers DEF Ordinary
<1>5. ASSUME NEW p \in Packages, detach_shipment_package(s, p)
      PROVE  Ordinary /\ Papers' /\ Standing
  <2>1. Ordinary
    BY <1>2, <1>5, DetachShifts, ReservedFits, ShiftOrdinary DEF Ordinary
  <2> QED
    BY <1>2, <1>5, <2>1, DetachEdits, EditPapers
<1>6. ASSUME NEW p \in Packages, NEW quantities \in Counts(p), select_dispatch_quantity(s, p, quantities)
      PROVE  Ordinary /\ Papers' /\ Standing
  <2>1. UNCHANGED goods
    BY <1>6 DEF select_dispatch_quantity
  <2> QED
    BY <1>2, <1>6, <2>1, SelectEdits, EditPapers, SameOrdinary
<1>7. ASSUME NEW p \in Packages, NEW quantities \in Counts(p), correct_received_quantity(s, p, quantities)
      PROVE  Ordinary /\ Papers' /\ Standing
  <2>1. Ordinary
    BY <1>7 DEF Ordinary
  <2> QED
    BY <1>2, <1>7, <2>1, CorrectEdits, EditPapers
<1>8. CASE delete_manual_shipment(s)
  <2>1. Ordinary
    BY <1>8, DeleteRelabels DEF Ordinary
  <2> QED
    BY <1>2, <1>8, <2>1, DeleteEdits, EditPapers
<1> QED
  BY <1>1, <1>2, <1>3, <1>4, <1>5, <1>6, <1>7, <1>8

-----------------------------------------------------------------------------
(***************************************************************************)
(* The invariant.  Types, papers and marks tie the documents together;     *)
(* Filled, Delivering and Held tie them to the packages; Ledger and the    *)
(* two accounts tie them to the rows.                                      *)
(***************************************************************************)
IInv ==
  /\ GoodsType /\ Within /\ Papers /\ Marks /\ Filled /\ DispatchedAccounted
  /\ Delivering /\ Ledger /\ Held /\ SoldAccounted

\* Ordinary steps keep the invariant.
LEMMA OrdinaryInvariant ==
  ASSUME IInv, Ordinary, Papers', Standing
  PROVE  IInv'
<1>1. /\ GoodsType /\ Within /\ Papers /\ Marks /\ Filled /\ DispatchedAccounted
      /\ Delivering /\ Ledger /\ Held /\ SoldAccounted /\ DocumentType
  BY DEF IInv, Papers
<1>2. (GoodsType /\ Within)' /\ GoneStays /\ UNCHANGED dispatched /\ direct \subseteq direct'
  BY <1>1, OrdinaryGoods
<1>3. Marks'
  BY <1>1, MarksStand
<1>4. Filled'
  BY <1>1, OrdinaryFilled
<1>5. DispatchedAccounted'
  BY <1>1, <1>2, StandingPicked
<1>6. Delivering'
  <2>1. Locks'
    BY DEF Papers
  <2> QED
    BY <1>1, <1>2, <2>1, DeliveringKeeps
<1>7. Ledger' /\ Held'
  BY <1>1, OrdinaryLedger
<1>8. SoldAccounted'
  BY <1>1, <1>2, OrdinarySent
<1> QED
  BY <1>2, <1>3, <1>4, <1>5, <1>6, <1>7, <1>8 DEF IInv

\* A dispatch keeps the invariant,
LEMMA ShipInvariant ==
  ASSUME IInv, NEW s \in Shipments, NEW posted \in BOOLEAN, _ship_verified_packages(s, posted)
  PROVE  IInv'
<1>1. /\ GoodsType /\ Within /\ Papers /\ Marks /\ Filled /\ DispatchedAccounted
      /\ Delivering /\ Ledger /\ Held /\ SoldAccounted /\ DocumentType /\ Locks
  BY DEF IInv, Papers
<1>2. (GoodsType /\ Within)' /\ (GoodsType)'
  BY <1>1, ShipGoods
<1>3. Papers' /\ (DocumentType)'
  <2>1. Papers'
    BY <1>1, ShipPapers
  <2> QED
    BY <2>1 DEF Papers
<1>4. Turned(s, Dispatched(s, posted))
  BY <1>1, ShipTurns
<1>5. Marks'
  BY <1>1, <1>4, TurnedMarks
<1>6. Filled'
  BY <1>1, ShipFilled
<1>7. DispatchedAccounted'
  BY <1>1, <1>3, ShipPicked
<1>8. Delivering'
  <2>1. GoneStays
    BY ShipStays
  <2>2. \A p \in Packages : status[p] \in GoneStatuses => status'[p] \in GoneStatuses
    BY <2>1 DEF GoneStays
  <2> QED
    BY <1>1, <1>4, <2>2, TurnedDelivering
<1>9. Ledger' /\ Held'
  BY <1>1, <1>2, ShipLedger, ShipHeld
<1>10. SoldAccounted'
  BY <1>1, <1>2, <1>3, ShipSent
<1> QED
  BY <1>2, <1>3, <1>5, <1>6, <1>7, <1>8, <1>9, <1>10 DEF IInv

\* a return does,
LEMMA ReopenInvariant ==
  ASSUME IInv, NEW s \in Shipments, reopen_shipment(s)
  PROVE  IInv'
<1>1. /\ GoodsType /\ Within /\ Papers /\ Marks /\ Filled /\ DispatchedAccounted
      /\ Delivering /\ Ledger /\ Held /\ SoldAccounted /\ DocumentType /\ Locks
  BY DEF IInv, Papers
<1>2. (GoodsType /\ Within)' /\ (GoodsType)'
  BY <1>1, ReopenGoods
<1>3. Papers'
  BY <1>1, ReopenPapers
<1>4. Turned(s, Reopened(s))
  BY <1>1, ReopenTurns
<1>5. Marks'
  BY <1>1, <1>4, TurnedMarks
<1>6. Filled'
  BY <1>1, ReopenFilled
<1>7. DispatchedAccounted'
  BY <1>1, ReopenPicked
<1>8. Delivering'
  <2>1. ASSUME NEW x \in Shipments \ {s}, NEW p \in Packages, Live(x), Attached(x, p)
        PROVE  status'[p] = status[p]
    BY <2>1, ReopenStatus
  <2> QED
    BY <1>1, <1>4, <2>1, TurnedDelivering
<1>9. Ledger' /\ Held'
  BY <1>1, <1>2, ReopenLedger, ReopenHeld
<1>10. SoldAccounted'
  BY <1>1, ReopenSent
<1> QED
  BY <1>2, <1>3, <1>5, <1>6, <1>7, <1>8, <1>9, <1>10 DEF IInv

\* and so does every step.
LEMMA NextInvariant == ASSUME IInv, [Next]_vars PROVE IInv'
<1>1. /\ GoodsType /\ Within /\ Papers /\ Filled /\ Delivering /\ Ledger
  BY DEF IInv
<1>2. CASE StockStep
  BY <1>1, <1>2, StockOrdinary, SamePapers, OrdinaryInvariant
<1>3. CASE Read
  BY <1>1, <1>3, ReadOrdinary, OrdinaryInvariant
<1>4. CASE Write
  BY <1>1, <1>4, WriteOrdinary, OrdinaryInvariant
<1>5. CASE Scan
  BY <1>1, <1>5, ScanOrdinary, OrdinaryInvariant
<1>6. CASE Review
  BY <1>1, <1>6, ReviewOrdinary, OrdinaryInvariant
<1>7. CASE Dispatch
  <2>1. ASSUME NEW s \in Shipments, review_shipment_amount(s) PROVE IInv'
    <3>1. UNCHANGED goods
      BY <2>1 DEF review_shipment_amount
    <3> QED
      BY <1>1, <2>1, <3>1, AmountPapers, SameOrdinary, OrdinaryInvariant
  <2> QED
    BY <1>7, <2>1, ShipInvariant, ReopenInvariant DEF Dispatch
<1>8. CASE UNCHANGED vars
  <2>1. UNCHANGED goods /\ UNCHANGED documents
    BY <1>8 DEF vars
  <2> QED
    BY <1>1, <2>1, SamePapers, SameOrdinary, OrdinaryInvariant
<1> QED
  BY <1>2, <1>3, <1>4, <1>5, <1>6, <1>7, <1>8 DEF Next

-----------------------------------------------------------------------------
(* The initial states                                                      *)

\* Received packages are in storage, free and within their counts.
LEMMA InitGoodsType == ASSUME InitGoods PROVE GoodsType /\ Within
<1>1. \A r \in Rows : Received[r] \in Nat
  BY ReadyStockAssumption
<1>2. ASSUME NEW r \in Rows
      PROVE  stock[r] \in StockRow /\ stock[r].quantity = Received[r] /\ dispatched[r] = 0
  BY <1>1 DEF InitGoods, StockRow
<1>3. stock \in [Rows -> StockRow]
  BY <1>2 DEF InitGoods
<1>4. /\ status \in [Packages -> PackageStatuses] /\ dispatched \in [Rows -> Nat]
      /\ direct \in SUBSET Packages /\ claim \in [Orders -> [Rows -> Nat]] /\ hold \in [Packages -> Nat]
  BY DEF InitGoods, PackageStatuses, ReadyStatuses
<1> QED
  BY <1>1, <1>2, <1>3, <1>4 DEF GoodsType, Within

\* There is no shipment yet, no request and no answer,
LEMMA InitSheets ==
  ASSUME Init
  PROVE  /\ \A s \in Shipments : shipment[s] = Absent /\ ~Live(s) /\ ~Gone(s)
         /\ \A c \in Clerks : pending[c] = Nothing
         /\ answered = {}
<1>1. \A s \in Shipments : shipment[s] = Absent
  BY DEF Init
<1>2. Absent.status = "none"
  BY AbsentSheet
<1> QED
  BY <1>1, <1>2 DEF Init, Live, Gone, GoneStatuses

\* so the papers are in order,
LEMMA InitPapers == ASSUME Init PROVE Papers /\ Marks /\ Delivering
<1>1. DocumentType
  BY AbsentSheet, NothingRead DEF Init, DocumentType
<1>2. Locks
  BY InitSheets DEF Locks
<1>3. OneShipmentPerOrder /\ AnswersStand
  BY InitSheets DEF OneShipmentPerOrder, AnswersStand
<1>4. Marks
  BY InitSheets, AbsentSheet DEF Marks
<1>5. Delivering
  BY InitSheets, NothingRead DEF Delivering, Arrives
<1> QED
  BY <1>1, <1>2, <1>3, <1>4, <1>5 DEF Papers

\* and the rows are balanced, with nothing owed, sold or dispatched.
LEMMA InitAccounts == ASSUME Init PROVE Filled /\ DispatchedAccounted /\ Ledger /\ Held /\ SoldAccounted
<1>1. InitGoods /\ GoodsType /\ Within /\ DocumentType
  BY InitGoodsType, InitPapers DEF Init, Papers
<1>2. ASSUME NEW r \in Rows
      PROVE  /\ stock[r].quantity \in Nat /\ stock[r].quantity > 0 /\ stock[r].available = stock[r].quantity
             /\ stock[r].reserved = 0 /\ stock[r].sold = 0 /\ dispatched[r] = 0
             /\ \A o \in Orders : claim[o][r] = 0
  <2>1. Received[r] \in Nat /\ Received[r] > 0
    BY ReadyStockAssumption
  <2> QED
    BY <1>1, <2>1 DEF InitGoods
<1>3. Filled
  <2>1. Remaining
    BY <1>2 DEF Remaining, RowsOf
  <2> QED
    BY <1>1, <2>1, RemainingIsFilled
<1>4. DispatchedAccounted
  <2>1. ASSUME NEW r \in Rows PROVE dispatched[r] = SumOf(Picked(r))
    <3>1. \A s \in Shipments : Picked(r)[s] = 0
      BY InitSheets DEF Picked
    <3>2. SumOf(Picked(r)) = 0
      BY <1>1, <3>1, PickedCounts, SumZero
    <3> QED
      BY <1>2, <3>2
  <2> QED
    BY <2>1 DEF DispatchedAccounted, Picked
<1>5. SoldAccounted
  <2>1. ASSUME NEW r \in Rows PROVE stock[r].sold = SumOf(Sent(r))
    <3>1. \A s \in Shipments : Sent(r)[s] = 0
      BY InitSheets DEF Sent, SentBy
    <3>2. SumOf(Sent(r)) = 0
      BY <1>1, <3>1, SentCounts, SumZero
    <3> QED
      BY <1>2, <3>2
  <2> QED
    BY <2>1 DEF SoldAccounted, Sent, Kept
<1>6. Ledger
  <2>1. ASSUME NEW r \in Rows PROVE Balance(r) /\ Owed(r) /\ Proven(r)
    <3>1. Claimed(r) = 0
      BY <1>1, <1>2, NoClaimed
    <3>2. hold[PackageOf[r]] = 0
      BY <1>1, RowFields DEF InitGoods
    <3> QED
      BY <1>2, <3>1, <3>2 DEF Balance, Owed, Proven
  <2> QED
    BY <2>1 DEF Ledger, Kept
<1>7. Held
  BY <1>1 DEF Held, Keeps, InitGoods
<1> QED
  BY <1>3, <1>4, <1>5, <1>6, <1>7

\* The invariant holds at first.
LEMMA InitInvariant == ASSUME Init PROVE IInv
<1>1. GoodsType /\ Within
  BY InitGoodsType DEF Init
<1> QED
  BY <1>1, InitPapers, InitAccounts DEF IInv

-----------------------------------------------------------------------------
(* The theorems                                                            *)

\* The inductive invariant holds throughout.
THEOREM Invariance == Spec => []IInv
<1>1. Init => IInv
  BY InitInvariant
<1>2. IInv /\ [Next]_vars => IInv'
  BY NextInvariant
<1> QED
  BY <1>1, <1>2, PTL DEF Spec

\* What the invariant says of the properties.
LEMMA InvariantParts ==
  ASSUME IInv
  PROVE  /\ TypeOK /\ Balanced /\ SoldAccounted /\ ReservedAccounted
         /\ DispatchedAccounted /\ OneShipmentPerOrder /\ AnswersStand
<1>1. TypeOK
  BY TypeParts DEF IInv, Papers
<1>2. Balanced
  BY DEF IInv, Ledger, Balance, Balanced
<1>3. ReservedAccounted
  BY DEF IInv, Ledger, Owed, ReservedAccounted
<1> QED
  BY <1>1, <1>2, <1>3 DEF IInv, Papers

\* Every variable has its type: in particular no quantity of a stock row, whatever is
\* reserved, moved by a scan, corrected, dispatched and returned, is ever below zero.
THEOREM TypeCorrect == Spec => []TypeOK
  BY Invariance, InvariantParts, PTL

\* Every piece of a row, of a package that did not leave through its own endpoint, is
\* available, reserved or sold, in exactly one of the three.
THEOREM StockBalanced == Spec => []Balanced
  BY Invariance, InvariantParts, PTL

\* The sold pieces of a row are those the gone shipments sent: no piece is sent twice, and no
\* return takes back what another shipment sent.
THEOREM SoldIsSent == Spec => []SoldAccounted
  BY Invariance, InvariantParts, PTL

\* The reserved pieces of a row that is not sold out are those of the orders' reservations or
\* of a customer's hold.
THEOREM ReservedIsOwed == Spec => []ReservedAccounted
  BY Invariance, InvariantParts, PTL

\* What a package counts as dispatched is what the selections of gone shipments add up to.
THEOREM DispatchedIsPicked == Spec => []DispatchedAccounted
  BY Invariance, InvariantParts, PTL

\* However requests to create shipments interleave, an order has one live shipment at most.
THEOREM OrderShipsOnce == Spec => []OneShipmentPerOrder
  BY Invariance, InvariantParts, PTL

\* A retry is never told of a dispatch or a delivery that was reversed since.
THEOREM AnswersHold == Spec => []AnswersStand
  BY Invariance, InvariantParts, PTL
=============================================================================
