------------------------------ MODULE PieceFlow ------------------------------
(***************************************************************************)
(* What the factory floor promises about the pieces of each batch, with no *)
(* records, locks or requests in sight: a stage takes from what the stage  *)
(* before it has made, and a stage whose work was handed on never takes it *)
(* back - except that undoing a package returns its pieces to Sewing's     *)
(* output, exactly as many as it held.                                     *)
(***************************************************************************)
EXTENDS Integers

CONSTANT Batches

VARIABLES
  cut,     \* pieces cut
  allowed, \* pieces Sewing may put in: the cut ones, or a higher count Cutting confirmed
  fed,     \* pieces that Sewing put in
  made,    \* pieces that passed Sewing
  handed,  \* of those, the ones Packaging has received
  used,    \* of those, the ones Packaging has put in
  packed,  \* of those, the ones packed in good order
  boxed    \* of those, the ones in packages

vars == <<cut, allowed, fed, made, handed, used, packed, boxed>>

None == [b \in Batches |-> 0]
Init == \A f \in {cut, allowed, fed, made, handed, used, packed, boxed} : f = None

\* The step concerns the batch b and leaves the others of the table as they were.
Only(b, new, old) == new = [old EXCEPT ![b] = new[b]]

Untouched(b) == handed[b] = 0 /\ used[b] = 0

\* Cutting counts again while Sewing has put nothing in.  It confirms no count below what
\* was cut, and none before it has cut.
CutBatch(b) ==
  /\ fed[b] = 0 /\ Only(b, cut', cut) /\ Only(b, allowed', allowed)
  /\ cut'[b] <= allowed'[b] /\ (cut'[b] = 0 => allowed'[b] = 0)
  /\ UNCHANGED <<fed, made, handed, used, packed, boxed>>

\* Sewing enters more, or corrects what nobody has taken over.
SewBatch(b) ==
  /\ Only(b, fed', fed) /\ Only(b, made', made)
  /\ fed'[b] > fed[b] => fed'[b] <= allowed[b]
  /\ Untouched(b) \/ (fed'[b] >= fed[b] /\ made'[b] >= made[b])
  /\ UNCHANGED <<cut, allowed, handed, used, packed, boxed>>

HandOver(b) ==
  /\ Only(b, handed', handed) /\ handed[b] < handed'[b] /\ handed'[b] <= made[b]
  /\ UNCHANGED <<cut, allowed, fed, made, used, packed, boxed>>

PackBatch(b) ==
  /\ Only(b, used', used) /\ used[b] < used'[b] /\ used'[b] <= made[b]
  /\ Only(b, packed', packed) /\ packed[b] <= packed'[b]
  /\ packed'[b] - packed[b] <= used'[b] - used[b]
  /\ UNCHANGED <<cut, allowed, fed, made, handed, boxed>>

\* A package is filled, or its contents are changed, within what was packed.
FillPackage ==
  /\ \A b \in Batches : boxed'[b] <= packed[b] \/ boxed'[b] <= boxed[b]
  /\ boxed' = [b \in Batches |-> boxed'[b]]
  /\ UNCHANGED <<cut, allowed, fed, made, handed, used, packed>>

\* A package is undone: its pieces are neither packed nor boxed any more.
UndoPackage ==
  /\ \A b \in Batches :
       /\ boxed[b] - boxed'[b] = packed[b] - packed'[b]
       /\ boxed'[b] <= boxed[b]
       /\ packed'[b] <= used'[b] /\ used'[b] <= used[b]
       /\ boxed'[b] = boxed[b] => used'[b] = used[b]
  /\ UNCHANGED <<cut, allowed, fed, made, handed>>

Next ==
  \/ \E b \in Batches : CutBatch(b) \/ SewBatch(b) \/ HandOver(b) \/ PackBatch(b)
  \/ FillPackage \/ UndoPackage

Spec == Init /\ [][Next]_vars
=============================================================================
