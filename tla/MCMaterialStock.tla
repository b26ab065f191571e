-------------------------- MODULE MCMaterialStock ---------------------------
(***************************************************************************)
(* Small databases for TLC: two or three fabric batches, as many           *)
(* reservation ids, one or two production orders, two sessions.            *)
(***************************************************************************)
EXTENDS MaterialStock, TLC

\* One session, then two that are interchangeable.
SessionSymmetry == Permutations(Sessions)

\* Two units in the first batch, the second not yet received.
OneBatch == [b \in Batches |-> IF b = 1 THEN 2 ELSE 0]
\* Two batches in stock, a third, if any, still to be received.
TwoBatches == [b \in Batches |-> CASE b = 1 -> 2 [] b = 2 -> 1 [] OTHER -> 0]

\* Two units of batch 1 reserved as reservation 1.
OneReservation ==
  [r \in Reservations |->
     IF r = 1 THEN [order |-> 1, batch |-> 1, reserved |-> 2, consumed |-> 0,
                    released |-> 0, status |-> "reserved"]
     ELSE NoRow]
\* Also one unit of the item reserved, of no batch in particular, as reservation 2.
ItemReservation ==
  [OneReservation EXCEPT ![2] = [order |-> 1, batch |-> ItemRow, reserved |-> 1, consumed |-> 0,
                                 released |-> 0, status |-> "reserved"]]
\* The endpoints with one lock order.
Ordered == {"receive", "reserve", "release", "cut", "update", "move", "archive", "restore"}
=============================================================================
