----------------------------- MODULE StockLedger -----------------------------
(***************************************************************************)
(* What the stock of an item promises, with no transactions in sight: each *)
(* committed request is one step taken on the current balances.  Stock and *)
(* ledger move together, a reservation only ever moves forward, and a      *)
(* batch never promises more than it holds.                                *)
(***************************************************************************)
EXTENDS Sums

CONSTANTS Batches, Reservations

VARIABLES
  balance,   \* what each batch holds
  ledger,    \* what the movements of each batch add up to
  account    \* per reservation, its batch and its three quantities

vars == <<balance, ledger, account>>

Claim(v) == v.reserved - v.consumed - v.released
Outstanding(b) ==
  SumOf([r \in Reservations |-> IF account[r].batch = b THEN Claim(account[r]) ELSE 0])

\* The ledger records exactly what happened to the balances.
Recorded == \A b \in Batches : ledger'[b] - ledger[b] = balance'[b] - balance[b]

Init ==
  /\ balance = ledger
  /\ \A b \in Batches : Outstanding(b) <= balance[b]

\* New reservations, within what their batches have not promised yet.
Reserve ==
  /\ UNCHANGED <<balance, ledger>>
  /\ \A r \in Reservations : account'[r] # account[r] =>
       account[r].reserved = 0 /\ account'[r].consumed = 0 /\ account'[r].released = 0
  /\ \A b \in Batches : (Outstanding(b) <= balance[b])'

\* Reservations are consumed; their batch gives up what they are charged.
Consume ==
  /\ Recorded
  /\ \A r \in Reservations :
       /\ account'[r] = [account[r] EXCEPT !.consumed = account'[r].consumed]
       /\ account'[r].consumed >= account[r].consumed /\ Claim(account'[r]) >= 0
  /\ \A b \in Batches :
       balance[b] - balance'[b] =
         SumOf([r \in Reservations |->
                  IF account[r].batch = b THEN account'[r].consumed - account[r].consumed ELSE 0])

\* What is open on some reservations returns to the unreserved stock.
Release ==
  /\ UNCHANGED <<balance, ledger>>
  /\ \A r \in Reservations : account'[r] # account[r] =>
       account'[r] = [account[r] EXCEPT !.released = @ + Claim(account[r])]

\* Receipts, movements and corrections of one batch, down to its reservations.
Post ==
  /\ Recorded
  /\ UNCHANGED account
  /\ \E b \in Batches :
       /\ \A c \in Batches \ {b} : balance'[c] = balance[c]
       /\ Outstanding(b) <= balance'[b]

\* A batch is written off together with its reservations.
WriteOff ==
  /\ Recorded
  /\ \E b \in Batches :
       /\ balance' = [balance EXCEPT ![b] = 0]
       /\ \A r \in Reservations :
            account'[r] = IF account[r].batch = b
                            THEN [account[r] EXCEPT !.released = @ + Claim(account[r])]
                            ELSE account[r]

Next == Reserve \/ Consume \/ Release \/ Post \/ WriteOff

Spec == Init /\ [][Next]_vars
=============================================================================
