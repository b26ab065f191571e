------------------------------ MODULE OnceOnly -------------------------------
(***************************************************************************)
(* What a caller may rely on when it repeats a write under the same        *)
(* Idempotency-Key: the write takes effect at most once, or is cancelled   *)
(* for good, and every answer reports what became of it.                   *)
(***************************************************************************)
EXTENDS Naturals, Sequences

CONSTANTS
  Slots,      \* one per caller, operation and key
  Sessions,   \* attempts that may be under way at the same time
  Outcomes    \* what may become of a slot

VARIABLES
  decided,    \* per slot, the outcomes that took effect, in order
  told        \* per attempt, what the caller was answered

Nothing == <<>>
vars == <<decided, told>>

\* Effects from before the first behaviour are remembered too.
Init ==
  /\ decided \in [Slots -> {<<>>} \cup {<<o>> : o \in Outcomes}]
  /\ told = [s \in Sessions |-> Nothing]

\* Attempt s settles the slot and answers.
Settle(s, i, o) ==
  /\ decided[i] = <<>> /\ told[s] = Nothing
  /\ decided' = [decided EXCEPT ![i] = <<o>>]
  /\ told' = [told EXCEPT ![s] = <<i, o>>]

\* Attempt s only reports what became of the slot.
Report(s, i) ==
  /\ decided[i] # <<>> /\ told[s] = Nothing
  /\ told' = [told EXCEPT ![s] = <<i, Head(decided[i])>>]
  /\ UNCHANGED decided

\* The answer reached the caller or was lost.
Forget(s) == told' = [told EXCEPT ![s] = Nothing] /\ UNCHANGED decided

Next ==
  \E s \in Sessions :
    \/ \E i \in Slots, o \in Outcomes : Settle(s, i, o)
    \/ \E i \in Slots : Report(s, i)
    \/ Forget(s)

Spec == Init /\ [][Next]_vars
=============================================================================
