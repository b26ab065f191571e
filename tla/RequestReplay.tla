---------------------------- MODULE RequestReplay ----------------------------
(***************************************************************************)
(* The idempotency protocol of the backend's write endpoints.  A handler   *)
(* binds the caller's identity, takes the advisory lock of its key until   *)
(* the transaction ends, looks for a saved response, and otherwise does    *)
(* its work and saves the response in the same COMMIT.                     *)
(*                                                                         *)
(* One scope (operation name); a request payload stands for its SHA-256    *)
(* fingerprint, and a saved response for the payload that produced it.     *)
(***************************************************************************)
EXTENDS Naturals, Sequences, FiniteSets

CONSTANTS
  Sessions,     \* attempts that may be under way at the same time
  Users, Factories, Keys, Payloads,
  Cancelled,    \* the tombstone response of a reconciliation
  NoRow,        \* no row under the key
  Kinds,        \* the endpoints in use: "write", "reconcile"
  OldTables,    \* the rows an older version may have left, per key
  MaxAttempts   \* bound on the attempts of a behaviour

\* The identity and key that _scoped_operation and the lock id digest.
Slots == [user: Users, factory: Factories, key: Keys]
Outcomes == Payloads \cup {Cancelled}
\* Answers that carry no outcome; the last three are the package endpoints'.
NoOutcome == {"none", "refused", "error", "early", "gone", "unavailable"}

Row == [payload: Payloads, outcome: Outcomes]
\* A row saved under the bare scope.  user and factory are who really wrote
\* it; known tells which of them the row itself gives evidence of.
OldRow == [user: Users, factory: Factories, payload: Payloads, known: SUBSET {"user", "factory"}]

ASSUME ReplayAssumption ==
  /\ Cancelled \notin Payloads /\ NoRow \notin Row \cup OldRow
  /\ NoOutcome \cap Outcomes = {}
  /\ OldTables \subseteq [Keys -> OldRow \cup {NoRow}]
  /\ Kinds \subseteq {"write", "reconcile"}
  /\ MaxAttempts \in Nat

VARIABLES
  rows,       \* idempotency_records of the current format, by (scope, key)
  old,        \* idempotency_records of the older format, by key
  decided,    \* per slot, the business effects committed, in order
  attempt,    \* the attempt each session is executing
  attempts    \* attempts received so far

vars == <<rows, old, decided, attempt, attempts>>

Idle == [phase |-> "idle"]
Attempt ==
  [phase: {"arrived", "locked", "working", "answered"}, kind: Kinds, slot: Slots,
   payload: Payloads, answer: Outcomes \cup NoOutcome]

WrittenBy(l, i) == l # NoRow /\ l.user = i.user /\ l.factory = i.factory
OldEffect(i) == IF WrittenBy(old[i.key], i) THEN <<old[i.key].payload>> ELSE <<>>

Init ==
  /\ rows = [i \in Slots |-> NoRow]
  /\ old \in OldTables
  /\ decided = [i \in Slots |-> OldEffect(i)]
  /\ attempt = [s \in Sessions |-> Idle]
  /\ attempts = 0

-----------------------------------------------------------------------------
(***************************************************************************)
(* The replay lookup.                                                      *)
(***************************************************************************)

\* Mutant: a row without an owner counts as another caller's.
UnprovenSkipped(l, i) == l # NoRow /\ "user" \in l.known /\ l.user = i.user /\ "factory" \notin l.known
\* An older row that may or may not be this caller's: review, do not retry.
Unproven(l, i) ==
  /\ l # NoRow
  /\ "user" \in l.known => l.user = i.user /\ "factory" \notin l.known

\* Mutant: the factory of an older row is not compared.
ProvenAnyFactory(l, i) == l # NoRow /\ l.known = {"user", "factory"} /\ l.user = i.user
\* An older row of this caller.
Proven(l, i) == WrittenBy(l, i) /\ l.known = {"user", "factory"}

\* The row replay_idempotent_response returns or refuses, NoRow if none.
Saved(i) ==
  IF rows[i] # NoRow THEN rows[i]
  ELSE IF Proven(old[i.key], i)
    THEN [payload |-> old[i.key].payload, outcome |-> old[i.key].payload]
    ELSE NoRow

Refused(i, p) ==
  IF Saved(i) = NoRow THEN Unproven(old[i.key], i) ELSE Saved(i).payload # p

-----------------------------------------------------------------------------
(***************************************************************************)
(* One attempt.                                                            *)
(***************************************************************************)
Become(s, phase, answer) ==
  attempt' = [attempt EXCEPT ![s].phase = phase, ![s].answer = answer]

Arrive(s, kind, i, p) ==
  /\ attempt[s] = Idle /\ attempts < MaxAttempts
  /\ attempt' = [attempt EXCEPT ![s] =
       [phase |-> "arrived", kind |-> kind, slot |-> i, payload |-> p, answer |-> "none"]]
  /\ attempts' = attempts + 1
  /\ UNCHANGED <<rows, old, decided>>

Holds(s) == attempt[s].phase \in {"locked", "working"}

\* Mutant: no advisory lock.
UnlockedAlways(s) == TRUE
\* pg_advisory_xact_lock of the slot can be granted.
Unlocked(s) == \A t \in Sessions \ {s} : Holds(t) => attempt[t].slot # attempt[s].slot

TakeLock(s) ==
  /\ attempt[s].phase = "arrived" /\ Unlocked(s)
  /\ Become(s, "locked", "none")
  /\ UNCHANGED <<rows, old, decided, attempts>>

\* The saved response of an equal request is the answer.
Replay(s) ==
  LET i == attempt[s].slot IN
  /\ attempt[s].phase = "locked"
  /\ Saved(i) # NoRow /\ ~Refused(i, attempt[s].payload)
  /\ Become(s, "answered", Saved(i).outcome)
  /\ UNCHANGED <<rows, old, decided, attempts>>

\* 409: another payload under this key, or an owner nobody can prove.
Refuse(s) ==
  /\ attempt[s].phase = "locked" /\ Refused(attempt[s].slot, attempt[s].payload)
  /\ Become(s, "answered", "refused")
  /\ UNCHANGED <<rows, old, decided, attempts>>

\* Nothing saved: the handler goes on to its business rules.
StartWork(s) ==
  LET i == attempt[s].slot IN
  /\ attempt[s].phase = "locked"
  /\ Saved(i) = NoRow /\ ~Refused(i, attempt[s].payload)
  /\ Become(s, "working", "none")
  /\ UNCHANGED <<rows, old, decided, attempts>>

\* Mutant: the response is saved by a transaction of its own, which may fail.
RecordLost(s, o) == UNCHANGED rows
\* Mutant: the response is saved before the handler has computed it.
RecordEmpty(s, o) ==
  LET i == attempt[s].slot IN
  /\ rows[i] = NoRow
  /\ rows' = [rows EXCEPT ![i] = [payload |-> attempt[s].payload, outcome |-> "none"]]
\* UNIQUE (scope, key) lets one row in.
Record(s, o) ==
  LET i == attempt[s].slot IN
  /\ rows[i] = NoRow
  /\ rows' = [rows EXCEPT ![i] = [payload |-> attempt[s].payload, outcome |-> o]]

\* Effect and response are committed together.
Settle(s, o) ==
  /\ Record(s, o)
  /\ decided' = [decided EXCEPT ![attempt[s].slot] = Append(@, o)]
  /\ Become(s, "answered", o)
  /\ UNCHANGED <<old, attempts>>

Working(s, kind) == attempt[s].phase = "working" /\ attempt[s].kind = kind
Finish(s) == Working(s, "write") /\ Settle(s, attempt[s].payload)
Tombstone(s) == Working(s, "reconcile") /\ Settle(s, Cancelled)

\* A business rule, an unavailable database or a crash: everything rolls back.
Fail(s, answer) ==
  /\ attempt[s].phase \in {"arrived", "locked", "working"}
  /\ Become(s, "answered", answer)
  /\ UNCHANGED <<rows, old, decided, attempts>>

\* The response leaves; it may or may not reach the caller.
End(s) ==
  /\ attempt[s].phase = "answered"
  /\ attempt' = [attempt EXCEPT ![s] = Idle]
  /\ UNCHANGED <<rows, old, decided, attempts>>

Next ==
  \E s \in Sessions :
    \/ \E kind \in Kinds, i \in Slots, p \in Payloads : Arrive(s, kind, i, p)
    \/ TakeLock(s)
    \/ Replay(s)
    \/ Refuse(s)
    \/ StartWork(s)
    \/ Finish(s)
    \/ Tombstone(s)
    \/ Fail(s, "error")
    \/ End(s)

Spec == Init /\ [][Next]_vars

-----------------------------------------------------------------------------
(***************************************************************************)
(* Properties.                                                             *)
(***************************************************************************)

\* Rows, effects and attempts have the shape of their tables.
TypeOK ==
  /\ rows \in [Slots -> Row \cup {NoRow}]
  /\ old \in OldTables
  /\ decided \in [Slots -> Seq(Outcomes)]
  /\ attempt \in [Sessions -> Attempt \cup {Idle}]
  /\ attempts \in Nat

\* A caller's write under one key takes effect at most once, counting what an
\* older version of the program did under the same key
\* (replay_idempotent_response and store_idempotent_response together).
PerformedOnce == \A i \in Slots : Len(decided[i]) <= 1

\* A successful answer is the outcome of this caller's own key and payload,
\* never a response saved for another user, another factory or another body.
AnswersOwn ==
  \A s \in Sessions :
    attempt[s].phase = "answered" /\ attempt[s].answer \in Outcomes =>
      /\ decided[attempt[s].slot] # <<>>
      /\ attempt[s].answer = Head(decided[attempt[s].slot])
      /\ attempt[s].answer \in {attempt[s].payload, Cancelled}

\* No handler works on a slot whose response was committed meanwhile: the lock
\* outlives the lookup, so a retry replays instead of failing on the UNIQUE key.
WorksAlone ==
  \A s \in Sessions :
    attempt[s].phase = "working" => decided[attempt[s].slot] = <<>>

\* What the caller of attempt s has been answered.
Told(s) ==
  IF attempt[s] # Idle /\ attempt[s].phase = "answered" /\ attempt[s].answer \in Outcomes
    THEN <<attempt[s].slot, attempt[s].answer>> ELSE <<>>
Abstract == INSTANCE OnceOnly WITH told <- [s \in Sessions |-> Told(s)]
\* With the committed effects as the abstract decisions, replaying and saving
\* responses (replay_idempotent_response, store_idempotent_response) is OnceOnly.
ImplementsOnceOnly == Abstract!Spec
=============================================================================
