----------------------------- MODULE AuditChain -----------------------------
(***************************************************************************)
(* The audit log of the backend.  log_action queues an entry in the        *)
(* session; when the root transaction commits, the queued entries are      *)
(* chained to the last one by hashes, inserted and committed with the      *)
(* business changes they describe.  An advisory lock held until the end of *)
(* the transaction makes the order of ids the order of the chain.          *)
(*                                                                         *)
(* SHA-256 is taken to be injective, so a hash stands for what it covers:  *)
(* the sequence of entries up to its own.  PostgreSQL only; the immediate  *)
(* append on SQLite is left out.                                           *)
(***************************************************************************)
EXTENDS Naturals, Sequences, FiniteSets

CONSTANTS
  Sessions,    \* database sessions
  Rows,        \* business rows, by id, that a transaction may write
  Users,       \* those of them that are users: the actors of entries
  NoUser,      \* the actor of an anonymous entry
  Levels,      \* isolation levels a connection may have been configured with
  Legacy,      \* rows written before the hash columns existed
  MaxEntries,  \* bound on the entries logged in a behaviour
  MaxDepth     \* bound on the transactions nested in each other

ASSUME AuditAssumption ==
  /\ Users \subseteq Rows /\ Rows \subseteq Nat
  /\ NoUser \notin Rows
  /\ Levels \subseteq {"READ COMMITTED", "REPEATABLE READ"}
  /\ Legacy \in Nat /\ MaxEntries \in Nat /\ MaxDepth \in Nat

VARIABLES
  audit_logs,  \* committed rows
  nextId,      \* the id sequence of audit_logs; rollbacks leave gaps
  session,     \* the transaction each session is in
  logged,      \* calls of log_action so far, which number the entries
  history      \* auxiliary: what committed transactions logged, in commit order

vars == <<audit_logs, nextId, session, logged, history>>

Entry == [user: Users \cup {NoUser}, number: Nat]
Hash == Seq(Entry)
NoHash == <<>>
Digest(prev, entry) == Append(prev, entry)

Unhashed == [user |-> NoUser, number |-> 0]
AuditLog == [id: Nat, entry: Entry, prev_hash: Hash, entry_hash: Hash]

Lock == Rows \X {"update", "write", "share"}
\* A transaction or savepoint: its queue in db.info, the changes those
\* entries describe, and the row locks that end with it.
Frame == [queue: Seq(Entry), work: Seq(Entry), locks: SUBSET Lock]
NewFrame == [queue |-> <<>>, work |-> <<>>, locks |-> {}]

\* linked: rows inserted and not committed; head: the last hash it sees.
Transaction ==
  [phase: {"idle", "working", "finalizing", "locked", "read", "linked"},
   level: Levels \cup {"none"}, frames: Seq(Frame), dirty: SUBSET Rows,
   head: Hash, linked: SUBSET AuditLog]
Idle ==
  [phase |-> "idle", level |-> "none", frames |-> <<>>, dirty |-> {},
   head |-> NoHash, linked |-> {}]

Hashed(rows) == {r \in rows : r.entry_hash # NoHash}
\* _latest_entry_hash over the rows a query sees.
Latest(rows) ==
  IF Hashed(rows) = {} THEN NoHash
  ELSE (CHOOSE r \in Hashed(rows) : \A s \in Hashed(rows) : s.id <= r.id).entry_hash

Init ==
  /\ audit_logs = {[id |-> i, entry |-> Unhashed, prev_hash |-> NoHash, entry_hash |-> NoHash] :
                     i \in 1..Legacy}
  /\ nextId = Legacy + 1
  /\ session = [t \in Sessions |-> Idle]
  /\ logged = 0
  /\ history = <<>>

-----------------------------------------------------------------------------
(***************************************************************************)
(* Transactions, savepoints and row locks.                                 *)
(***************************************************************************)
Depth(t) == Len(session[t].frames)
Top(t) == session[t].frames[Depth(t)]
Outer(t) == SubSeq(session[t].frames, 1, Depth(t) - 1)
Queue(t) == session[t].frames[1].queue
Actors(t) == {Queue(t)[i].user : i \in DOMAIN Queue(t)} \ {NoUser}

Locks(t) == UNION {session[t].frames[i].locks : i \in DOMAIN session[t].frames}
Conflict(m, n) == "update" \in {m, n} \/ (m = "write" /\ n = "write")
Grantable(t, r, m) ==
  \A u \in Sessions \ {t} : \A l \in Locks(u) : l[1] = r => ~Conflict(l[2], m)

Become(t, transaction) == session' = [session EXCEPT ![t] = transaction]
Step(t, transaction) ==
  Become(t, transaction) /\ UNCHANGED <<audit_logs, nextId, logged, history>>

SetTop(t, frame) == [session[t].frames EXCEPT ![Depth(t)] = frame]
Grant(t, r, m) ==
  /\ Grantable(t, r, m)
  /\ Step(t, [session[t] EXCEPT
       !.frames = SetTop(t, [Top(t) EXCEPT !.locks = @ \cup {<<r, m>>}]),
       !.dirty = IF m = "write" THEN @ \ {r} ELSE @])

Working(t) == session[t].phase = "working"

Begin(t, level) ==
  /\ session[t].phase = "idle"
  /\ Step(t, [Idle EXCEPT !.phase = "working", !.level = level, !.frames = <<NewFrame>>,
                          !.head = IF level = "REPEATABLE READ" THEN Latest(audit_logs) ELSE NoHash])

\* A mapped object is changed in memory (once its row is written, a further
\* flush of it needs no new lock), or a user row is locked by its handler.
Change(t, r) ==
  /\ Working(t) /\ <<r, "write">> \notin Locks(t)
  /\ Step(t, [session[t] EXCEPT !.dirty = @ \cup {r}])
LockUser(t, u) == Working(t) /\ <<u, "update">> \notin Locks(t) /\ Grant(t, u, "update")
\* db.flush() writes one changed row: by the handler, and wherever it must be done.
Flush(t, r) == r \in session[t].dirty /\ Grant(t, r, "write")

Savepoint(t) ==
  /\ Working(t) /\ session[t].dirty = {} /\ Depth(t) < MaxDepth
  /\ Step(t, [session[t] EXCEPT !.frames = Append(@, NewFrame)])

\* Mutant: the queue of a rolled-back savepoint is kept.
PromotedAlways(queue, outcome) == queue
\* What _finish_audit_transaction moves to the parent.
Promoted(queue, outcome) == IF outcome = "committed" THEN queue ELSE <<>>

\* RELEASE SAVEPOINT: changes and locks stay with the parent.
Release(t) ==
  LET parent == session[t].frames[Depth(t) - 1]
      joined == [queue |-> parent.queue \o Promoted(Top(t).queue, "committed"),
                 work |-> parent.work \o Top(t).work,
                 locks |-> parent.locks \cup Top(t).locks]
  IN /\ Working(t) /\ session[t].dirty = {} /\ Depth(t) > 1
     /\ Step(t, [session[t] EXCEPT !.frames = [Outer(t) EXCEPT ![Depth(t) - 1] = joined]])

\* ROLLBACK TO SAVEPOINT: changes since, flushed or not, and their locks go.
RollbackTo(t) ==
  LET parent == session[t].frames[Depth(t) - 1]
      kept == [parent EXCEPT !.queue = @ \o Promoted(Top(t).queue, "rolled back")]
  IN /\ Working(t) /\ Depth(t) > 1
     /\ Step(t, [session[t] EXCEPT !.frames = [Outer(t) EXCEPT ![Depth(t) - 1] = kept],
                                   !.dirty = {}])

\* An error anywhere, a lost connection, a crash, or a deadlock abort.
Rollback(t) == session[t].phase # "idle" /\ Step(t, Idle)

-----------------------------------------------------------------------------
(***************************************************************************)
(* log_action and _finalize_postgres_audits.                               *)
(***************************************************************************)
Log(t, user) ==
  LET entry == [user |-> user, number |-> logged + 1]
  IN /\ Working(t) /\ session[t].dirty = {} /\ logged < MaxEntries
     /\ logged' = logged + 1
     /\ Become(t, [session[t] EXCEPT !.frames =
          SetTop(t, [Top(t) EXCEPT !.queue = Append(@, entry), !.work = Append(@, entry)])])
     /\ UNCHANGED <<audit_logs, nextId, history>>

\* Mutant: any isolation level will do.
ChainableAny(level) == TRUE
Chainable(level) == level = "READ COMMITTED"

\* Mutant: the COMMIT of a savepoint finalizes too.
FinalizeNested(t) ==
  /\ Working(t) /\ Queue(t) # <<>> /\ Chainable(session[t].level)
  /\ Step(t, [session[t] EXCEPT !.phase = "finalizing"])
\* before_commit of the root transaction, with something to append.
Finalize(t) ==
  /\ Working(t) /\ Depth(t) = 1 /\ Queue(t) # <<>> /\ Chainable(session[t].level)
  /\ Step(t, [session[t] EXCEPT !.phase = "finalizing"])

\* FOR KEY SHARE of the actors, after the flush, in ascending order.
LockActor(t, u) ==
  /\ session[t].phase = "finalizing" /\ session[t].dirty = {}
  /\ u \in Actors(t) /\ <<u, "share">> \notin Locks(t)
  /\ \A v \in Actors(t) : v < u => <<v, "share">> \in Locks(t)
  /\ Grant(t, u, "share")

\* Mutant: the foreign keys of the entries are left to the INSERT.
MutexReadyUnlocked(t) == session[t].dirty = {}
\* Everything else that may have to wait is done.
MutexReady(t) == session[t].dirty = {} /\ \A u \in Actors(t) : <<u, "share">> \in Locks(t)

HoldsMutex(t) == session[t].phase \in {"locked", "read", "linked"}
LockChain(t) ==
  /\ session[t].phase = "finalizing" /\ MutexReady(t)
  /\ \A u \in Sessions \ {t} : ~HoldsMutex(u)
  /\ Step(t, [session[t] EXCEPT !.phase = "locked"])

\* A repeatable read still sees the snapshot it began with.
ReadHead(t) ==
  /\ session[t].phase = "locked"
  /\ Step(t, [session[t] EXCEPT !.phase = "read",
       !.head = IF session[t].level = "REPEATABLE READ" THEN @ ELSE Latest(audit_logs)])

\* The rows of the queue, each linked to the one before it.
Chained(t) ==
  LET before(i) == session[t].head \o SubSeq(Queue(t), 1, i - 1)
  IN {[id |-> nextId + i - 1, entry |-> Queue(t)[i], prev_hash |-> before(i),
       entry_hash |-> Digest(before(i), Queue(t)[i])] : i \in DOMAIN Queue(t)}

Insert(t) ==
  /\ session[t].phase = "read" /\ session[t].dirty = {}
  /\ \A u \in Actors(t) : Grantable(t, u, "share")
  /\ Become(t, [session[t] EXCEPT !.phase = "linked", !.linked = Chained(t)])
  /\ nextId' = nextId + Len(Queue(t))
  /\ UNCHANGED <<audit_logs, logged, history>>

\* COMMIT, of a chained transaction or of one that logged nothing.
Commit(t) ==
  /\ session[t].dirty = {}
  /\ session[t].phase = "linked" \/ (Working(t) /\ Depth(t) = 1 /\ Queue(t) = <<>>)
  /\ audit_logs' = audit_logs \cup session[t].linked
  /\ history' = history \o session[t].frames[1].work
  /\ Become(t, Idle)
  /\ UNCHANGED <<nextId, logged>>

Next ==
  \E t \in Sessions :
    \/ \E level \in Levels : Begin(t, level)
    \/ \E r \in Rows : Change(t, r) \/ Flush(t, r)
    \/ \E u \in Users : LockUser(t, u) \/ LockActor(t, u)
    \/ \E user \in Users \cup {NoUser} : Log(t, user)
    \/ Savepoint(t) \/ Release(t) \/ RollbackTo(t) \/ Rollback(t)
    \/ Finalize(t) \/ LockChain(t) \/ ReadHead(t) \/ Insert(t) \/ Commit(t)

Spec == Init /\ [][Next]_vars

-----------------------------------------------------------------------------
\* Tables and sessions are well-formed: a session past "working" has no open
\* savepoint, and an idle one no transaction.
TypeOK ==
  /\ audit_logs \subseteq AuditLog
  /\ nextId \in Nat /\ logged \in Nat
  /\ session \in [Sessions -> Transaction]
  /\ history \in Hash
  /\ \A t \in Sessions :
       /\ Working(t) => Depth(t) > 0
       /\ session[t].phase \in {"finalizing", "locked", "read", "linked"} => Depth(t) = 1

\* verify_audit_hash_chain from a given id: every row is hashed, linked to
\* the last hashed row before it, and its hash covers its entry.
Verified(start) ==
  \A r \in {s \in audit_logs : s.id >= start} :
    /\ r.entry_hash # NoHash
    /\ r.prev_hash = Latest({s \in audit_logs : s.id < r.id})
    /\ r.entry_hash = Digest(r.prev_hash, r.entry)

\* The committed log verifies from every id after the rows that never had
\* hashes, whatever transactions ran concurrently, failed or left gaps.
ChainVerifies == \A start \in (Legacy + 1)..nextId : Verified(start)

\* The chain covers exactly what committed transactions logged, in the order
\* of their commits: nothing of a rolled-back savepoint or transaction, and
\* no entry of a savepoint that was released is missing.
TrailIsHistory == Latest(audit_logs) = history

\* The session inside the chain mutex never waits for a row: all it has yet
\* to lock can be granted, so nobody queues on the mutex behind a row lock.
HolderNeverWaits ==
  \A t \in Sessions : session[t].phase \in {"locked", "read"} =>
    /\ \A r \in session[t].dirty : Grantable(t, r, "write")
    /\ \A u \in Actors(t) : Grantable(t, u, "share")
=============================================================================
