-------------------------- MODULE AuditChainProofs --------------------------
(***************************************************************************)
(* For every set of sessions, users and rows: the committed audit log      *)
(* verifies, its head covers exactly what was committed, and the session   *)
(* inside the chain mutex waits for no row.  The argument: between reading *)
(* the head and COMMIT no other session changes the log, because it would  *)
(* need the mutex; so the head stays current and the new ids are above     *)
(* all others.                                                             *)
(***************************************************************************)
EXTENDS AuditChain, TLAPS

\* The rows that chain q to the hash h, from the id n.
RowsFrom(n, h, q) ==
  {[id |-> n + i - 1, entry |-> q[i], prev_hash |-> h \o SubSeq(q, 1, i - 1),
    entry_hash |-> Append(h \o SubSeq(q, 1, i - 1), q[i])] : i \in DOMAIN q}

\* h followed by the first i entries of q.
After(h, q, i) == h \o SubSeq(q, 1, i)

-----------------------------------------------------------------------------
(* Sequences of entries.                                                   *)

\* One more entry of q behind h.
LEMMA ExtendPrefix ==
  ASSUME NEW E, NEW h \in Seq(E), NEW q \in Seq(E), NEW i \in 1..Len(q)
  PROVE  /\ h \o SubSeq(q, 1, i - 1) \in Seq(E)
         /\ Append(h \o SubSeq(q, 1, i - 1), q[i]) = h \o SubSeq(q, 1, i)
<1>1. SubSeq(q, 1, i - 1) \in Seq(E) /\ SubSeq(q, 1, i) \in Seq(E) /\ q[i] \in E
  OBVIOUS
<1>2. Len(SubSeq(q, 1, i - 1)) = i - 1 /\ Len(SubSeq(q, 1, i)) = i
  OBVIOUS
<1> DEFINE a == Append(h \o SubSeq(q, 1, i - 1), q[i])
           b == h \o SubSeq(q, 1, i)
<1>3. a \in Seq(E) /\ b \in Seq(E) /\ Len(a) = Len(h) + i /\ Len(b) = Len(h) + i
  BY <1>1, <1>2
<1>4. \A k \in 1..(Len(h) + i) : a[k] = b[k]
  BY <1>1, <1>2
<1>5. a = b
  <2> HIDE DEF a, b
  <2> QED
    BY <1>3, <1>4
<1>6. h \o SubSeq(q, 1, i - 1) \in Seq(E)
  BY <1>1
<1> QED
  BY <1>5, <1>6

\* All of q, and none of it, behind h.
LEMMA WholePrefix ==
  ASSUME NEW h \in Hash, NEW q \in Hash
  PROVE  /\ After(h, q, Len(q)) = h \o q /\ After(h, q, 0) = h
         /\ Len(q) \in Nat
<1> USE DEF Hash
<1>1. SubSeq(q, 1, Len(q)) = q
  OBVIOUS
<1>2. SubSeq(q, 1, 0) = <<>> /\ h \o <<>> = h
  OBVIOUS
<1>3. Len(q) \in Nat
  OBVIOUS
<1> QED
  BY <1>1, <1>2, <1>3 DEF After

-----------------------------------------------------------------------------
(* The latest hash of a set of rows.                                       *)

Distinct(rows) == \A r, s \in rows : r.id = s.id => r = s

\* A hashed row above all other hashed rows is the latest.
LEMMA LatestIs ==
  ASSUME NEW rows, rows \subseteq AuditLog, Distinct(rows), NEW r \in Hashed(rows),
         \A s \in Hashed(rows) : s.id <= r.id
  PROVE  Latest(rows) = r.entry_hash
<1> DEFINE P(x) == \A s \in Hashed(rows) : s.id <= x.id
           c == CHOOSE x \in Hashed(rows) : P(x)
<1>1. c \in Hashed(rows) /\ P(c)
  OBVIOUS
<1>2. c \in rows /\ r \in rows /\ c.id \in Nat /\ r.id \in Nat
  BY <1>1 DEF Hashed, AuditLog
<1>3. c.id = r.id
  BY <1>1, <1>2
<1>4. c = r
  BY <1>2, <1>3 DEF Distinct
<1>5. Latest(rows) = c.entry_hash
  BY DEF Latest
<1> QED
  BY <1>4, <1>5

-----------------------------------------------------------------------------
(* The invariant.                                                          *)

Phases == {"idle", "working", "finalizing", "locked", "read", "linked"}
Late == {"finalizing", "locked", "read", "linked"}
Holding == {"locked", "read", "linked"}

\* A transaction by itself: its queue is what it did, only a root
\* transaction under READ COMMITTED gets past "working".
Plain(x) ==
  /\ x.phase = "idle" => x.dirty = {}
  /\ x.phase = "working" => Len(x.frames) > 0
  /\ x.phase \in Late => Len(x.frames) = 1 /\ Chainable(x.level)
  /\ \A i \in DOMAIN x.frames : x.frames[i].queue = x.frames[i].work
  /\ x.phase # "linked" => x.linked = {}

\* A transaction against the log: once read, its head stays the latest, and
\* its rows go above all that are committed.
Current(x) ==
  /\ x.phase \in {"read", "linked"} => x.head = Latest(audit_logs)
  /\ x.phase = "linked" =>
       \E n \in Nat :
         /\ \A r \in audit_logs : r.id < n
         /\ n > Legacy /\ n + Len(x.frames[1].queue) <= nextId
         /\ x.linked = RowsFrom(n, x.head, x.frames[1].queue)

Mutex == \A t, u \in Sessions : HoldsMutex(t) /\ HoldsMutex(u) => t = u

LogLinked ==
  /\ Legacy < nextId /\ \A r \in audit_logs : r.id < nextId
  /\ Distinct(audit_logs)
  /\ \A r \in audit_logs : r.id > Legacy => r.entry_hash # NoHash
  /\ \A r \in Hashed(audit_logs) :
       /\ r.prev_hash = Latest({s \in audit_logs : s.id < r.id})
       /\ r.entry_hash = Digest(r.prev_hash, r.entry)

AuditInvariant ==
  /\ TypeOK /\ Mutex /\ LogLinked /\ TrailIsHistory
  /\ \A t \in Sessions : Plain(session[t]) /\ Current(session[t])

LEMMA InvariantImplies == AuditInvariant => ChainVerifies /\ TrailIsHistory
<1> SUFFICES ASSUME AuditInvariant, NEW start \in (Legacy + 1)..nextId,
                    NEW r \in {s \in audit_logs : s.id >= start}
             PROVE  /\ r.entry_hash # NoHash
                    /\ r.prev_hash = Latest({s \in audit_logs : s.id < r.id})
                    /\ r.entry_hash = Digest(r.prev_hash, r.entry)
  BY DEF AuditInvariant, ChainVerifies, Verified
<1>1. r.id \in Nat /\ r.id > Legacy
  <2>1. r \in AuditLog /\ r.id >= start
    BY DEF AuditInvariant, TypeOK
  <2>2. r.id \in Nat /\ Legacy \in Nat /\ nextId \in Nat
    BY <2>1, AuditAssumption DEF AuditInvariant, TypeOK, AuditLog
  <2>3. start \in Nat /\ start >= Legacy + 1
    BY <2>2
  <2> QED
    BY <2>1, <2>2, <2>3
<1>2. r \in Hashed(audit_logs)
  BY <1>1 DEF AuditInvariant, LogLinked, Hashed
<1> QED
  BY <1>2 DEF AuditInvariant, LogLinked, Hashed

LEMMA IdleFits ==
  Idle \in Transaction /\ Plain(Idle) /\ Current(Idle) /\ Idle.phase = "idle"
<1>1. Idle \in Transaction
  BY DEF Idle, Transaction, Hash, NoHash
<1>2. Plain(Idle)
  BY DEF Idle, Plain, Late
<1>3. Current(Idle)
  BY DEF Idle, Current
<1> QED
  BY <1>1, <1>2, <1>3 DEF Idle

LEMMA AuditInit == Init => AuditInvariant
<1> SUFFICES ASSUME Init PROVE AuditInvariant
  OBVIOUS
<1>1. Legacy \in Nat
  BY AuditAssumption
<1>2. audit_logs \subseteq AuditLog /\ history \in Hash
  <2>1. Unhashed \in Entry /\ NoHash \in Hash
    BY DEF Entry, Unhashed, NoHash, Hash
  <2>2. \A r \in audit_logs : r \in AuditLog
    BY <1>1, <2>1 DEF Init, AuditLog
  <2> QED
    BY <2>1, <2>2 DEF Init, NoHash
<1>3. \A t \in Sessions : session[t] = Idle
  BY DEF Init
<1>4. TypeOK
  <2>1. session \in [Sessions -> Transaction]
    BY IdleFits DEF Init
  <2> QED
    BY <1>1, <1>2, <1>3, <2>1, IdleFits DEF TypeOK, Init, Working
<1>5. Mutex
  BY <1>3 DEF Mutex, HoldsMutex, Idle
<1>6. Hashed(audit_logs) = {}
  BY DEF Init, Hashed, NoHash
<1>7. LogLinked
  <2>1. \A r \in audit_logs : r.id < nextId /\ r.id <= Legacy /\ r.id \in Nat
    BY <1>1 DEF Init
  <2>2. Distinct(audit_logs)
    BY DEF Init, Distinct
  <2> QED
    BY <1>1, <1>6, <2>1, <2>2 DEF LogLinked, Init
<1>8. TrailIsHistory
  BY <1>6 DEF TrailIsHistory, Latest, Init, NoHash
<1> QED
  BY <1>3, <1>4, <1>5, <1>7, <1>8, IdleFits DEF AuditInvariant

-----------------------------------------------------------------------------
(* Steps of one transaction that leave the log alone.                      *)

\* It is enough to look at the transaction that steps.
LEMMA StepKeeps ==
  ASSUME AuditInvariant, NEW t \in Sessions, NEW x \in Transaction,
         Step(t, x) \/ (Become(t, x) /\ logged' = logged + 1 /\ UNCHANGED <<audit_logs, nextId, history>>),
         Plain(x), Current(x),
         x.phase \in Holding => \A u \in Sessions \ {t} : ~HoldsMutex(u)
  PROVE  AuditInvariant'
<1>1. session' = [session EXCEPT ![t] = x] /\ UNCHANGED <<audit_logs, nextId, history>>
  BY DEF Step, Become
<1>2. session \in [Sessions -> Transaction]
  BY DEF AuditInvariant, TypeOK
<1>3. session' \in [Sessions -> Transaction]
  BY <1>1, <1>2
<1>4. session'[t] = x /\ \A u \in Sessions \ {t} : session'[u] = session[u]
  BY <1>1, <1>2
<1>5. \A u \in Sessions : Plain(session'[u])
  BY <1>4 DEF AuditInvariant
<1>6. \A u \in Sessions : Current(session[u])'
  <2>1. TAKE u \in Sessions
  <2>2. Current(session'[u])
    BY <1>4 DEF AuditInvariant
  <2> QED
    BY <1>1, <2>2 DEF Current, Latest, Hashed
<1>7. TypeOK'
  <2>1. logged' \in Nat
    BY DEF AuditInvariant, TypeOK, Step
  <2>2. \A u \in Sessions :
          /\ (session'[u].phase = "working" => Len(session'[u].frames) > 0)
          /\ (session'[u].phase \in Late => Len(session'[u].frames) = 1)
    BY <1>5 DEF Plain
  <2> QED
    BY <1>1, <1>3, <2>1, <2>2 DEF AuditInvariant, TypeOK, Working, Depth, Late
<1>8. Mutex'
  BY <1>4 DEF AuditInvariant, Mutex, HoldsMutex, Holding
<1>9. LogLinked' /\ TrailIsHistory'
  BY SMTT(60), <1>1 DEF AuditInvariant, LogLinked, TrailIsHistory, Distinct, Hashed, Latest
<1> QED
  BY <1>5, <1>6, <1>7, <1>8, <1>9 DEF AuditInvariant

\* A session in a transaction has an open frame.
LEMMA NotIdleDeep ==
  ASSUME AuditInvariant, NEW t \in Sessions, session[t].phase # "idle" \/ session[t].dirty # {}
  PROVE  Depth(t) > 0
<1>1. session[t] \in Transaction /\ Plain(session[t])
  BY DEF AuditInvariant, TypeOK
<1>2. session[t].phase # "idle" /\ session[t].phase \in Phases
  BY <1>1 DEF Plain, Transaction, Phases
<1>3. CASE session[t].phase = "working"
  BY <1>1, <1>3 DEF Plain, Depth
<1>4. CASE session[t].phase \in Late
  <2>1. Len(session[t].frames) = 1
    BY <1>1, <1>4 DEF Plain
  <2> QED
    BY <2>1 DEF Depth
<1> QED
  BY <1>2, <1>3, <1>4 DEF Phases, Late

LEMMA TopType ==
  ASSUME AuditInvariant, NEW t \in Sessions, Depth(t) > 0
  PROVE  /\ session[t].frames \in Seq(Frame) /\ Depth(t) \in Nat
         /\ Depth(t) \in 1..Depth(t) /\ 1 \in 1..Depth(t)
         /\ DOMAIN session[t].frames = 1..Depth(t)
         /\ Top(t) \in Frame /\ Top(t).queue = Top(t).work
<1>1. session[t] \in Transaction /\ Plain(session[t])
  BY DEF AuditInvariant, TypeOK
<1>2. session[t].frames \in Seq(Frame)
  BY <1>1 DEF Transaction
<1>3. Depth(t) \in Nat /\ DOMAIN session[t].frames = 1..Depth(t)
  BY <1>2 DEF Depth
<1>4. Depth(t) \in 1..Depth(t) /\ 1 \in 1..Depth(t)
  BY <1>3
<1>5. Top(t) \in Frame
  BY <1>2, <1>3, <1>4 DEF Top
<1>6. Top(t).queue = Top(t).work
  BY <1>1, <1>3, <1>4 DEF Top, Plain
<1> QED
  BY <1>2, <1>3, <1>4, <1>5, <1>6

\* The open frame replaced, the others stay.
LEMMA SetTopFrames ==
  ASSUME AuditInvariant, NEW t \in Sessions, Depth(t) > 0, NEW frame \in Frame
  PROVE  /\ SetTop(t, frame) \in Seq(Frame)
         /\ Len(SetTop(t, frame)) = Depth(t) /\ DOMAIN SetTop(t, frame) = 1..Depth(t)
         /\ SetTop(t, frame)[Depth(t)] = frame
         /\ \A i \in 1..Depth(t) : i # Depth(t) => SetTop(t, frame)[i] = session[t].frames[i]
<1> QED
  BY TopType DEF SetTop, Depth

LEMMA GrantKeeps ==
  ASSUME AuditInvariant, NEW t \in Sessions, Depth(t) > 0,
         NEW r \in Rows, NEW m \in {"update", "write", "share"}, Grant(t, r, m)
  PROVE  AuditInvariant'
<1> DEFINE frame == [Top(t) EXCEPT !.locks = @ \cup {<<r, m>>}]
           dirty == IF m = "write" THEN session[t].dirty \ {r} ELSE session[t].dirty
           x == [session[t] EXCEPT !.frames = SetTop(t, frame), !.dirty = dirty]
<1>1. session[t] \in Transaction /\ Plain(session[t]) /\ Current(session[t])
  BY DEF AuditInvariant, TypeOK
<1>2. frame \in Frame /\ frame.queue = Top(t).queue /\ frame.work = Top(t).work
  BY TopType DEF Frame, Lock
<1>3. Step(t, x)
  BY DEF Grant
<1>4. SetTop(t, frame) \in Seq(Frame) /\ dirty \subseteq session[t].dirty
  BY <1>2, SetTopFrames
<1> HIDE DEF dirty, frame
<1>5. /\ x \in Transaction
      /\ x.phase = session[t].phase /\ x.level = session[t].level /\ x.head = session[t].head
      /\ x.linked = session[t].linked /\ x.dirty = dirty /\ x.frames = SetTop(t, frame)
  BY <1>1, <1>4 DEF Transaction
<1> HIDE DEF x
<1>6. /\ x.frames \in Seq(Frame) /\ Len(x.frames) = Depth(t) /\ DOMAIN x.frames = 1..Depth(t)
      /\ \A i \in 1..Depth(t) : /\ x.frames[i].queue = session[t].frames[i].queue
                               /\ x.frames[i].work = session[t].frames[i].work
  BY <1>2, <1>5, SetTopFrames DEF Top
<1>7. Plain(x)
  BY <1>1, <1>4, <1>5, <1>6, TopType DEF Plain, Depth
<1>8. Current(x)
  <2>1. x.frames[1].queue = session[t].frames[1].queue
    BY <1>6, TopType
  <2> QED
    BY <1>1, <1>5, <2>1 DEF Current
<1>9. x.phase \in Holding => \A u \in Sessions \ {t} : ~HoldsMutex(u)
  BY <1>5 DEF AuditInvariant, Mutex, HoldsMutex, Holding
<1> QED
  BY <1>3, <1>5, <1>7, <1>8, <1>9, StepKeeps

\* A transaction that stays, or starts, in its handler.
LEMMA WorkingStep ==
  ASSUME AuditInvariant, NEW t \in Sessions, NEW x \in Transaction,
         Step(t, x) \/ (Become(t, x) /\ logged' = logged + 1 /\ UNCHANGED <<audit_logs, nextId, history>>),
         x.phase = "working", x.linked = {}, Len(x.frames) > 0,
         \A i \in DOMAIN x.frames : x.frames[i].queue = x.frames[i].work
  PROVE  AuditInvariant'
<1>1. Plain(x)
  BY DEF Plain, Late
<1>2. Current(x)
  BY DEF Current
<1>3. x.phase \notin Holding
  BY DEF Holding
<1> QED
  BY <1>1, <1>2, <1>3, StepKeeps

LEMMA LatestType == ASSUME AuditInvariant PROVE Latest(audit_logs) \in Hash
  BY DEF AuditInvariant, TrailIsHistory, TypeOK

\* What is known of a session in its handler.
LEMMA WorkingType ==
  ASSUME AuditInvariant, NEW t \in Sessions, Working(t)
  PROVE  /\ session[t] \in Transaction /\ session[t].phase = "working"
         /\ session[t].linked = {} /\ Depth(t) > 0
         /\ \A i \in 1..Depth(t) : session[t].frames[i].queue = session[t].frames[i].work
<1>1. session[t] \in Transaction /\ Plain(session[t]) /\ session[t].phase = "working"
  BY DEF AuditInvariant, TypeOK, Working
<1>2. Depth(t) > 0
  BY <1>1, NotIdleDeep
<1> QED
  BY <1>1, <1>2, TopType DEF Plain

LEMMA BeginKeeps ==
  ASSUME AuditInvariant, NEW t \in Sessions, NEW level \in Levels, Begin(t, level)
  PROVE  AuditInvariant'
<1> DEFINE head == IF level = "REPEATABLE READ" THEN Latest(audit_logs) ELSE NoHash
           x == [Idle EXCEPT !.phase = "working", !.level = level, !.frames = <<NewFrame>>, !.head = head]
<1>1. head \in Hash
  <2>1. NoHash \in Hash
    BY DEF NoHash, Hash
  <2> QED
    BY <2>1, LatestType
<1>2. NewFrame \in Frame /\ NewFrame.queue = NewFrame.work
  BY DEF NewFrame, Frame
<1>3. Step(t, x)
  BY DEF Begin
<1> HIDE DEF head
<1>4. x \in Transaction /\ x.phase = "working" /\ x.linked = {} /\ x.frames = <<NewFrame>>
  <2>1. <<NewFrame>> \in Seq(Frame)
    BY <1>2
  <2>2. Idle \in Transaction /\ Idle.linked = {}
    BY IdleFits DEF Idle
  <2> QED
    BY <1>1, <2>1, <2>2 DEF Transaction
<1> HIDE DEF x
<1>5. Len(x.frames) > 0 /\ \A i \in DOMAIN x.frames : x.frames[i].queue = x.frames[i].work
  BY <1>2, <1>4
<1> QED
  BY <1>3, <1>4, <1>5, WorkingStep

LEMMA ChangeKeeps ==
  ASSUME AuditInvariant, NEW t \in Sessions, NEW r \in Rows, Change(t, r)
  PROVE  AuditInvariant'
<1> DEFINE x == [session[t] EXCEPT !.dirty = @ \cup {r}]
<1>1. Working(t) /\ Step(t, x)
  BY DEF Change
<1>2. x \in Transaction /\ x.phase = "working" /\ x.linked = {} /\ x.frames = session[t].frames
  BY <1>1, WorkingType DEF Transaction
<1> HIDE DEF x
<1>3. Len(x.frames) > 0 /\ \A i \in DOMAIN x.frames : x.frames[i].queue = x.frames[i].work
  BY <1>1, <1>2, WorkingType, TopType DEF Depth
<1> QED
  BY <1>1, <1>2, <1>3, WorkingStep

LEMMA SavepointKeeps ==
  ASSUME AuditInvariant, NEW t \in Sessions, Savepoint(t)
  PROVE  AuditInvariant'
<1> DEFINE f == Append(session[t].frames, NewFrame)
           x == [session[t] EXCEPT !.frames = f]
<1>1. Working(t) /\ Step(t, x)
  BY DEF Savepoint
<1>2. NewFrame \in Frame /\ NewFrame.queue = NewFrame.work
  BY DEF NewFrame, Frame
<1>3. /\ f \in Seq(Frame) /\ Len(f) = Depth(t) + 1 /\ DOMAIN f = 1..(Depth(t) + 1)
      /\ \A i \in 1..Depth(t) : f[i] = session[t].frames[i]
      /\ f[Depth(t) + 1] = NewFrame
  BY <1>1, <1>2, WorkingType, TopType DEF Depth
<1> HIDE DEF f
<1>4. x \in Transaction /\ x.phase = "working" /\ x.linked = {} /\ x.frames = f
  BY <1>1, <1>3, WorkingType DEF Transaction
<1> HIDE DEF x
<1>5. Len(x.frames) > 0 /\ \A i \in DOMAIN x.frames : x.frames[i].queue = x.frames[i].work
  <2>1. \A i \in 1..(Depth(t) + 1) : i \in 1..Depth(t) \/ i = Depth(t) + 1
    BY <1>1, WorkingType, TopType
  <2> QED
    BY <1>1, <1>2, <1>3, <1>4, <2>1, WorkingType, TopType
<1> QED
  BY <1>1, <1>4, <1>5, WorkingStep

\* The frames below the open one, with the one next to it replaced.
LEMMA OuterFrames ==
  ASSUME AuditInvariant, NEW t \in Sessions, Working(t), Depth(t) > 1, NEW frame \in Frame,
         frame.queue = frame.work
  PROVE  LET f == [Outer(t) EXCEPT ![Depth(t) - 1] = frame]
         IN /\ f \in Seq(Frame) /\ Len(f) = Depth(t) - 1 /\ Len(f) > 0
            /\ \A i \in DOMAIN f : f[i].queue = f[i].work
<1>1. /\ session[t].frames \in Seq(Frame) /\ Depth(t) \in Nat /\ Depth(t) > 1
      /\ \A i \in 1..Depth(t) : session[t].frames[i].queue = session[t].frames[i].work
  BY WorkingType, TopType
<1>2. /\ Outer(t) \in Seq(Frame) /\ Len(Outer(t)) = Depth(t) - 1
      /\ DOMAIN Outer(t) = 1..(Depth(t) - 1)
      /\ \A i \in 1..(Depth(t) - 1) : Outer(t)[i] = session[t].frames[i]
  BY <1>1 DEF Outer, Depth
<1> DEFINE f == [Outer(t) EXCEPT ![Depth(t) - 1] = frame]
<1>3. /\ f \in Seq(Frame) /\ Len(f) = Depth(t) - 1 /\ DOMAIN f = 1..(Depth(t) - 1)
      /\ \A i \in 1..(Depth(t) - 1) : i # Depth(t) - 1 => f[i] = session[t].frames[i]
      /\ f[Depth(t) - 1] = frame
  BY <1>1, <1>2
<1> HIDE DEF f
<1>4. \A i \in DOMAIN f : f[i].queue = f[i].work
  BY <1>1, <1>3
<1>5. Len(f) > 0
  BY <1>1, <1>3
<1> QED
  BY <1>3, <1>4, <1>5 DEF f

LEMMA ReleaseKeeps ==
  ASSUME AuditInvariant, NEW t \in Sessions, Release(t)
  PROVE  AuditInvariant'
<1> DEFINE parent == session[t].frames[Depth(t) - 1]
           joined == [queue |-> parent.queue \o Promoted(Top(t).queue, "committed"),
                      work |-> parent.work \o Top(t).work,
                      locks |-> parent.locks \cup Top(t).locks]
           f == [Outer(t) EXCEPT ![Depth(t) - 1] = joined]
           x == [session[t] EXCEPT !.frames = f]
<1>1. Working(t) /\ Depth(t) > 1 /\ Step(t, x)
  BY DEF Release
<1>2. /\ parent \in Frame /\ Top(t) \in Frame
      /\ parent.queue = parent.work /\ Top(t).queue = Top(t).work
  BY <1>1, WorkingType, TopType
<1>3. joined \in Frame /\ joined.queue = joined.work
  <2>1. joined.queue = parent.queue \o Top(t).queue
    BY DEF Promoted
  <2>2. /\ parent.queue \in Seq(Entry) /\ Top(t).queue \in Seq(Entry)
        /\ parent.locks \subseteq Lock /\ Top(t).locks \subseteq Lock
    BY <1>2 DEF Frame
  <2> DEFINE q == parent.queue \o Top(t).queue
             l == parent.locks \cup Top(t).locks
  <2>3. q \in Seq(Entry)
    BY ONLY <2>2
  <2>4. l \in SUBSET Lock
    BY ONLY <2>2
  <2>5. joined = [queue |-> q, work |-> q, locks |-> l]
    BY <1>2, <2>1
  <2> HIDE DEF joined, q, l
  <2> QED
    BY ONLY <2>3, <2>4, <2>5 DEF Frame
<1> HIDE DEF joined
<1>4. f \in Seq(Frame) /\ Len(f) > 0 /\ \A i \in DOMAIN f : f[i].queue = f[i].work
  BY <1>1, <1>3, OuterFrames
<1> HIDE DEF f
<1>5. x \in Transaction /\ x.phase = "working" /\ x.linked = {} /\ x.frames = f
  BY <1>1, <1>4, WorkingType DEF Transaction
<1> HIDE DEF x
<1> QED
  BY <1>1, <1>4, <1>5, WorkingStep

LEMMA RollbackToKeeps ==
  ASSUME AuditInvariant, NEW t \in Sessions, RollbackTo(t)
  PROVE  AuditInvariant'
<1> DEFINE parent == session[t].frames[Depth(t) - 1]
           kept == [parent EXCEPT !.queue = @ \o Promoted(Top(t).queue, "rolled back")]
           f == [Outer(t) EXCEPT ![Depth(t) - 1] = kept]
           x == [session[t] EXCEPT !.frames = f, !.dirty = {}]
<1>1. Working(t) /\ Depth(t) > 1 /\ Step(t, x)
  BY DEF RollbackTo
<1>2. parent \in Frame /\ parent.queue = parent.work
  BY <1>1, WorkingType, TopType
<1>3. kept \in Frame /\ kept.queue = kept.work
  <2>1. parent.queue \o Promoted(Top(t).queue, "rolled back") = parent.queue
    BY <1>2 DEF Frame, Promoted
  <2> QED
    BY <1>2, <2>1 DEF Frame
<1> HIDE DEF kept
<1>4. f \in Seq(Frame) /\ Len(f) > 0 /\ \A i \in DOMAIN f : f[i].queue = f[i].work
  BY <1>1, <1>3, OuterFrames
<1> HIDE DEF f
<1>5. x \in Transaction /\ x.phase = "working" /\ x.linked = {} /\ x.frames = f
  BY <1>1, <1>4, WorkingType DEF Transaction
<1> HIDE DEF x
<1> QED
  BY <1>1, <1>4, <1>5, WorkingStep

LEMMA LogKeeps ==
  ASSUME AuditInvariant, NEW t \in Sessions, NEW user \in Users \cup {NoUser}, Log(t, user)
  PROVE  AuditInvariant'
<1> DEFINE entry == [user |-> user, number |-> logged + 1]
           q == Append(Top(t).queue, entry)
           w == Append(Top(t).work, entry)
           frame == [Top(t) EXCEPT !.queue = q, !.work = w]
           f == SetTop(t, frame)
           x == [session[t] EXCEPT !.frames = f]
<1>1. /\ Working(t) /\ Become(t, x)
      /\ logged' = logged + 1 /\ UNCHANGED <<audit_logs, nextId, history>>
  BY DEF Log
<1>2. entry \in Entry
  BY DEF AuditInvariant, TypeOK, Entry
<1>3. frame \in Frame /\ frame.queue = frame.work
  <2>1. Top(t) \in Frame /\ Top(t).queue = Top(t).work
    BY <1>1, WorkingType, TopType
  <2>2. q \in Seq(Entry) /\ w = q
    <3> HIDE DEF entry
    <3> QED
      BY <1>2, <2>1 DEF Frame
  <2> HIDE DEF q, w
  <2> QED
    BY <2>1, <2>2 DEF Frame
<1> HIDE DEF frame
<1>4. f \in Seq(Frame) /\ Len(f) > 0 /\ \A i \in DOMAIN f : f[i].queue = f[i].work
  BY SMTT(60), <1>1, <1>3, WorkingType, TopType, SetTopFrames
<1> HIDE DEF f
<1>5. x \in Transaction /\ x.phase = "working" /\ x.linked = {} /\ x.frames = f
  BY <1>1, <1>4, WorkingType DEF Transaction
<1> HIDE DEF x
<1> QED
  BY <1>1, <1>4, <1>5, WorkingStep

\* Finalize, LockChain and ReadHead.
LEMMA FinalizingKeeps ==
  ASSUME AuditInvariant, NEW t \in Sessions, Finalize(t) \/ LockChain(t) \/ ReadHead(t)
  PROVE  AuditInvariant'
<1>1. session[t] \in Transaction /\ Plain(session[t])
  BY DEF AuditInvariant, TypeOK
<1>2. CASE Finalize(t)
  <2> DEFINE x == [session[t] EXCEPT !.phase = "finalizing"]
  <2>1. x \in Transaction /\ Step(t, x)
    BY <1>1, <1>2 DEF Finalize, Transaction
  <2>2. Plain(x)
    BY <1>1, <1>2 DEF Finalize, Plain, Working, Late, Depth, Transaction
  <2>3. Current(x) /\ x.phase \notin Holding
    BY <1>1 DEF Current, Transaction, Holding
  <2> QED
    BY <2>1, <2>2, <2>3, StepKeeps
<1>3. CASE LockChain(t)
  <2> DEFINE x == [session[t] EXCEPT !.phase = "locked"]
  <2>1. x \in Transaction /\ Step(t, x)
    BY <1>1, <1>3 DEF LockChain, Transaction
  <2>2. Plain(x)
    BY <1>1, <1>3 DEF LockChain, Plain, Late, Transaction
  <2>3. Current(x)
    BY <1>1 DEF Current, Transaction
  <2> QED
    BY <1>3, <2>1, <2>2, <2>3, StepKeeps DEF LockChain
<1>4. CASE ReadHead(t)
  <2> DEFINE x == [session[t] EXCEPT !.phase = "read", !.head = Latest(audit_logs)]
  <2>1. session[t].phase = "locked" /\ session[t].level = "READ COMMITTED"
    BY <1>1, <1>4 DEF ReadHead, Plain, Late, Chainable
  <2>2. x \in Transaction /\ Step(t, x)
    BY <1>1, <1>4, <2>1, LatestType DEF ReadHead, Transaction
  <2>3. Plain(x)
    BY <1>1, <2>1 DEF Plain, Late, Transaction
  <2>4. Current(x)
    BY <1>1 DEF Current, Transaction
  <2>5. \A u \in Sessions \ {t} : ~HoldsMutex(u)
    BY <2>1 DEF AuditInvariant, Mutex, HoldsMutex
  <2> QED
    BY <2>2, <2>3, <2>4, <2>5, StepKeeps
<1> QED
  BY <1>2, <1>3, <1>4

-----------------------------------------------------------------------------
(* Insert and Commit.                                                      *)

\* r is the row of q's i-th entry.
IsRow(r, n, h, q, i) ==
  /\ r.id = n + i - 1 /\ r.entry = q[i]
  /\ r.prev_hash = After(h, q, i - 1)
  /\ r.entry_hash = Digest(r.prev_hash, r.entry)
  /\ r.entry_hash = After(h, q, i)
  /\ r.entry_hash # NoHash

\* The rows of a queue behind the log: their types, ids and hashes.
LEMMA RowsFromType ==
  ASSUME NEW n \in Nat, NEW h \in Hash, NEW q \in Hash
  PROVE  /\ RowsFrom(n, h, q) \subseteq AuditLog
         /\ \A r \in RowsFrom(n, h, q) : \E i \in 1..Len(q) : IsRow(r, n, h, q, i)
         /\ \A i \in 1..Len(q) : \E r \in RowsFrom(n, h, q) : r.id = n + i - 1
         /\ Distinct(RowsFrom(n, h, q))
<1> DEFINE row(i) == [id |-> n + i - 1, entry |-> q[i], prev_hash |-> h \o SubSeq(q, 1, i - 1),
                      entry_hash |-> Append(h \o SubSeq(q, 1, i - 1), q[i])]
<1>1. DOMAIN q = 1..Len(q) /\ Len(q) \in Nat
  BY DEF Hash
<1>2. \A i \in 1..Len(q) :
        /\ h \o SubSeq(q, 1, i - 1) \in Hash
        /\ Append(h \o SubSeq(q, 1, i - 1), q[i]) = h \o SubSeq(q, 1, i)
  BY ExtendPrefix DEF Hash
<1>3. \A i \in 1..Len(q) :
        /\ row(i) \in AuditLog /\ row(i).id = n + i - 1
        /\ row(i).entry_hash # NoHash
  <2>1. TAKE i \in 1..Len(q)
  <2> DEFINE p == h \o SubSeq(q, 1, i - 1)
  <2>2. p \in Seq(Entry) /\ q[i] \in Entry /\ n + i - 1 \in Nat
    BY <1>1, <1>2 DEF Hash
  <2> HIDE DEF p
  <2>3. Append(p, q[i]) \in Seq(Entry) /\ Append(p, q[i]) # <<>>
    BY <2>2
  <2> QED
    BY <2>2, <2>3 DEF AuditLog, Hash, NoHash, p
<1>4. RowsFrom(n, h, q) = {row(i) : i \in 1..Len(q)}
  BY <1>1 DEF RowsFrom
<1>5. \A i \in 1..Len(q) :
        /\ row(i).entry = q[i] /\ row(i).prev_hash = After(h, q, i - 1)
        /\ row(i).entry_hash = Digest(row(i).prev_hash, row(i).entry)
        /\ row(i).entry_hash = After(h, q, i)
  BY <1>2 DEF Digest, After
<1>6. \A i \in 1..Len(q) : IsRow(row(i), n, h, q, i)
  BY <1>3, <1>5 DEF IsRow
<1> HIDE DEF row
<1>7. Distinct(RowsFrom(n, h, q))
  <2> SUFFICES ASSUME NEW i \in 1..Len(q), NEW j \in 1..Len(q), row(i).id = row(j).id
               PROVE  row(i) = row(j)
    BY <1>4 DEF Distinct
  <2>1. i = j
    BY <1>1, <1>3
  <2> QED
    BY <2>1
<1> QED
  BY <1>3, <1>4, <1>6, <1>7

\* rows are those of logs and the first i of q's rows behind them.
Prefixed(rows, logs, n, h, q, i) ==
  /\ \A r \in logs : r.id < n
  /\ \A r : r \in rows <=> r \in logs \/ (r \in RowsFrom(n, h, q) /\ r.id < n + i)

\* The log with such rows behind it: its hashes, and the latest of any prefix.
LEMMA LatestBehind ==
  ASSUME NEW logs, logs \subseteq AuditLog, Distinct(logs), NEW n \in Nat,
         NEW h \in Hash, h = Latest(logs), NEW q \in Hash, NEW i \in 0..Len(q),
         NEW rows, Prefixed(rows, logs, n, h, q, i)
  PROVE  Latest(rows) = After(h, q, i)
<1> USE DEF Prefixed
<1> DEFINE new == {r \in RowsFrom(n, h, q) : r.id < n + i}
<1> HIDE DEF new
<1>1. rows = logs \cup new /\ \A r : r \in new <=> r \in RowsFrom(n, h, q) /\ r.id < n + i
  BY DEF new
<1>2. /\ i \in Nat /\ Len(q) \in Nat
      /\ \A s \in RowsFrom(n, h, q) : s \in AuditLog /\ s.id \in Nat /\ s.id >= n
  <2>1. i \in Nat /\ Len(q) \in Nat
    BY WholePrefix
  <2>2. ASSUME NEW s \in RowsFrom(n, h, q) PROVE s.id >= n
    <3>1. PICK j \in 1..Len(q) : IsRow(s, n, h, q, j)
      BY RowsFromType
    <3> QED
      BY <2>1, <3>1 DEF IsRow
  <2> QED
    BY <2>1, <2>2, RowsFromType DEF AuditLog
<1>3. CASE i = 0
  <2>1. \A s \in RowsFrom(n, h, q) : ~(s.id < n + i)
    BY <1>2, <1>3
  <2>2. rows = logs
    BY <2>1
  <2>3. After(h, q, i) = h
    BY <1>2, <1>3, WholePrefix
  <2> QED
    BY <2>2, <2>3
<1>4. CASE i > 0
  <2>1. i \in 1..Len(q)
    BY <1>2, <1>4
  <2>2. PICK r \in RowsFrom(n, h, q) : r.id = n + i - 1
    <3>1. \A j \in 1..Len(q) : \E r \in RowsFrom(n, h, q) : r.id = n + j - 1
      BY RowsFromType, ZenonT(60)
    <3> QED
      BY ONLY <2>1, <3>1
  <2>3. r \in new /\ r.entry_hash # NoHash
    <3>1. \E j \in 1..Len(q) : IsRow(r, n, h, q, j)
      BY RowsFromType
    <3>2. r.entry_hash # NoHash
      BY <3>1 DEF IsRow
    <3> QED
      BY <1>2, <1>1, <2>1, <2>2, <3>2
  <2>4. r.entry_hash = After(h, q, i)
    <3>1. PICK j \in 1..Len(q) : IsRow(r, n, h, q, j)
      BY RowsFromType
    <3>2. r.id = n + j - 1 /\ r.entry_hash = After(h, q, j)
      BY <3>1 DEF IsRow
    <3>3. j = i
      BY <1>2, <2>1, <2>2, <3>2
    <3> QED
      BY <3>2, <3>3
  <2>5. rows \subseteq AuditLog /\ \A s \in new : s.id >= n /\ s.id <= r.id
    BY <1>2, <1>1, <2>1, <2>2
  <2>6. Distinct(rows)
    <3>1. Distinct(new)
      BY <1>2, <1>1, RowsFromType DEF Distinct
    <3>2. \A s \in logs, u \in new : s.id # u.id
      BY <2>5 DEF AuditLog
    <3> QED
      BY <1>1, <3>1, <3>2 DEF Distinct
  <2>7. \A s \in rows : s.id <= r.id
    BY <1>1, <2>2, <2>5 DEF AuditLog
  <2>8. r \in Hashed(rows) /\ \A s \in Hashed(rows) : s.id <= r.id
    BY <1>1, <2>3, <2>7 DEF Hashed
  <2>9. Latest(rows) = r.entry_hash
    BY <2>5, <2>6, <2>8, LatestIs
  <2> QED
    BY <2>4, <2>9
<1> QED
  BY <1>2, <1>3, <1>4

\* What is known of the log.
LEMMA LogType ==
  ASSUME AuditInvariant
  PROVE  /\ audit_logs \subseteq AuditLog /\ Distinct(audit_logs)
         /\ nextId \in Nat /\ Legacy \in Nat /\ Legacy < nextId
         /\ \A r \in audit_logs : r.id \in Nat /\ r.id < nextId
<1>1. audit_logs \subseteq AuditLog /\ nextId \in Nat
  BY DEF AuditInvariant, TypeOK
<1>2. Distinct(audit_logs) /\ Legacy < nextId /\ \A r \in audit_logs : r.id < nextId
  BY DEF AuditInvariant, LogLinked
<1>3. Legacy \in Nat
  BY AuditAssumption
<1>4. \A r \in audit_logs : r.id \in Nat
  BY <1>1 DEF AuditLog
<1> QED
  BY <1>1, <1>2, <1>3, <1>4

\* What is known of a session past its handler.
LEMMA LateType ==
  ASSUME AuditInvariant, NEW t \in Sessions, session[t].phase \in {"read", "linked"}
  PROVE  /\ session[t] \in Transaction /\ Depth(t) = 1
         /\ session[t].level = "READ COMMITTED"
         /\ session[t].head \in Hash /\ session[t].head = Latest(audit_logs)
         /\ Queue(t) \in Hash /\ session[t].frames[1].work = Queue(t)
         /\ HoldsMutex(t)
<1>1. session[t] \in Transaction /\ Plain(session[t]) /\ Current(session[t])
  BY DEF AuditInvariant, TypeOK
<1>2. Depth(t) = 1
  BY <1>1 DEF Plain, Late, Depth
<1>3. session[t].level = "READ COMMITTED"
  BY <1>1 DEF Plain, Late, Chainable
<1>4. Top(t) \in Frame /\ Top(t).queue = Top(t).work
  <2>1. Depth(t) > 0
    BY <1>2
  <2> QED
    BY <2>1, TopType
<1>5. Queue(t) \in Hash /\ session[t].frames[1].work = Queue(t)
  BY <1>2, <1>4 DEF Top, Queue, Frame, Hash
<1> QED
  BY <1>1, <1>2, <1>5, <1>3 DEF Transaction, Current, HoldsMutex

LEMMA InsertKeeps ==
  ASSUME AuditInvariant, NEW t \in Sessions, Insert(t)
  PROVE  AuditInvariant'
<1> DEFINE x == [session[t] EXCEPT !.phase = "linked", !.linked = Chained(t)]
           q == Queue(t)
<1>1. /\ session[t].phase = "read" /\ session' = [session EXCEPT ![t] = x]
      /\ nextId' = nextId + Len(q) /\ UNCHANGED <<audit_logs, logged, history>>
  BY DEF Insert, Become
<1>2. session[t] \in Transaction /\ Plain(session[t]) /\ q \in Hash
  BY <1>1, LateType DEF AuditInvariant
<1>3. nextId \in Nat /\ nextId' \in Nat /\ nextId + Len(q) <= nextId' /\ nextId <= nextId'
  <2> HIDE DEF q
  <2>1. Len(q) \in Nat
    BY <1>2, WholePrefix
  <2> QED
    BY <1>1, <2>1, LogType
<1>4. Chained(t) = RowsFrom(nextId, session[t].head, q)
  BY DEF Chained, RowsFrom, Digest
<1>5. Chained(t) \subseteq AuditLog
  <2>1. session[t].head \in Hash
    BY <1>1, LateType
  <2> QED
    BY <1>2, <1>4, <1>3, <2>1, RowsFromType
<1>6. /\ x \in Transaction /\ x.phase = "linked" /\ x.linked = Chained(t)
      /\ x.frames = session[t].frames /\ x.head = session[t].head /\ x.level = session[t].level
  BY <1>2, <1>5 DEF Transaction
<1> HIDE DEF x
<1>7. Plain(x)
  BY <1>1, <1>2, <1>6 DEF Plain, Late
<1>8. session'[t] = x /\ \A u \in Sessions \ {t} : session'[u] = session[u]
  BY <1>1 DEF AuditInvariant, TypeOK
<1>9. \A u \in Sessions \ {t} : session[u].phase \notin {"read", "linked"}
  BY <1>1 DEF AuditInvariant, Mutex, HoldsMutex
<1>10. \A u \in Sessions : Plain(session'[u])
  BY <1>7, <1>8 DEF AuditInvariant
<1>11. \A u \in Sessions : Current(session[u])'
  <2>1. TAKE u \in Sessions
  <2>2. CASE u # t
    BY <1>8, <1>9, <2>2 DEF Current
  <2>3. CASE u = t
    <3>1. x.head = Latest(audit_logs)' /\ x.frames[1].queue = q
      BY <1>1, <1>6, LateType DEF Latest, Hashed, Queue
    <3>2. /\ \A r \in audit_logs' : r.id < nextId
          /\ nextId > Legacy /\ nextId + Len(q) <= nextId'
      BY <1>1, <1>3, LogType
    <3>3. x.linked = RowsFrom(nextId, x.head, x.frames[1].queue)
      BY <1>4, <1>6, <3>1
    <3> QED
      BY <1>1, <1>3, <1>8, <2>3, <3>1, <3>2, <3>3 DEF Current
  <2> QED
    BY <2>2, <2>3
<1>12. TypeOK'
  <2>1. session' \in [Sessions -> Transaction]
    BY <1>1, <1>6 DEF AuditInvariant, TypeOK
  <2>2. \A u \in Sessions :
          /\ (session'[u].phase = "working" => Len(session'[u].frames) > 0)
          /\ (session'[u].phase \in Late => Len(session'[u].frames) = 1)
    BY <1>10 DEF Plain
  <2> QED
    BY <1>1, <1>3, <2>1, <2>2 DEF AuditInvariant, TypeOK, Working, Depth, Late
<1>13. Mutex'
  BY ZenonT(60), <1>1, <1>8, LateType DEF AuditInvariant, Mutex, HoldsMutex
<1>14. LogLinked' /\ TrailIsHistory'
  <2>1. Legacy < nextId' /\ \A r \in audit_logs : r.id < nextId'
    BY <1>3, LogType
  <2> QED
    BY <1>1, <2>1 DEF AuditInvariant, LogLinked, TrailIsHistory, Distinct, Hashed, Latest
<1> QED
  BY <1>10, <1>11, <1>12, <1>13, <1>14 DEF AuditInvariant

\* Rows chained behind the latest hash leave a linked log.
LEMMA AppendedLinked ==
  ASSUME AuditInvariant, NEW n \in Nat, NEW q \in Hash, NEW h \in Hash, h = Latest(audit_logs),
         \A r \in audit_logs : r.id < n, n > Legacy, n + Len(q) <= nextId,
         audit_logs' = audit_logs \cup RowsFrom(n, h, q), nextId' = nextId
  PROVE  LogLinked' /\ Latest(audit_logs') = h \o q /\ audit_logs' \subseteq AuditLog
<1> DEFINE new == RowsFrom(n, h, q)
           rows == audit_logs'
<1>1. /\ audit_logs \subseteq AuditLog /\ Distinct(audit_logs) /\ nextId \in Nat
      /\ Legacy \in Nat /\ Len(q) \in Nat
  BY LogType, WholePrefix
<1>2. \A r \in audit_logs : r.id \in Nat /\ r.id < n
  BY <1>1 DEF AuditLog
<1>3. \A r \in new : /\ r \in AuditLog /\ r.id \in Nat
                      /\ r.id >= n /\ r.id < n + Len(q) /\ r.entry_hash # NoHash
  <2>1. TAKE r \in new
  <2>2. PICK i \in 1..Len(q) : IsRow(r, n, h, q, i)
    BY RowsFromType
  <2>3. r \in AuditLog
    BY RowsFromType
  <2> QED
    BY <1>1, <2>2, <2>3 DEF AuditLog, IsRow
<1>4. Distinct(new)
  BY RowsFromType
<1> HIDE DEF new
<1>5. rows = audit_logs \cup new
  BY DEF new
<1>6. rows \subseteq AuditLog /\ Distinct(rows)
  BY <1>1, <1>2, <1>3, <1>4, <1>5 DEF Distinct
<1>7. Latest(rows) = h \o q
  <2>1. Prefixed(rows, audit_logs, n, h, q, Len(q))
    BY <1>2, <1>3, <1>5 DEF new, Prefixed
  <2>2. Len(q) \in 0..Len(q)
    BY <1>1
  <2>3. Latest(rows) = After(h, q, Len(q))
    BY <1>1, <2>1, <2>2, LatestBehind
  <2>4. After(h, q, Len(q)) = h \o q
    BY WholePrefix
  <2> QED
    BY <2>3, <2>4
<1>8. \A r \in Hashed(rows) :
        /\ r.prev_hash = Latest({s \in rows : s.id < r.id})
        /\ r.entry_hash = Digest(r.prev_hash, r.entry)
  <2>1. TAKE r \in Hashed(rows)
  <2>2. CASE r \in audit_logs
    <3>1. {s \in rows : s.id < r.id} = {s \in audit_logs : s.id < r.id}
      BY <1>1, <1>2, <1>3, <1>5, <2>2
    <3> QED
      BY <2>1, <2>2, <3>1 DEF AuditInvariant, LogLinked, Hashed
  <2>3. CASE r \in new
    <3>1. PICK i \in 1..Len(q) : IsRow(r, n, h, q, i)
      BY <2>3, RowsFromType DEF new
    <3>2. i - 1 \in 0..Len(q) /\ r.id = n + (i - 1)
      BY <1>1, <3>1 DEF IsRow
    <3> DEFINE below == {s \in rows : s.id < r.id}
               k == i - 1
    <3>3. Prefixed(below, audit_logs, n, h, q, k)
      BY <1>1, <1>2, <1>3, <1>5, <3>2 DEF new, Prefixed
    <3>4. Latest(below) = After(h, q, k)
      <4>1. k \in 0..Len(q)
        BY <3>2
      <4> HIDE DEF below, k
      <4> QED
        BY <1>1, <3>3, <4>1, LatestBehind
    <3> QED
      BY <3>1, <3>4 DEF IsRow
  <2> QED
    BY <1>5, <2>1, <2>2, <2>3 DEF Hashed
<1>9. \A r \in rows : r.id < nextId /\ (r.id > Legacy => r.entry_hash # NoHash)
  BY <1>1, <1>2, <1>3, <1>5 DEF AuditInvariant, LogLinked
<1> QED
  BY <1>6, <1>7, <1>8, <1>9 DEF AuditInvariant, LogLinked, Distinct, Hashed, Latest

LEMMA CommitKeeps ==
  ASSUME AuditInvariant, NEW t \in Sessions, Commit(t)
  PROVE  AuditInvariant'
<1>1. /\ session' = [session EXCEPT ![t] = Idle] /\ UNCHANGED <<nextId, logged>>
      /\ audit_logs' = audit_logs \cup session[t].linked
      /\ history' = history \o session[t].frames[1].work
  BY DEF Commit, Become
<1>2. session'[t] = Idle /\ \A u \in Sessions \ {t} : session'[u] = session[u]
  BY <1>1 DEF AuditInvariant, TypeOK
<1>3. /\ audit_logs' \subseteq AuditLog /\ history' \in Hash
      /\ LogLinked' /\ TrailIsHistory'
      /\ \A u \in Sessions \ {t} : Current(session[u])'
  <2>1. CASE session[t].phase = "linked"
    <3> DEFINE h == session[t].head
               q == Queue(t)
    <3>1. /\ h \in Hash /\ h = Latest(audit_logs) /\ h = history /\ q \in Hash
          /\ session[t].frames[1].work = q /\ HoldsMutex(t)
      BY <2>1, LateType DEF AuditInvariant, TrailIsHistory
    <3>2. PICK n \in Nat :
            /\ \A r \in audit_logs : r.id < n
            /\ n > Legacy /\ n + Len(q) <= nextId
            /\ session[t].linked = RowsFrom(n, h, q)
      BY <2>1 DEF AuditInvariant, Current, Queue
    <3> HIDE DEF h, q
    <3>3. LogLinked' /\ Latest(audit_logs') = h \o q /\ audit_logs' \subseteq AuditLog
      BY <1>1, <3>1, <3>2, AppendedLinked
    <3>4. history' = h \o q /\ Latest(audit_logs)' = Latest(audit_logs')
      BY <1>1, <3>1 DEF Latest, Hashed
    <3>5. h \o q \in Hash
      BY <3>1 DEF Hash
    <3>6. \A u \in Sessions \ {t} : session'[u].phase \notin {"read", "linked"}
      BY <1>2, <3>1 DEF AuditInvariant, Mutex, HoldsMutex
    <3> QED
      BY <3>3, <3>4, <3>5, <3>6 DEF Current, TrailIsHistory
  <2>2. CASE session[t].phase # "linked"
    <3>1. Working(t) /\ Queue(t) = <<>>
      BY <2>2 DEF Commit
    <3>2. session[t].linked = {} /\ session[t].frames[1].work = <<>>
      BY <3>1, WorkingType, TopType DEF Queue
    <3>3. audit_logs' = audit_logs /\ history' = history
      <4>1. history \in Seq(Entry)
        BY DEF AuditInvariant, TypeOK, Hash
      <4>2. history \o <<>> = history
        BY <4>1
      <4> QED
        BY <1>1, <3>2, <4>2
    <3>4. \A u \in Sessions \ {t} : Current(session[u])'
      BY <1>1, <1>2, <3>3 DEF AuditInvariant, Current, Latest, Hashed
    <3> QED
      BY ZenonT(60), <1>1, <3>3, <3>4
         DEF AuditInvariant, TypeOK, LogLinked, TrailIsHistory, Distinct, Hashed, Latest
  <2> QED
    BY <2>1, <2>2
<1>4. \A u \in Sessions : Plain(session'[u]) /\ Current(session[u])'
  <2>1. \A u \in Sessions : Plain(session'[u])
    BY <1>2, IdleFits DEF AuditInvariant
  <2>2. Current(session[t])'
    BY <1>2 DEF Current, Idle
  <2> QED
    BY <1>3, <2>1, <2>2
<1>5. TypeOK'
  <2>1. session' \in [Sessions -> Transaction]
    BY <1>1, IdleFits DEF AuditInvariant, TypeOK
  <2>2. \A u \in Sessions :
          /\ (session'[u].phase = "working" => Len(session'[u].frames) > 0)
          /\ (session'[u].phase \in Late => Len(session'[u].frames) = 1)
    BY <1>4 DEF Plain
  <2> QED
    BY <1>1, <1>3, <2>1, <2>2 DEF AuditInvariant, TypeOK, Working, Depth, Late
<1>6. Mutex'
  BY <1>2 DEF AuditInvariant, Mutex, HoldsMutex, Idle
<1> QED
  BY <1>3, <1>4, <1>5, <1>6 DEF AuditInvariant

LEMMA RollbackKeeps ==
  ASSUME AuditInvariant, NEW t \in Sessions, Rollback(t)
  PROVE  AuditInvariant'
<1>1. Step(t, Idle)
  BY DEF Rollback
<1>2. Idle.phase \notin Holding
  BY DEF Idle, Holding
<1> QED
  BY <1>1, <1>2, IdleFits, StepKeeps

-----------------------------------------------------------------------------
(* The theorems.                                                           *)

LEMMA NextKeeps == AuditInvariant /\ [Next]_vars => AuditInvariant'
<1> SUFFICES ASSUME AuditInvariant, [Next]_vars PROVE AuditInvariant'
  OBVIOUS
<1>1. ASSUME NEW t \in Sessions, NEW r \in Rows, Flush(t, r)
      PROVE  AuditInvariant'
  BY <1>1, NotIdleDeep, GrantKeeps DEF Flush
<1>2. ASSUME NEW t \in Sessions, NEW u \in Users, LockUser(t, u) \/ LockActor(t, u)
      PROVE  AuditInvariant'
  <2>1. u \in Rows
    BY AuditAssumption
  <2>2. CASE LockUser(t, u)
    BY <2>1, <2>2, NotIdleDeep, GrantKeeps DEF LockUser, Working
  <2>3. CASE LockActor(t, u)
    BY <2>1, <2>3, NotIdleDeep, GrantKeeps DEF LockActor
  <2> QED
    BY <1>2, <2>2, <2>3
<1>3. ASSUME NEW t \in Sessions, NEW level \in Levels, Begin(t, level)
      PROVE  AuditInvariant'
  BY <1>3, BeginKeeps
<1>4. ASSUME NEW t \in Sessions, NEW r \in Rows, Change(t, r)
      PROVE  AuditInvariant'
  BY <1>4, ChangeKeeps
<1>5. ASSUME NEW t \in Sessions, NEW user \in Users \cup {NoUser}, Log(t, user)
      PROVE  AuditInvariant'
  BY <1>5, LogKeeps
<1>6. ASSUME NEW t \in Sessions, Savepoint(t) \/ Release(t) \/ RollbackTo(t) \/ Rollback(t)
      PROVE  AuditInvariant'
  BY <1>6, SavepointKeeps, ReleaseKeeps, RollbackToKeeps, RollbackKeeps
<1>7. ASSUME NEW t \in Sessions,
             Finalize(t) \/ LockChain(t) \/ ReadHead(t) \/ Insert(t) \/ Commit(t)
      PROVE  AuditInvariant'
  BY <1>7, FinalizingKeeps, InsertKeeps, CommitKeeps
<1>8. CASE UNCHANGED vars
  BY <1>8 DEF vars, AuditInvariant, TypeOK, Working, Depth, Mutex, HoldsMutex,
              LogLinked, TrailIsHistory, Distinct, Hashed, Latest, Current
<1> QED
  BY <1>1, <1>2, <1>3, <1>4, <1>5, <1>6, <1>7, <1>8 DEF Next

LEMMA AuditHolds == Spec => []AuditInvariant
<1> QED
  BY AuditInit, NextKeeps, PTL DEF Spec

\* The types hold, and no transaction reaches before_commit's work with a
\* savepoint open.
THEOREM AuditTypes == Spec => []TypeOK
<1>1. AuditInvariant => TypeOK
  BY DEF AuditInvariant
<1> QED
  BY <1>1, AuditHolds, PTL

\* verify_audit_hash_chain finds the committed log intact from any id on,
\* whatever sessions, isolation levels, savepoints and failures there were.
THEOREM ChainAlwaysVerifies == Spec => []ChainVerifies
<1> QED
  BY InvariantImplies, AuditHolds, PTL

\* The chain covers exactly the entries of the committed work, in the order
\* the transactions committed.
THEOREM TrailAlwaysHistory == Spec => []TrailIsHistory
<1> QED
  BY InvariantImplies, AuditHolds, PTL

-----------------------------------------------------------------------------
(* Row locks: those of different sessions never conflict, and inside the   *)
(* mutex a session already has every lock it needs.                        *)

LocksOf(x) == UNION {x.frames[i].locks : i \in DOMAIN x.frames}
ActorsOf(x) == {x.frames[1].queue[i].user : i \in DOMAIN x.frames[1].queue} \ {NoUser}

Compatible ==
  \A t, u \in Sessions : t # u =>
    \A l \in LocksOf(session[t]), m \in LocksOf(session[u]) :
      l[1] = m[1] => ~Conflict(l[2], m[2])

\* A transaction inside the mutex that has everything it will lock.
Ready(x) ==
  x.phase \in {"locked", "read"} =>
    x.dirty = {} /\ \A a \in ActorsOf(x) : <<a, "share">> \in LocksOf(x)

LockInvariant == Compatible /\ \A t \in Sessions : Ready(session[t])

LEMMA OwnLocks ==
  ASSUME NEW t
  PROVE  LocksOf(session[t]) = Locks(t) /\ ActorsOf(session[t]) = Actors(t)
<1> QED
  BY DEF LocksOf, Locks, ActorsOf, Actors, Queue

LEMMA LocksImply == LockInvariant => HolderNeverWaits
<1> SUFFICES ASSUME LockInvariant, NEW t \in Sessions, session[t].phase \in {"locked", "read"},
                    NEW a \in Actors(t), NEW u \in Sessions \ {t}, NEW l \in Locks(u), l[1] = a
             PROVE  ~Conflict(l[2], "share")
  BY DEF HolderNeverWaits, Grantable, LockInvariant, Ready
<1> DEFINE m == <<a, "share">>
<1>1. m \in LocksOf(session[t]) /\ l \in LocksOf(session[u])
  BY OwnLocks DEF LockInvariant, Ready
<1>2. m[1] = a /\ m[2] = "share"
  OBVIOUS
<1> HIDE DEF m
<1>3. ~Conflict(l[2], m[2])
  BY <1>1, <1>2 DEF LockInvariant, Compatible
<1> QED
  BY <1>2, <1>3

\* A step of one transaction: every lock it has was its own or free.
LEMMA LockStep ==
  ASSUME LockInvariant, AuditInvariant, NEW t \in Sessions, NEW x,
         session' = [session EXCEPT ![t] = x], Ready(x),
         \A l \in LocksOf(x) : l \in Locks(t) \/ Grantable(t, l[1], l[2])
  PROVE  LockInvariant'
<1>1. session'[t] = x /\ \A u \in Sessions \ {t} : session'[u] = session[u]
  BY DEF AuditInvariant, TypeOK
<1>2. \A u \in Sessions : Ready(session'[u])
  BY <1>1 DEF LockInvariant
<1>3. \A l, m : Conflict(l, m) <=> Conflict(m, l)
  BY DEF Conflict
<1>4. ASSUME NEW u \in Sessions \ {t}, NEW l \in LocksOf(x), NEW m \in LocksOf(session[u]),
             l[1] = m[1]
      PROVE  ~Conflict(l[2], m[2])
  <2>1. CASE l \in Locks(t)
    BY <1>4, <2>1, OwnLocks DEF LockInvariant, Compatible
  <2>2. CASE Grantable(t, l[1], l[2])
    BY <1>3, <1>4, <2>2, OwnLocks DEF Grantable
  <2> QED
    BY <2>1, <2>2
<1>5. ASSUME NEW v \in Sessions, NEW u \in Sessions, v # u,
             NEW l \in LocksOf(session'[v]), NEW m \in LocksOf(session'[u]), l[1] = m[1]
      PROVE  ~Conflict(l[2], m[2])
  <2>1. CASE v = t
    BY <1>1, <1>4, <1>5, <2>1
  <2>2. CASE u = t
    BY <1>1, <1>3, <1>4, <1>5, <2>2
  <2>3. CASE v # t /\ u # t
    BY <1>1, <1>5, <2>3 DEF LockInvariant, Compatible
  <2> QED
    BY <2>1, <2>2, <2>3
<1> QED
  BY <1>2, <1>5 DEF LockInvariant, Compatible

\* One more lock, that was free.
LEMMA GrantLocks ==
  ASSUME LockInvariant, AuditInvariant, NEW t \in Sessions, Depth(t) > 0,
         NEW r \in Rows, NEW m \in {"update", "write", "share"}, Grant(t, r, m)
  PROVE  LockInvariant'
<1> DEFINE frame == [Top(t) EXCEPT !.locks = @ \cup {<<r, m>>}]
           dirty == IF m = "write" THEN session[t].dirty \ {r} ELSE session[t].dirty
           x == [session[t] EXCEPT !.frames = SetTop(t, frame), !.dirty = dirty]
<1>1. session[t] \in Transaction /\ session' = [session EXCEPT ![t] = x] /\ Grantable(t, r, m)
  BY DEF AuditInvariant, TypeOK, Grant, Step, Become
<1>2. Top(t) \in Frame /\ frame \in Frame
  BY TopType DEF Frame, Lock
<1>3. frame.locks = Top(t).locks \cup {<<r, m>>} /\ frame.queue = Top(t).queue
  BY <1>2 DEF Frame
<1>4. dirty \subseteq session[t].dirty
  OBVIOUS
<1> HIDE DEF frame, dirty
<1>5. /\ x.frames = SetTop(t, frame) /\ x.phase = session[t].phase /\ x.dirty = dirty
  BY <1>1 DEF Transaction
<1> HIDE DEF x
<1>6. /\ DOMAIN x.frames = 1..Depth(t) /\ x.frames[Depth(t)] = frame
      /\ Depth(t) \in 1..Depth(t) /\ 1 \in 1..Depth(t)
      /\ DOMAIN session[t].frames = 1..Depth(t)
      /\ \A i \in 1..Depth(t) : i # Depth(t) => x.frames[i] = session[t].frames[i]
      /\ session[t].frames[Depth(t)] = Top(t)
  BY <1>2, <1>5, SetTopFrames, TopType DEF Top
<1>7. LocksOf(x) = Locks(t) \cup {<<r, m>>}
  <2>1. \A i \in 1..Depth(t) : x.frames[i].locks =
          IF i = Depth(t) THEN session[t].frames[i].locks \cup {<<r, m>>}
          ELSE session[t].frames[i].locks
    BY <1>3, <1>6
  <2>2. LocksOf(x) = UNION {x.frames[i].locks : i \in 1..Depth(t)}
    BY <1>6 DEF LocksOf
  <2>3. Locks(t) = UNION {session[t].frames[i].locks : i \in 1..Depth(t)}
    BY <1>6 DEF Locks
  <2>4. ASSUME NEW l PROVE l \in LocksOf(x) <=> l \in Locks(t) \/ l = <<r, m>>
    <3>1. l \in LocksOf(x) <=> \E i \in 1..Depth(t) : l \in x.frames[i].locks
      BY <2>2
    <3>2. l \in Locks(t) <=> \E i \in 1..Depth(t) : l \in session[t].frames[i].locks
      BY <2>3
    <3>3. \A i \in 1..Depth(t) : l \in x.frames[i].locks <=>
            l \in session[t].frames[i].locks \/ (i = Depth(t) /\ l = <<r, m>>)
      BY <2>1
    <3> QED
      BY <1>6, <3>1, <3>2, <3>3
  <2> QED
    BY <2>4
<1>8. ActorsOf(x) = Actors(t)
  <2>1. x.frames[1].queue = session[t].frames[1].queue
    BY <1>3, <1>6
  <2> QED
    BY <2>1 DEF ActorsOf, Actors, Queue
<1>9. Ready(x)
  <2>1. Ready(session[t])
    BY DEF LockInvariant
  <2> QED
    BY <1>4, <1>5, <1>7, <1>8, <2>1, OwnLocks DEF Ready
<1>10. \A l \in LocksOf(x) : l \in Locks(t) \/ Grantable(t, l[1], l[2])
  BY <1>1, <1>7
<1> QED
  BY <1>1, <1>9, <1>10, LockStep

\* A step whose transaction has no new lock and is outside of the mutex, or
\* was ready for it.
LEMMA NoNewLock ==
  ASSUME LockInvariant, AuditInvariant, NEW t \in Sessions, NEW x, Become(t, x),
         LocksOf(x) \subseteq Locks(t), Ready(x)
  PROVE  LockInvariant'
<1> QED
  BY LockStep DEF Become

\* Locks of frames that are each some of those held.
LEMMA FewerLocks ==
  ASSUME NEW t, NEW x,
         \A i \in DOMAIN x.frames : x.frames[i].locks \subseteq Locks(t)
  PROVE  LocksOf(x) \subseteq Locks(t)
<1> QED
  BY DEF LocksOf

\* Handler steps and rollbacks.
LEMMA WorkingLocks ==
  ASSUME LockInvariant, AuditInvariant, NEW t \in Sessions,
         \/ \E level \in Levels : Begin(t, level)
         \/ \E r \in Rows : Change(t, r)
         \/ \E user \in Users \cup {NoUser} : Log(t, user)
         \/ Savepoint(t) \/ Release(t) \/ RollbackTo(t) \/ Rollback(t)
         \/ Finalize(t) \/ Commit(t)
  PROVE  LockInvariant'
<1>0. session[t] \in Transaction
  BY DEF AuditInvariant, TypeOK
<1>1. Working(t) =>
        /\ session[t].frames \in Seq(Frame) /\ Depth(t) \in Nat /\ Depth(t) > 0
        /\ DOMAIN session[t].frames = 1..Depth(t) /\ Top(t) \in Frame
        /\ \A i \in 1..Depth(t) : session[t].frames[i].locks \subseteq Locks(t)
  BY WorkingType, TopType DEF Locks
<1>2. ASSUME NEW level \in Levels, Begin(t, level) PROVE LockInvariant'
  <2> DEFINE head == IF level = "REPEATABLE READ" THEN Latest(audit_logs) ELSE NoHash
             x == [Idle EXCEPT !.phase = "working", !.level = level, !.frames = <<NewFrame>>,
                               !.head = head]
  <2>1. Become(t, x)
    BY <1>2 DEF Begin, Step
  <2>2. x.frames = <<NewFrame>> /\ x.phase = "working"
    <3> HIDE DEF head
    <3> QED
      BY DEF Idle
  <2> HIDE DEF x
  <2>3. LocksOf(x) \subseteq Locks(t) /\ Ready(x)
    BY <2>2 DEF LocksOf, NewFrame, Ready
  <2> QED
    BY <2>1, <2>3, NoNewLock
<1>3. ASSUME NEW r \in Rows, Change(t, r) PROVE LockInvariant'
  <2> DEFINE x == [session[t] EXCEPT !.dirty = @ \cup {r}]
  <2>1. Become(t, x) /\ Working(t)
    BY <1>3 DEF Change, Step
  <2>2. x.frames = session[t].frames /\ x.phase = "working"
    BY <1>0, <2>1 DEF Transaction, Working
  <2> HIDE DEF x
  <2>3. LocksOf(x) \subseteq Locks(t) /\ Ready(x)
    BY <2>2 DEF LocksOf, Locks, Ready
  <2> QED
    BY <2>1, <2>3, NoNewLock
<1>4. ASSUME NEW user \in Users \cup {NoUser}, Log(t, user) PROVE LockInvariant'
  <2> DEFINE entry == [user |-> user, number |-> logged + 1]
             frame == [Top(t) EXCEPT !.queue = Append(@, entry), !.work = Append(@, entry)]
             f == SetTop(t, frame)
             x == [session[t] EXCEPT !.frames = f]
  <2>1. Become(t, x) /\ Working(t)
    BY <1>4 DEF Log
  <2>2. frame.locks = Top(t).locks
    BY <1>1, <2>1 DEF Frame
  <2> HIDE DEF frame
  <2>3. \A i \in DOMAIN f : f[i].locks \subseteq Locks(t)
    <3>1. DOMAIN f = 1..Depth(t)
      BY <1>1, <2>1 DEF SetTop
    <3>2. \A i \in 1..Depth(t) : f[i] = IF i = Depth(t) THEN frame ELSE session[t].frames[i]
      BY <1>1, <2>1 DEF SetTop
    <3>3. session[t].frames[Depth(t)] = Top(t)
      BY DEF Top
    <3> QED
      BY <1>1, <2>1, <2>2, <3>1, <3>2, <3>3
  <2> HIDE DEF f
  <2>4. x.frames = f /\ x.phase = "working"
    BY <1>0, <2>1 DEF Transaction, Working
  <2> HIDE DEF x
  <2>5. LocksOf(x) \subseteq Locks(t) /\ Ready(x)
    BY <2>3, <2>4, FewerLocks DEF Ready
  <2> QED
    BY <2>1, <2>5, NoNewLock
<1>5. CASE Savepoint(t)
  <2> DEFINE f == Append(session[t].frames, NewFrame)
             x == [session[t] EXCEPT !.frames = f]
  <2>1. Become(t, x) /\ Working(t)
    BY <1>5 DEF Savepoint, Step
  <2>2. /\ DOMAIN f = 1..(Depth(t) + 1) /\ f[Depth(t) + 1] = NewFrame
        /\ \A i \in 1..Depth(t) : f[i] = session[t].frames[i]
    BY <1>1, <2>1 DEF Depth
  <2> HIDE DEF f
  <2>3. \A i \in DOMAIN f : f[i].locks \subseteq Locks(t)
    <3>1. \A i \in 1..(Depth(t) + 1) : i \in 1..Depth(t) \/ i = Depth(t) + 1
      BY <1>1, <2>1
    <3>2. NewFrame.locks = {}
      BY DEF NewFrame
    <3> QED
      BY <1>1, <2>1, <2>2, <3>1, <3>2
  <2>4. x.frames = f /\ x.phase = "working"
    BY <1>0, <2>1 DEF Transaction, Working
  <2> HIDE DEF x
  <2>5. LocksOf(x) \subseteq Locks(t) /\ Ready(x)
    BY <2>3, <2>4, FewerLocks DEF Ready
  <2> QED
    BY <2>1, <2>5, NoNewLock
<1>6. ASSUME Working(t), Depth(t) > 1, NEW frame, frame.locks \subseteq Locks(t),
             NEW x, Become(t, x), x.phase = "working",
             x.frames = [Outer(t) EXCEPT ![Depth(t) - 1] = frame]
      PROVE  LockInvariant'
  <2>1. /\ DOMAIN Outer(t) = 1..(Depth(t) - 1)
        /\ \A i \in 1..(Depth(t) - 1) : Outer(t)[i] = session[t].frames[i]
    BY <1>1, <1>6 DEF Outer, Depth
  <2>2. /\ DOMAIN x.frames = 1..(Depth(t) - 1)
        /\ \A i \in 1..(Depth(t) - 1) :
             x.frames[i] = IF i = Depth(t) - 1 THEN frame ELSE session[t].frames[i]
    BY <1>6, <2>1
  <2>3. \A i \in 1..(Depth(t) - 1) : i \in 1..Depth(t)
    BY <1>1, <1>6
  <2>4. LocksOf(x) \subseteq Locks(t) /\ Ready(x)
    BY <1>1, <1>6, <2>2, <2>3, FewerLocks DEF Ready
  <2> QED
    BY <1>6, <2>4, NoNewLock
<1>7. CASE Release(t)
  <2> DEFINE parent == session[t].frames[Depth(t) - 1]
             joined == [queue |-> parent.queue \o Promoted(Top(t).queue, "committed"),
                        work |-> parent.work \o Top(t).work,
                        locks |-> parent.locks \cup Top(t).locks]
             f == [Outer(t) EXCEPT ![Depth(t) - 1] = joined]
             x == [session[t] EXCEPT !.frames = f]
  <2>1. Working(t) /\ Depth(t) > 1 /\ Become(t, x)
    BY <1>7 DEF Release, Step
  <2>2. parent.locks \subseteq Locks(t) /\ Top(t).locks \subseteq Locks(t)
    <3>1. Depth(t) \in 1..Depth(t) /\ Depth(t) - 1 \in 1..Depth(t)
      BY <1>1, <2>1
    <3>2. \A i \in 1..Depth(t) : session[t].frames[i].locks \subseteq Locks(t)
      BY <1>1, <2>1
    <3>3. Top(t) = session[t].frames[Depth(t)]
      BY DEF Top
    <3>4. parent.locks \subseteq Locks(t)
      BY ONLY <3>1, <3>2
    <3> QED
      BY ONLY <3>1, <3>2, <3>3, <3>4
  <2>3. joined.locks \subseteq Locks(t)
    BY <2>2
  <2> HIDE DEF joined
  <2>4. x.frames = f /\ x.phase = "working"
    BY <1>0, <2>1 DEF Transaction, Working
  <2> HIDE DEF x
  <2> QED
    BY <1>6, <2>1, <2>3, <2>4
<1>8. CASE RollbackTo(t)
  <2> DEFINE parent == session[t].frames[Depth(t) - 1]
             kept == [parent EXCEPT !.queue = @ \o Promoted(Top(t).queue, "rolled back")]
             f == [Outer(t) EXCEPT ![Depth(t) - 1] = kept]
             x == [session[t] EXCEPT !.frames = f, !.dirty = {}]
  <2>1. Working(t) /\ Depth(t) > 1 /\ Become(t, x)
    BY <1>8 DEF RollbackTo, Step
  <2>2. parent \in Frame /\ parent.locks \subseteq Locks(t)
    <3>1. Depth(t) - 1 \in 1..Depth(t)
      BY <1>1, <2>1
    <3>2. parent \in Frame
      BY <1>1, <2>1, <3>1
    <3> QED
      BY <1>1, <2>1, <3>1, <3>2
  <2>3. kept.locks \subseteq Locks(t)
    BY <2>2 DEF Frame
  <2> HIDE DEF kept
  <2>4. x.frames = f /\ x.phase = "working"
    BY <1>0, <2>1 DEF Transaction, Working
  <2> HIDE DEF x
  <2> QED
    BY <1>6, <2>1, <2>3, <2>4
<1>9. CASE Finalize(t)
  <2> DEFINE x == [session[t] EXCEPT !.phase = "finalizing"]
  <2>1. Become(t, x)
    BY <1>9 DEF Finalize, Step
  <2>2. x.frames = session[t].frames /\ x.phase = "finalizing"
    BY <1>0 DEF Transaction
  <2> HIDE DEF x
  <2>3. LocksOf(x) \subseteq Locks(t) /\ Ready(x)
    BY <2>2 DEF LocksOf, Locks, Ready
  <2> QED
    BY <2>1, <2>3, NoNewLock
<1>10. CASE Rollback(t) \/ Commit(t)
  <2>1. Become(t, Idle)
    BY <1>10 DEF Rollback, Commit, Step
  <2>2. LocksOf(Idle) \subseteq Locks(t) /\ Ready(Idle)
    BY DEF LocksOf, Idle, Ready
  <2> QED
    BY <2>1, <2>2, NoNewLock
<1> QED
  BY <1>2, <1>3, <1>4, <1>5, <1>7, <1>8, <1>9, <1>10

\* Entering the mutex, reading the head, inserting: nothing more is locked.
LEMMA MutexLocks ==
  ASSUME LockInvariant, AuditInvariant, NEW t \in Sessions,
         LockChain(t) \/ ReadHead(t) \/ Insert(t)
  PROVE  LockInvariant'
<1>1. session[t] \in Transaction /\ Ready(session[t])
  BY DEF AuditInvariant, TypeOK, LockInvariant
<1>2. CASE LockChain(t)
  <2> DEFINE x == [session[t] EXCEPT !.phase = "locked"]
  <2>1. Become(t, x) /\ MutexReady(t)
    BY <1>2 DEF LockChain, Step
  <2>2. x.frames = session[t].frames /\ x.dirty = session[t].dirty
    BY <1>1 DEF Transaction
  <2> HIDE DEF x
  <2>3. LocksOf(x) = Locks(t) /\ ActorsOf(x) = Actors(t)
    BY <2>2 DEF LocksOf, Locks, ActorsOf, Actors, Queue
  <2> QED
    BY <2>1, <2>2, <2>3, NoNewLock DEF MutexReady, Ready
<1>3. CASE ReadHead(t)
  <2> DEFINE head == IF session[t].level = "REPEATABLE READ" THEN session[t].head
                     ELSE Latest(audit_logs)
             x == [session[t] EXCEPT !.phase = "read", !.head = head]
  <2>1. Become(t, x) /\ session[t].phase = "locked"
    BY <1>3 DEF ReadHead, Step
  <2> HIDE DEF head
  <2>2. x.frames = session[t].frames /\ x.dirty = session[t].dirty
    BY <1>1 DEF Transaction
  <2> HIDE DEF x
  <2>3. LocksOf(x) = LocksOf(session[t]) /\ ActorsOf(x) = ActorsOf(session[t])
    BY <2>2 DEF LocksOf, ActorsOf
  <2> QED
    BY <1>1, <2>1, <2>2, <2>3, OwnLocks, NoNewLock DEF Ready
<1>4. CASE Insert(t)
  <2> DEFINE x == [session[t] EXCEPT !.phase = "linked", !.linked = Chained(t)]
  <2>1. Become(t, x)
    BY <1>4 DEF Insert
  <2>2. x.frames = session[t].frames /\ x.phase = "linked"
    BY <1>1 DEF Transaction
  <2> HIDE DEF x
  <2>3. LocksOf(x) \subseteq Locks(t) /\ Ready(x)
    BY <2>2 DEF LocksOf, Locks, Ready
  <2> QED
    BY <2>1, <2>3, NoNewLock
<1> QED
  BY <1>2, <1>3, <1>4

LEMMA LocksInit == Init => LockInvariant
<1>1. Idle.phase = "idle" /\ LocksOf(Idle) = {}
  BY DEF Idle, LocksOf
<1> QED
  BY <1>1 DEF Init, LockInvariant, Compatible, Ready

LEMMA LocksNext == LockInvariant /\ AuditInvariant /\ [Next]_vars => LockInvariant'
<1> SUFFICES ASSUME LockInvariant, AuditInvariant, [Next]_vars PROVE LockInvariant'
  OBVIOUS
<1>1. ASSUME NEW t \in Sessions, NEW r \in Rows, Flush(t, r)
      PROVE  LockInvariant'
  BY <1>1, NotIdleDeep, GrantLocks DEF Flush
<1>2. ASSUME NEW t \in Sessions, NEW u \in Users, LockUser(t, u) \/ LockActor(t, u)
      PROVE  LockInvariant'
  <2>1. u \in Rows
    BY AuditAssumption
  <2>2. CASE LockUser(t, u)
    BY <2>1, <2>2, NotIdleDeep, GrantLocks DEF LockUser, Working
  <2>3. CASE LockActor(t, u)
    BY <2>1, <2>3, NotIdleDeep, GrantLocks DEF LockActor
  <2> QED
    BY <1>2, <2>2, <2>3
<1>3. CASE UNCHANGED vars
  BY <1>3 DEF vars, LockInvariant, Compatible
<1> QED
  BY <1>1, <1>2, <1>3, WorkingLocks, MutexLocks DEF Next

\* The session inside the chain mutex waits for no row lock, so no cycle of
\* waits goes through the mutex.
THEOREM HolderAlwaysProceeds == Spec => []HolderNeverWaits
<1> QED
  BY LocksInit, LocksNext, LocksImply, AuditHolds, PTL DEF Spec
=============================================================================
