------------------------- MODULE RequestReplayProofs -------------------------
(***************************************************************************)
(* For every set of callers, keys, payloads and attempts: a write takes    *)
(* effect at most once per caller and key, and every answer is the         *)
(* caller's own.  The argument: the advisory lock keeps two attempts of a  *)
(* slot from working at once, the lookup under that lock misses no effect  *)
(* of the slot, and the row that is saved is the effect that was made.     *)
(***************************************************************************)
EXTENDS RequestReplay, TLAPS

\* No two attempts hold the advisory lock of one slot.
Exclusive ==
  \A s, t \in Sessions :
    s # t /\ Holds(s) /\ Holds(t) => attempt[s].slot # attempt[t].slot

\* What a slot decided is what its rows say.
Recorded ==
  \A i \in Slots :
    /\ rows[i] = NoRow => decided[i] = OldEffect(i)
    /\ rows[i] # NoRow =>
         decided[i] = <<rows[i].outcome>> /\ rows[i].outcome \in {rows[i].payload, Cancelled}

ReplayInvariant == TypeOK /\ Exclusive /\ Recorded /\ WorksAlone /\ AnswersOwn

-----------------------------------------------------------------------------
(* The lookup.                                                             *)

\* An effect of an older version is either replayed or refused.
LEMMA OldEffectFound ==
  ASSUME NEW l \in OldRow \cup {NoRow}, NEW i \in Slots, WrittenBy(l, i)
  PROVE  Proven(l, i) \/ Unproven(l, i)
<1>1. l \in OldRow /\ l # NoRow
  BY ReplayAssumption DEF WrittenBy
<1>2. l.user = i.user /\ l.known \in SUBSET {"user", "factory"}
  BY <1>1 DEF WrittenBy, OldRow
<1>3. CASE "user" \in l.known /\ "factory" \in l.known
  <2>1. l.known = {"user", "factory"}
    BY <1>2, <1>3
  <2> QED
    BY <2>1 DEF Proven
<1>4. CASE "user" \notin l.known
  BY <1>1, <1>4 DEF Unproven
<1>5. CASE "factory" \notin l.known
  BY <1>1, <1>2, <1>5 DEF Unproven
<1> QED
  BY <1>3, <1>4, <1>5

\* Nothing saved and nothing refused: the slot has not been decided.
LEMMA MissMeansOpen ==
  ASSUME TypeOK, Recorded, NEW i \in Slots, NEW p \in Payloads,
         Saved(i) = NoRow, ~Refused(i, p)
  PROVE  rows[i] = NoRow /\ decided[i] = <<>>
<1> DEFINE l == old[i.key]
<1>1. i.key \in Keys
  BY DEF Slots
<1>2. l \in OldRow \cup {NoRow}
  BY <1>1, ReplayAssumption DEF TypeOK
<1>3. rows[i] = NoRow
  BY DEF Saved
<1>4. ~Unproven(l, i)
  BY DEF Refused
<1>5. ~Proven(l, i)
  <2>1. SUFFICES ASSUME Proven(l, i) PROVE FALSE
    OBVIOUS
  <2>2. l \in OldRow
    BY <1>2, <2>1 DEF Proven, WrittenBy
  <2>3. l.payload \in Payloads
    BY <2>2 DEF OldRow
  <2>4. [payload |-> l.payload, outcome |-> l.payload] \in Row
    BY <2>3 DEF Row, Outcomes
  <2>5. Saved(i) = [payload |-> l.payload, outcome |-> l.payload]
    BY <1>3, <2>1 DEF Saved
  <2> QED
    BY <2>4, <2>5, ReplayAssumption
<1>6. ~WrittenBy(l, i)
  BY <1>2, <1>4, <1>5, OldEffectFound
<1>7. decided[i] = OldEffect(i)
  BY <1>3 DEF Recorded
<1> QED
  BY <1>3, <1>6, <1>7 DEF OldEffect

\* A saved response is the slot's only effect, of the fingerprinted payload.
LEMMA HitIsOwn ==
  ASSUME TypeOK, Recorded, NEW i \in Slots, NEW p \in Payloads,
         Saved(i) # NoRow, ~Refused(i, p)
  PROVE  /\ decided[i] = <<Saved(i).outcome>>
         /\ Saved(i).outcome \in {p, Cancelled}
<1> DEFINE l == old[i.key]
<1>1. Saved(i).payload = p
  BY DEF Refused
<1>2. CASE rows[i] # NoRow
  <2>1. Saved(i) = rows[i]
    BY <1>2 DEF Saved
  <2> QED
    BY <1>1, <1>2, <2>1 DEF Recorded
<1>3. CASE rows[i] = NoRow
  <2>1. Proven(l, i) /\ Saved(i) = [payload |-> l.payload, outcome |-> l.payload]
    BY <1>3 DEF Saved
  <2>2. decided[i] = <<l.payload>>
    BY <1>3, <2>1 DEF Recorded, OldEffect, Proven
  <2>3. Saved(i).outcome = l.payload /\ Saved(i).payload = l.payload
    BY <2>1
  <2> QED
    BY <1>1, <2>2, <2>3
<1> QED
  BY <1>2, <1>3

-----------------------------------------------------------------------------
(* What a step of one attempt does to the table of attempts.               *)

\* The next phase of s leaves the other attempts, and s's own request, alone.
LEMMA BecomeType ==
  ASSUME TypeOK, NEW s \in Sessions, attempt[s].phase # "idle",
         NEW phase \in {"arrived", "locked", "working", "answered"},
         NEW answer \in Outcomes \cup NoOutcome,
         Become(s, phase, answer)
  PROVE  /\ attempt[s] \in Attempt
         /\ attempt' \in [Sessions -> Attempt \cup {Idle}]
         /\ attempt'[s] \in Attempt
         /\ attempt'[s].phase = phase /\ attempt'[s].answer = answer
         /\ attempt'[s].slot = attempt[s].slot /\ attempt'[s].payload = attempt[s].payload
         /\ attempt'[s].kind = attempt[s].kind
         /\ \A t \in Sessions \ {s} : attempt'[t] = attempt[t]
<1>1. attempt[s] \in Attempt
  BY DEF TypeOK, Idle
<1>2. attempt' = [attempt EXCEPT ![s] = [attempt[s] EXCEPT !.phase = phase, !.answer = answer]]
  BY <1>1 DEF Become, Attempt, TypeOK
<1>3. attempt'[s] = [attempt[s] EXCEPT !.phase = phase, !.answer = answer]
  BY <1>2 DEF TypeOK
<1>4. attempt'[s] \in Attempt
  BY <1>1, <1>3 DEF Attempt
<1>5. /\ attempt'[s].phase = phase /\ attempt'[s].answer = answer
      /\ attempt'[s].slot = attempt[s].slot /\ attempt'[s].payload = attempt[s].payload
      /\ attempt'[s].kind = attempt[s].kind
  BY <1>1, <1>3 DEF Attempt
<1>6. \A t \in Sessions \ {s} : attempt'[t] = attempt[t]
  BY <1>2 DEF TypeOK
<1>7. attempt' \in [Sessions -> Attempt \cup {Idle}]
  BY <1>2, <1>3, <1>4 DEF TypeOK
<1> QED
  BY <1>1, <1>4, <1>5, <1>6, <1>7

\* An attempt's request, once it is not idle.
LEMMA Request ==
  ASSUME TypeOK, NEW s \in Sessions, attempt[s].phase # "idle"
  PROVE  attempt[s].slot \in Slots /\ attempt[s].payload \in Payloads
BY DEF TypeOK, Idle, Attempt

\* A step of s that settles nothing keeps the invariant, given what s may
\* claim in its new phase.
LEMMA StepKeeps ==
  ASSUME ReplayInvariant, NEW s \in Sessions, attempt[s].phase # "idle",
         NEW phase \in {"arrived", "locked", "working", "answered"},
         NEW answer \in Outcomes \cup NoOutcome,
         Become(s, phase, answer), UNCHANGED <<rows, old, decided, attempts>>,
         phase \in {"locked", "working"} => Unlocked(s),
         phase = "working" => decided[attempt[s].slot] = <<>>,
         phase = "answered" /\ answer \in Outcomes =>
           decided[attempt[s].slot] = <<answer>> /\ answer \in {attempt[s].payload, Cancelled}
  PROVE  ReplayInvariant'
<1>0. TypeOK /\ Exclusive /\ Recorded /\ WorksAlone /\ AnswersOwn
  BY DEF ReplayInvariant
<1>1. /\ attempt' \in [Sessions -> Attempt \cup {Idle}]
      /\ attempt'[s].phase = phase /\ attempt'[s].answer = answer
      /\ attempt'[s].slot = attempt[s].slot /\ attempt'[s].payload = attempt[s].payload
      /\ \A t \in Sessions \ {s} : attempt'[t] = attempt[t]
  BY <1>0, BecomeType
<1>2. TypeOK'
  BY <1>0, <1>1 DEF TypeOK
<1>3. Exclusive'
  <2>1. SUFFICES ASSUME NEW t \in Sessions, NEW u \in Sessions, t # u, Holds(t)', Holds(u)'
                 PROVE  attempt'[t].slot # attempt'[u].slot
    BY DEF Exclusive
  <2>2. CASE t # s /\ u # s
    BY <1>0, <1>1, <2>1, <2>2 DEF Exclusive, Holds
  <2>3. CASE t = s
    BY <1>1, <2>1, <2>3 DEF Holds, Unlocked
  <2>4. CASE u = s
    BY <1>1, <2>1, <2>4 DEF Holds, Unlocked
  <2> QED
    BY <2>2, <2>3, <2>4
<1>4. Recorded'
  BY <1>0 DEF Recorded, OldEffect
<1>5. WorksAlone'
  BY <1>0, <1>1 DEF WorksAlone
<1>6. AnswersOwn'
  <2>1. SUFFICES ASSUME NEW t \in Sessions, attempt'[t].phase = "answered", attempt'[t].answer \in Outcomes
                 PROVE  /\ decided[attempt'[t].slot] # <<>>
                        /\ attempt'[t].answer = Head(decided[attempt'[t].slot])
                        /\ attempt'[t].answer \in {attempt'[t].payload, Cancelled}
    BY DEF AnswersOwn
  <2>2. CASE t = s
    <3>1. decided[attempt[s].slot] = <<answer>> /\ answer \in {attempt[s].payload, Cancelled}
      BY <1>1, <2>1, <2>2
    <3> QED
      BY <1>1, <2>2, <3>1
  <2>3. CASE t # s
    BY <1>0, <1>1, <2>1, <2>3 DEF AnswersOwn
  <2> QED
    BY <2>2, <2>3
<1> QED
  BY <1>2, <1>3, <1>4, <1>5, <1>6 DEF ReplayInvariant

-----------------------------------------------------------------------------
(* One lemma per action.                                                   *)

LEMMA ArriveKeeps ==
  ASSUME ReplayInvariant, NEW s \in Sessions, NEW kind \in Kinds, NEW i \in Slots,
         NEW p \in Payloads, Arrive(s, kind, i, p)
  PROVE  ReplayInvariant'
<1> DEFINE new == [phase |-> "arrived", kind |-> kind, slot |-> i, payload |-> p, answer |-> "none"]
<1>0. TypeOK /\ Exclusive /\ Recorded /\ WorksAlone /\ AnswersOwn
  BY DEF ReplayInvariant
<1>1. new \in Attempt /\ new.phase = "arrived"
  BY DEF Attempt, NoOutcome
<1>2. attempt' = [attempt EXCEPT ![s] = new] /\ attempts' = attempts + 1
      /\ UNCHANGED <<rows, old, decided>>
  BY DEF Arrive
<1> HIDE DEF new
<1>3. attempt'[s] = new /\ \A t \in Sessions \ {s} : attempt'[t] = attempt[t]
  BY <1>0, <1>2 DEF TypeOK
<1>4. TypeOK'
  BY <1>0, <1>1, <1>2 DEF TypeOK
<1>5. Exclusive'
  BY <1>0, <1>1, <1>3 DEF Exclusive, Holds
<1>6. Recorded'
  BY <1>0, <1>2 DEF Recorded, OldEffect
<1>7. WorksAlone'
  BY <1>0, <1>1, <1>2, <1>3 DEF WorksAlone
<1>8. AnswersOwn'
  <2>1. SUFFICES ASSUME NEW t \in Sessions, attempt'[t].phase = "answered"
                 PROVE  t # s
    BY <1>0, <1>2, <1>3 DEF AnswersOwn
  <2> QED
    BY <1>1, <1>3, <2>1
<1> QED
  BY <1>4, <1>5, <1>6, <1>7, <1>8 DEF ReplayInvariant

LEMMA EndKeeps ==
  ASSUME ReplayInvariant, NEW s \in Sessions, End(s)
  PROVE  ReplayInvariant'
<1>0. TypeOK /\ Exclusive /\ Recorded /\ WorksAlone /\ AnswersOwn
  BY DEF ReplayInvariant
<1>2. attempt' = [attempt EXCEPT ![s] = Idle] /\ UNCHANGED <<rows, old, decided, attempts>>
  BY DEF End
<1>3. attempt'[s].phase = "idle" /\ \A t \in Sessions \ {s} : attempt'[t] = attempt[t]
  BY <1>0, <1>2 DEF TypeOK, Idle
<1>4. TypeOK'
  BY <1>0, <1>2 DEF TypeOK
<1>5. Exclusive'
  BY <1>0, <1>3 DEF Exclusive, Holds
<1>6. Recorded'
  BY <1>0, <1>2 DEF Recorded, OldEffect
<1>7. WorksAlone'
  BY <1>0, <1>2, <1>3 DEF WorksAlone
<1>8. AnswersOwn'
  <2>1. SUFFICES ASSUME NEW t \in Sessions, attempt'[t].phase = "answered"
                 PROVE  t # s
    BY <1>0, <1>2, <1>3 DEF AnswersOwn
  <2> QED
    BY <1>3, <2>1
<1> QED
  BY <1>4, <1>5, <1>6, <1>7, <1>8 DEF ReplayInvariant

\* The commit: s alone holds the slot, so nobody else's claim is disturbed.
LEMMA SettleKeeps ==
  ASSUME ReplayInvariant, NEW s \in Sessions, attempt[s].phase = "working",
         NEW o \in {attempt[s].payload, Cancelled}, Settle(s, o)
  PROVE  /\ ReplayInvariant'
         /\ decided[attempt[s].slot] = <<>> /\ decided' = [decided EXCEPT ![attempt[s].slot] = <<o>>]
<1> DEFINE i == attempt[s].slot
           new == [payload |-> attempt[s].payload, outcome |-> o]
<1>0. TypeOK /\ Exclusive /\ Recorded /\ WorksAlone /\ AnswersOwn
  BY DEF ReplayInvariant
<1>1. i \in Slots /\ attempt[s].payload \in Payloads /\ o \in Outcomes
  BY <1>0, Request DEF Outcomes
<1>2. decided[i] = <<>>
  BY <1>0 DEF WorksAlone
<1>3. /\ rows' = [rows EXCEPT ![i] = new]
      /\ decided' = [decided EXCEPT ![i] = Append(decided[i], o)]
      /\ Become(s, "answered", o) /\ UNCHANGED <<old, attempts>>
  BY DEF Settle, Record
<1>4. decided' = [decided EXCEPT ![i] = <<o>>]
  BY <1>2, <1>3
<1>5. new \in Row /\ new # NoRow /\ new.payload = attempt[s].payload /\ new.outcome = o
  BY <1>1, ReplayAssumption DEF Row
<1>6. /\ attempt' \in [Sessions -> Attempt \cup {Idle}]
      /\ attempt'[s].phase = "answered" /\ attempt'[s].answer = o
      /\ attempt'[s].slot = i /\ attempt'[s].payload = attempt[s].payload
      /\ \A t \in Sessions \ {s} : attempt'[t] = attempt[t]
  BY <1>0, <1>1, <1>3, BecomeType
<1>7. rows'[i] = new /\ decided'[i] = <<o>>
      /\ \A j \in Slots \ {i} : rows'[j] = rows[j] /\ decided'[j] = decided[j]
  BY <1>0, <1>1, <1>3, <1>4 DEF TypeOK
<1> HIDE DEF new
<1>8. TypeOK'
  <2>1. rows' \in [Slots -> Row \cup {NoRow}]
    BY <1>0, <1>3, <1>5 DEF TypeOK
  <2>2. decided' \in [Slots -> Seq(Outcomes)]
    BY <1>0, <1>1, <1>4 DEF TypeOK
  <2> QED
    BY <1>0, <1>3, <1>6, <2>1, <2>2 DEF TypeOK
<1>9. Exclusive'
  BY <1>0, <1>6 DEF Exclusive, Holds
<1>10. Recorded'
  <2>1. SUFFICES ASSUME NEW j \in Slots
                 PROVE  /\ rows'[j] = NoRow => decided'[j] = OldEffect(j)
                        /\ rows'[j] # NoRow =>
                             decided'[j] = <<rows'[j].outcome>>
                             /\ rows'[j].outcome \in {rows'[j].payload, Cancelled}
    BY <1>3 DEF Recorded, OldEffect
  <2>2. CASE j = i
    BY <1>5, <1>7, <2>2
  <2>3. CASE j # i
    BY <1>0, <1>7, <2>3 DEF Recorded
  <2> QED
    BY <2>2, <2>3
\* Another attempt of the same slot would hold the same lock.
<1>11. \A t \in Sessions \ {s} : Holds(t) => attempt[t].slot \in Slots \ {i}
  <2>1. SUFFICES ASSUME NEW t \in Sessions \ {s}, Holds(t)
                 PROVE  attempt[t].slot \in Slots /\ attempt[t].slot # i
    OBVIOUS
  <2>2. attempt[t].phase # "idle"
    BY <2>1 DEF Holds
  <2> QED
    BY <1>0, <2>1, <2>2, Request DEF Exclusive, Holds
<1>12. WorksAlone'
  <2>1. SUFFICES ASSUME NEW t \in Sessions, attempt'[t].phase = "working"
                 PROVE  decided'[attempt'[t].slot] = <<>>
    BY DEF WorksAlone
  <2>2. t # s
    BY <1>6, <2>1
  <2>3. attempt[t].phase = "working" /\ attempt[t].slot \in Slots \ {i}
    BY <1>6, <1>11, <2>1, <2>2 DEF Holds
  <2> QED
    BY <1>0, <1>6, <1>7, <2>2, <2>3 DEF WorksAlone
<1>13. AnswersOwn'
  <2>1. SUFFICES ASSUME NEW t \in Sessions, attempt'[t].phase = "answered", attempt'[t].answer \in Outcomes
                 PROVE  /\ decided'[attempt'[t].slot] # <<>>
                        /\ attempt'[t].answer = Head(decided'[attempt'[t].slot])
                        /\ attempt'[t].answer \in {attempt'[t].payload, Cancelled}
    BY DEF AnswersOwn
  <2>2. CASE t = s
    BY <1>6, <1>7, <2>2
  <2>3. CASE t # s
    <3>1. attempt[t].phase = "answered" /\ attempt[t].answer \in Outcomes /\ attempt'[t] = attempt[t]
      BY <1>6, <2>1, <2>3
    <3>2. attempt[t].slot \in Slots
      BY <1>0, <3>1, Request
    <3>3. decided[attempt[t].slot] # <<>> /\ attempt[t].slot # i
      BY <1>0, <1>2, <3>1 DEF AnswersOwn
    <3> QED
      BY <1>0, <1>7, <3>1, <3>2, <3>3 DEF AnswersOwn
  <2> QED
    BY <2>2, <2>3
<1> QED
  BY <1>2, <1>4, <1>8, <1>9, <1>10, <1>12, <1>13 DEF ReplayInvariant

-----------------------------------------------------------------------------
(* The invariant and what follows from it.                                 *)

LEMMA InitHolds == Init => ReplayInvariant
<1> SUFFICES ASSUME Init PROVE ReplayInvariant
  OBVIOUS
<1>1. \A s \in Sessions : attempt[s] = Idle
  BY DEF Init
<1>2. \A i \in Slots : old[i.key] \in OldRow \cup {NoRow}
  BY ReplayAssumption DEF Init, Slots
<1>3. \A i \in Slots : OldEffect(i) \in Seq(Outcomes)
  <2>1. SUFFICES ASSUME NEW i \in Slots, WrittenBy(old[i.key], i)
                 PROVE  old[i.key].payload \in Outcomes
    BY DEF OldEffect
  <2> QED
    BY <1>2, <2>1 DEF WrittenBy, OldRow, Outcomes
<1>4. TypeOK
  BY <1>3 DEF Init, TypeOK
<1>5. Recorded
  BY DEF Init, Recorded
<1>6. Exclusive /\ WorksAlone /\ AnswersOwn
  BY <1>1 DEF Exclusive, WorksAlone, AnswersOwn, Holds, Idle
<1> QED
  BY <1>4, <1>5, <1>6 DEF ReplayInvariant

LEMMA NextKeeps == ReplayInvariant /\ [Next]_vars => ReplayInvariant'
<1> SUFFICES ASSUME ReplayInvariant, [Next]_vars PROVE ReplayInvariant'
  OBVIOUS
<1>0. TypeOK /\ Recorded
  BY DEF ReplayInvariant
<1>1. CASE UNCHANGED vars
  BY <1>1 DEF vars, ReplayInvariant, TypeOK, Exclusive, Recorded, WorksAlone, AnswersOwn,
              Holds, OldEffect
<1>2. ASSUME NEW s \in Sessions, NEW kind \in Kinds, NEW i \in Slots, NEW p \in Payloads,
             Arrive(s, kind, i, p)
      PROVE  ReplayInvariant'
  BY <1>2, ArriveKeeps
<1>3. ASSUME NEW s \in Sessions, TakeLock(s) PROVE ReplayInvariant'
  BY <1>3, StepKeeps DEF TakeLock, Outcomes, NoOutcome, ReplayInvariant, ReplayAssumption
<1>4. ASSUME NEW s \in Sessions, Replay(s) PROVE ReplayInvariant'
  <2> DEFINE i == attempt[s].slot
  <2>1. attempt[s].phase = "locked" /\ Saved(i) # NoRow /\ ~Refused(i, attempt[s].payload)
        /\ Become(s, "answered", Saved(i).outcome) /\ UNCHANGED <<rows, old, decided, attempts>>
    BY <1>4 DEF Replay
  <2>2. i \in Slots /\ attempt[s].payload \in Payloads
    BY <1>0, <2>1, Request
  <2>3. decided[i] = <<Saved(i).outcome>> /\ Saved(i).outcome \in {attempt[s].payload, Cancelled}
    BY <1>0, <2>1, <2>2, HitIsOwn
  <2>4. Saved(i).outcome \in Outcomes
    BY <2>2, <2>3 DEF Outcomes
  <2> QED
    BY <2>1, <2>3, <2>4, StepKeeps
<1>5. ASSUME NEW s \in Sessions, Refuse(s) PROVE ReplayInvariant'
  BY <1>5, StepKeeps, ReplayAssumption DEF Refuse, NoOutcome
<1>6. ASSUME NEW s \in Sessions, StartWork(s) PROVE ReplayInvariant'
  <2> DEFINE i == attempt[s].slot
  <2>1. attempt[s].phase = "locked" /\ Saved(i) = NoRow /\ ~Refused(i, attempt[s].payload)
        /\ Become(s, "working", "none") /\ UNCHANGED <<rows, old, decided, attempts>>
    BY <1>6 DEF StartWork
  <2>2. i \in Slots /\ attempt[s].payload \in Payloads
    BY <1>0, <2>1, Request
  <2>3. decided[i] = <<>>
    BY <1>0, <2>1, <2>2, MissMeansOpen
  <2>4. Unlocked(s)
    BY <2>1 DEF ReplayInvariant, Exclusive, Unlocked, Holds
  <2> QED
    BY <2>1, <2>3, <2>4, StepKeeps DEF NoOutcome
<1>7. ASSUME NEW s \in Sessions, Finish(s) PROVE ReplayInvariant'
  BY <1>7, SettleKeeps DEF Finish, Working
<1>8. ASSUME NEW s \in Sessions, Tombstone(s) PROVE ReplayInvariant'
  BY <1>8, SettleKeeps DEF Tombstone, Working
<1>9. ASSUME NEW s \in Sessions, Fail(s, "error") PROVE ReplayInvariant'
  BY <1>9, StepKeeps, ReplayAssumption DEF Fail, NoOutcome
<1>10. ASSUME NEW s \in Sessions, End(s) PROVE ReplayInvariant'
  BY <1>10, EndKeeps
<1> QED
  BY <1>1, <1>2, <1>3, <1>4, <1>5, <1>6, <1>7, <1>8, <1>9, <1>10 DEF Next

\* Every behaviour of the protocol keeps the invariant.
THEOREM ReplayInvariantHolds == Spec => []ReplayInvariant
BY InitHolds, NextKeeps, PTL DEF Spec

\* The tables keep their types.
THEOREM ReplayTypes == Spec => []TypeOK
<1>1. ReplayInvariant => TypeOK
  BY DEF ReplayInvariant
<1> QED
  BY <1>1, ReplayInvariantHolds, PTL

\* A write takes effect at most once per caller and key, over any number of
\* concurrent retries and over rows of the older format.
THEOREM EffectAtMostOnce == Spec => []PerformedOnce
<1>1. ReplayInvariant => PerformedOnce
  <2>1. SUFFICES ASSUME ReplayInvariant, NEW i \in Slots PROVE Len(decided[i]) <= 1
    BY DEF PerformedOnce
  <2>2. decided[i] = OldEffect(i) \/ decided[i] = <<rows[i].outcome>>
    BY <2>1 DEF ReplayInvariant, Recorded
  <2>3. Len(OldEffect(i)) <= 1
    BY DEF OldEffect
  <2>4. Len(<<rows[i].outcome>>) <= 1
    OBVIOUS
  <2> QED
    BY <2>2, <2>3, <2>4, Zenon
<1> QED
  BY <1>1, ReplayInvariantHolds, PTL

\* A successful answer is the outcome of the caller's own key and payload.
THEOREM AnswersAreOwn == Spec => []AnswersOwn
<1>1. ReplayInvariant => AnswersOwn
  BY DEF ReplayInvariant
<1> QED
  BY <1>1, ReplayInvariantHolds, PTL

\* A handler works only while its slot is undecided.
THEOREM HandlersWorkAlone == Spec => []WorksAlone
<1>1. ReplayInvariant => WorksAlone
  BY DEF ReplayInvariant
<1> QED
  BY <1>1, ReplayInvariantHolds, PTL

-----------------------------------------------------------------------------
(* The protocol implements OnceOnly.                                       *)

\* A step that leaves the decisions, and what the other attempts were told.
LEMMA ToldOthers ==
  ASSUME NEW s \in Sessions, \A t \in Sessions \ {s} : attempt'[t] = attempt[t]
  PROVE  \A t \in Sessions \ {s} : Told(t)' = Told(t)
BY DEF Told

\* What an attempt is told from its phase and answer.
LEMMA ToldBy ==
  ASSUME TypeOK, NEW s \in Sessions, attempt[s].phase # "idle"
  PROVE  Told(s) = IF attempt[s].phase = "answered" /\ attempt[s].answer \in Outcomes
                     THEN <<attempt[s].slot, attempt[s].answer>> ELSE <<>>
BY DEF Told, Idle

LEMMA ToldIdle == ASSUME NEW s \in Sessions, attempt[s].phase = "idle" PROVE Told(s) = <<>>
BY DEF Told

\* A step of s that answers with no outcome is invisible.
LEMMA SilentStep ==
  ASSUME TypeOK, TypeOK', NEW s \in Sessions, UNCHANGED decided,
         \A t \in Sessions \ {s} : attempt'[t] = attempt[t],
         Told(s) = <<>>, Told(s)' = <<>>
  PROVE  UNCHANGED Abstract!vars
<1>1. \A t \in Sessions : Told(t)' = Told(t)
  BY ToldOthers
<1>2. [t \in Sessions |-> Told(t)]' = [t \in Sessions |-> Told(t)]
  BY <1>1
<1> QED
  BY <1>2 DEF Abstract!vars

\* Steps of s through the table of attempts that decide nothing and tell nothing.
LEMMA BecomeSilent ==
  ASSUME TypeOK, TypeOK', NEW s \in Sessions, attempt[s].phase \in {"arrived", "locked", "working"},
         NEW phase \in {"locked", "working", "answered"},
         NEW answer \in NoOutcome,
         Become(s, phase, answer), UNCHANGED decided
  PROVE  UNCHANGED Abstract!vars
<1>1. /\ attempt'[s].phase = phase /\ attempt'[s].answer = answer
      /\ \A t \in Sessions \ {s} : attempt'[t] = attempt[t]
  BY BecomeType
<1>2. Told(s) = <<>>
  BY ToldBy
<1>3. answer \notin Outcomes
  BY ReplayAssumption
<1>4. Told(s)' = <<>>
  BY <1>1, <1>3 DEF Told
<1> QED
  BY <1>1, <1>2, <1>4, SilentStep

LEMMA AbstractInit == Init => Abstract!Init
<1> SUFFICES ASSUME Init PROVE Abstract!Init
  OBVIOUS
<1>1. \A s \in Sessions : Told(s) = <<>>
  BY DEF Init, Told
<1>2. \A i \in Slots : decided[i] \in {<<>>} \cup {<<o>> : o \in Outcomes}
  <2>1. SUFFICES ASSUME NEW i \in Slots PROVE OldEffect(i) \in {<<>>} \cup {<<o>> : o \in Outcomes}
    BY DEF Init
  <2>2. old[i.key] \in OldRow \cup {NoRow}
    BY ReplayAssumption DEF Init, Slots
  <2>3. CASE WrittenBy(old[i.key], i)
    <3>1. old[i.key].payload \in Outcomes
      BY <2>2, <2>3 DEF WrittenBy, OldRow, Outcomes
    <3> QED
      BY <2>3, <3>1 DEF OldEffect
  <2>4. CASE ~WrittenBy(old[i.key], i)
    BY <2>4 DEF OldEffect
  <2> QED
    BY <2>3, <2>4
<1>3. decided \in [Slots -> {<<>>} \cup {<<o>> : o \in Outcomes}]
  BY <1>2 DEF Init
<1>4. [s \in Sessions |-> Told(s)] = [s \in Sessions |-> <<>>]
  BY <1>1
<1> QED
  BY <1>3, <1>4 DEF Abstract!Init, Abstract!Nothing

LEMMA AbstractSettle ==
  ASSUME ReplayInvariant, NEW s \in Sessions, attempt[s].phase = "working",
         NEW o \in {attempt[s].payload, Cancelled}, Settle(s, o)
  PROVE  Abstract!Next
<1> DEFINE i == attempt[s].slot
<1>0. TypeOK
  BY DEF ReplayInvariant
<1>1. i \in Slots /\ o \in Outcomes
  BY <1>0, Request DEF Outcomes
<1>2. decided[i] = <<>> /\ decided' = [decided EXCEPT ![i] = <<o>>]
  BY SettleKeeps
<1>3. Become(s, "answered", o)
  BY DEF Settle
<1>4. /\ attempt'[s].phase = "answered" /\ attempt'[s].answer = o /\ attempt'[s].slot = i
      /\ \A t \in Sessions \ {s} : attempt'[t] = attempt[t]
  BY <1>0, <1>1, <1>3, BecomeType
<1>5. Told(s) = <<>>
  BY <1>0, ToldBy
<1>6. Told(s)' = <<i, o>>
  BY <1>1, <1>4 DEF Told, Idle
<1>7. \A t \in Sessions \ {s} : Told(t)' = Told(t)
  BY <1>4, ToldOthers
<1>8. [t \in Sessions |-> Told(t)]' = [[t \in Sessions |-> Told(t)] EXCEPT ![s] = <<i, o>>]
  BY <1>6, <1>7
<1>9. Abstract!Settle(s, i, o)
  BY <1>2, <1>5, <1>8 DEF Abstract!Settle, Abstract!Nothing
<1> QED
  BY <1>1, <1>9 DEF Abstract!Next

LEMMA AbstractReport ==
  ASSUME ReplayInvariant, NEW s \in Sessions, Replay(s)
  PROVE  Abstract!Next
<1> DEFINE i == attempt[s].slot
           o == Saved(i).outcome
<1>0. TypeOK /\ Recorded
  BY DEF ReplayInvariant
<1>1. attempt[s].phase = "locked" /\ Saved(i) # NoRow /\ ~Refused(i, attempt[s].payload)
      /\ Become(s, "answered", o) /\ UNCHANGED decided
  BY DEF Replay
<1>2. i \in Slots /\ attempt[s].payload \in Payloads
  BY <1>0, <1>1, Request
<1>3. decided[i] = <<o>> /\ o \in Outcomes
  BY <1>0, <1>1, <1>2, HitIsOwn DEF Outcomes
<1>4. /\ attempt'[s].phase = "answered" /\ attempt'[s].answer = o /\ attempt'[s].slot = i
      /\ \A t \in Sessions \ {s} : attempt'[t] = attempt[t]
  BY <1>0, <1>1, <1>3, BecomeType
<1>5. Told(s) = <<>>
  BY <1>0, <1>1, ToldBy
<1>6. Told(s)' = <<i, o>>
  BY <1>3, <1>4 DEF Told, Idle
<1>7. \A t \in Sessions \ {s} : Told(t)' = Told(t)
  BY <1>4, ToldOthers
<1>8. [t \in Sessions |-> Told(t)]' = [[t \in Sessions |-> Told(t)] EXCEPT ![s] = <<i, o>>]
  BY <1>6, <1>7
<1>9. Head(decided[i]) = o /\ decided[i] # <<>>
  BY <1>3
<1>10. Abstract!Report(s, i)
  BY <1>1, <1>5, <1>8, <1>9 DEF Abstract!Report, Abstract!Nothing
<1> QED
  BY <1>2, <1>10 DEF Abstract!Next

LEMMA AbstractForget ==
  ASSUME ReplayInvariant, NEW s \in Sessions, End(s)
  PROVE  Abstract!Next
<1>1. attempt' = [attempt EXCEPT ![s] = Idle] /\ UNCHANGED decided
  BY DEF End
<1>2. attempt'[s] = Idle /\ \A t \in Sessions \ {s} : attempt'[t] = attempt[t]
  BY <1>1 DEF ReplayInvariant, TypeOK
<1>3. Told(s)' = <<>>
  BY <1>2 DEF Told
<1>4. \A t \in Sessions \ {s} : Told(t)' = Told(t)
  BY <1>2, ToldOthers
<1>5. [t \in Sessions |-> Told(t)]' = [[t \in Sessions |-> Told(t)] EXCEPT ![s] = <<>>]
  BY <1>3, <1>4
<1>6. Abstract!Forget(s)
  BY <1>1, <1>5 DEF Abstract!Forget, Abstract!Nothing
<1> QED
  BY <1>6 DEF Abstract!Next

LEMMA AbstractNext ==
  ReplayInvariant /\ ReplayInvariant' /\ [Next]_vars => [Abstract!Next]_(Abstract!vars)
<1> SUFFICES ASSUME ReplayInvariant, ReplayInvariant', [Next]_vars
             PROVE  Abstract!Next \/ UNCHANGED Abstract!vars
  OBVIOUS
<1>0. TypeOK /\ TypeOK'
  BY DEF ReplayInvariant
<1>1. CASE UNCHANGED vars
  BY <1>1 DEF vars, Abstract!vars, Told
<1>2. ASSUME NEW s \in Sessions, NEW kind \in Kinds, NEW i \in Slots, NEW p \in Payloads,
             Arrive(s, kind, i, p)
      PROVE  UNCHANGED Abstract!vars
  <2>1. attempt[s] = Idle /\ UNCHANGED decided
    BY <1>2 DEF Arrive
  <2>2. attempt'[s].phase = "arrived" /\ \A t \in Sessions \ {s} : attempt'[t] = attempt[t]
    BY <1>0, <1>2 DEF Arrive, TypeOK
  <2>3. Told(s) = <<>> /\ Told(s)' = <<>>
    BY <2>1, <2>2 DEF Told
  <2> QED
    BY <1>0, <2>1, <2>2, <2>3, SilentStep
<1>3. ASSUME NEW s \in Sessions, TakeLock(s) PROVE UNCHANGED Abstract!vars
  BY <1>0, <1>3, BecomeSilent DEF TakeLock, NoOutcome
<1>4. ASSUME NEW s \in Sessions, Replay(s) PROVE Abstract!Next
  BY <1>4, AbstractReport
<1>5. ASSUME NEW s \in Sessions, Refuse(s) PROVE UNCHANGED Abstract!vars
  BY <1>0, <1>5, BecomeSilent DEF Refuse, NoOutcome
<1>6. ASSUME NEW s \in Sessions, StartWork(s) PROVE UNCHANGED Abstract!vars
  BY <1>0, <1>6, BecomeSilent DEF StartWork, NoOutcome
<1>7. ASSUME NEW s \in Sessions, Finish(s) PROVE Abstract!Next
  BY <1>7, AbstractSettle DEF Finish, Working
<1>8. ASSUME NEW s \in Sessions, Tombstone(s) PROVE Abstract!Next
  BY <1>8, AbstractSettle DEF Tombstone, Working
<1>9. ASSUME NEW s \in Sessions, Fail(s, "error") PROVE UNCHANGED Abstract!vars
  BY <1>0, <1>9, BecomeSilent DEF Fail, NoOutcome
<1>10. ASSUME NEW s \in Sessions, End(s) PROVE Abstract!Next
  BY <1>10, AbstractForget
<1> QED
  BY <1>1, <1>2, <1>3, <1>4, <1>5, <1>6, <1>7, <1>8, <1>9, <1>10 DEF Next

\* The replay protocol implements the abstract promise to the caller: a slot
\* is settled once, and every answer reports what it was settled to.
THEOREM ReplayImplementsOnceOnly == Spec => ImplementsOnceOnly
<1>1. Init => Abstract!Init
  BY AbstractInit
<1>2. ReplayInvariant /\ ReplayInvariant' /\ [Next]_vars => [Abstract!Next]_(Abstract!vars)
  BY AbstractNext
<1> QED
  BY <1>1, <1>2, ReplayInvariantHolds, PTL DEF Spec, Abstract!Spec, ImplementsOnceOnly
=============================================================================
