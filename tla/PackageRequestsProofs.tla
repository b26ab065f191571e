------------------------- MODULE PackageRequestsProofs -------------------------
(***************************************************************************)
(* For every number of tabs, keys, attempts and lost responses: a request  *)
(* stays saved in the browser until the user knows what became of it, what *)
(* the user was told is what the server decided, and only a refusal lets   *)
(* the browser spend a second key on a receipt.  The argument goes from    *)
(* the server, where the replay invariant of RequestReplay survives the    *)
(* package endpoints' own answers, over the truth of each answer on its    *)
(* way to the tab, to the keys the browser spends on one receipt.          *)
(***************************************************************************)
EXTENDS PackageRequests, RequestReplayProofs

TabState ==
  {AtRest} \cup
  [phase: {"prepared"}, kind: Kinds, key: Keys, fresh: BOOLEAN] \cup
  [phase: {"waiting"}, kind: Kinds, key: Keys, fresh: BOOLEAN, session: Sessions] \cup
  [phase: {"clearing"}, key: Keys, answer: Outcomes \cup NoOutcome]

ClientTypes ==
  /\ tab \in [Tabs -> TabState]
  /\ saved \in Keys \cup {NoKey}
  /\ job \in Nat \ {0}
  /\ jobOf \in [Keys -> Nat]
  /\ valid \subseteq Keys
  /\ fate \in [Keys -> {"unknown", "received", "cancelled", "rejected"}]
  /\ retired \in [Keys -> {"no", "corrected", "deleted"}]

\* A waiting tab waits for an attempt of its own request, and alone.
Waits ==
  /\ \A t \in Tabs : tab[t].phase = "waiting" =>
       LET a == attempt[tab[t].session] IN
       a # Idle /\ a.kind = tab[t].kind /\ a.slot = SlotOf(tab[t].key)
  /\ \A t, u \in Tabs : t # u /\ tab[t].phase = "waiting" /\ tab[u].phase = "waiting" =>
       tab[t].session # tab[u].session

\* Telling the user f about key k is the truth.
Reports(k, f) ==
  /\ f = "received" => Received(k)
  /\ f = "cancelled" => decided[SlotOf(k)] = <<Cancelled>>

\* An answer tells the truth when it is given, on its way and when it was read.
Truthful ==
  /\ \A s \in Sessions :
       attempt[s].phase = "answered" => Reports(KeyOf(s), FateOf(attempt[s].answer))
  /\ \A t \in Tabs : tab[t].phase = "clearing" => Reports(tab[t].key, FateOf(tab[t].answer))
  /\ \A k \in Keys : Reports(k, fate[k])
  /\ \A k \in Keys : retired[k] # "no" => Received(k)

PackageInvariant == ReplayInvariant /\ ClientTypes /\ Waits /\ EvidenceKept /\ Truthful

-----------------------------------------------------------------------------
(* One user, one factory and one body: a key is a slot.                    *)

LEMMA OneBody == Body \in Payloads /\ \A p \in Payloads : p = Body
BY PackageAssumption DEF Body

LEMMA OneSlot ==
  /\ \A k \in Keys : SlotOf(k) \in Slots /\ SlotOf(k).key = k
  /\ \A i \in Slots : i.key \in Keys /\ i = SlotOf(i.key)
<1> DEFINE u == CHOOSE v \in Users : TRUE
           f == CHOOSE g \in Factories : TRUE
<1>1. u \in Users /\ \A v \in Users : v = u
  BY PackageAssumption
<1>2. f \in Factories /\ \A g \in Factories : g = f
  BY PackageAssumption
<1>3. \A k \in Keys : SlotOf(k) = [user |-> u, factory |-> f, key |-> k]
  BY DEF SlotOf
<1> HIDE DEF u, f
<1>4. \A k \in Keys : SlotOf(k) \in Slots /\ SlotOf(k).key = k
  BY <1>1, <1>2, <1>3 DEF Slots
<1>5. \A i \in Slots : i.key \in Keys /\ i = SlotOf(i.key)
  <2>1. SUFFICES ASSUME NEW i \in Slots PROVE i.key \in Keys /\ i = SlotOf(i.key)
    OBVIOUS
  <2>2. i.user = u /\ i.factory = f /\ i.key \in Keys
    BY <1>1, <1>2, <2>1 DEF Slots
  <2>3. i = [user |-> u, factory |-> f, key |-> i.key]
    BY <2>1, <2>2 DEF Slots
  <2> QED
    BY <1>3, <2>2, <2>3
<1> QED
  BY <1>4, <1>5

\* With one effect per slot, a key was received when that effect is the body.
LEMMA ReceivedIs ==
  ASSUME ReplayInvariant, NEW k \in Keys
  PROVE  /\ Received(k) <=> decided[SlotOf(k)] = <<Body>>
         /\ decided[SlotOf(k)] = <<Cancelled>> => ~Received(k)
<1> DEFINE i == SlotOf(k)
<1>0. i \in Slots
  BY OneSlot
<1>1. decided[i] = OldEffect(i) \/ decided[i] = <<rows[i].outcome>>
  BY <1>0 DEF ReplayInvariant, Recorded
<1>2. decided[i] = <<>> \/ \E o : decided[i] = <<o>>
  BY <1>1 DEF OldEffect
<1>3. Cancelled # Body
  BY OneBody, ReplayAssumption
<1> QED
  BY <1>2, <1>3 DEF Received

-----------------------------------------------------------------------------
(* The server: package answers keep the replay invariant.                  *)

LEMMA SavedPayload ==
  ASSUME TypeOK, NEW i \in Slots, Saved(i) # NoRow
  PROVE  Saved(i).payload \in Payloads
<1>1. CASE rows[i] # NoRow
  BY <1>1 DEF Saved, TypeOK, Row
<1>2. CASE rows[i] = NoRow
  <2>1. Proven(old[i.key], i) /\ Saved(i).payload = old[i.key].payload
    BY <1>2 DEF Saved
  <2>2. old[i.key] \in OldRow \cup {NoRow}
    BY ReplayAssumption DEF TypeOK, Slots
  <2> QED
    BY <2>1, <2>2 DEF Proven, WrittenBy, OldRow
<1> QED
  BY <1>1, <1>2

\* A saved response of the one body is no conflict, and is the slot's effect.
LEMMA PackageHit ==
  ASSUME ReplayInvariant, NEW i \in Slots, NEW p \in Payloads, Saved(i) # NoRow
  PROVE  decided[i] = <<Saved(i).outcome>> /\ Saved(i).outcome \in {p, Cancelled}
<1>0. TypeOK /\ Recorded
  BY DEF ReplayInvariant
<1>1. Saved(i).payload \in Payloads
  BY <1>0, SavedPayload
<1>2. Saved(i).payload = p
  BY <1>1, OneBody
<1>3. ~Refused(i, p)
  BY <1>2 DEF Refused
<1> QED
  BY <1>0, <1>3, HitIsOwn

\* What a repeated request is answered.
LEMMA ReplayedAnswer ==
  ASSUME NEW kind \in Kinds, NEW k \in Keys, NEW o \in Outcomes
  PROVE  /\ Replayed(kind, k, o) \in {o, "refused", "gone", "unavailable"}
         /\ Replayed(kind, k, o) = "unavailable" => o # Cancelled
<1>1. "unavailable" \notin Outcomes /\ kind \in {"write", "reconcile"}
  BY ReplayAssumption DEF NoOutcome
<1> QED
  BY <1>1 DEF Replayed

LEMMA ReplayPackageKeeps ==
  ASSUME ReplayInvariant, NEW s \in Sessions, ReplayPackage(s)
  PROVE  ReplayInvariant'
<1> DEFINE i == attempt[s].slot
           o == Saved(i).outcome
           answer == Replayed(attempt[s].kind, KeyOf(s), o)
<1>0. TypeOK
  BY DEF ReplayInvariant
<1>1. attempt[s].phase = "locked" /\ Saved(i) # NoRow /\ Become(s, "answered", answer)
      /\ UNCHANGED <<rows, old, decided, attempts>>
  BY DEF ReplayPackage
<1>2. i \in Slots /\ attempt[s].payload \in Payloads
  BY <1>0, <1>1, Request
<1>3. attempt[s].kind \in Kinds
  BY <1>0, <1>1 DEF TypeOK, Idle, Attempt
<1>4. decided[i] = <<o>> /\ o \in {attempt[s].payload, Cancelled} /\ o \in Outcomes
  BY <1>1, <1>2, PackageHit DEF Outcomes
<1>5. KeyOf(s) \in Keys
  BY <1>2 DEF KeyOf, Slots
<1>6. answer \in {o, "refused", "gone", "unavailable"}
  BY <1>3, <1>4, <1>5, ReplayedAnswer
<1> HIDE DEF answer, o
<1>7. answer \in Outcomes \cup NoOutcome
  BY <1>4, <1>6 DEF NoOutcome
<1>8. answer \in Outcomes => answer = o
  BY <1>6, ReplayAssumption DEF NoOutcome
<1> QED
  BY <1>1, <1>4, <1>7, <1>8, StepKeeps

LEMMA StartWorkKeeps ==
  ASSUME ReplayInvariant, NEW s \in Sessions, StartWork(s)
  PROVE  ReplayInvariant'
BY NextKeeps DEF Next

LEMMA FailKeeps ==
  ASSUME ReplayInvariant, NEW s \in Sessions, NEW answer \in NoOutcome, Fail(s, answer)
  PROVE  ReplayInvariant'
<1>1. answer \in Outcomes \cup NoOutcome /\ answer \notin Outcomes
  BY ReplayAssumption
<1>2. attempt[s].phase # "idle" /\ Become(s, "answered", answer)
      /\ UNCHANGED <<rows, old, decided, attempts>>
  BY DEF Fail
<1> QED
  BY <1>1, <1>2, StepKeeps

LEMMA ServeKeepsReplay ==
  ASSUME ReplayInvariant, NEW s \in Sessions, Serve(s)
  PROVE  ReplayInvariant'
<1>1. CASE TakeLock(s) \/ StartWork(s) \/ Finish(s) \/ Tombstone(s) \/ End(s)
  BY <1>1, NextKeeps DEF Next
<1>2. CASE ReplayPackage(s)
  BY <1>2, ReplayPackageKeeps
<1>3. CASE \E answer \in NoOutcome : Fail(s, answer)
  BY <1>3, FailKeeps
<1>4. {"refused", "early", "error"} \subseteq NoOutcome
  BY DEF NoOutcome
<1> QED
  BY <1>1, <1>2, <1>3, <1>4 DEF Serve, Accept, Reject, Reconcile, TurnAway, Drop

-----------------------------------------------------------------------------
(* What one step of the server leaves and tells.                           *)

\* What a slot decided stays decided.
Stands == \A i \in Slots : decided[i] # <<>> => decided'[i] = decided[i]

\* The truth of a report outlives every later decision.
LEMMA ReportsStand ==
  ASSUME Stands, NEW k \in Keys, NEW f, Reports(k, f)
  PROVE  Reports(k, f)'
<1>1. SlotOf(k) \in Slots
  BY OneSlot
<1>2. Received(k) => Received(k)'
  BY <1>1 DEF Received, Stands
<1>3. decided[SlotOf(k)] = <<Cancelled>> => decided'[SlotOf(k)] = <<Cancelled>>
  <2>1. <<Cancelled>> # <<>>
    OBVIOUS
  <2> QED
    BY <1>1, <2>1, Zenon DEF Stands
<1> QED
  BY <1>2, <1>3 DEF Reports

\* How an answer is read.
LEMMA FateRead ==
  ASSUME NEW answer
  PROVE  /\ FateOf(answer) \in {"received", "cancelled", "rejected"}
         /\ FateOf(answer) = "received" <=> answer \in Payloads \cup {"unavailable"}
         /\ FateOf(answer) = "cancelled" <=> answer = Cancelled
<1>1. Cancelled \notin Payloads \cup {"unavailable"}
  BY ReplayAssumption DEF NoOutcome, Outcomes
<1>2. CASE answer \in Payloads \cup {"unavailable"}
  BY <1>1, <1>2 DEF FateOf
<1>3. CASE answer = Cancelled
  BY <1>1, <1>3 DEF FateOf
<1>4. CASE answer \notin Payloads \cup {"unavailable"} /\ answer # Cancelled
  BY <1>4 DEF FateOf
<1> QED
  BY <1>2, <1>3, <1>4

\* An attempt goes on: same request, and no other attempt is touched.
GoesOn(s) ==
  /\ attempt[s] # Idle /\ attempt'[s] # Idle
  /\ attempt'[s].slot = attempt[s].slot /\ attempt'[s].kind = attempt[s].kind
  /\ \A t \in Sessions \ {s} : attempt'[t] = attempt[t]

LEMMA BecomeGoesOn ==
  ASSUME TypeOK, NEW s \in Sessions, attempt[s].phase # "idle",
         NEW phase \in {"arrived", "locked", "working", "answered"},
         NEW answer \in Outcomes \cup NoOutcome,
         Become(s, phase, answer)
  PROVE  GoesOn(s) /\ attempt'[s].phase = phase /\ attempt'[s].answer = answer
<1>1. /\ attempt'[s].phase = phase /\ attempt'[s].answer = answer
      /\ attempt'[s].slot = attempt[s].slot /\ attempt'[s].kind = attempt[s].kind
      /\ \A t \in Sessions \ {s} : attempt'[t] = attempt[t]
  BY BecomeType
<1> QED
  BY <1>1 DEF GoesOn, Idle

\* The request of an attempt is about an issued slot of the one user.
LEMMA AttemptSlot ==
  ASSUME TypeOK, NEW s \in Sessions, attempt[s].phase # "idle"
  PROVE  /\ attempt[s].slot \in Slots /\ KeyOf(s) \in Keys
         /\ attempt[s].slot = SlotOf(KeyOf(s))
         /\ attempt[s].payload = Body /\ attempt[s].kind \in Kinds
<1>1. attempt[s].slot \in Slots /\ attempt[s].payload \in Payloads
  BY Request
<1>2. attempt[s].kind \in Kinds
  BY DEF TypeOK, Idle, Attempt
<1> QED
  BY <1>1, <1>2, OneSlot, OneBody DEF KeyOf

\* Reporting about the request of s once its answer is known.
LEMMA Tells ==
  ASSUME NEW s \in Sessions, GoesOn(s), NEW k, k = KeyOf(s),
         NEW answer, attempt'[s].answer = answer, Reports(k, FateOf(answer))'
  PROVE  Reports(KeyOf(s), FateOf(attempt[s].answer))'
<1>1. KeyOf(s)' = k
  BY DEF GoesOn, KeyOf
<1> QED
  BY <1>1

\* An attempt that goes on without an answer.
LEMMA Unanswered ==
  ASSUME ReplayInvariant, NEW s \in Sessions, attempt[s].phase # "idle",
         NEW phase \in {"locked", "working"}, Become(s, phase, "none"), UNCHANGED decided
  PROVE  Stands /\ GoesOn(s) /\ attempt'[s].phase # "answered"
<1>1. "none" \in Outcomes \cup NoOutcome /\ TypeOK
  BY DEF NoOutcome, ReplayInvariant
<1>2. GoesOn(s) /\ attempt'[s].phase = phase
  BY <1>1, BecomeGoesOn
<1> QED
  BY <1>2 DEF Stands

\* An attempt that ends in a refusal or an error.
LEMMA FailTells ==
  ASSUME ReplayInvariant, NEW s \in Sessions, NEW answer \in {"refused", "early", "error"},
         Fail(s, answer)
  PROVE  Stands /\ GoesOn(s) /\ Reports(KeyOf(s), FateOf(attempt[s].answer))'
<1>1. answer \in NoOutcome /\ answer # "unavailable" /\ TypeOK
  BY DEF NoOutcome, ReplayInvariant
<1>2. attempt[s].phase # "idle" /\ Become(s, "answered", answer) /\ UNCHANGED decided
  BY DEF Fail
<1>3. GoesOn(s) /\ attempt'[s].answer = answer
  BY <1>1, <1>2, BecomeGoesOn
<1>4. answer \notin Payloads /\ answer # Cancelled
  BY <1>1, ReplayAssumption DEF Outcomes
<1>5. FateOf(answer) = "rejected"
  BY <1>1, <1>4, FateRead
<1>6. PICK k : k = KeyOf(s)
  OBVIOUS
<1>7. Reports(k, FateOf(answer))'
  BY <1>5 DEF Reports
<1> QED
  BY <1>2, <1>3, <1>6, <1>7, Tells DEF Stands

\* An attempt that commits its effect.
LEMMA SettleTells ==
  ASSUME ReplayInvariant, NEW s \in Sessions, attempt[s].phase = "working",
         NEW o \in {attempt[s].payload, Cancelled}, Settle(s, o)
  PROVE  Stands /\ GoesOn(s) /\ Reports(KeyOf(s), FateOf(attempt[s].answer))'
<1>0. TypeOK
  BY DEF ReplayInvariant
<1>1. PICK k : k = KeyOf(s)
  OBVIOUS
<1>2. k \in Keys /\ attempt[s].slot = SlotOf(k) /\ SlotOf(k) \in Slots /\ attempt[s].payload = Body
  BY <1>0, <1>1, AttemptSlot
<1>3. o \in Outcomes /\ Body \in Payloads
  BY <1>2, OneBody DEF Outcomes
<1>4. decided[SlotOf(k)] = <<>> /\ decided' = [decided EXCEPT ![SlotOf(k)] = <<o>>]
  BY <1>2, SettleKeeps
<1>5. decided'[SlotOf(k)] = <<o>> /\ \A i \in Slots \ {SlotOf(k)} : decided'[i] = decided[i]
  BY <1>0, <1>2, <1>4 DEF TypeOK
<1>6. GoesOn(s) /\ attempt'[s].answer = o
  BY <1>0, <1>3, BecomeGoesOn DEF Settle
<1>7. PICK answer : answer = o
  OBVIOUS
<1>8. Reports(k, FateOf(answer))'
  <2>1. CASE answer = Cancelled
    BY <1>5, <1>7, <2>1, FateRead DEF Reports
  <2>2. CASE answer = Body
    <3>1. Received(k)'
      BY <1>5, <1>7, <2>2 DEF Received
    <3>2. FateOf(answer) = "received"
      BY <1>3, <2>2, FateRead
    <3> QED
      BY <3>1, <3>2 DEF Reports
  <2> QED
    BY <1>2, <1>7, <2>1, <2>2
<1>9. Reports(KeyOf(s), FateOf(attempt[s].answer))'
  BY <1>1, <1>6, <1>7, <1>8, Tells
<1>10. Stands
  BY <1>4, <1>5 DEF Stands
<1> QED
  BY <1>6, <1>9, <1>10

\* An attempt that is answered from the saved response.
LEMMA ReplayTells ==
  ASSUME ReplayInvariant, NEW s \in Sessions, ReplayPackage(s)
  PROVE  Stands /\ GoesOn(s) /\ Reports(KeyOf(s), FateOf(attempt[s].answer))'
<1>0. TypeOK
  BY DEF ReplayInvariant
<1>1. PICK k : k = KeyOf(s)
  OBVIOUS
<1>2. PICK o : o = Saved(attempt[s].slot).outcome
  OBVIOUS
<1>3. PICK answer : answer = Replayed(attempt[s].kind, k, o)
  OBVIOUS
<1>4. attempt[s].phase = "locked" /\ Saved(attempt[s].slot) # NoRow
      /\ Become(s, "answered", answer) /\ UNCHANGED decided
  BY <1>1, <1>2, <1>3 DEF ReplayPackage
<1>5. attempt[s].slot \in Slots /\ k \in Keys /\ attempt[s].slot = SlotOf(k)
      /\ attempt[s].payload = Body /\ attempt[s].kind \in Kinds
  BY <1>0, <1>1, <1>4, AttemptSlot
<1>6. decided[SlotOf(k)] = <<o>> /\ o \in {Body, Cancelled}
  BY <1>2, <1>4, <1>5, PackageHit, OneBody
<1>7. o \in Outcomes /\ Body \in Payloads
  BY <1>6, OneBody DEF Outcomes
<1>8. answer \in {o, "refused", "gone", "unavailable"} /\ (answer = "unavailable" => o # Cancelled)
  BY <1>3, <1>5, <1>7, ReplayedAnswer
<1>9. answer \in Outcomes \cup NoOutcome
  BY <1>7, <1>8 DEF NoOutcome
<1>10. GoesOn(s) /\ attempt'[s].answer = answer
  BY <1>0, <1>4, <1>9, BecomeGoesOn
<1>11. answer \in Payloads \cup {"unavailable"} => o = Body
  BY <1>6, <1>8, ReplayAssumption DEF NoOutcome, Outcomes
<1>12. answer = Cancelled => o = Cancelled
  BY <1>8, ReplayAssumption DEF NoOutcome, Outcomes
<1>13. Reports(k, FateOf(answer))'
  <2>1. FateOf(answer) = "received" => decided'[SlotOf(k)] = <<Body>>
    BY <1>4, <1>6, <1>11, FateRead
  <2>2. FateOf(answer) = "cancelled" => decided'[SlotOf(k)] = <<Cancelled>>
    BY <1>4, <1>6, <1>12, FateRead
  <2>3. FateOf(answer) = "received" => Received(k)'
    BY <2>1 DEF Received
  <2> QED
    BY <2>2, <2>3 DEF Reports
<1> QED
  BY <1>1, <1>4, <1>10, <1>13, Tells DEF Stands

\* A step of the server ends an attempt nobody waits for, or carries it on; an
\* answer it gives is true.
LEMMA ServeEffect ==
  ASSUME ReplayInvariant, NEW s \in Sessions, Serve(s)
  PROVE  /\ Stands
         /\ Drop(s) \/ GoesOn(s)
         /\ GoesOn(s) /\ attempt'[s].phase = "answered" =>
              Reports(KeyOf(s), FateOf(attempt[s].answer))'
<1>1. CASE TakeLock(s) \/ StartWork(s)
  BY <1>1, Unanswered DEF TakeLock, StartWork
<1>2. CASE ReplayPackage(s)
  BY <1>2, ReplayTells
<1>3. CASE Accept(s)
  BY <1>3, SettleTells DEF Accept, Working, Finish
<1>4. CASE Reconcile(s)
  BY <1>4, SettleTells DEF Reconcile, Working, Tombstone
<1>5. CASE \E answer \in {"refused", "early", "error"} : Fail(s, answer)
  BY <1>5, FailTells
<1>6. CASE Drop(s)
  <2>1. attempt' = [attempt EXCEPT ![s] = Idle] /\ UNCHANGED decided
    BY <1>6 DEF Drop, End
  <2>2. attempt'[s] = Idle
    BY <2>1 DEF ReplayInvariant, TypeOK
  <2> QED
    BY <1>6, <2>1, <2>2 DEF Stands, GoesOn
<1> QED
  BY <1>1, <1>2, <1>3, <1>4, <1>5, <1>6 DEF Serve, Reject, TurnAway

-----------------------------------------------------------------------------
(* The browser.                                                            *)

\* What a tab's record holds in each of its phases.
LEMMA TabFields ==
  ASSUME ClientTypes, NEW t \in Tabs
  PROVE  /\ tab[t] # AtRest => tab[t].phase \in {"prepared", "waiting", "clearing"} /\ tab[t].key \in Keys
         /\ tab[t].phase \in {"prepared", "waiting"} => tab[t].kind \in Kinds /\ tab[t].fresh \in BOOLEAN
         /\ tab[t].phase = "waiting" => tab[t].session \in Sessions
         /\ tab[t].phase = "clearing" => tab[t].answer \in Outcomes \cup NoOutcome
BY DEF ClientTypes, TabState, AtRest

LEMMA TabMoves ==
  ASSUME ClientTypes, NEW t \in Tabs, NEW x \in TabState, tab' = [tab EXCEPT ![t] = x]
  PROVE  /\ tab' \in [Tabs -> TabState] /\ tab'[t] = x
         /\ \A u \in Tabs \ {t} : tab'[u] = tab[u]
BY DEF ClientTypes

\* A tab that goes to a phase in which it does not wait.
LEMMA WaitsOn ==
  ASSUME Waits, NEW t \in Tabs, tab'[t].phase # "waiting",
         \A u \in Tabs \ {t} : tab'[u] = tab[u], UNCHANGED attempt
  PROVE  Waits'
<1>1. \A u \in Tabs : tab'[u].phase = "waiting" => u # t /\ tab'[u] = tab[u]
  OBVIOUS
<1> QED
  BY <1>1 DEF Waits

\* Reports about all keys and answers while the server stands still.
LEMMA TruthOn ==
  ASSUME Truthful, NEW t \in Tabs, tab'[t].phase # "clearing",
         \A u \in Tabs \ {t} : tab'[u] = tab[u], UNCHANGED <<server, fate, retired>>
  PROVE  Truthful'
<1>1. UNCHANGED <<decided, attempt, fate, retired>>
  BY DEF server
<1>2. \A k, f : Reports(k, f)' <=> Reports(k, f)
  BY <1>1 DEF Reports, Received
<1>3. ASSUME NEW s \in Sessions, attempt'[s].phase = "answered"
      PROVE  Reports(KeyOf(s), FateOf(attempt[s].answer))'
  BY <1>1, <1>2, <1>3 DEF Truthful, KeyOf, Reports, Received
<1>4. ASSUME NEW u \in Tabs, tab'[u].phase = "clearing"
      PROVE  Reports(tab[u].key, FateOf(tab[u].answer))'
  <2>1. tab'[u] = tab[u]
    BY <1>4
  <2> QED
    BY <1>1, <1>4, <2>1 DEF Truthful, Reports, Received
<1>5. ASSUME NEW k \in Keys PROVE Reports(k, fate[k])' /\ (retired'[k] # "no" => Received(k)')
  BY <1>1, <1>2 DEF Truthful, Reports, Received
<1> QED
  BY <1>3, <1>4, <1>5 DEF Truthful

LEMMA ServerStill == ASSUME ReplayInvariant, UNCHANGED server PROVE ReplayInvariant'
<1>1. UNCHANGED vars
  BY DEF server, vars
<1> QED
  BY <1>1, NextKeeps

LEMMA PrepareNewKeeps ==
  ASSUME PackageInvariant, NEW t \in Tabs, PrepareNew(t)
  PROVE  PackageInvariant'
<1>0. ReplayInvariant /\ ClientTypes /\ Waits /\ EvidenceKept /\ Truthful
  BY DEF PackageInvariant
<1>1. PICK k \in Keys, accepted \in BOOLEAN :
        /\ jobOf[k] = 0 /\ saved' = k
        /\ jobOf' = [jobOf EXCEPT ![k] = job]
        /\ valid' = IF accepted THEN valid \cup {k} ELSE valid
        /\ Ready(t, "write", k, TRUE)
  BY DEF PrepareNew
<1>2. tab[t] = AtRest /\ saved = NoKey /\ UNCHANGED <<server, job, fate, retired>>
  BY DEF PrepareNew
<1> DEFINE x == [phase |-> "prepared", kind |-> "write", key |-> k, fresh |-> TRUE]
<1>3. x \in TabState /\ x.phase = "prepared"
  BY PackageAssumption DEF TabState
<1>4. tab' \in [Tabs -> TabState] /\ tab'[t] = x /\ \A u \in Tabs \ {t} : tab'[u] = tab[u]
  BY <1>0, <1>1, <1>3, TabMoves DEF Ready
<1> HIDE DEF x
<1>5. ClientTypes'
  BY <1>0, <1>1, <1>2, <1>4 DEF ClientTypes
<1>6. Waits' /\ Truthful' /\ ReplayInvariant'
  BY <1>0, <1>2, <1>3, <1>4, WaitsOn, TruthOn, ServerStill DEF server
<1>7. EvidenceKept'
  <2>1. SUFFICES ASSUME NEW l \in Keys, jobOf'[l] # 0, fate[l] = "unknown" PROVE l = k
    BY <1>1, <1>2 DEF EvidenceKept
  <2>2. jobOf[l] # 0 => saved = l
    BY <1>0, <2>1 DEF EvidenceKept
  <2>3. jobOf[l] = 0
    BY <1>2, <2>2, PackageAssumption
  <2> QED
    BY <1>0, <1>1, <2>1, <2>3 DEF ClientTypes
<1> QED
  BY <1>5, <1>6, <1>7 DEF PackageInvariant

\* A tab that changes its own record only, and does not start to wait or clear.
LEMMA TabOnlyKeeps ==
  ASSUME PackageInvariant, NEW t \in Tabs, NEW x \in TabState, x.phase \notin {"waiting", "clearing"},
         tab' = [tab EXCEPT ![t] = x],
         UNCHANGED <<server, saved, job, jobOf, valid, fate, retired>>
  PROVE  PackageInvariant'
<1>0. ReplayInvariant /\ ClientTypes /\ Waits /\ EvidenceKept /\ Truthful
  BY DEF PackageInvariant
<1>1. tab' \in [Tabs -> TabState] /\ tab'[t] = x /\ \A u \in Tabs \ {t} : tab'[u] = tab[u]
  BY <1>0, TabMoves
<1>2. ClientTypes'
  BY <1>0, <1>1 DEF ClientTypes
<1>3. Waits' /\ Truthful' /\ ReplayInvariant'
  BY <1>0, <1>1, WaitsOn, TruthOn, ServerStill DEF server
<1>4. EvidenceKept'
  BY <1>0 DEF EvidenceKept
<1> QED
  BY <1>2, <1>3, <1>4 DEF PackageInvariant

LEMMA PrepareSavedKeeps ==
  ASSUME PackageInvariant, NEW t \in Tabs, PrepareSaved(t)
  PROVE  PackageInvariant'
<1>1. saved \in Keys
  BY DEF PackageInvariant, ClientTypes, PrepareSaved
<1>2. PICK kind \in Kinds : Ready(t, kind, saved, FALSE)
  BY DEF PrepareSaved
<1> DEFINE x == [phase |-> "prepared", kind |-> kind, key |-> saved, fresh |-> FALSE]
<1>3. x \in TabState /\ x.phase = "prepared"
  BY <1>1 DEF TabState
<1>4. tab' = [tab EXCEPT ![t] = x]
  BY <1>2 DEF Ready
<1> HIDE DEF x
<1> QED
  BY <1>3, <1>4, TabOnlyKeeps DEF PrepareSaved

LEMMA GiveUpKeeps ==
  ASSUME PackageInvariant, NEW t \in Tabs, GiveUp(t)
  PROVE  PackageInvariant'
<1>1. AtRest \in TabState /\ AtRest.phase = "idle"
  BY DEF TabState, AtRest
<1> QED
  BY <1>1, TabOnlyKeeps DEF GiveUp

LEMMA PostKeeps ==
  ASSUME PackageInvariant, NEW t \in Tabs, Post(t)
  PROVE  PackageInvariant'
<1>0. ReplayInvariant /\ ClientTypes /\ Waits /\ EvidenceKept /\ Truthful
  BY DEF PackageInvariant
<1>1. PICK s \in Sessions :
        /\ Arrive(s, tab[t].kind, SlotOf(tab[t].key), Body)
        /\ tab' = [tab EXCEPT ![t] =
             [phase |-> "waiting", kind |-> tab[t].kind, key |-> tab[t].key,
              fresh |-> tab[t].fresh, session |-> s]]
  BY DEF Post
<1>2. tab[t].phase = "prepared" /\ UNCHANGED <<saved, job, jobOf, valid, fate, retired>>
  BY DEF Post
<1> DEFINE x == [phase |-> "waiting", kind |-> tab[t].kind, key |-> tab[t].key,
                 fresh |-> tab[t].fresh, session |-> s]
<1>3. tab[t].key \in Keys /\ tab[t].kind \in Kinds /\ tab[t].fresh \in BOOLEAN
  BY <1>0, <1>2, TabFields DEF AtRest
<1>4. x \in TabState
  BY <1>3 DEF TabState
<1>5. x.phase = "waiting" /\ x.session = s /\ x.kind = tab[t].kind /\ x.key = tab[t].key
  OBVIOUS
<1>6. tab' = [tab EXCEPT ![t] = x]
  BY <1>1
<1> HIDE DEF x
<1>7. tab' \in [Tabs -> TabState] /\ tab'[t] = x /\ \A u \in Tabs \ {t} : tab'[u] = tab[u]
  BY <1>0, <1>4, <1>6, TabMoves
<1>8. SlotOf(tab[t].key) \in Slots /\ Body \in Payloads
  BY <1>3, OneSlot, OneBody
<1>9. ReplayInvariant'
  BY <1>0, <1>1, <1>3, <1>8, ArriveKeeps
<1> DEFINE a == [phase |-> "arrived", kind |-> tab[t].kind, slot |-> SlotOf(tab[t].key),
                 payload |-> Body, answer |-> "none"]
<1>10. a.phase = "arrived" /\ a.kind = tab[t].kind /\ a.slot = SlotOf(tab[t].key)
  OBVIOUS
<1>11. attempt[s] = Idle /\ attempt' = [attempt EXCEPT ![s] = a] /\ UNCHANGED decided
  BY <1>1 DEF Arrive
<1> HIDE DEF a
<1>12. attempt'[s] = a /\ \A r \in Sessions \ {s} : attempt'[r] = attempt[r]
  BY <1>0, <1>11 DEF ReplayInvariant, TypeOK
<1>13. ClientTypes'
  BY <1>0, <1>2, <1>7 DEF ClientTypes
<1>14. \A u \in Tabs : tab[u].phase = "waiting" => tab[u].session \in Sessions \ {s}
  BY <1>0, <1>11, TabFields DEF Waits
<1>15. Waits'
  <2>1. a # Idle
    BY <1>10 DEF Idle
  <2>2. ASSUME NEW u \in Tabs, tab'[u].phase = "waiting"
        PROVE  /\ attempt'[tab'[u].session] # Idle
               /\ attempt'[tab'[u].session].kind = tab'[u].kind
               /\ attempt'[tab'[u].session].slot = SlotOf(tab'[u].key)
    <3>1. CASE u = t
      BY <1>5, <1>7, <1>10, <1>12, <2>1, <3>1
    <3>2. CASE u # t
      BY <1>0, <1>7, <1>12, <1>14, <2>2, <3>2 DEF Waits
    <3> QED
      BY <3>1, <3>2
  <2>3. ASSUME NEW u \in Tabs, NEW v \in Tabs, u # v, tab'[u].phase = "waiting", tab'[v].phase = "waiting"
        PROVE  tab'[u].session # tab'[v].session
    BY <1>0, <1>5, <1>7, <1>14, <2>3 DEF Waits
  <2> QED
    BY <2>2, <2>3 DEF Waits
<1>16. EvidenceKept'
  BY <1>0, <1>2 DEF EvidenceKept
<1>17. Truthful'
  <2>1. ASSUME NEW r \in Sessions, attempt'[r].phase = "answered"
        PROVE  Reports(KeyOf(r), FateOf(attempt[r].answer))'
    <3>1. attempt'[r] = attempt[r]
      BY <1>10, <1>12, <2>1
    <3> QED
      BY <1>0, <1>11, <2>1, <3>1 DEF Truthful, KeyOf, Reports, Received
  <2>2. ASSUME NEW u \in Tabs, tab'[u].phase = "clearing"
        PROVE  Reports(tab[u].key, FateOf(tab[u].answer))'
    <3>1. tab'[u] = tab[u]
      BY <1>5, <1>7, <2>2
    <3> QED
      BY <1>0, <1>11, <2>2, <3>1 DEF Truthful, Reports, Received
  <2>3. ASSUME NEW k \in Keys PROVE Reports(k, fate[k])' /\ (retired'[k] # "no" => Received(k)')
    BY <1>0, <1>2, <1>11 DEF Truthful, Reports, Received
  <2> QED
    BY <2>1, <2>2, <2>3 DEF Truthful
<1> QED
  BY <1>9, <1>13, <1>15, <1>16, <1>17 DEF PackageInvariant

\* The tab that reads its response carries what the attempt was answered.
LEMMA DeliverKeeps ==
  ASSUME PackageInvariant, NEW t \in Tabs, Deliver(t)
  PROVE  PackageInvariant'
<1>0. ReplayInvariant /\ ClientTypes /\ Waits /\ EvidenceKept /\ Truthful
  BY DEF PackageInvariant
<1>1. PICK s : s = tab[t].session
  OBVIOUS
<1>2. PICK answer : answer = attempt[s].answer
  OBVIOUS
<1>3. PICK k : k = tab[t].key
  OBVIOUS
<1>4. tab[t].phase = "waiting" /\ End(s) /\ UNCHANGED <<saved, job, jobOf, valid, fate, retired>>
  BY <1>1 DEF Deliver
<1>5. s \in Sessions /\ k \in Keys
  BY <1>0, <1>1, <1>3, <1>4, TabFields DEF AtRest
<1>6. attempt[s].phase = "answered" /\ attempt[s].slot = SlotOf(k) /\ KeyOf(s) = k
  BY <1>0, <1>1, <1>3, <1>4, <1>5, OneSlot DEF Waits, End, KeyOf
<1>7. Reports(k, FateOf(answer))
  BY <1>0, <1>2, <1>5, <1>6 DEF Truthful
<1>8. answer \in Outcomes \cup NoOutcome
  BY <1>0, <1>2, <1>5, <1>6 DEF ReplayInvariant, TypeOK, Idle, Attempt
<1> DEFINE x == IF Settles(tab[t].kind, tab[t].fresh, answer)
                  THEN [phase |-> "clearing", key |-> k, answer |-> answer] ELSE AtRest
<1>9. tab' = [tab EXCEPT ![t] = x]
  BY <1>1, <1>2, <1>3 DEF Deliver
<1>10. x \in TabState
  BY <1>5, <1>8 DEF TabState
<1>11. x.phase # "waiting" /\ (x.phase = "clearing" => x.key = k /\ x.answer = answer)
  BY DEF AtRest
<1> HIDE DEF x
<1>12. tab' \in [Tabs -> TabState] /\ tab'[t] = x /\ \A u \in Tabs \ {t} : tab'[u] = tab[u]
  BY <1>0, <1>9, <1>10, TabMoves
<1>13. attempt' = [attempt EXCEPT ![s] = Idle] /\ UNCHANGED decided
  BY <1>4 DEF End
<1>14. attempt'[s] = Idle /\ \A r \in Sessions \ {s} : attempt'[r] = attempt[r]
  BY <1>0, <1>5, <1>13 DEF ReplayInvariant, TypeOK
<1>15. ReplayInvariant'
  BY <1>0, <1>4, <1>5, EndKeeps
<1>16. ClientTypes'
  BY <1>0, <1>4, <1>12 DEF ClientTypes
<1>17. Waits'
  <2>1. ASSUME NEW u \in Tabs, tab'[u].phase = "waiting"
        PROVE  u # t /\ tab'[u] = tab[u] /\ tab[u].session \in Sessions \ {s}
               /\ attempt'[tab[u].session] = attempt[tab[u].session]
    <3>1. u # t /\ tab'[u] = tab[u]
      BY <1>11, <1>12, <2>1
    <3>2. tab[u].session # s /\ tab[u].session \in Sessions
      BY <1>0, <1>1, <1>4, <2>1, <3>1, TabFields DEF Waits
    <3> QED
      BY <1>14, <3>1, <3>2
  <2> QED
    BY <1>0, <2>1 DEF Waits
<1>18. EvidenceKept'
  BY <1>0, <1>4 DEF EvidenceKept
<1>19. Truthful'
  <2>1. ASSUME NEW r \in Sessions, attempt'[r].phase = "answered"
        PROVE  Reports(KeyOf(r), FateOf(attempt[r].answer))'
    <3>1. attempt'[r] = attempt[r]
      BY <1>14, <2>1 DEF Idle
    <3> QED
      BY <1>0, <1>13, <2>1, <3>1 DEF Truthful, KeyOf, Reports, Received
  <2>2. ASSUME NEW u \in Tabs, tab'[u].phase = "clearing"
        PROVE  Reports(tab[u].key, FateOf(tab[u].answer))'
    <3>1. CASE u = t
      <4>1. tab'[u].key = k /\ tab'[u].answer = answer
        BY <1>11, <1>12, <2>2, <3>1
      <4> QED
        BY <1>7, <1>13, <4>1 DEF Reports, Received
    <3>2. CASE u # t
      <4>1. tab'[u] = tab[u]
        BY <1>12, <3>2
      <4> QED
        BY <1>0, <1>13, <2>2, <4>1 DEF Truthful, Reports, Received
    <3> QED
      BY <3>1, <3>2
  <2>3. ASSUME NEW l \in Keys PROVE Reports(l, fate[l])' /\ (retired'[l] # "no" => Received(l)')
    BY <1>0, <1>4, <1>13 DEF Truthful, Reports, Received
  <2> QED
    BY <2>1, <2>2, <2>3 DEF Truthful
<1> QED
  BY <1>15, <1>16, <1>17, <1>18, <1>19 DEF PackageInvariant

\* Forgetting the request: only under its own key, and with its fate known.
LEMMA ClearKeeps ==
  ASSUME PackageInvariant, NEW t \in Tabs, Clear(t)
  PROVE  PackageInvariant'
<1>0. ReplayInvariant /\ ClientTypes /\ Waits /\ EvidenceKept /\ Truthful
  BY DEF PackageInvariant
<1>1. PICK k : k = tab[t].key
  OBVIOUS
<1>2. PICK now : now = FateOf(tab[t].answer)
  OBVIOUS
<1> DEFINE seen == saved \in {k, NoKey}
<1>3. /\ tab[t].phase = "clearing" /\ saved' = LeftAfter(k)
      /\ fate' = (IF seen THEN [fate EXCEPT ![k] = now] ELSE fate)
      /\ job' = (IF seen /\ now = "received" /\ jobOf[k] = job THEN job + 1 ELSE job)
      /\ tab' = [tab EXCEPT ![t] = AtRest] /\ UNCHANGED <<server, jobOf, valid, retired>>
  BY <1>1, <1>2 DEF Clear
<1>4. k \in Keys
  BY <1>0, <1>1, <1>3, TabFields DEF AtRest
<1>5. now \in {"received", "cancelled", "rejected"}
  BY <1>2, FateRead
<1>6. Reports(k, now)
  BY <1>0, <1>1, <1>2, <1>3 DEF Truthful
<1>7. AtRest \in TabState /\ AtRest.phase = "idle"
  BY DEF TabState, AtRest
<1>8. tab' \in [Tabs -> TabState] /\ tab'[t] = AtRest /\ \A u \in Tabs \ {t} : tab'[u] = tab[u]
  BY <1>0, <1>3, <1>7, TabMoves
<1>9. fate' \in [Keys -> {"unknown", "received", "cancelled", "rejected"}]
      /\ \A l \in Keys : fate'[l] = IF seen /\ l = k THEN now ELSE fate[l]
  BY <1>0, <1>3, <1>4, <1>5 DEF ClientTypes
<1>10. ClientTypes'
  <2>1. job' \in Nat \ {0}
    BY <1>0, <1>3 DEF ClientTypes
  <2>2. saved' \in Keys \cup {NoKey}
    BY <1>0, <1>3 DEF ClientTypes, LeftAfter
  <2> QED
    BY <1>0, <1>3, <1>8, <1>9, <2>1, <2>2 DEF ClientTypes
<1>11. ReplayInvariant' /\ Waits'
  BY <1>0, <1>3, <1>7, <1>8, ServerStill, WaitsOn DEF server
<1>12. EvidenceKept'
  <2>1. SUFFICES ASSUME NEW l \in Keys, jobOf'[l] # 0, fate'[l] = "unknown" PROVE saved' = l
    BY DEF EvidenceKept
  <2>2. ~(seen /\ l = k) /\ saved = l
    BY <1>0, <1>3, <1>5, <1>9, <2>1 DEF EvidenceKept
  <2> QED
    BY <1>3, <2>2 DEF LeftAfter
<1>13. Truthful'
  <2>0. UNCHANGED <<decided, attempt, retired>>
    BY <1>3 DEF server
  <2>1. ASSUME NEW r \in Sessions, attempt'[r].phase = "answered"
        PROVE  Reports(KeyOf(r), FateOf(attempt[r].answer))'
    BY <1>0, <2>0, <2>1 DEF Truthful, KeyOf, Reports, Received
  <2>2. ASSUME NEW u \in Tabs, tab'[u].phase = "clearing"
        PROVE  Reports(tab[u].key, FateOf(tab[u].answer))'
    <3>1. tab'[u] = tab[u]
      BY <1>7, <1>8, <2>2
    <3> QED
      BY <1>0, <2>0, <2>2, <3>1 DEF Truthful, Reports, Received
  <2>3. ASSUME NEW l \in Keys PROVE Reports(l, fate[l])'
    <3>1. Reports(l, IF seen /\ l = k THEN now ELSE fate[l])
      BY <1>0, <1>6 DEF Truthful
    <3> QED
      BY <1>9, <2>0, <3>1 DEF Reports, Received
  <2>4. ASSUME NEW l \in Keys, retired'[l] # "no" PROVE Received(l)'
    BY <1>0, <2>0, <2>4 DEF Truthful, Received
  <2> QED
    BY <2>1, <2>2, <2>3, <2>4 DEF Truthful
<1> QED
  BY <1>10, <1>11, <1>12, <1>13 DEF PackageInvariant

-----------------------------------------------------------------------------
(* The server under the tabs.                                              *)

LEMMA ServeKeeps ==
  ASSUME PackageInvariant, NEW s \in Sessions, Serve(s)
  PROVE  PackageInvariant'
<1>0. ReplayInvariant /\ ClientTypes /\ Waits /\ EvidenceKept /\ Truthful /\ TypeOK
  BY DEF PackageInvariant, ReplayInvariant
<1>1. UNCHANGED <<saved, tab, job, jobOf, valid, fate, retired>>
  BY DEF Serve, client
<1>2. ReplayInvariant'
  BY <1>0, ServeKeepsReplay
<1>3. Stands /\ (Drop(s) \/ GoesOn(s))
      /\ (GoesOn(s) /\ attempt'[s].phase = "answered" =>
            Reports(KeyOf(s), FateOf(attempt[s].answer))')
  BY <1>0, ServeEffect
<1>4. \A r \in Sessions \ {s} : attempt'[r] = attempt[r]
  BY <1>0, <1>3 DEF Drop, End, GoesOn, TypeOK
<1>5. Drop(s) => attempt'[s] = Idle /\ \A t \in Tabs : tab[t].phase = "waiting" => tab[t].session # s
  BY <1>0 DEF Drop, End, TypeOK
<1>6. ClientTypes' /\ EvidenceKept'
  BY <1>0, <1>1 DEF ClientTypes, EvidenceKept
<1>7. Waits'
  <2>1. ASSUME NEW t \in Tabs, tab'[t].phase = "waiting"
        PROVE  /\ attempt'[tab'[t].session] # Idle
               /\ attempt'[tab'[t].session].kind = tab'[t].kind
               /\ attempt'[tab'[t].session].slot = SlotOf(tab'[t].key)
    <3>1. tab'[t] = tab[t] /\ tab[t].session \in Sessions
      BY <1>0, <1>1, <2>1, TabFields
    <3>2. CASE tab[t].session = s
      BY <1>0, <1>3, <1>5, <2>1, <3>1, <3>2 DEF Waits, GoesOn
    <3>3. CASE tab[t].session # s
      BY <1>0, <1>4, <2>1, <3>1, <3>3 DEF Waits
    <3> QED
      BY <3>2, <3>3
  <2> QED
    BY <1>0, <1>1, <2>1 DEF Waits
<1>8. Truthful'
  <2>0. ASSUME NEW k \in Keys, NEW f, Reports(k, f) PROVE Reports(k, f)'
    BY <1>3, <2>0, ReportsStand
  <2>1. ASSUME NEW r \in Sessions, attempt'[r].phase = "answered"
        PROVE  Reports(KeyOf(r), FateOf(attempt[r].answer))'
    <3>1. CASE r = s
      BY <1>3, <1>5, <2>1, <3>1 DEF Idle
    <3>2. CASE r # s
      <4>1. attempt'[r] = attempt[r] /\ KeyOf(r) \in Keys
        BY <1>0, <1>4, <2>1, <3>2, AttemptSlot
      <4>2. PICK k \in Keys : k = KeyOf(r)
        BY <4>1
      <4>3. PICK f : f = FateOf(attempt[r].answer)
        OBVIOUS
      <4>4. Reports(k, f)'
        BY <1>0, <2>0, <2>1, <4>1, <4>2, <4>3 DEF Truthful
      <4>5. KeyOf(r)' = k /\ FateOf(attempt[r].answer)' = f
        BY <4>1, <4>2, <4>3 DEF KeyOf
      <4> QED
        BY <4>4, <4>5 DEF Reports, Received
    <3> QED
      BY <3>1, <3>2
  <2>2. ASSUME NEW t \in Tabs, tab'[t].phase = "clearing"
        PROVE  Reports(tab[t].key, FateOf(tab[t].answer))'
    <3>1. tab'[t] = tab[t] /\ tab[t].key \in Keys
      BY <1>0, <1>1, <2>2, TabFields DEF AtRest
    <3>2. PICK k \in Keys : k = tab[t].key
      BY <3>1
    <3>3. PICK f : f = FateOf(tab[t].answer)
      OBVIOUS
    <3>4. Reports(k, f)'
      BY <1>0, <2>0, <2>2, <3>1, <3>2, <3>3 DEF Truthful
    <3> QED
      BY <3>1, <3>2, <3>3, <3>4 DEF Reports, Received
  <2>3. ASSUME NEW k \in Keys PROVE Reports(k, fate[k])' /\ (retired'[k] # "no" => Received(k)')
    <3>1. PICK f : f = fate[k]
      OBVIOUS
    <3>2. Reports(k, f)'
      BY <1>0, <2>0, <3>1 DEF Truthful
    <3>3. Received(k) => Received(k)'
      <4>1. Reports(k, "received")' <=> Received(k)'
        BY DEF Reports
      <4>2. Reports(k, "received") <=> Received(k)
        BY DEF Reports
      <4> QED
        BY <2>0, <4>1, <4>2
    <3> QED
      BY <1>0, <1>1, <3>1, <3>2, <3>3 DEF Truthful, Reports, Received
  <2> QED
    BY <2>1, <2>2, <2>3 DEF Truthful
<1> QED
  BY <1>2, <1>6, <1>7, <1>8 DEF PackageInvariant

LEMMA RetireKeeps ==
  ASSUME PackageInvariant, NEW k \in Keys, Retire(k)
  PROVE  PackageInvariant'
<1>0. ReplayInvariant /\ ClientTypes /\ Waits /\ EvidenceKept /\ Truthful
  BY DEF PackageInvariant
<1>1. PICK how \in Retirements : retired' = [retired EXCEPT ![k] = how]
  BY DEF Retire
<1>2. Received(k) /\ UNCHANGED <<server, saved, tab, job, jobOf, valid, fate>>
  BY DEF Retire, client
<1>3. how \in {"corrected", "deleted"}
  BY PackageAssumption
<1>4. ClientTypes' /\ Waits' /\ EvidenceKept' /\ ReplayInvariant'
  BY <1>0, <1>1, <1>2, <1>3, ServerStill DEF ClientTypes, Waits, EvidenceKept, server
<1>5. Truthful'
  <2>0. UNCHANGED <<decided, attempt, tab, fate>>
    BY <1>2 DEF server
  <2>1. ASSUME NEW r \in Sessions, attempt'[r].phase = "answered"
        PROVE  Reports(KeyOf(r), FateOf(attempt[r].answer))'
    BY <1>0, <2>0, <2>1 DEF Truthful, KeyOf, Reports, Received
  <2>2. ASSUME NEW t \in Tabs, tab'[t].phase = "clearing"
        PROVE  Reports(tab[t].key, FateOf(tab[t].answer))'
    BY <1>0, <2>0, <2>2 DEF Truthful, Reports, Received
  <2>3. ASSUME NEW l \in Keys PROVE Reports(l, fate[l])' /\ (retired'[l] # "no" => Received(l)')
    BY <1>0, <1>1, <1>2, <2>0 DEF Truthful, Reports, Received, ClientTypes
  <2> QED
    BY <2>1, <2>2, <2>3 DEF Truthful
<1> QED
  BY <1>4, <1>5 DEF PackageInvariant

-----------------------------------------------------------------------------
(* The invariant and what follows from it.                                 *)

LEMMA PackageInitHolds == PackageInit => PackageInvariant
<1> SUFFICES ASSUME PackageInit PROVE PackageInvariant
  OBVIOUS
<1>1. ReplayInvariant
  BY InitHolds DEF PackageInit
<1>2. ClientTypes
  BY DEF PackageInit, ClientTypes, TabState
<1>3. \A s \in Sessions : attempt[s] = Idle
  BY DEF PackageInit, Init
<1>4. Waits /\ EvidenceKept
  BY DEF PackageInit, Waits, EvidenceKept, AtRest
<1>5. Truthful
  BY <1>3 DEF PackageInit, Truthful, Idle, AtRest, Reports
<1> QED
  BY <1>1, <1>2, <1>4, <1>5 DEF PackageInvariant

LEMMA PackageStutter == PackageInvariant /\ UNCHANGED packageVars => PackageInvariant'
<1> SUFFICES ASSUME PackageInvariant, UNCHANGED packageVars PROVE PackageInvariant'
  OBVIOUS
<1>0. ReplayInvariant /\ ClientTypes /\ Waits /\ EvidenceKept /\ Truthful
  BY DEF PackageInvariant
<1>1. UNCHANGED <<server, saved, tab, job, jobOf, valid, fate, retired>>
  BY DEF packageVars, client
<1>2. ReplayInvariant' /\ ClientTypes' /\ Waits' /\ EvidenceKept'
  BY <1>0, <1>1, ServerStill DEF ClientTypes, Waits, EvidenceKept, server
<1>3. Truthful'
  BY <1>0, <1>1 DEF server, Truthful, Reports, Received, KeyOf
<1> QED
  BY <1>2, <1>3 DEF PackageInvariant

LEMMA PackageNextKeeps == PackageInvariant /\ [PackageNext]_packageVars => PackageInvariant'
BY PrepareNewKeeps, PrepareSavedKeeps, PostKeeps, GiveUpKeeps, DeliverKeeps, ClearKeeps,
   ServeKeeps, RetireKeeps, PackageStutter DEF PackageNext

\* Every behaviour of browser and server keeps the invariant, whatever the
\* business rules, refusals, retirements and older rows.
THEOREM PackageInvariantHolds == PackageSpec => []PackageInvariant
BY PackageInitHolds, PackageNextKeeps, PTL DEF PackageSpec

\* A request whose outcome the user has not been told is still saved.
THEOREM EvidenceAlwaysKept == PackageSpec => []EvidenceKept
<1>1. PackageInvariant => EvidenceKept
  BY DEF PackageInvariant
<1> QED
  BY <1>1, PackageInvariantHolds, PTL

\* What the user was told of a key stays true: a cancelled request never takes
\* effect, a confirmed one has.
THEOREM AlwaysToldTruly == PackageSpec => []ToldTruly
<1>1. PackageInvariant => ToldTruly
  <2>1. SUFFICES ASSUME PackageInvariant, NEW k \in Keys
                 PROVE  /\ fate[k] = "cancelled" => ~Received(k)
                        /\ fate[k] = "received" => Received(k)
    BY DEF ToldTruly
  <2>2. Reports(k, fate[k])
    BY <2>1 DEF PackageInvariant, Truthful
  <2>3. decided[SlotOf(k)] = <<Cancelled>> => ~Received(k)
    BY <2>1, ReceivedIs DEF PackageInvariant
  <2> QED
    BY <2>2, <2>3 DEF Reports
<1> QED
  BY <1>1, PackageInvariantHolds, PTL

-----------------------------------------------------------------------------
(***************************************************************************)
(* What lets the browser issue another key for the same receipt.  A key    *)
(* reported as received ends its receipt, one whose fate is unknown is     *)
(* still saved, and one reported as cancelled is dead: a refusal remains,  *)
(* whatever the rules, the retirements and the older rows.                 *)
(***************************************************************************)

\* Only issued keys travel, and a receipt is over when one of its keys is confirmed.
Spent ==
  /\ \A t \in Tabs : tab[t] # AtRest => jobOf[tab[t].key] # 0
  /\ \A k \in Keys : saved = k => jobOf[k] # 0
  /\ \A k \in Keys : jobOf[k] <= job
  /\ \A k \in Keys : fate[k] = "received" => jobOf[k] # 0 /\ jobOf[k] < job

\* A step that only moves one tab.
LEMMA TabOnlySpent ==
  ASSUME PackageInvariant, Spent, NEW t \in Tabs, NEW x \in TabState, x # AtRest => jobOf[x.key] # 0,
         tab' = [tab EXCEPT ![t] = x], UNCHANGED <<saved, job, jobOf, fate>>
  PROVE  Spent'
<1>0. ClientTypes
  BY DEF PackageInvariant
<1>1. tab'[t] = x /\ \A u \in Tabs \ {t} : tab'[u] = tab[u]
  BY <1>0, TabMoves
<1> QED
  BY <1>1 DEF Spent

LEMMA SpentNext ==
  ASSUME PackageInvariant, Spent, [PackageNext]_packageVars
  PROVE  Spent'
<1>0. ClientTypes /\ job \in Nat \ {0} /\ jobOf \in [Keys -> Nat] /\ NoKey \notin Keys
  BY PackageAssumption DEF PackageInvariant, ClientTypes
<1>1. AtRest \in TabState
  BY DEF TabState
<1>2. ASSUME UNCHANGED <<tab, saved, job, jobOf, fate>> PROVE Spent'
  BY <1>2 DEF Spent
<1>3. ASSUME NEW t \in Tabs, PrepareNew(t) PROVE Spent'
  <2>1. PICK k \in Keys : jobOf[k] = 0 /\ saved' = k /\ jobOf' = [jobOf EXCEPT ![k] = job]
                          /\ Ready(t, "write", k, TRUE)
    BY <1>3 DEF PrepareNew
  <2> DEFINE x == [phase |-> "prepared", kind |-> "write", key |-> k, fresh |-> TRUE]
  <2>2. x \in TabState /\ x.key = k
    BY PackageAssumption DEF TabState
  <2>3. tab'[t] = x /\ \A u \in Tabs \ {t} : tab'[u] = tab[u]
    BY <1>0, <2>1, <2>2, TabMoves DEF Ready
  <2> HIDE DEF x
  <2>4. jobOf'[k] = job /\ \A l \in Keys \ {k} : jobOf'[l] = jobOf[l]
    BY <1>0, <2>1
  <2>5. UNCHANGED <<job, fate>>
    BY <1>3 DEF PrepareNew
  <2>6. ASSUME NEW u \in Tabs, tab'[u] # AtRest PROVE jobOf'[tab'[u].key] # 0
    <3>1. CASE u = t
      BY <1>0, <2>2, <2>3, <2>4, <3>1
    <3>2. CASE u # t
      BY <1>0, <2>1, <2>3, <2>4, <2>6, <3>2, TabFields DEF Spent
    <3> QED
      BY <3>1, <3>2
  <2>7. ASSUME NEW l \in Keys, fate'[l] = "received" PROVE l # k /\ jobOf'[l] # 0 /\ jobOf'[l] < job'
    BY <2>1, <2>4, <2>5, <2>7 DEF Spent
  <2>8. ASSUME NEW l \in Keys PROVE jobOf'[l] <= job' /\ (saved' = l => jobOf'[l] # 0)
    BY <1>0, <2>1, <2>4, <2>5 DEF Spent
  <2> QED
    BY <2>6, <2>7, <2>8 DEF Spent
<1>4. ASSUME NEW t \in Tabs, PrepareSaved(t) PROVE Spent'
  <2>1. PICK kind \in Kinds : Ready(t, kind, saved, FALSE)
    BY <1>4 DEF PrepareSaved
  <2> DEFINE x == [phase |-> "prepared", kind |-> kind, key |-> saved, fresh |-> FALSE]
  <2>2. saved \in Keys /\ UNCHANGED <<saved, job, jobOf, fate>>
    BY <1>0, <1>4 DEF PrepareSaved, ClientTypes
  <2>3. x \in TabState /\ x.key = saved
    BY <2>2 DEF TabState
  <2>4. tab' = [tab EXCEPT ![t] = x]
    BY <2>1 DEF Ready
  <2> HIDE DEF x
  <2> QED
    BY <2>2, <2>3, <2>4, TabOnlySpent DEF Spent
<1>5. ASSUME NEW t \in Tabs, Post(t) PROVE Spent'
  <2>1. PICK s \in Sessions :
          tab' = [tab EXCEPT ![t] = [phase |-> "waiting", kind |-> tab[t].kind, key |-> tab[t].key,
                                     fresh |-> tab[t].fresh, session |-> s]]
    BY <1>5 DEF Post
  <2> DEFINE x == [phase |-> "waiting", kind |-> tab[t].kind, key |-> tab[t].key,
                   fresh |-> tab[t].fresh, session |-> s]
  <2>2. tab[t].phase = "prepared" /\ UNCHANGED <<saved, job, jobOf, fate>>
    BY <1>5 DEF Post
  <2>3. tab[t] # AtRest /\ tab[t].key \in Keys /\ tab[t].kind \in Kinds /\ tab[t].fresh \in BOOLEAN
    BY <1>0, <2>2, TabFields DEF AtRest
  <2>4. x \in TabState /\ x.key = tab[t].key
    BY <2>3 DEF TabState
  <2>5. tab' = [tab EXCEPT ![t] = x]
    BY <2>1
  <2> HIDE DEF x
  <2> QED
    BY <2>2, <2>3, <2>4, <2>5, TabOnlySpent DEF Spent
<1>6. ASSUME NEW t \in Tabs, GiveUp(t) PROVE Spent'
  BY <1>1, <1>6, TabOnlySpent DEF GiveUp
<1>7. ASSUME NEW t \in Tabs, Deliver(t) PROVE Spent'
  <2>1. PICK s : s = tab[t].session
    OBVIOUS
  <2>2. PICK answer : answer = attempt[s].answer
    OBVIOUS
  <2> DEFINE x == IF Settles(tab[t].kind, tab[t].fresh, answer)
                    THEN [phase |-> "clearing", key |-> tab[t].key, answer |-> answer] ELSE AtRest
  <2>3. /\ tab[t].phase = "waiting" /\ End(s) /\ UNCHANGED <<saved, job, jobOf, fate>>
        /\ tab' = [tab EXCEPT ![t] = x]
    BY <1>7, <2>1, <2>2 DEF Deliver
  <2>4. tab[t] # AtRest /\ tab[t].key \in Keys /\ s \in Sessions
    BY <1>0, <2>1, <2>3, TabFields DEF AtRest
  <2>5. answer \in Outcomes \cup NoOutcome
    BY <2>2, <2>3, <2>4 DEF PackageInvariant, ReplayInvariant, TypeOK, End, Idle, Attempt
  <2>6. x \in TabState /\ (x # AtRest => x.key = tab[t].key)
    BY <1>1, <2>4, <2>5 DEF TabState
  <2> HIDE DEF x
  <2> QED
    BY <2>3, <2>4, <2>6, TabOnlySpent DEF Spent
<1>8. ASSUME NEW t \in Tabs, Clear(t) PROVE Spent'
  <2>1. PICK k : k = tab[t].key
    OBVIOUS
  <2>2. PICK now : now = FateOf(tab[t].answer)
    OBVIOUS
  <2> DEFINE seen == saved \in {k, NoKey}
  <2>3. /\ tab[t].phase = "clearing" /\ saved' = LeftAfter(k)
        /\ fate' = (IF seen THEN [fate EXCEPT ![k] = now] ELSE fate)
        /\ job' = (IF seen /\ now = "received" /\ jobOf[k] = job THEN job + 1 ELSE job)
        /\ tab' = [tab EXCEPT ![t] = AtRest] /\ UNCHANGED jobOf
    BY <1>8, <2>1, <2>2 DEF Clear
  <2>4. k \in Keys /\ jobOf[k] # 0
    BY <1>0, <2>1, <2>3, TabFields DEF AtRest, Spent
  <2>5. tab'[t] = AtRest /\ \A u \in Tabs \ {t} : tab'[u] = tab[u]
    BY <1>0, <1>1, <2>3, TabMoves
  <2>6. \A l \in Keys : fate'[l] = IF seen /\ l = k THEN now ELSE fate[l]
    BY <1>0, <2>3, <2>4 DEF ClientTypes
  <2>7. job' \in Nat /\ (job' = job \/ job' = job + 1)
    BY <1>0, <2>3
  <2>8. ASSUME NEW l \in Keys, fate'[l] = "received" PROVE jobOf[l] # 0 /\ jobOf[l] < job'
    <3>1. jobOf[l] \in Nat /\ jobOf[l] <= job
      BY <1>0 DEF Spent
    <3>2. CASE seen /\ l = k
      BY <1>0, <2>3, <2>4, <2>6, <2>8, <3>1, <3>2
    <3>3. CASE ~(seen /\ l = k)
      <4>1. jobOf[l] # 0 /\ jobOf[l] < job
        BY <2>6, <2>8, <3>3 DEF Spent
      <4> QED
        BY <1>0, <2>7, <3>1, <4>1
    <3> QED
      BY <3>2, <3>3
  <2>9. ASSUME NEW l \in Keys PROVE jobOf[l] <= job'
    BY <1>0, <2>7 DEF Spent
  <2>10. ASSUME NEW l \in Keys, saved' = l PROVE jobOf[l] # 0
    BY <1>0, <2>3, <2>10 DEF LeftAfter, Spent
  <2>11. ASSUME NEW u \in Tabs, tab'[u] # AtRest PROVE jobOf[tab'[u].key] # 0
    BY <2>5, <2>11 DEF Spent
  <2> QED
    BY <2>3, <2>8, <2>9, <2>10, <2>11 DEF Spent
<1>9. ASSUME NEW s \in Sessions, Serve(s) PROVE Spent'
  BY <1>2, <1>9 DEF Serve, client
<1>10. ASSUME NEW k \in Keys, Retire(k) PROVE Spent'
  BY <1>2, <1>10 DEF Retire, client
<1>11. CASE UNCHANGED packageVars
  BY <1>2, <1>11 DEF packageVars, client
<1> QED
  BY <1>3, <1>4, <1>5, <1>6, <1>7, <1>8, <1>9, <1>10, <1>11 DEF PackageNext

\* Whatever answers are lost, whatever other tabs do, whatever rules change and print runs are
\* corrected: only a refusal lets the browser issue another key for a receipt that committed.
THEOREM KeysReissuedOnlyAfterRefusal == PackageSpec => []ReissuedOnlyAfterRefusal
<1>1. PackageInit => Spent
  BY PackageAssumption DEF PackageInit, Spent
<1>2. PackageInvariant /\ Spent /\ [PackageNext]_packageVars => Spent'
  BY SpentNext
<1>3. PackageInvariant /\ Spent => ReissuedOnlyAfterRefusal
  <2>1. SUFFICES ASSUME PackageInvariant, Spent, saved = NoKey, NEW k \in Keys, jobOf[k] = job
                 PROVE  fate[k] = "rejected" \/ (fate[k] = "cancelled" /\ ~Received(k))
    BY DEF ReissuedOnlyAfterRefusal
  <2>2. job # 0 /\ job \in Nat /\ k # NoKey
        /\ fate[k] \in {"unknown", "received", "cancelled", "rejected"}
    BY <2>1, PackageAssumption DEF PackageInvariant, ClientTypes
  <2>3. fate[k] # "unknown"
    BY <2>1, <2>2 DEF PackageInvariant, EvidenceKept
  <2>4. fate[k] # "received"
    BY <2>1, <2>2 DEF Spent
  <2>5. fate[k] = "cancelled" => ~Received(k)
    BY <2>1, ReceivedIs DEF PackageInvariant, Truthful, Reports
  <2> QED
    BY <2>2, <2>3, <2>4, <2>5
<1> QED
  BY <1>1, <1>2, <1>3, PackageInvariantHolds, PTL DEF PackageSpec

-----------------------------------------------------------------------------
(***************************************************************************)
(* How a refusal may fail to last.  Where a body is judged the same way    *)
(* every time, a first attempt is not turned away before the lookup, and   *)
(* the random keys of the browser have no older rows, nothing but the      *)
(* correction or return of its print run makes a committed request look    *)
(* rejected (the run package_rejection shows one), and only that can bring *)
(* a second record of one receipt.                                         *)
(***************************************************************************)
SteadyRules ==
  /\ ~RulesChange /\ ~FirstRefusals
  /\ OldTables \subseteq {[k \in Keys |-> NoRow]}

\* A write under this key can never take effect any more, or the print run it made was corrected.
Closed(k) == k \notin valid \/ decided[SlotOf(k)] = <<Cancelled>> \/ retired[k] = "corrected"

\* Only issued keys travel.
Issued ==
  /\ \A s \in Sessions : attempt[s] # Idle => jobOf[KeyOf(s)] # 0
  /\ \A t \in Tabs : tab[t] # AtRest => jobOf[tab[t].key] # 0
  /\ \A k \in Keys : saved = k \/ fate[k] # "unknown" => jobOf[k] # 0
  /\ \A k \in Keys : jobOf[k] <= job

\* Whatever the browser may take for a rejection, from the attempt to the user.
RefusalsFinal ==
  /\ \A s \in Sessions :
       attempt[s].phase = "answered" /\ attempt[s].answer = "refused" => Closed(KeyOf(s))
  /\ \A t \in Tabs :
       tab[t].phase = "waiting" /\ tab[t].fresh
       /\ attempt[tab[t].session].phase = "answered" /\ attempt[tab[t].session].answer = "early"
         => Closed(tab[t].key)
  /\ \A t \in Tabs : tab[t].phase = "clearing" /\ FateOf(tab[t].answer) = "rejected" => Closed(tab[t].key)
  /\ \A k \in Keys : fate[k] = "rejected" => Closed(k)

\* Of the keys spent on one receipt all but one are closed, and all but the
\* saved one of the receipt under way.
JobsClosed ==
  /\ \A k \in Keys : jobOf[k] = job /\ k # saved => Closed(k)
  /\ \A k, l \in Keys : k # l /\ jobOf[k] # 0 /\ jobOf[k] = jobOf[l] => Closed(k) \/ Closed(l)

Accepted == \A k \in Keys : Received(k) => k \in valid

ReceiptInvariant == PackageInvariant /\ Issued /\ RefusalsFinal /\ JobsClosed /\ Accepted

\* A closed key stays closed.
LEMMA ClosedStands ==
  ASSUME Stands, NEW k \in Keys, k \in valid' => k \in valid, UNCHANGED retired, Closed(k)
  PROVE  Closed(k)'
<1>1. SlotOf(k) \in Slots
  BY OneSlot
<1>2. decided[SlotOf(k)] = <<Cancelled>> => decided'[SlotOf(k)] = <<Cancelled>>
  <2>1. <<Cancelled>> # <<>>
    OBVIOUS
  <2> QED
    BY <1>1, <2>1, Zenon DEF Stands
<1> QED
  BY <1>2 DEF Closed

LEMMA ClosedAttempt ==
  ASSUME UNCHANGED <<decided, valid, retired>>, NEW s, attempt'[s] = attempt[s], Closed(KeyOf(s))
  PROVE  Closed(KeyOf(s))'
<1>1. KeyOf(s)' = KeyOf(s)
  BY DEF KeyOf
<1> QED
  BY <1>1 DEF Closed

LEMMA ClosedTab ==
  ASSUME UNCHANGED <<decided, valid, retired>>, NEW t, tab'[t] = tab[t], Closed(tab[t].key)
  PROVE  Closed(tab[t].key)'
BY DEF Closed

\* What a step of one tab's record leaves true when it neither waits nor clears.
LEMMA TabOnlyReceipts ==
  ASSUME ReceiptInvariant, NEW t \in Tabs, NEW x \in TabState, x.phase \notin {"waiting", "clearing"},
         x # AtRest => jobOf[x.key] # 0,
         tab' = [tab EXCEPT ![t] = x],
         UNCHANGED <<server, saved, job, jobOf, valid, fate, retired>>
  PROVE  ReceiptInvariant'
<1>0. PackageInvariant /\ Issued /\ RefusalsFinal /\ JobsClosed /\ Accepted /\ ClientTypes
  BY DEF ReceiptInvariant, PackageInvariant
<1>1. PackageInvariant'
  BY <1>0, TabOnlyKeeps
<1>2. tab'[t] = x /\ \A u \in Tabs \ {t} : tab'[u] = tab[u]
  BY <1>0, TabMoves
<1>3. UNCHANGED <<decided, attempt, valid, retired>>
  BY DEF server
<1>4. Issued'
  BY <1>0, <1>2, <1>3 DEF Issued, KeyOf
<1>5. \A k : Closed(k)' <=> Closed(k)
  BY <1>3 DEF Closed
<1>6. RefusalsFinal'
  <2>1. ASSUME NEW s \in Sessions, attempt'[s].phase = "answered", attempt'[s].answer = "refused"
        PROVE  Closed(KeyOf(s))'
    BY <1>0, <1>3, <2>1 DEF RefusalsFinal, Closed, KeyOf
  <2>2. ASSUME NEW u \in Tabs, tab'[u].phase = "waiting", tab'[u].fresh,
               attempt'[tab'[u].session].phase = "answered", attempt'[tab'[u].session].answer = "early"
        PROVE  Closed(tab[u].key)'
    <3>1. tab'[u] = tab[u]
      BY <1>2, <2>2
    <3> QED
      BY <1>0, <1>3, <2>2, <3>1 DEF RefusalsFinal, Closed
  <2>3. ASSUME NEW u \in Tabs, tab'[u].phase = "clearing", FateOf(tab'[u].answer) = "rejected"
        PROVE  Closed(tab[u].key)'
    <3>1. tab'[u] = tab[u]
      BY <1>2, <2>3
    <3> QED
      BY <1>0, <1>3, <2>3, <3>1 DEF RefusalsFinal, Closed
  <2>4. ASSUME NEW k \in Keys, fate'[k] = "rejected" PROVE Closed(k)'
    BY <1>0, <1>5, <2>4 DEF RefusalsFinal
  <2> QED
    BY <2>1, <2>2, <2>3, <2>4 DEF RefusalsFinal
<1>7. JobsClosed'
  BY <1>0, <1>5 DEF JobsClosed
<1>8. Accepted'
  BY <1>0, <1>3 DEF Accepted, Received
<1> QED
  BY <1>1, <1>4, <1>6, <1>7, <1>8 DEF ReceiptInvariant

LEMMA PrepareSavedReceipts ==
  ASSUME ReceiptInvariant, NEW t \in Tabs, PrepareSaved(t)
  PROVE  ReceiptInvariant'
<1>1. saved \in Keys /\ jobOf[saved] # 0
  BY DEF ReceiptInvariant, PackageInvariant, ClientTypes, PrepareSaved, Issued
<1>2. PICK kind \in Kinds : Ready(t, kind, saved, FALSE)
  BY DEF PrepareSaved
<1> DEFINE x == [phase |-> "prepared", kind |-> kind, key |-> saved, fresh |-> FALSE]
<1>3. x \in TabState /\ x.phase = "prepared" /\ x.key = saved
  BY <1>1 DEF TabState
<1>4. tab' = [tab EXCEPT ![t] = x]
  BY <1>2 DEF Ready
<1> HIDE DEF x
<1> QED
  BY <1>1, <1>3, <1>4, TabOnlyReceipts DEF PrepareSaved

LEMMA GiveUpReceipts ==
  ASSUME ReceiptInvariant, NEW t \in Tabs, GiveUp(t)
  PROVE  ReceiptInvariant'
<1>1. AtRest \in TabState /\ AtRest.phase = "idle"
  BY DEF TabState, AtRest
<1> QED
  BY <1>1, TabOnlyReceipts DEF GiveUp

\* A new key is issued only when every earlier one of the receipt is closed.
LEMMA PrepareNewReceipts ==
  ASSUME ReceiptInvariant, NEW t \in Tabs, PrepareNew(t)
  PROVE  ReceiptInvariant'
<1>0. PackageInvariant /\ Issued /\ RefusalsFinal /\ JobsClosed /\ Accepted /\ ClientTypes /\ TypeOK
  BY DEF ReceiptInvariant, PackageInvariant, ReplayInvariant
<1>1. PICK k \in Keys, accepted \in BOOLEAN :
        /\ jobOf[k] = 0 /\ saved' = k
        /\ jobOf' = [jobOf EXCEPT ![k] = job]
        /\ valid' = IF accepted THEN valid \cup {k} ELSE valid
        /\ Ready(t, "write", k, TRUE)
  BY DEF PrepareNew
<1>2. saved = NoKey /\ UNCHANGED <<decided, attempt, job, fate, retired>>
  BY DEF PrepareNew, server
<1> DEFINE x == [phase |-> "prepared", kind |-> "write", key |-> k, fresh |-> TRUE]
<1>3. x \in TabState /\ x.phase = "prepared" /\ x.key = k
  BY PackageAssumption DEF TabState
<1>4. tab'[t] = x /\ \A u \in Tabs \ {t} : tab'[u] = tab[u]
  BY <1>0, <1>1, <1>3, TabMoves DEF Ready
<1> HIDE DEF x
<1>5. jobOf'[k] = job /\ job # 0 /\ job \in Nat /\ \A l \in Keys \ {k} : jobOf'[l] = jobOf[l]
  BY <1>0, <1>1 DEF ClientTypes
<1>6. \A l \in Keys : jobOf[l] # 0 => l # k /\ jobOf'[l] = jobOf[l]
  BY <1>1, <1>5
<1>7. ASSUME NEW l \in Keys, jobOf[l] # 0 PROVE Closed(l)' <=> Closed(l)
  BY <1>1, <1>2, <1>7 DEF Closed
<1>8. \A s \in Sessions : attempt[s].phase # "idle" => KeyOf(s) \in Keys /\ jobOf[KeyOf(s)] # 0
  BY <1>0, AttemptSlot DEF Issued, Idle
<1>9. Issued'
  <2>1. ASSUME NEW s \in Sessions, attempt'[s] # Idle PROVE jobOf'[KeyOf(s)'] # 0
    <3>1. attempt[s].phase # "idle"
      BY <1>0, <1>2, <2>1 DEF TypeOK, Attempt, Idle
    <3> QED
      BY <1>2, <1>6, <1>8, <3>1 DEF KeyOf
  <2>2. ASSUME NEW u \in Tabs, tab'[u] # AtRest PROVE jobOf'[tab'[u].key] # 0
    <3>1. CASE u = t
      BY <1>3, <1>4, <1>5, <3>1
    <3>2. CASE u # t
      BY <1>0, <1>4, <1>6, <2>2, <3>2, TabFields DEF Issued
    <3> QED
      BY <3>1, <3>2
  <2>3. ASSUME NEW l \in Keys, saved' = l \/ fate'[l] # "unknown" PROVE jobOf'[l] # 0
    BY <1>0, <1>1, <1>2, <1>5, <1>6, <2>3 DEF Issued
  <2>4. ASSUME NEW l \in Keys PROVE jobOf'[l] <= job'
    BY <1>0, <1>2, <1>5, <2>4 DEF Issued, ClientTypes
  <2> QED
    BY <2>1, <2>2, <2>3, <2>4 DEF Issued
<1>10. RefusalsFinal'
  <2>1. ASSUME NEW s \in Sessions, attempt'[s].phase = "answered", attempt'[s].answer = "refused"
        PROVE  Closed(KeyOf(s))'
    <3>1. PICK l \in Keys : l = KeyOf(s) /\ jobOf[l] # 0
      BY <1>2, <1>8, <2>1
    <3>2. Closed(l)'
      BY <1>0, <1>2, <1>7, <2>1, <3>1 DEF RefusalsFinal
    <3> QED
      BY <1>2, <3>1, <3>2 DEF Closed, KeyOf
  <2>2. ASSUME NEW u \in Tabs, u # t, tab[u] # AtRest, Closed(tab[u].key) PROVE Closed(tab[u].key)'
    <3>1. PICK l \in Keys : l = tab[u].key /\ jobOf[l] # 0
      BY <1>0, <2>2, TabFields DEF Issued
    <3>2. Closed(l)'
      BY <1>7, <2>2, <3>1
    <3> QED
      BY <1>4, <2>2, <3>1, <3>2 DEF Closed
  <2>3. \A u \in Tabs : tab'[u].phase \in {"waiting", "clearing"} => u # t /\ tab'[u] = tab[u] /\ tab[u] # AtRest
    BY <1>3, <1>4 DEF AtRest
  <2>4. ASSUME NEW l \in Keys, fate'[l] = "rejected" PROVE Closed(l)'
    BY <1>0, <1>2, <1>7, <2>4 DEF RefusalsFinal, Issued
  <2>5. ASSUME NEW u \in Tabs, tab'[u].phase = "waiting", tab'[u].fresh,
               attempt'[tab'[u].session].phase = "answered", attempt'[tab'[u].session].answer = "early"
        PROVE  Closed(tab[u].key)'
    BY <1>0, <1>2, <2>2, <2>3, <2>5 DEF RefusalsFinal
  <2>6. ASSUME NEW u \in Tabs, tab'[u].phase = "clearing", FateOf(tab'[u].answer) = "rejected"
        PROVE  Closed(tab[u].key)'
    BY <1>0, <2>2, <2>3, <2>6 DEF RefusalsFinal
  <2> QED
    BY <2>1, <2>4, <2>5, <2>6 DEF RefusalsFinal
<1>11. JobsClosed'
  <2>1. ASSUME NEW l \in Keys, l # k, jobOf'[l] = job PROVE Closed(l)'
    <3>1. jobOf[l] = job /\ l # saved
      BY <1>2, <1>5, <2>1, PackageAssumption
    <3> QED
      BY <1>0, <1>5, <1>7, <3>1 DEF JobsClosed
  <2>2. ASSUME NEW l \in Keys, NEW n \in Keys, l # n, jobOf'[l] # 0, jobOf'[l] = jobOf'[n]
        PROVE  Closed(l)' \/ Closed(n)'
    <3>1. CASE l = k \/ n = k
      BY <1>5, <2>1, <2>2, <3>1
    <3>2. CASE l # k /\ n # k
      BY <1>0, <1>5, <1>7, <2>2, <3>2 DEF JobsClosed
    <3> QED
      BY <3>1, <3>2
  <2> QED
    BY <1>1, <1>2, <2>1, <2>2 DEF JobsClosed
<1>12. Accepted'
  BY <1>0, <1>1, <1>2 DEF Accepted, Received
<1>13. PackageInvariant'
  BY <1>0, PrepareNewKeeps
<1> QED
  BY <1>9, <1>10, <1>11, <1>12, <1>13 DEF ReceiptInvariant

\* A refusal that reaches the first sender as "early" comes from the rules.
LEMMA PostReceipts ==
  ASSUME ReceiptInvariant, NEW t \in Tabs, Post(t)
  PROVE  ReceiptInvariant'
<1>0. PackageInvariant /\ Issued /\ RefusalsFinal /\ JobsClosed /\ Accepted /\ ClientTypes /\ TypeOK
      /\ Waits
  BY DEF ReceiptInvariant, PackageInvariant, ReplayInvariant
<1>1. PICK s \in Sessions :
        /\ Arrive(s, tab[t].kind, SlotOf(tab[t].key), Body)
        /\ tab' = [tab EXCEPT ![t] =
             [phase |-> "waiting", kind |-> tab[t].kind, key |-> tab[t].key,
              fresh |-> tab[t].fresh, session |-> s]]
  BY DEF Post
<1>2. tab[t].phase = "prepared" /\ UNCHANGED <<saved, job, jobOf, valid, fate, retired>>
  BY DEF Post
<1>3. tab[t].key \in Keys /\ tab[t].kind \in Kinds /\ tab[t].fresh \in BOOLEAN /\ jobOf[tab[t].key] # 0
  BY <1>0, <1>2, TabFields DEF AtRest, Issued
<1> DEFINE x == [phase |-> "waiting", kind |-> tab[t].kind, key |-> tab[t].key,
                 fresh |-> tab[t].fresh, session |-> s]
           a == [phase |-> "arrived", kind |-> tab[t].kind, slot |-> SlotOf(tab[t].key),
                 payload |-> Body, answer |-> "none"]
<1>4. x \in TabState /\ x.phase = "waiting" /\ x.session = s /\ x.key = tab[t].key
  BY <1>3 DEF TabState
<1>5. tab'[t] = x /\ \A u \in Tabs \ {t} : tab'[u] = tab[u]
  BY <1>0, <1>1, <1>4, TabMoves
<1>6. a.phase = "arrived" /\ a.slot.key = tab[t].key
  BY <1>3, OneSlot
<1>7. attempt[s] = Idle /\ attempt' = [attempt EXCEPT ![s] = a] /\ UNCHANGED decided
  BY <1>1 DEF Arrive
<1> HIDE DEF x, a
<1>8. attempt'[s] = a /\ \A r \in Sessions \ {s} : attempt'[r] = attempt[r]
  BY <1>0, <1>7 DEF TypeOK
<1>9. \A k : Closed(k)' <=> Closed(k)
  BY <1>2, <1>7 DEF Closed
<1>10. Issued'
  <2>1. ASSUME NEW r \in Sessions, attempt'[r] # Idle PROVE jobOf[attempt'[r].slot.key] # 0
    BY <1>0, <1>3, <1>6, <1>8, <2>1 DEF Issued, KeyOf
  <2>2. ASSUME NEW u \in Tabs, tab'[u] # AtRest PROVE jobOf[tab'[u].key] # 0
    BY <1>0, <1>3, <1>4, <1>5, <2>2 DEF Issued
  <2> QED
    BY <1>0, <1>2, <2>1, <2>2 DEF Issued, KeyOf
<1>11. RefusalsFinal'
  <2>1. ASSUME NEW r \in Sessions, attempt'[r].phase = "answered", attempt'[r].answer = "refused"
        PROVE  Closed(KeyOf(r))'
    <3>1. attempt'[r] = attempt[r]
      BY <1>6, <1>8, <2>1
    <3> QED
      BY <1>0, <1>2, <1>7, <2>1, <3>1, ClosedAttempt DEF RefusalsFinal
  <2>2. ASSUME NEW u \in Tabs, tab'[u].phase = "waiting", tab'[u].fresh,
               attempt'[tab'[u].session].phase = "answered", attempt'[tab'[u].session].answer = "early"
        PROVE  Closed(tab[u].key)'
    <3>1. u # t
      BY <1>4, <1>5, <1>6, <1>8, <2>2
    <3>2. tab'[u] = tab[u] /\ tab[u].session \in Sessions \ {s}
      BY <1>0, <1>5, <1>7, <2>2, <3>1, TabFields DEF Waits
    <3> QED
      BY <1>0, <1>2, <1>7, <1>8, <2>2, <3>2, ClosedTab DEF RefusalsFinal
  <2>3. ASSUME NEW u \in Tabs, tab'[u].phase = "clearing", FateOf(tab'[u].answer) = "rejected"
        PROVE  Closed(tab[u].key)'
    <3>1. tab'[u] = tab[u]
      BY <1>4, <1>5, <2>3
    <3> QED
      BY <1>0, <1>2, <1>7, <2>3, <3>1 DEF RefusalsFinal, Closed
  <2>4. ASSUME NEW k \in Keys, fate'[k] = "rejected" PROVE Closed(k)'
    BY <1>0, <1>2, <1>9, <2>4 DEF RefusalsFinal
  <2> QED
    BY <2>1, <2>2, <2>3, <2>4 DEF RefusalsFinal
<1>12. JobsClosed'
  BY <1>0, <1>2, <1>9 DEF JobsClosed
<1>13. Accepted'
  BY <1>0, <1>2, <1>7 DEF Accepted, Received
<1>14. PackageInvariant'
  BY <1>0, PostKeeps
<1> QED
  BY <1>10, <1>11, <1>12, <1>13, <1>14 DEF ReceiptInvariant

\* A refusal is forgotten only when it is final.
LEMMA SettledRefusal ==
  ASSUME NEW kind, NEW fresh, NEW answer, Settles(kind, fresh, answer), FateOf(answer) = "rejected"
  PROVE  answer = "refused" \/ (answer = "early" /\ fresh)
<1>1. answer \notin Outcomes \cup {"unavailable"}
  BY FateRead DEF Outcomes
<1> QED
  BY <1>1 DEF Settles

LEMMA DeliverReceipts ==
  ASSUME ReceiptInvariant, NEW t \in Tabs, Deliver(t)
  PROVE  ReceiptInvariant'
<1>0. PackageInvariant /\ Issued /\ RefusalsFinal /\ JobsClosed /\ Accepted /\ ClientTypes /\ TypeOK
      /\ Waits
  BY DEF ReceiptInvariant, PackageInvariant, ReplayInvariant
<1>1. PICK s : s = tab[t].session
  OBVIOUS
<1>2. PICK answer : answer = attempt[s].answer
  OBVIOUS
<1>3. PICK k : k = tab[t].key
  OBVIOUS
<1>4. tab[t].phase = "waiting" /\ End(s) /\ UNCHANGED <<saved, job, jobOf, valid, fate, retired>>
  BY <1>1 DEF Deliver
<1>5. s \in Sessions /\ k \in Keys
  BY <1>0, <1>1, <1>3, <1>4, TabFields DEF AtRest
<1>6. attempt[s].phase = "answered" /\ KeyOf(s) = k /\ jobOf[k] # 0
  BY <1>0, <1>1, <1>3, <1>4, <1>5, OneSlot DEF Waits, End, KeyOf, Issued
<1>7. answer \in Outcomes \cup NoOutcome
  BY <1>0, <1>2, <1>5, <1>6 DEF TypeOK, Idle, Attempt
<1>8. Settles(tab[t].kind, tab[t].fresh, answer) /\ FateOf(answer) = "rejected" => Closed(k)
  <2>1. SUFFICES ASSUME Settles(tab[t].kind, tab[t].fresh, answer), FateOf(answer) = "rejected"
                 PROVE  Closed(k)
    OBVIOUS
  <2>2. answer = "refused" \/ (answer = "early" /\ tab[t].fresh)
    BY <2>1, SettledRefusal
  <2> QED
    BY <1>0, <1>1, <1>2, <1>3, <1>4, <1>5, <1>6, <2>2 DEF RefusalsFinal
<1> DEFINE x == IF Settles(tab[t].kind, tab[t].fresh, answer)
                  THEN [phase |-> "clearing", key |-> k, answer |-> answer] ELSE AtRest
<1>9. tab' = [tab EXCEPT ![t] = x]
  BY <1>1, <1>2, <1>3 DEF Deliver
<1>10. x \in TabState
  BY <1>5, <1>7 DEF TabState
<1>11. /\ x.phase # "waiting" /\ (x # AtRest => x.key = k)
       /\ x.phase = "clearing" =>
            x.key = k /\ x.answer = answer /\ Settles(tab[t].kind, tab[t].fresh, answer)
  BY DEF AtRest
<1> HIDE DEF x
<1>12. tab'[t] = x /\ \A u \in Tabs \ {t} : tab'[u] = tab[u]
  BY <1>0, <1>9, <1>10, TabMoves
<1>13. attempt' = [attempt EXCEPT ![s] = Idle] /\ UNCHANGED decided
  BY <1>4 DEF End
<1>14. attempt'[s] = Idle /\ \A r \in Sessions \ {s} : attempt'[r] = attempt[r]
  BY <1>0, <1>5, <1>13 DEF TypeOK
<1>15. \A l : Closed(l)' <=> Closed(l)
  BY <1>4, <1>13 DEF Closed
<1>16. Issued'
  <2>1. ASSUME NEW r \in Sessions, attempt'[r] # Idle PROVE jobOf[attempt'[r].slot.key] # 0
    BY <1>0, <1>14, <2>1 DEF Issued, KeyOf
  <2>2. ASSUME NEW u \in Tabs, tab'[u] # AtRest PROVE jobOf[tab'[u].key] # 0
    BY <1>0, <1>6, <1>11, <1>12, <2>2 DEF Issued
  <2> QED
    BY <1>0, <1>4, <2>1, <2>2 DEF Issued, KeyOf
<1>17. RefusalsFinal'
  <2>1. ASSUME NEW r \in Sessions, attempt'[r].phase = "answered", attempt'[r].answer = "refused"
        PROVE  Closed(KeyOf(r))'
    <3>1. attempt'[r] = attempt[r]
      BY <1>14, <2>1 DEF Idle
    <3> QED
      BY <1>0, <1>4, <1>13, <2>1, <3>1, ClosedAttempt DEF RefusalsFinal
  <2>2. ASSUME NEW u \in Tabs, tab'[u].phase = "waiting", tab'[u].fresh,
               attempt'[tab'[u].session].phase = "answered", attempt'[tab'[u].session].answer = "early"
        PROVE  Closed(tab[u].key)'
    <3>1. u # t /\ tab'[u] = tab[u]
      BY <1>11, <1>12, <2>2
    <3>2. tab[u].session \in Sessions \ {s}
      BY <1>0, <1>1, <1>4, <2>2, <3>1, TabFields DEF Waits
    <3> QED
      BY <1>0, <1>4, <1>13, <1>14, <2>2, <3>1, <3>2, ClosedTab DEF RefusalsFinal
  <2>3. ASSUME NEW u \in Tabs, tab'[u].phase = "clearing", FateOf(tab'[u].answer) = "rejected"
        PROVE  Closed(tab[u].key)'
    <3>1. CASE u = t
      <4>1. tab'[u].key = k /\ tab'[u].answer = answer /\ Settles(tab[t].kind, tab[t].fresh, answer)
        BY <1>11, <1>12, <2>3, <3>1
      <4>2. Closed(k)
        BY <1>8, <2>3, <4>1
      <4> QED
        BY <1>4, <1>13, <4>1, <4>2 DEF Closed
    <3>2. CASE u # t
      <4>1. tab'[u] = tab[u]
        BY <1>12, <3>2
      <4> QED
        BY <1>0, <1>4, <1>13, <2>3, <4>1 DEF RefusalsFinal, Closed
    <3> QED
      BY <3>1, <3>2
  <2>4. ASSUME NEW l \in Keys, fate'[l] = "rejected" PROVE Closed(l)'
    BY <1>0, <1>4, <1>15, <2>4 DEF RefusalsFinal
  <2> QED
    BY <2>1, <2>2, <2>3, <2>4 DEF RefusalsFinal
<1>18. JobsClosed'
  BY <1>0, <1>4, <1>15 DEF JobsClosed
<1>19. Accepted'
  BY <1>0, <1>4, <1>13 DEF Accepted, Received
<1>20. PackageInvariant'
  BY <1>0, DeliverKeeps
<1> QED
  BY <1>16, <1>17, <1>18, <1>19, <1>20 DEF ReceiptInvariant

\* The saved key goes when it is closed, or when its receipt is complete.
LEMMA ClearReceipts ==
  ASSUME ReceiptInvariant, NEW t \in Tabs, Clear(t)
  PROVE  ReceiptInvariant'
<1>0. PackageInvariant /\ Issued /\ RefusalsFinal /\ JobsClosed /\ Accepted /\ ClientTypes
      /\ Truthful
  BY DEF ReceiptInvariant, PackageInvariant
<1>1. PICK k : k = tab[t].key
  OBVIOUS
<1>2. PICK now : now = FateOf(tab[t].answer)
  OBVIOUS
<1> DEFINE seen == saved \in {k, NoKey}
<1>3. /\ tab[t].phase = "clearing" /\ saved' = LeftAfter(k)
      /\ fate' = (IF seen THEN [fate EXCEPT ![k] = now] ELSE fate)
      /\ job' = (IF seen /\ now = "received" /\ jobOf[k] = job THEN job + 1 ELSE job)
      /\ tab' = [tab EXCEPT ![t] = AtRest] /\ UNCHANGED <<server, jobOf, valid, retired>>
  BY <1>1, <1>2 DEF Clear
<1>4. k \in Keys /\ jobOf[k] # 0
  BY <1>0, <1>1, <1>3, TabFields DEF AtRest, Issued
<1>5. now \in {"received", "cancelled", "rejected"}
  BY <1>2, FateRead
<1>6. now # "received" => Closed(k)
  <2>1. now = "cancelled" => decided[SlotOf(k)] = <<Cancelled>>
    BY <1>0, <1>1, <1>2, <1>3 DEF Truthful, Reports
  <2>2. now = "rejected" => Closed(k)
    BY <1>0, <1>1, <1>2, <1>3 DEF RefusalsFinal
  <2> QED
    BY <1>5, <2>1, <2>2 DEF Closed
<1>7. AtRest \in TabState /\ AtRest.phase = "idle"
  BY DEF TabState, AtRest
<1>8. tab'[t] = AtRest /\ \A u \in Tabs \ {t} : tab'[u] = tab[u]
  BY <1>0, <1>3, <1>7, TabMoves
<1>9. \A l \in Keys : fate'[l] = IF seen /\ l = k THEN now ELSE fate[l]
  BY <1>0, <1>3, <1>4 DEF ClientTypes
<1>10. UNCHANGED <<decided, attempt, valid, jobOf, retired>>
  BY <1>3 DEF server
<1>11. \A l : Closed(l)' <=> Closed(l)
  BY <1>10 DEF Closed
<1>12. job \in Nat /\ jobOf \in [Keys -> Nat]
  BY <1>0 DEF ClientTypes
<1>13. Issued'
  <2>1. ASSUME NEW r \in Sessions, attempt'[r] # Idle PROVE jobOf[attempt'[r].slot.key] # 0
    BY <1>0, <1>10, <2>1 DEF Issued, KeyOf
  <2>2. ASSUME NEW u \in Tabs, tab'[u] # AtRest PROVE jobOf[tab'[u].key] # 0
    BY <1>0, <1>8, <2>2 DEF Issued
  <2>3. ASSUME NEW l \in Keys, saved' = l \/ fate'[l] # "unknown" PROVE jobOf[l] # 0
    BY <1>0, <1>3, <1>4, <1>9, <2>3, PackageAssumption DEF Issued, LeftAfter
  <2>4. ASSUME NEW l \in Keys PROVE jobOf[l] <= job'
    <3>1. jobOf[l] <= job /\ jobOf[l] \in Nat
      BY <1>0, <1>12 DEF Issued
    <3>2. job' = job \/ job' = job + 1
      BY <1>3
    <3> QED
      BY <1>12, <3>1, <3>2
  <2> QED
    BY <1>10, <2>1, <2>2, <2>3, <2>4 DEF Issued, KeyOf
<1>14. RefusalsFinal'
  <2>1. ASSUME NEW r \in Sessions, attempt'[r].phase = "answered", attempt'[r].answer = "refused"
        PROVE  Closed(KeyOf(r))'
    BY <1>0, <1>10, <2>1 DEF RefusalsFinal, Closed, KeyOf
  <2>2. ASSUME NEW u \in Tabs, tab'[u].phase = "waiting", tab'[u].fresh,
               attempt'[tab'[u].session].phase = "answered", attempt'[tab'[u].session].answer = "early"
        PROVE  Closed(tab[u].key)'
    <3>1. tab'[u] = tab[u]
      BY <1>7, <1>8, <2>2
    <3> QED
      BY <1>0, <1>10, <2>2, <3>1 DEF RefusalsFinal, Closed
  <2>3. ASSUME NEW u \in Tabs, tab'[u].phase = "clearing", FateOf(tab'[u].answer) = "rejected"
        PROVE  Closed(tab[u].key)'
    <3>1. tab'[u] = tab[u]
      BY <1>7, <1>8, <2>3
    <3> QED
      BY <1>0, <1>10, <2>3, <3>1 DEF RefusalsFinal, Closed
  <2>4. ASSUME NEW l \in Keys, fate'[l] = "rejected" PROVE Closed(l)'
    BY <1>0, <1>6, <1>9, <1>11, <2>4 DEF RefusalsFinal
  <2> QED
    BY <2>1, <2>2, <2>3, <2>4 DEF RefusalsFinal
<1>15. JobsClosed'
  <2>1. ASSUME NEW l \in Keys, jobOf[l] = job', l # saved' PROVE Closed(l)
    <3>1. job' = job
      BY <1>0, <1>3, <1>12, <2>1 DEF Issued
    <3>2. CASE l # saved
      BY <1>0, <2>1, <3>1, <3>2 DEF JobsClosed
    <3>3. CASE l = saved
      <4>1. l = k /\ seen
        BY <1>3, <2>1, <3>3 DEF LeftAfter
      <4>2. now # "received"
        BY <1>3, <1>12, <2>1, <3>1, <4>1
      <4> QED
        BY <1>6, <4>1, <4>2
    <3> QED
      BY <3>2, <3>3
  <2> QED
    BY <1>0, <1>10, <1>11, <2>1 DEF JobsClosed
<1>16. Accepted'
  BY <1>0, <1>10 DEF Accepted, Received
<1>17. PackageInvariant'
  BY <1>0, ClearKeeps
<1> QED
  BY <1>13, <1>14, <1>15, <1>16, <1>17 DEF ReceiptInvariant

\* What the server refuses stays refused.
LEMMA ReplayRefuses ==
  ASSUME ReceiptInvariant, NEW s \in Sessions, ReplayPackage(s), UNCHANGED retired
  PROVE  /\ attempt'[s].answer # "early"
         /\ attempt'[s].answer = "refused" => Closed(KeyOf(s))'
         /\ UNCHANGED decided
<1>0. ReplayInvariant /\ TypeOK /\ Accepted
  BY DEF ReceiptInvariant, PackageInvariant, ReplayInvariant
<1>1. PICK k : k = KeyOf(s)
  OBVIOUS
<1>2. PICK o : o = Saved(attempt[s].slot).outcome
  OBVIOUS
<1>3. PICK answer : answer = Replayed(attempt[s].kind, k, o)
  OBVIOUS
<1>4. attempt[s].phase = "locked" /\ Saved(attempt[s].slot) # NoRow
      /\ Become(s, "answered", answer) /\ UNCHANGED decided
  BY <1>1, <1>2, <1>3 DEF ReplayPackage
<1>5. attempt[s].slot \in Slots /\ k \in Keys /\ attempt[s].slot = SlotOf(k)
      /\ attempt[s].payload = Body /\ attempt[s].kind \in Kinds
  BY <1>0, <1>1, <1>4, AttemptSlot
<1>6. decided[SlotOf(k)] = <<o>> /\ o \in {Body, Cancelled}
  BY <1>0, <1>2, <1>4, <1>5, PackageHit, OneBody
<1>7. o \in Outcomes
  BY <1>6, OneBody DEF Outcomes
<1>8. answer \in {o, "refused", "gone", "unavailable"}
  BY <1>3, <1>5, <1>7, ReplayedAnswer
<1>9. answer \in Outcomes \cup NoOutcome
  BY <1>7, <1>8 DEF NoOutcome
<1>10. GoesOn(s) /\ attempt'[s].answer = answer
  BY <1>0, <1>4, <1>9, BecomeGoesOn
<1>11. o \notin NoOutcome
  BY <1>7, ReplayAssumption
<1>12. answer # "early"
  BY <1>8, <1>11 DEF NoOutcome
<1>13. answer = "refused" => o = Cancelled \/ retired[k] = "corrected"
  <2>1. SUFFICES ASSUME o # Cancelled, retired[k] # "corrected" PROVE answer # "refused"
    OBVIOUS
  <2>3. answer \in {o, "gone", "unavailable"}
    BY <1>3, <2>1 DEF Replayed
  <2> QED
    BY <1>11, <2>3 DEF NoOutcome
<1>14. answer = "refused" => Closed(k)'
  BY <1>4, <1>6, <1>13 DEF Closed
<1>15. KeyOf(s)' = k
  BY <1>1, <1>10 DEF GoesOn, KeyOf
<1> QED
  BY <1>4, <1>10, <1>12, <1>14, <1>15 DEF Closed

LEMMA FailRefuses ==
  ASSUME TypeOK, NEW s \in Sessions, NEW answer \in {"refused", "early", "error"}, Fail(s, answer)
  PROVE  /\ GoesOn(s) /\ attempt'[s].answer = answer /\ KeyOf(s)' = KeyOf(s) /\ UNCHANGED decided
         /\ attempt[s].phase # "idle"
<1>1. answer \in Outcomes \cup NoOutcome
  BY DEF NoOutcome
<1>2. attempt[s].phase # "idle" /\ Become(s, "answered", answer) /\ UNCHANGED decided
  BY DEF Fail
<1>3. GoesOn(s) /\ attempt'[s].answer = answer
  BY <1>1, <1>2, BecomeGoesOn
<1> QED
  BY <1>2, <1>3 DEF GoesOn, KeyOf

LEMMA SettleAccepts ==
  ASSUME ReplayInvariant, NEW s \in Sessions, attempt[s].phase = "working",
         NEW o \in {attempt[s].payload, Cancelled}, Settle(s, o)
  PROVE  /\ attempt'[s].answer \notin {"refused", "early"}
         /\ \A k \in Keys : Received(k)' => Received(k) \/ (k = KeyOf(s) /\ o # Cancelled)
<1>0. TypeOK
  BY DEF ReplayInvariant
<1>1. PICK k : k = KeyOf(s)
  OBVIOUS
<1>2. k \in Keys /\ attempt[s].slot = SlotOf(k) /\ attempt[s].payload = Body /\ attempt[s].slot \in Slots
  BY <1>0, <1>1, AttemptSlot
<1>3. o \in Outcomes
  BY <1>2, OneBody DEF Outcomes
<1>4. attempt'[s].answer = o
  BY <1>0, <1>3, BecomeGoesOn DEF Settle
<1>5. decided' = [decided EXCEPT ![SlotOf(k)] = <<o>>]
  BY <1>2, SettleKeeps
<1>6. ASSUME NEW l \in Keys, l # k PROVE decided'[SlotOf(l)] = decided[SlotOf(l)]
  <2>1. SlotOf(l) \in Slots /\ SlotOf(l) # SlotOf(k)
    BY <1>2, <1>6, OneSlot
  <2> QED
    BY <1>0, <1>2, <1>5, <2>1 DEF TypeOK
<1>7. decided'[SlotOf(k)] = <<o>>
  BY <1>0, <1>2, <1>5 DEF TypeOK
<1>8. ASSUME NEW l \in Keys, Received(l)' PROVE Received(l) \/ (l = k /\ o # Cancelled)
  <2>1. CASE l # k
    BY <1>6, <1>8, <2>1 DEF Received
  <2>2. CASE l = k
    <3>1. o = Body
      BY <1>7, <1>8, <2>2 DEF Received
    <3> QED
      BY <2>2, <3>1, OneBody, ReplayAssumption
  <2> QED
    BY <2>1, <2>2
<1>9. o \notin {"refused", "early"}
  BY <1>3, ReplayAssumption DEF NoOutcome
<1> QED
  BY <1>1, <1>4, <1>8, <1>9

\* One step of the server: only accepted bodies are received, and a refusal
\* given to a browser that may settle on it is final.
LEMMA ServeRefuses ==
  ASSUME SteadyRules, ReceiptInvariant, NEW s \in Sessions, Serve(s)
  PROVE  /\ \A k \in Keys : Received(k)' => k \in valid
         /\ attempt'[s].phase = "answered" /\ attempt'[s].answer = "refused" => Closed(KeyOf(s))'
         /\ attempt'[s].phase = "answered" /\ attempt'[s].answer = "early" =>
              \/ Closed(KeyOf(s))'
              \/ \A t \in Tabs : tab[t].phase = "waiting" /\ tab[t].session = s => ~tab[t].fresh
<1>0. ReplayInvariant /\ TypeOK /\ Accepted /\ UNCHANGED <<valid, retired>>
  BY DEF ReceiptInvariant, PackageInvariant, ReplayInvariant, Serve, client
<1>1. UNCHANGED decided => \A k \in Keys : Received(k)' => k \in valid
  BY <1>0 DEF Accepted, Received
<1>2. CASE TakeLock(s) \/ StartWork(s)
  BY <1>0, <1>1, <1>2, Unanswered DEF TakeLock, StartWork
<1>3. CASE ReplayPackage(s)
  BY <1>0, <1>1, <1>3, ReplayRefuses
<1>4. CASE Accept(s)
  <2>1. attempt[s].phase = "working" /\ Settle(s, attempt[s].payload) /\ KeyOf(s) \in valid
    BY <1>4 DEF Accept, Working, Finish, SteadyRules
  <2> QED
    BY <1>0, <2>1, SettleAccepts DEF Accepted
<1>5. CASE Reconcile(s)
  <2>1. attempt[s].phase = "working" /\ Settle(s, Cancelled)
    BY <1>5 DEF Reconcile, Working, Tombstone
  <2> QED
    BY <1>0, <2>1, SettleAccepts DEF Accepted
<1>6. CASE Reject(s)
  <2>1. KeyOf(s) \notin valid
    BY <1>6 DEF Reject, SteadyRules
  <2>2. PICK answer \in {"refused", "early"} : Fail(s, answer)
    BY <1>6 DEF Reject
  <2>3. UNCHANGED decided /\ KeyOf(s)' = KeyOf(s)
    BY <1>0, <2>2, FailRefuses
  <2>4. KeyOf(s)' \notin valid'
    BY <1>0, <2>1, <2>3
  <2>5. Closed(KeyOf(s))'
    BY <2>4 DEF Closed
  <2> QED
    BY <1>1, <2>3, <2>5
<1>7. CASE TurnAway(s)
  <2>1. Fail(s, "early")
    BY <1>7 DEF TurnAway
  <2>2. UNCHANGED decided /\ attempt'[s].answer = "early"
    BY <1>0, <2>1, FailRefuses
  <2>3. \A t \in Tabs : tab[t].phase = "waiting" /\ tab[t].session = s => ~tab[t].fresh
    BY <1>7 DEF TurnAway, SteadyRules
  <2> QED
    BY <1>1, <2>2, <2>3
<1>8. CASE Fail(s, "error")
  BY <1>0, <1>1, <1>8, FailRefuses
<1>9. CASE Drop(s)
  <2>1. attempt'[s] = Idle /\ UNCHANGED decided
    BY <1>0, <1>9 DEF Drop, End, TypeOK
  <2> QED
    BY <1>1, <2>1 DEF Idle
<1> QED
  BY <1>2, <1>3, <1>4, <1>5, <1>6, <1>7, <1>8, <1>9 DEF Serve

LEMMA ServeReceipts ==
  ASSUME SteadyRules, ReceiptInvariant, NEW s \in Sessions, Serve(s)
  PROVE  ReceiptInvariant'
<1>0. PackageInvariant /\ Issued /\ RefusalsFinal /\ JobsClosed /\ Accepted /\ ClientTypes /\ TypeOK
      /\ Waits /\ ReplayInvariant
  BY DEF ReceiptInvariant, PackageInvariant, ReplayInvariant
<1>1. UNCHANGED <<saved, tab, job, jobOf, valid, fate, retired>>
  BY DEF Serve, client
<1>2. Stands /\ (Drop(s) \/ GoesOn(s))
  BY <1>0, ServeEffect
<1>3. \A r \in Sessions \ {s} : attempt'[r] = attempt[r]
  BY <1>0, <1>2 DEF Drop, End, GoesOn, TypeOK
<1>4. attempt'[s] = Idle \/ GoesOn(s)
  BY <1>0, <1>2 DEF Drop, End, TypeOK
<1>5. ASSUME NEW k \in Keys, Closed(k) PROVE Closed(k)'
  BY <1>1, <1>2, <1>5, ClosedStands
<1>6. Issued'
  <2>1. ASSUME NEW r \in Sessions, attempt'[r] # Idle PROVE jobOf[attempt'[r].slot.key] # 0
    <3>1. CASE r = s
      BY <1>0, <1>4, <2>1, <3>1 DEF GoesOn, Issued, KeyOf
    <3>2. CASE r # s
      BY <1>0, <1>3, <2>1, <3>2 DEF Issued, KeyOf
    <3> QED
      BY <3>1, <3>2
  <2> QED
    BY <1>0, <1>1, <2>1 DEF Issued, KeyOf
<1>7. RefusalsFinal'
  <2>1. ASSUME NEW r \in Sessions, attempt'[r].phase = "answered", attempt'[r].answer = "refused"
        PROVE  Closed(KeyOf(r))'
    <3>1. CASE r = s
      BY <2>1, <3>1, ServeRefuses
    <3>2. CASE r # s
      <4>1. attempt'[r] = attempt[r] /\ KeyOf(r) \in Keys
        BY <1>0, <1>3, <2>1, <3>2, AttemptSlot
      <4>2. PICK k \in Keys : k = KeyOf(r)
        BY <4>1
      <4>3. Closed(k)'
        BY <1>0, <1>5, <2>1, <4>1, <4>2 DEF RefusalsFinal
      <4>4. KeyOf(r)' = k
        BY <4>1, <4>2 DEF KeyOf
      <4> QED
        BY <4>3, <4>4 DEF Closed
    <3> QED
      BY <3>1, <3>2
  <2>2. ASSUME NEW t \in Tabs, tab[t] # AtRest, Closed(tab[t].key) PROVE Closed(tab[t].key)'
    <3>1. PICK k \in Keys : k = tab[t].key
      BY <1>0, <2>2, TabFields
    <3>2. Closed(k)'
      BY <1>5, <2>2, <3>1
    <3> QED
      BY <1>1, <3>1, <3>2 DEF Closed
  <2>3. ASSUME NEW t \in Tabs, tab'[t].phase = "waiting", tab'[t].fresh,
               attempt'[tab'[t].session].phase = "answered", attempt'[tab'[t].session].answer = "early"
        PROVE  Closed(tab[t].key)'
    <3>1. tab'[t] = tab[t] /\ tab[t].phase = "waiting" /\ tab[t].fresh /\ tab[t] # AtRest
          /\ tab[t].session \in Sessions /\ tab[t].key \in Keys
      BY <1>0, <1>1, <2>3, TabFields DEF AtRest
    <3>2. CASE tab[t].session = s
      <4>1. Closed(KeyOf(s))'
        BY <2>3, <3>1, <3>2, ServeRefuses
      <4>2. attempt'[s].slot = attempt[s].slot /\ attempt[s].slot = SlotOf(tab[t].key)
        BY <1>0, <1>4, <2>3, <3>1, <3>2 DEF GoesOn, Waits, Idle
      <4>3. KeyOf(s)' = tab[t].key
        BY <3>1, <4>2, OneSlot DEF KeyOf
      <4> QED
        BY <3>1, <4>1, <4>3 DEF Closed
    <3>3. CASE tab[t].session # s
      BY <1>0, <1>3, <2>2, <2>3, <3>1, <3>3 DEF RefusalsFinal
    <3> QED
      BY <3>2, <3>3
  <2>4. ASSUME NEW t \in Tabs, tab'[t].phase = "clearing", FateOf(tab'[t].answer) = "rejected"
        PROVE  Closed(tab[t].key)'
    <3>1. tab'[t] = tab[t] /\ tab[t] # AtRest
      BY <1>1, <2>4 DEF AtRest
    <3> QED
      BY <1>0, <2>2, <2>4, <3>1 DEF RefusalsFinal
  <2>5. ASSUME NEW k \in Keys, fate'[k] = "rejected" PROVE Closed(k)'
    BY <1>0, <1>1, <1>5, <2>5 DEF RefusalsFinal
  <2> QED
    BY <2>1, <2>3, <2>4, <2>5 DEF RefusalsFinal
<1>8. JobsClosed'
  BY <1>0, <1>1, <1>5 DEF JobsClosed
<1>9. Accepted'
  BY <1>0, <1>1, ServeRefuses DEF Accepted
<1>10. PackageInvariant'
  BY <1>0, ServeKeeps
<1> QED
  BY <1>6, <1>7, <1>8, <1>9, <1>10 DEF ReceiptInvariant

LEMMA RetireReceipts ==
  ASSUME ReceiptInvariant, NEW k \in Keys, Retire(k)
  PROVE  ReceiptInvariant'
<1>0. PackageInvariant /\ Issued /\ RefusalsFinal /\ JobsClosed /\ Accepted /\ ClientTypes /\ TypeOK
  BY DEF ReceiptInvariant, PackageInvariant, ReplayInvariant
<1>1. PICK how \in Retirements : retired' = [retired EXCEPT ![k] = how]
  BY DEF Retire
<1>2. retired[k] = "no" /\ UNCHANGED <<decided, attempt, saved, tab, job, jobOf, valid, fate>>
  BY DEF Retire, client, server
<1>3. ASSUME NEW l \in Keys, Closed(l) PROVE Closed(l)'
  <2>1. retired[l] = "corrected" => retired'[l] = "corrected"
    BY <1>0, <1>1, <1>2 DEF ClientTypes
  <2> QED
    BY <1>2, <1>3, <2>1 DEF Closed
<1>4. Accepted' /\ Issued'
  BY <1>0, <1>2 DEF Accepted, Received, Issued, KeyOf
<1>5. JobsClosed'
  BY <1>0, <1>2, <1>3 DEF JobsClosed
<1>6. RefusalsFinal'
  <2>1. ASSUME NEW r \in Sessions, attempt'[r].phase = "answered", attempt'[r].answer = "refused"
        PROVE  Closed(KeyOf(r))'
    <3>1. attempt[r].phase # "idle"
      BY <1>2, <2>1
    <3>2. PICK l \in Keys : l = KeyOf(r)
      BY <1>0, <3>1, AttemptSlot
    <3>3. Closed(l)'
      BY <1>0, <1>2, <1>3, <2>1, <3>2 DEF RefusalsFinal
    <3>4. KeyOf(r)' = l
      BY <1>2, <3>2 DEF KeyOf
    <3> QED
      BY <3>3, <3>4 DEF Closed
  <2>2. ASSUME NEW u \in Tabs, tab[u] # AtRest, Closed(tab[u].key) PROVE Closed(tab[u].key)'
    <3>1. PICK l \in Keys : l = tab[u].key
      BY <1>0, <2>2, TabFields
    <3>2. Closed(l)'
      BY <1>3, <2>2, <3>1
    <3> QED
      BY <1>2, <3>1, <3>2 DEF Closed
  <2>3. ASSUME NEW u \in Tabs, tab'[u].phase = "waiting", tab'[u].fresh,
               attempt'[tab'[u].session].phase = "answered", attempt'[tab'[u].session].answer = "early"
        PROVE  Closed(tab[u].key)'
    BY <1>0, <1>2, <2>2, <2>3 DEF RefusalsFinal, AtRest
  <2>4. ASSUME NEW u \in Tabs, tab'[u].phase = "clearing", FateOf(tab'[u].answer) = "rejected"
        PROVE  Closed(tab[u].key)'
    BY <1>0, <1>2, <2>2, <2>4 DEF RefusalsFinal, AtRest
  <2>5. ASSUME NEW l \in Keys, fate'[l] = "rejected" PROVE Closed(l)'
    BY <1>0, <1>2, <1>3, <2>5 DEF RefusalsFinal
  <2> QED
    BY <2>1, <2>3, <2>4, <2>5 DEF RefusalsFinal
<1>7. PackageInvariant'
  BY <1>0, RetireKeeps
<1> QED
  BY <1>4, <1>5, <1>6, <1>7 DEF ReceiptInvariant

LEMMA ReceiptInit == ASSUME SteadyRules PROVE PackageInit => ReceiptInvariant
<1> SUFFICES ASSUME PackageInit PROVE ReceiptInvariant
  OBVIOUS
<1>1. PackageInvariant
  BY PackageInitHolds
<1>2. \A s \in Sessions : attempt[s] = Idle
  BY DEF PackageInit, Init
<1>3. \A k \in Keys : ~Received(k)
  <2>1. SUFFICES ASSUME NEW k \in Keys PROVE decided[SlotOf(k)] = <<>>
    BY DEF Received
  <2>2. SlotOf(k) \in Slots /\ SlotOf(k).key = k
    BY OneSlot
  <2>3. old = [l \in Keys |-> NoRow]
    BY DEF PackageInit, Init, SteadyRules
  <2>4. ~WrittenBy(old[SlotOf(k).key], SlotOf(k))
    BY <2>2, <2>3 DEF WrittenBy
  <2> QED
    BY <2>2, <2>4 DEF PackageInit, Init, OldEffect
<1>4. Issued /\ RefusalsFinal /\ JobsClosed /\ Accepted
  BY <1>2, <1>3, PackageAssumption
     DEF PackageInit, Issued, RefusalsFinal, JobsClosed, Accepted, Closed, Idle, AtRest
<1> QED
  BY <1>1, <1>4 DEF ReceiptInvariant

LEMMA ReceiptNext ==
  ASSUME SteadyRules PROVE ReceiptInvariant /\ [PackageNext]_packageVars => ReceiptInvariant'
<1>1. ReceiptInvariant /\ UNCHANGED packageVars => ReceiptInvariant'
  <2>1. SUFFICES ASSUME ReceiptInvariant, UNCHANGED packageVars PROVE ReceiptInvariant'
    OBVIOUS
  <2>2. PackageInvariant'
    BY <2>1, PackageStutter DEF ReceiptInvariant
  <2>3. UNCHANGED <<decided, attempt, saved, tab, job, jobOf, valid, fate, retired>>
    BY <2>1 DEF packageVars, client, server
  <2>4. Issued' /\ JobsClosed' /\ Accepted'
    BY <2>1, <2>3 DEF ReceiptInvariant, Issued, JobsClosed, Accepted, Closed, Received, KeyOf
  <2>5. RefusalsFinal'
    BY <2>1, <2>3 DEF ReceiptInvariant, RefusalsFinal, Closed, KeyOf
  <2> QED
    BY <2>2, <2>4, <2>5 DEF ReceiptInvariant
<1> QED
  BY <1>1, PrepareNewReceipts, PrepareSavedReceipts, PostReceipts, GiveUpReceipts, DeliverReceipts,
     ClearReceipts, ServeReceipts, RetireReceipts DEF PackageNext

\* Under steady rules every key but one of a receipt is closed, or its print run was corrected.
THEOREM ReceiptInvariantHolds == ASSUME SteadyRules PROVE PackageSpec => []ReceiptInvariant
BY ReceiptInit, ReceiptNext, PTL DEF PackageSpec

\* A closed key that took effect is one whose print run was corrected.
LEMMA ClosedReceived ==
  ASSUME ReceiptInvariant, NEW k \in Keys, Closed(k), Received(k)
  PROVE  retired[k] = "corrected"
BY ReceivedIs DEF ReceiptInvariant, PackageInvariant, Accepted, Closed

\* Over any number of tabs, keys, retries, lost responses, reconciliations and corrections: one
\* receipt takes effect under two keys only where the print run of one was corrected or returned.
THEOREM ReceiptRepeatedOnlyByCorrection ==
  ASSUME SteadyRules PROVE PackageSpec => []RepeatedOnlyByCorrection
<1>1. ReceiptInvariant => RepeatedOnlyByCorrection
  BY ClosedReceived DEF ReceiptInvariant, JobsClosed, RepeatedOnlyByCorrection
<1> QED
  BY <1>1, ReceiptInvariantHolds, PTL

\* What the browser took for rejected has not committed, unless its print run was corrected.
THEOREM RejectionsUndoneOnlyByCorrection ==
  ASSUME SteadyRules
  PROVE  PackageSpec =>
           [](\A k \in Keys : fate[k] = "rejected" /\ Received(k) => retired[k] = "corrected")
<1>1. ReceiptInvariant =>
        \A k \in Keys : fate[k] = "rejected" /\ Received(k) => retired[k] = "corrected"
  BY ClosedReceived DEF ReceiptInvariant, RefusalsFinal
<1> QED
  BY <1>1, ReceiptInvariantHolds, PTL

-----------------------------------------------------------------------------
(* Browser and package endpoints implement OnceOnly.                       *)

LEMMA ReplayedAbstract ==
  ASSUME ReplayInvariant, ReplayInvariant', NEW s \in Sessions, ReplayPackage(s)
  PROVE  Abstract!Next \/ UNCHANGED Abstract!vars
<1>0. TypeOK /\ TypeOK'
  BY DEF ReplayInvariant
<1>1. PICK o : o = Saved(attempt[s].slot).outcome
  OBVIOUS
<1>2. PICK answer : answer = Replayed(attempt[s].kind, KeyOf(s), o)
  OBVIOUS
<1>3. attempt[s].phase = "locked" /\ Saved(attempt[s].slot) # NoRow
      /\ Become(s, "answered", answer) /\ UNCHANGED <<rows, old, decided, attempts>>
  BY <1>1, <1>2 DEF ReplayPackage
<1>4. attempt[s].slot \in Slots /\ KeyOf(s) \in Keys /\ attempt[s].payload \in Payloads
      /\ attempt[s].kind \in Kinds
  BY <1>0, <1>3, AttemptSlot, Request
<1>5. o \in {attempt[s].payload, Cancelled} /\ o \in Outcomes
  BY <1>1, <1>3, <1>4, PackageHit DEF Outcomes
<1>6. answer \in {o, "refused", "gone", "unavailable"}
  BY <1>2, <1>4, <1>5, ReplayedAnswer
<1>7. CASE answer = o
  <2>1. Saved(attempt[s].slot).payload = attempt[s].payload
    <3>1. Saved(attempt[s].slot).payload \in Payloads
      BY <1>0, <1>3, <1>4, SavedPayload
    <3> QED
      BY <1>4, <3>1, OneBody
  <2>2. Replay(s)
    BY <1>1, <1>3, <1>7, <2>1 DEF Replay, Refused
  <2> QED
    BY <2>2, AbstractReport
<1>8. CASE answer # o
  <2>1. answer \in NoOutcome
    BY <1>6, <1>8 DEF NoOutcome
  <2> QED
    BY <1>0, <1>3, <2>1, BecomeSilent
<1> QED
  BY <1>7, <1>8

LEMMA PackageAbstractNext ==
  PackageInvariant /\ PackageInvariant' /\ [PackageNext]_packageVars => [Abstract!Next]_(Abstract!vars)
<1> SUFFICES ASSUME PackageInvariant, PackageInvariant', [PackageNext]_packageVars
             PROVE  Abstract!Next \/ UNCHANGED Abstract!vars
  OBVIOUS
<1>0. ReplayInvariant /\ ReplayInvariant' /\ TypeOK /\ TypeOK' /\ ClientTypes
  BY DEF PackageInvariant, ReplayInvariant
<1>1. ASSUME [Next]_vars PROVE Abstract!Next \/ UNCHANGED Abstract!vars
  BY <1>0, <1>1, AbstractNext
<1>2. ASSUME UNCHANGED server PROVE Abstract!Next \/ UNCHANGED Abstract!vars
  BY <1>1, <1>2 DEF server, vars
<1>3. ASSUME NEW t \in Tabs, Post(t) PROVE Abstract!Next \/ UNCHANGED Abstract!vars
  <2>1. PICK s \in Sessions : Arrive(s, tab[t].kind, SlotOf(tab[t].key), Body)
    BY <1>3 DEF Post
  <2>2. tab[t].kind \in Kinds /\ SlotOf(tab[t].key) \in Slots /\ Body \in Payloads
    BY <1>0, <1>3, TabFields, OneSlot, OneBody DEF Post, AtRest
  <2> QED
    BY <1>1, <2>1, <2>2 DEF Next
<1>4. ASSUME NEW t \in Tabs, Deliver(t) PROVE Abstract!Next \/ UNCHANGED Abstract!vars
  <2>1. tab[t].session \in Sessions /\ End(tab[t].session)
    BY <1>0, <1>4, TabFields DEF Deliver
  <2> QED
    BY <1>1, <2>1 DEF Next
<1>5. ASSUME NEW s \in Sessions, Serve(s) PROVE Abstract!Next \/ UNCHANGED Abstract!vars
  <2>1. CASE TakeLock(s) \/ StartWork(s) \/ Finish(s) \/ Tombstone(s) \/ End(s)
    BY <1>1, <2>1 DEF Next
  <2>2. CASE ReplayPackage(s)
    BY <1>0, <2>2, ReplayedAbstract
  <2>3. CASE \E answer \in {"refused", "early", "error"} : Fail(s, answer)
    <3>1. PICK answer \in {"refused", "early", "error"} : Fail(s, answer)
      BY <2>3
    <3>2. answer \in NoOutcome
      BY DEF NoOutcome
    <3> QED
      BY <1>0, <3>1, <3>2, BecomeSilent DEF Fail
  <2> QED
    BY <1>5, <2>1, <2>2, <2>3 DEF Serve, Accept, Reject, Reconcile, TurnAway, Drop
<1>6. CASE PackageNext
  BY <1>2, <1>3, <1>4, <1>5, <1>6
     DEF PackageNext, PrepareNew, PrepareSaved, GiveUp, Clear, Retire
<1>7. CASE UNCHANGED packageVars
  BY <1>2, <1>7 DEF packageVars
<1> QED
  BY <1>6, <1>7

\* The package endpoints keep the abstract promise too: a key is decided once,
\* and whoever is told an outcome is told that decision.
THEOREM PackageImplementsOnceOnly == PackageSpec => ImplementsOnceOnly
<1>1. PackageInit => Abstract!Init
  BY AbstractInit DEF PackageInit
<1>2. PackageInvariant /\ PackageInvariant' /\ [PackageNext]_packageVars => [Abstract!Next]_(Abstract!vars)
  BY PackageAbstractNext
<1> QED
  BY <1>1, <1>2, PackageInvariantHolds, PTL DEF PackageSpec, Abstract!Spec, ImplementsOnceOnly
=============================================================================
