--------------------------- MODULE PackageRequests ---------------------------
(***************************************************************************)
(* Recording physical packs from a browser that may lose every response.   *)
(* All tabs of a user share one saved request (key and body) per endpoint  *)
(* in localStorage; they post it, repeat it, reconcile it, and forget it   *)
(* only on an answer that settles it.  The server is RequestReplay with    *)
(* the package endpoints' own answers.                                     *)
(*                                                                         *)
(* A body is bound to its key, so one payload stands for all of them; the  *)
(* navigator lock makes preparing and clearing one step each.              *)
(***************************************************************************)
EXTENDS RequestReplay

CONSTANTS
  Tabs,           \* tabs of one user
  NoKey,
  Retirements,    \* what may happen to a print run later: "corrected", "deleted"
  RulesChange,    \* may a refused body be accepted later, or the reverse?
  FirstRefusals   \* may a first attempt be turned away before the lookup?

ASSUME PackageAssumption ==
  /\ \E u \in Users : Users = {u}
  /\ \E f \in Factories : Factories = {f}
  /\ \E p \in Payloads : Payloads = {p}
  /\ NoKey \notin Keys /\ "write" \in Kinds
  /\ Retirements \subseteq {"corrected", "deleted"}
  /\ RulesChange \in BOOLEAN /\ FirstRefusals \in BOOLEAN

VARIABLES
  saved,      \* key of the pending request in localStorage, or NoKey
  tab,        \* what each tab is doing
  job,        \* the physical receipt the user is recording
  jobOf,      \* the receipt each issued key was made for, 0 if not issued
  valid,      \* keys whose body satisfies the business rules
  fate,       \* what the user was told about each key
  retired     \* what became of the print run of each key

client == <<saved, tab, job, jobOf, valid, fate>>
server == <<rows, old, decided, attempt, attempts>>
packageVars == <<server, client, retired>>

Body == CHOOSE p \in Payloads : TRUE
SlotOf(k) ==
  [user |-> CHOOSE u \in Users : TRUE, factory |-> CHOOSE f \in Factories : TRUE, key |-> k]
KeyOf(s) == attempt[s].slot.key
Received(k) == \E n \in DOMAIN decided[SlotOf(k)] : decided[SlotOf(k)][n] = Body

AtRest == [phase |-> "idle"]

PackageInit ==
  /\ Init
  /\ saved = NoKey
  /\ tab = [t \in Tabs |-> AtRest]
  /\ job = 1
  /\ jobOf = [k \in Keys |-> 0]
  /\ valid = {}
  /\ fate = [k \in Keys |-> "unknown"]
  /\ retired = [k \in Keys |-> "no"]

-----------------------------------------------------------------------------
(***************************************************************************)
(* The browser: postPackageWorkflow and reconcilePendingPackageWorkflow.   *)
(***************************************************************************)
Ready(t, kind, k, fresh) ==
  tab' = [tab EXCEPT ![t] = [phase |-> "prepared", kind |-> kind, key |-> k, fresh |-> fresh]]

\* Nothing pending: a new key, saved before it is sent.
PrepareNew(t) ==
  /\ tab[t] = AtRest /\ saved = NoKey
  /\ \E k \in {k \in Keys : jobOf[k] = 0}, accepted \in BOOLEAN :
       /\ saved' = k
       /\ jobOf' = [jobOf EXCEPT ![k] = job]
       /\ valid' = IF accepted THEN valid \cup {k} ELSE valid
       /\ Ready(t, "write", k, TRUE)
  /\ UNCHANGED <<server, job, fate, retired>>

\* The pending request is posted again, or its fate is asked for.
PrepareSaved(t) ==
  /\ tab[t] = AtRest /\ saved # NoKey
  /\ \E kind \in Kinds : Ready(t, kind, saved, FALSE)
  /\ UNCHANGED <<server, saved, job, jobOf, valid, fate, retired>>

Post(t) ==
  /\ tab[t].phase = "prepared"
  /\ \E s \in Sessions :
       /\ \A u \in Tabs : tab[u].phase = "waiting" => tab[u].session # s
       /\ Arrive(s, tab[t].kind, SlotOf(tab[t].key), Body)
       /\ tab' = [tab EXCEPT ![t] =
            [phase |-> "waiting", kind |-> tab[t].kind, key |-> tab[t].key,
             fresh |-> tab[t].fresh, session |-> s]]
  /\ UNCHANGED <<saved, job, jobOf, valid, fate, retired>>

\* A timeout, a lost connection or a page reload.  The attempt goes on.
GiveUp(t) ==
  /\ tab[t] # AtRest
  /\ tab' = [tab EXCEPT ![t] = AtRest]
  /\ UNCHANGED <<server, saved, job, jobOf, valid, fate, retired>>

\* Mutant: a throttled or forbidden retry counts as rejected too.
SettlesAnyRefusal(kind, fresh, answer) ==
  \/ answer \in Outcomes \cup {"unavailable"}
  \/ kind = "write" /\ answer \in {"refused", "early"}
\* Answers after which the pending request is forgotten: a result; 400 or 409;
\* for a first attempt also 401, 403, 404, 422 and 429 ("early").  410 ("gone")
\* and 5xx keep it.
Settles(kind, fresh, answer) ==
  \/ answer \in Outcomes \cup {"unavailable"}
  \/ kind = "write" /\ answer = "refused"
  \/ kind = "write" /\ answer = "early" /\ fresh

Deliver(t) ==
  /\ tab[t].phase = "waiting" /\ End(tab[t].session)
  /\ LET answer == attempt[tab[t].session].answer IN
     tab' = [tab EXCEPT ![t] =
       IF Settles(tab[t].kind, tab[t].fresh, answer)
         THEN [phase |-> "clearing", key |-> tab[t].key, answer |-> answer]
         ELSE AtRest]
  /\ UNCHANGED <<saved, job, jobOf, valid, fate, retired>>

\* Mutant: the saved request is removed whatever its key.
LeftAfterNothing(k) == NoKey
\* clearPendingPackageWorkflow removes the request only under its own key.
LeftAfter(k) == IF saved = k THEN NoKey ELSE saved

FateOf(answer) ==
  CASE answer \in Payloads \cup {"unavailable"} -> "received"
    [] answer = Cancelled -> "cancelled"
    [] OTHER -> "rejected"

\* The saved request goes, and the user reads what happened.  When a newer
\* request is pending the user is pointed to that one instead.
Clear(t) ==
  /\ tab[t].phase = "clearing"
  /\ LET k == tab[t].key
         seen == saved \in {k, NoKey}
         now == FateOf(tab[t].answer)
     IN
       /\ saved' = LeftAfter(k)
       /\ fate' = IF seen THEN [fate EXCEPT ![k] = now] ELSE fate
       /\ job' = IF seen /\ now = "received" /\ jobOf[k] = job THEN job + 1 ELSE job
  /\ tab' = [tab EXCEPT ![t] = AtRest]
  /\ UNCHANGED <<server, jobOf, valid, retired>>

-----------------------------------------------------------------------------
(***************************************************************************)
(* The server: _write and _reconcile_package_workflow.                     *)
(***************************************************************************)

\* _validate_package_workflow_replay: what a repeated request is answered
\* when its key was settled before.
Replayed(kind, k, outcome) ==
  CASE kind = "write" /\ outcome = Cancelled -> "refused"
    [] kind = "write" /\ retired[k] = "corrected" -> "refused"
    [] kind = "write" /\ retired[k] = "deleted" -> "gone"
    [] kind = "reconcile" /\ outcome # Cancelled /\ retired[k] # "no" -> "unavailable"
    [] OTHER -> outcome

ReplayPackage(s) ==
  /\ attempt[s].phase = "locked" /\ Saved(attempt[s].slot) # NoRow
  /\ Become(s, "answered",
            Replayed(attempt[s].kind, KeyOf(s), Saved(attempt[s].slot).outcome))
  /\ UNCHANGED <<rows, old, decided, attempts>>

\* The handler's own rules accept the body ...
Accept(s) == Working(s, "write") /\ (RulesChange \/ KeyOf(s) \in valid) /\ Finish(s)
\* ... or raise 400 or 409 (or 404 for a row that is not there).
Reject(s) ==
  /\ Working(s, "write") /\ (RulesChange \/ KeyOf(s) \notin valid)
  /\ \E answer \in {"refused", "early"} : Fail(s, answer)

\* Mutant: reconciling answers "cancelled" without saving the tombstone.
ReconcileBare(s) == Working(s, "reconcile") /\ Fail(s, Cancelled)
\* Nothing was recorded: the key is spent, so a late write is refused.
Reconcile(s) == Tombstone(s)

\* 401, 403, 422, 429: before the handler looks anything up.
TurnAway(s) ==
  /\ attempt[s].phase = "arrived"
  /\ \A t \in Tabs :
       tab[t].phase = "waiting" /\ tab[t].session = s /\ tab[t].fresh => FirstRefusals
  /\ Fail(s, "early")

\* Nobody waits for the response any more.
Drop(s) ==
  /\ \A t \in Tabs : tab[t].phase = "waiting" => tab[t].session # s
  /\ End(s)

Serve(s) ==
  /\ \/ TakeLock(s)
     \/ ReplayPackage(s)
     \/ StartWork(s)
     \/ Accept(s)
     \/ Reject(s)
     \/ Reconcile(s)
     \/ TurnAway(s)
     \/ Fail(s, "error")
     \/ Drop(s)
  /\ UNCHANGED <<client, retired>>

\* The warehouse corrects, returns or deletes the print run a key created.
Retire(k) ==
  /\ Received(k) /\ retired[k] = "no"
  /\ \E how \in Retirements : retired' = [retired EXCEPT ![k] = how]
  /\ UNCHANGED <<server, client>>

PackageNext ==
  \/ \E t \in Tabs :
       \/ PrepareNew(t)
       \/ PrepareSaved(t)
       \/ Post(t)
       \/ GiveUp(t)
       \/ Deliver(t)
       \/ Clear(t)
  \/ \E s \in Sessions : Serve(s)
  \/ \E k \in Keys : Retire(k)

PackageSpec == PackageInit /\ [][PackageNext]_packageVars

-----------------------------------------------------------------------------
(***************************************************************************)
(* Properties.                                                             *)
(***************************************************************************)

\* A request whose outcome the user has not been told is still saved in the
\* browser (clearPendingPackageWorkflow compares keys).
EvidenceKept ==
  \A k \in Keys : jobOf[k] # 0 /\ fate[k] = "unknown" => saved = k

\* What the user was told stays true: a cancelled request never takes effect,
\* however late its write arrives, and a confirmed one has.
ToldTruly ==
  \A k \in Keys :
    /\ fate[k] = "cancelled" => ~Received(k)
    /\ fate[k] = "received" => Received(k)

\* When the browser may issue a new key for a receipt, each key already spent on it was
\* answered as rejected, or as cancelled and will never take effect: neither lost answers nor
\* other tabs, only a refusal, may bring a second receipt (postPackageWorkflow).
ReissuedOnlyAfterRefusal ==
  saved = NoKey =>
    \A k \in Keys : jobOf[k] = job =>
      fate[k] = "rejected" \/ (fate[k] = "cancelled" /\ ~Received(k))

\* One physical receipt is recorded once, however many keys, tabs, retries and reconciliations
\* it took ("Edits cannot turn a lost response into an accidental second physical-stock
\* receipt"), except where a print run was corrected or returned, after which the repetition
\* of its request is answered 409 (_validate_package_workflow_replay).
RepeatedOnlyByCorrection ==
  \A k, l \in Keys :
    k # l /\ jobOf[k] # 0 /\ jobOf[k] = jobOf[l] /\ Received(k) /\ Received(l) =>
      "corrected" \in {retired[k], retired[l]}

\* A request the browser took for rejected did not commit and never will.
RejectedNeverReceived == \A k \in Keys : fate[k] = "rejected" => ~Received(k)
=============================================================================
