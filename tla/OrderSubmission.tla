-------------------------- MODULE OrderSubmission --------------------------
(***************************************************************************)
(* Idempotent order creation: BrokerOrdersFacadeService.createFuturesOrder *)
(* over the order_submission_requests row of ONE (user, idempotency key).  *)
(* Rows of different keys never touch each other (unique index on the      *)
(* pair), so one row is the whole story.                                   *)
(*                                                                         *)
(* Several HTTP attempts carry the same key at once (double clicks,        *)
(* retries, automation).  Every `await` of the handler is a point where    *)
(* the others run: the row is read in one step and overwritten, whole and  *)
(* without a version check, in a later one.  A reconciler does the same    *)
(* with completed rows.  An attempt may die at any step; the broker may    *)
(* accept an order whose answer is lost, late or turned into an error.     *)
(*                                                                         *)
(* Attempts refused before the row is looked up (validation, freshness,    *)
(* route, kill switch) leave no trace: they are attempts that take no step. *)
(*                                                                         *)
(* The operators named Mut... are faulty variants of the definition that   *)
(* follows them, each with a slip the code could have; no specification    *)
(* uses them.                                                              *)
(***************************************************************************)
EXTENDS Integers, FiniteSets

CONSTANTS
  Attempts,      \* create-order requests sent with the key
  Drafts,        \* order drafts (what the request hash covers)
  PaperDrafts,   \* the drafts whose execution_mode is 'paper'
  Reconcilers,   \* callers of the submission reconciliation
  None,          \* null
  StaleAfter,    \* orderSubmissionStaleMs, in ticks
  MissingAfter,  \* orderSubmissionReconciliationMissingAfterMs, in ticks
  MaxClock       \* bound of the clock

ASSUME SubmissionAssumption ==
  /\ PaperDrafts \subseteq Drafts
  /\ None \notin Attempts \cup Drafts
  /\ StaleAfter \in Nat /\ MissingAfter \in Nat /\ MaxClock \in Nat

VARIABLES
  clock,     \* time, in ticks
  row,       \* the database row of the key, or NoRow
  placed,    \* orders that exist (at the broker, or in paper_orders); an order is named by its attempt
  inFlight,  \* placement calls the broker has not decided yet
  snapshot,  \* orders present in scheduler_orders_snapshots
  pc,        \* the step each attempt is at
  draft,     \* the draft of each attempt
  copy,      \* the entity each attempt holds in memory
  reply,     \* the order in the response of each attempt
  rpc,       \* the step each reconciler is at
  rcopy,     \* the entity each reconciler holds in memory
  hazard     \* history: which unguarded restarts have happened

attemptVars == <<pc, draft, copy, reply>>
reconcilerVars == <<rpc, rcopy>>
brokerVars == <<placed, inFlight>>
vars == <<clock, row, placed, inFlight, snapshot, pc, draft, copy, reply,
          rpc, rcopy, hazard>>

-----------------------------------------------------------------------------
(* Rows *)

Rows == [draft       : Drafts,
         status      : {"in_progress", "completed", "failed"},
         placement   : {"registered", "submitting", "placed", "rejected"},
         order       : Attempts \cup {None},    \* brokerOrderId
         response    : Attempts \cup {None},    \* the order in responsePayload
         recon       : {"not_required", "pending", "matched", "missing"},
         completedAt : Nat \cup {None},
         updatedAt   : Nat]

NoRow == [status |-> "absent"]

(* createInProgress and markInProgress write the same columns. *)
Registered(d) ==
  [draft |-> d, status |-> "in_progress", placement |-> "registered",
   order |-> None, response |-> None, recon |-> "not_required",
   completedAt |-> None, updatedAt |-> clock]

Submitting(r) ==
  [r EXCEPT !.status = "in_progress", !.placement = "submitting",
            !.updatedAt = clock]

(* markCompleted: a paper order is not reconciled and has no broker id. *)
Completed(r, a, id) ==
  [r EXCEPT !.status = "completed", !.placement = "placed", !.order = id,
            !.response = a, !.completedAt = clock, !.updatedAt = clock,
            !.recon = IF r.draft \in PaperDrafts THEN "not_required" ELSE "pending"]

(* markFailed keeps whatever broker id the entity carries. *)
Failed(r) ==
  [r EXCEPT !.status = "failed", !.placement = "rejected", !.response = None,
            !.recon = "not_required", !.completedAt = None, !.updatedAt = clock]

Fresh(r) == clock - r.updatedAt < StaleAfter

(* A read and the branch taken on it; the write comes in a later step. *)
MutReplays(r)      == r.status = "completed" /\ r.order # None
MutBlocks(r)       == r.status = "in_progress" /\ r.placement = "registered" /\ Fresh(r)

Conflicts(r, d) == r.draft # d
Replays(r)      == r.status = "completed" /\ r.response # None
Blocks(r)       == r.status = "in_progress" /\ Fresh(r)

-----------------------------------------------------------------------------
Init ==
  /\ clock = 0
  /\ row = NoRow
  /\ placed = {} /\ inFlight = {} /\ snapshot = {}
  /\ pc = [a \in Attempts |-> "find"]
  /\ draft \in [Attempts -> Drafts]
  /\ copy = [a \in Attempts |-> NoRow]
  /\ reply = [a \in Attempts |-> None]
  /\ rpc = [r \in Reconcilers |-> "idle"]
  /\ rcopy = [r \in Reconcilers |-> NoRow]
  /\ hazard = {}

Goto(a, step) == pc' = [pc EXCEPT ![a] = step]

(* The handler returns or throws: its entity goes out of scope. *)
End(a) ==
  /\ Goto(a, "end")
  /\ copy' = [copy EXCEPT ![a] = NoRow]
Answer(a, o) == End(a) /\ reply' = [reply EXCEPT ![a] = o]

Tick ==
  /\ clock < MaxClock
  /\ clock' = clock + 1
  /\ UNCHANGED <<row, brokerVars, snapshot, attemptVars, reconcilerVars, hazard>>

(* findByUserAndKey, and reconcileOrderSubmissionRequest up to its write.   *)
(* The loser of the insert race comes back here and takes the same branches. *)
Find(a) ==
  /\ pc[a] = "find"
  /\ \/ row = NoRow /\ Goto(a, "create") /\ UNCHANGED <<copy, reply>>
     \/ row # NoRow /\ Conflicts(row, draft[a]) /\ Answer(a, None)
     \/ /\ row # NoRow /\ ~Conflicts(row, draft[a])
        /\ \/ Replays(row) /\ Answer(a, row.response)
           \/ Blocks(row) /\ Answer(a, None)
           \/ /\ ~Replays(row) /\ ~Blocks(row)
              /\ Goto(a, "restart")
              /\ copy' = [copy EXCEPT ![a] = row]
              /\ UNCHANGED reply
  /\ UNCHANGED <<clock, row, brokerVars, snapshot, draft, reconcilerVars, hazard>>

MutCreate(a) ==   \* the loser restarts the winner's row without looking at it
  /\ pc[a] = "create"
  /\ IF row = NoRow
     THEN /\ row' = Registered(draft[a])
          /\ copy' = [copy EXCEPT ![a] = row']
          /\ Goto(a, "check")
     ELSE Goto(a, "restart") /\ copy' = [copy EXCEPT ![a] = row] /\ UNCHANGED row
  /\ UNCHANGED <<clock, brokerVars, snapshot, draft, reply, reconcilerVars, hazard>>

(* createInProgress: the unique index lets one insert through; the loser   *)
(* reads the winner's row.                                                 *)
Create(a) ==
  /\ pc[a] = "create"
  /\ IF row = NoRow
     THEN /\ row' = Registered(draft[a])
          /\ copy' = [copy EXCEPT ![a] = row']
          /\ Goto(a, "check")
     ELSE Goto(a, "find") /\ UNCHANGED <<row, copy>>
  /\ UNCHANGED <<clock, brokerVars, snapshot, draft, reply, reconcilerVars, hazard>>

(* What makes a restart unguarded: the row is an attempt's that never      *)
(* reported back, the row is not the one that was read, or the failed      *)
(* attempt's order exists or may still come to exist.                      *)
RestartHazards(a) ==
     (IF copy[a].status = "in_progress" /\ ~Fresh(copy[a]) THEN {"stale"} ELSE {})
  \cup (IF row # copy[a] THEN {"raced"} ELSE {})
  \cup (IF copy[a].status = "failed" /\ placed \cup inFlight # {}
        THEN {"ambiguous"} ELSE {})

(* markInProgress *)
Restart(a) ==
  /\ pc[a] = "restart"
  /\ row' = Registered(copy[a].draft)
  /\ copy' = [copy EXCEPT ![a] = row']
  /\ hazard' = hazard \cup RestartHazards(a)
  /\ Goto(a, "check")
  /\ UNCHANGED <<clock, brokerVars, snapshot, draft, reply, reconcilerVars>>

(* Pre-trade check and risk policy, then markBrokerSubmitting: blocked, or  *)
(* the save throws (committed or not), or the broker is called.            *)
Check(a) ==
  /\ pc[a] = "check"
  /\ \/ Goto(a, "fail") /\ UNCHANGED <<row, copy>>
     \/ /\ row' = Submitting(copy[a])
        /\ copy' = [copy EXCEPT ![a] = row']
        /\ Goto(a, "send")
     \/ /\ row' \in {row, Submitting(copy[a])}
        /\ copy' = [copy EXCEPT ![a] = Submitting(copy[a])]
        /\ Goto(a, "fail")
  /\ UNCHANGED <<clock, brokerVars, snapshot, draft, reply, reconcilerVars, hazard>>

(* The adapter's createOrder leaves the process. *)
Send(a) ==
  /\ pc[a] = "send" /\ draft[a] \notin PaperDrafts
  /\ inFlight' = inFlight \cup {a}
  /\ Goto(a, "await")
  /\ UNCHANGED <<clock, row, placed, snapshot, draft, copy, reply, reconcilerVars, hazard>>

(* createPaperOrder: a local insert, which succeeds or throws. *)
CreatePaper(a) ==
  /\ pc[a] = "send" /\ draft[a] \in PaperDrafts
  /\ \/ placed' = placed \cup {a} /\ Goto(a, "complete")
     \/ Goto(a, "fail") /\ UNCHANGED placed
  /\ UNCHANGED <<clock, row, inFlight, snapshot, draft, copy, reply, reconcilerVars, hazard>>

(* The broker decides a call whether or not anybody still waits for it. *)
BrokerDecides(a) ==
  /\ a \in inFlight
  /\ inFlight' = inFlight \ {a}
  /\ \/ placed' = placed \cup {a}
     \/ UNCHANGED placed
  /\ UNCHANGED <<clock, row, snapshot, attemptVars, reconcilerVars, hazard>>

Answered(a) ==
  /\ pc[a] = "await" /\ a \in placed
  /\ Goto(a, "complete")
  /\ UNCHANGED <<clock, row, brokerVars, snapshot, draft, copy, reply, reconcilerVars, hazard>>

MutCallError(a) ==   \* the adapter sends a create-order call again
  /\ pc[a] = "await"
  /\ \/ Goto(a, "fail") /\ UNCHANGED inFlight
     \/ inFlight' = inFlight \cup {a} /\ UNCHANGED pc
  /\ UNCHANGED <<clock, row, placed, snapshot, draft, copy, reply, reconcilerVars, hazard>>

(* The adapter throws: the broker refused, the call timed out while it was  *)
(* still undecided, the answer was lost, or the adapter disliked an order   *)
(* the broker had already accepted.                                        *)
CallError(a) ==
  /\ pc[a] = "await"
  /\ Goto(a, "fail")
  /\ UNCHANGED <<clock, row, brokerVars, snapshot, draft, copy, reply, reconcilerVars, hazard>>

(* The broker's answer may carry no order id; a paper order never has one. *)
OrderIds(a) == IF draft[a] \in PaperDrafts THEN {None} ELSE {a, None}

(* markCompleted.  When the save throws (committed or not) the entity is     *)
(* changed all the same and the outer catch takes over.  What follows a     *)
(* successful save (protection alerts, events, linking, snapshots) swallows *)
(* its own errors.                                                         *)
Complete(a) ==
  /\ pc[a] = "complete"
  /\ \E id \in OrderIds(a) :
       LET saved == Completed(copy[a], a, id) IN
       \/ row' = saved /\ Answer(a, a)
       \/ /\ row' \in {row, saved}
          /\ copy' = [copy EXCEPT ![a] = saved]
          /\ Goto(a, "fail") /\ UNCHANGED reply
  /\ UNCHANGED <<clock, brokerVars, snapshot, draft, reconcilerVars, hazard>>

(* The outer catch: markFailed, whose own failure is only logged. *)
Fail(a) ==
  /\ pc[a] = "fail"
  /\ \/ row' = Failed(copy[a])
     \/ UNCHANGED row
  /\ End(a)
  /\ UNCHANGED <<clock, brokerVars, snapshot, draft, reply, reconcilerVars, hazard>>

Running == {"find", "create", "restart", "check", "send", "await", "complete", "fail"}

(* The process serving the attempt dies at any step, or the database fails  *)
(* before the handler owns the row; either way the row stays as it is.     *)
Crash(a) ==
  /\ pc[a] \in Running
  /\ End(a)
  /\ UNCHANGED <<clock, row, brokerVars, snapshot, draft, reply, reconcilerVars, hazard>>

-----------------------------------------------------------------------------
(* Reconciliation of completed rows with the scheduler's order snapshots *)

(* The orders scheduler stores what the broker lists. *)
SnapshotSync(o) ==
  /\ o \in placed \ snapshot
  /\ snapshot' = snapshot \cup {o}
  /\ UNCHANGED <<clock, row, brokerVars, attemptVars, reconcilerVars, hazard>>

Candidate(r) ==
  /\ r.status = "completed" /\ r.placement = "placed"
  /\ r.recon \in {"pending", "missing"}

(* listReconciliationCandidates, listReconciliationCandidatesByBrokerOrderIds *)
ReconcileRead(r) ==
  /\ rpc[r] = "idle"
  /\ row # NoRow /\ Candidate(row)
  /\ rcopy' = [rcopy EXCEPT ![r] = row]
  /\ rpc' = [rpc EXCEPT ![r] = "lookup"]
  /\ UNCHANGED <<clock, row, brokerVars, snapshot, attemptVars, hazard>>

MissingEligible(r) == clock >= r.completedAt + MissingAfter

MutReconcileWrite(r, state) ==   \* a column update of whatever the row is by now
  /\ row' = [row EXCEPT !.recon = state, !.updatedAt = clock]
  /\ rcopy' = [rcopy EXCEPT ![r] = NoRow]
  /\ rpc' = [rpc EXCEPT ![r] = "idle"]

(* markReconciliationMatched and markReconciliationMissing save the copy. *)
ReconcileWrite(r, state) ==
  /\ row' = [rcopy[r] EXCEPT !.recon = state, !.updatedAt = clock]
  /\ rcopy' = [rcopy EXCEPT ![r] = NoRow]
  /\ rpc' = [rpc EXCEPT ![r] = "idle"]

ReconcileStop(r) ==
  /\ rcopy' = [rcopy EXCEPT ![r] = NoRow]
  /\ rpc' = [rpc EXCEPT ![r] = "idle"]
  /\ UNCHANGED row

InSnapshot(r)  == rcopy[r].order \in snapshot
MarkMissing(r) == IF rcopy[r].recon = "missing" THEN ReconcileStop(r)
                                                ELSE ReconcileWrite(r, "missing")

ReconcileLookup(r) ==
  /\ rpc[r] = "lookup"
  /\ \/ InSnapshot(r) /\ ReconcileWrite(r, "matched")
     \/ ~InSnapshot(r) /\ ~MissingEligible(rcopy[r]) /\ ReconcileStop(r)
     \/ /\ ~InSnapshot(r) /\ MissingEligible(rcopy[r]) /\ rcopy[r].order = None
        /\ MarkMissing(r)
     \/ /\ ~InSnapshot(r) /\ MissingEligible(rcopy[r]) /\ rcopy[r].order # None
        /\ rpc' = [rpc EXCEPT ![r] = "synced"]
        /\ row' = [rcopy[r] EXCEPT !.updatedAt = clock]   \* recordLifecycleEvent
        /\ rcopy' = [rcopy EXCEPT ![r] = row']
  /\ UNCHANGED <<clock, brokerVars, snapshot, attemptVars, hazard>>

(* The second lookup, after the targeted orders sync. *)
ReconcileFinish(r) ==
  /\ rpc[r] = "synced"
  /\ \/ InSnapshot(r) /\ ReconcileWrite(r, "matched")
     \/ ~InSnapshot(r) /\ MarkMissing(r)
  /\ UNCHANGED <<clock, brokerVars, snapshot, attemptVars, hazard>>

-----------------------------------------------------------------------------
AttemptStep(a) ==
  \/ Find(a) \/ Create(a) \/ Restart(a) \/ Check(a)
  \/ Send(a) \/ CreatePaper(a) \/ BrokerDecides(a) \/ Answered(a) \/ CallError(a)
  \/ Complete(a) \/ Fail(a) \/ Crash(a) \/ SnapshotSync(a)

ReconcilerStep(r) == ReconcileRead(r) \/ ReconcileLookup(r) \/ ReconcileFinish(r)

Next ==
  \/ Tick
  \/ \E a \in Attempts : AttemptStep(a)
  \/ \E r \in Reconcilers : ReconcilerStep(r)

Spec == Init /\ [][Next]_vars

-----------------------------------------------------------------------------
(* Types: every row ever stored or held in memory is a row of the entity,   *)
(* and every attempt is at a step of createFuturesOrder.                   *)
TypeOK ==
  /\ clock \in 0..MaxClock
  /\ row \in Rows \cup {NoRow}
  /\ placed \subseteq Attempts /\ inFlight \subseteq Attempts
  /\ snapshot \subseteq Attempts
  /\ pc \in [Attempts -> Running \cup {"end"}]
  /\ draft \in [Attempts -> Drafts]
  /\ copy \in [Attempts -> Rows \cup {NoRow}]
  /\ reply \in [Attempts -> Attempts \cup {None}]
  /\ rpc \in [Reconcilers -> {"idle", "lookup", "synced"}]
  /\ rcopy \in [Reconcilers -> Rows \cup {NoRow}]
  /\ hazard \subseteq {"stale", "raced", "ambiguous"}

(* A response, fresh or replayed, names an order that exists and was placed *)
(* for the very draft the caller sent, whatever crashes, lost answers and   *)
(* overwritten rows came before (reconcileOrderSubmissionRequest replays    *)
(* responsePayload).                                                       *)
ReplyIsTrue ==
  \A a \in Attempts : reply[a] # None =>
     reply[a] \in placed /\ draft[reply[a]] = draft[a]

(* One key never carries two drafts to the broker, not even through the     *)
(* insert race or a restart: every call sent or decided has the draft the   *)
(* row was registered with (ORDER_IDEMPOTENCY_KEY_REUSED).                  *)
OneDraftPerKey ==
  \A a, b \in placed \cup inFlight : draft[a] = draft[b]

(* The key admits at most one order, ever, unless a restart was unguarded:  *)
(* of an attempt silent for StaleAfter, over a row changed since it was     *)
(* read, or after a failure whose order existed or could still appear.      *)
(* Those three are the exact price of the read-then-save protocol.          *)
OneOrderUnlessHazard ==
  hazard = {} => \A a, b \in placed \cup inFlight : a = b

(* A caller told "created" finds its order behind the key afterwards: no     *)
(* later failure, retry or reconciliation write loses it, short of a hazard *)
(* (markCompleted is saved before the response is returned).                *)
SuccessIsDurable ==
  \A a \in Attempts : (hazard = {} /\ reply[a] = a) =>
     row # NoRow /\ row.status = "completed" /\ row.response = a

(* A row is "matched" only while its broker order is in the snapshots:      *)
(* stale copies saved by attempts and reconcilers never mix the verdict of  *)
(* one order with the id of another (markReconciliationMatched).            *)
MatchedIsSeen ==
  (row # NoRow /\ row.recon = "matched") => row.order \in snapshot

(* Steps at which an attempt works on an order under the key. *)
Working(a) == pc[a] \in {"check", "send", "await", "complete"}

(* ORDER_SUBMISSION_IN_PROGRESS says "Wait for the current attempt to       *)
(* finish before retrying": two attempts that have both saved the row       *)
(* within the stale window should never be working on the key together.    *)
OneFreshAttempt ==
  \A a, b \in Attempts :
     (Working(a) /\ Working(b) /\ Fresh(copy[a]) /\ Fresh(copy[b])) => a = b

(* The order submission implements the promise of the key, step by step:    *)
(* createFuturesOrder calls for an order only when no other exists or may   *)
(* still appear, tells a caller once and of an order that is there, and     *)
(* nothing but an unguarded restart calls the promise off.                 *)
Promise == INSTANCE OrderPromise
           WITH open <- inFlight, made <- placed, told <- reply,
                void <- (hazard # {})
KeepsPromise == Promise!Spec
=============================================================================
