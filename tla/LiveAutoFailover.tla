-------------------------- MODULE LiveAutoFailover --------------------------
(***************************************************************************)
(* Automatic live execution of ONE suggested trade over its ranked broker  *)
(* routes: SuggestedTradesService.attemptAutoLiveExecutionForAutomation    *)
(* and attemptLiveAutoBrokerRoutes.                                        *)
(*                                                                         *)
(* The run tries the routes in rank order and goes on to the next one only *)
(* when it believes that the current one left no order.  What it believes  *)
(* comes from the adapter's answer or error and, when that is ambiguous,   *)
(* from one look at the account's orders and positions.  The broker is the *)
(* environment: it decides calls when it likes, also after the caller has  *)
(* timed out, and fills orders when it likes.  Every save of the execution *)
(* record may throw and the process may die between any two steps.         *)
(*                                                                         *)
(* A route is its rank.  A route's order is named by the route.            *)
(*                                                                         *)
(* The operators named Mut... are faulty variants of the definition that   *)
(* follows them, each with a slip the code could have; no specification    *)
(* uses them.                                                              *)
(***************************************************************************)
EXTENDS Integers

CONSTANTS
  MaxRoutes, \* bound on the number of route candidates
  Keyed,     \* routes whose adapter sends and lists the client order id (Delta Exchange)
  None

ASSUME FailoverAssumption ==
  /\ MaxRoutes \in Nat \ {0}
  /\ Keyed \subseteq 1..MaxRoutes
  /\ None \notin 1..MaxRoutes

Route == 1..MaxRoutes

VARIABLES
  last,       \* number of route candidates of this run
  enabled,    \* adaptive routing places orders: no shadow mode, execution enabled
  pc,         \* step of the run
  route,      \* index of the loop over the candidates
  attempts,   \* routeAttempts in memory: status per route
  exec,       \* the suggested_trade_executions row
  original,   \* the row as the trade object of the caller last saw it,
              \* or None while the loop still works on that very object
  class,      \* failureClassification of the error being handled
  outcome,    \* what the caller is told
  orders,     \* routes whose broker has accepted an order
  undecided,  \* routes whose broker still holds an undecided call
  filled,     \* accepted orders that have become positions
  foreign,    \* routes whose account holds another position that looks the same
  confirmed,  \* history: routes whose broker's acceptance reached the adapter
  hazard      \* history: ways the run has misjudged a route, or failed to save

setup == <<last, enabled>>
brokerVars == <<orders, undecided, filled, foreign>>
vars == <<last, enabled, pc, route, attempts, exec, original, class, outcome,
          orders, undecided, filled, foreign, confirmed, hazard>>

Statuses == {"none", "pre_trade_blocked", "pending", "submitting", "placed",
             "failed", "manual_review"}
States == {"none", "rejected", "queued", "submitting", "failed", "linked", "filled"}
Records == [state : States, order : Route \cup {None}, attempts : [Route -> Statuses]]

Record(state, order, atts) == [state |-> state, order |-> order, attempts |-> atts]
NoAttempts == [r \in Route |-> "none"]

(* hasExecutionTracking *)
Tracked(e) == e.order # None \/ e.state # "none"

Exposed == orders \cup undecided

Init ==
  /\ last \in Route /\ enabled \in BOOLEAN
  /\ pc = "start" /\ route = 1
  /\ attempts = NoAttempts
  /\ exec = Record("none", None, NoAttempts)
  /\ original = None
  /\ class = None /\ outcome = None
  /\ orders = {} /\ undecided = {} /\ filled = {}
  /\ foreign \in SUBSET Route
  /\ confirmed = {} /\ hazard = {}

-----------------------------------------------------------------------------
(* Saving the execution row *)

Goto(step)  == pc' = step /\ UNCHANGED outcome
Return(out) == pc' = "end" /\ outcome' = out
Mark(r, st) == attempts' = [attempts EXCEPT ![r] = st]

(* persistExecutionState; the row is replaced as a whole. *)
Save(state, order) == exec' = Record(state, order, attempts')

(* A save that throws leaves the loop for the catch of the caller. *)
SaveThrows ==
  /\ Goto("abort")
  /\ hazard' = hazard \cup {"db"}
  /\ UNCHANGED exec

MutNextRoute ==   \* the index is not advanced
  IF route < last THEN UNCHANGED route /\ Goto("gate")
                    ELSE Goto("exhausted") /\ UNCHANGED route

(* On to the next candidate, or out of the loop. *)
NextRoute ==
  IF route < last THEN route' = route + 1 /\ Goto("gate")
                    ELSE Goto("exhausted") /\ UNCHANGED route

-----------------------------------------------------------------------------
(* The tracking, policy, freshness, duplicate-asset and limit checks that   *)
(* stand before the first gate either end the call or let it through.      *)
Start ==
  /\ pc = "start"
  /\ \/ ~Tracked(exec) /\ Goto("gate")
     \/ Return("skipped")
  /\ UNCHANGED <<setup, route, attempts, exec, original, class, brokerVars, confirmed, hazard>>

(* runPreTradeGate / createLiveAutoRouteGate and prepareLiveAutoRoute: the   *)
(* gate re-saves the fields it found.  One blocked candidate ends the run; *)
(* of several, a blocked or unusable one is recorded and passed over.      *)
Gate ==
  /\ pc = "gate"
  /\ \/ Goto("queue") /\ UNCHANGED <<route, attempts, exec, hazard>>
     \/ last = 1 /\ Return("blocked") /\ UNCHANGED <<route, attempts, exec, hazard>>
     \/ \E pass \in {<<"rejected", "pre_trade_blocked">>, <<"failed", "failed">>} :
          /\ Mark(route, pass[2])
          /\ \/ Save(pass[1], None) /\ NextRoute /\ UNCHANGED hazard
             \/ SaveThrows /\ UNCHANGED route
     \/ SaveThrows /\ UNCHANGED <<route, attempts>>
  /\ UNCHANGED <<setup, original, class, brokerVars, confirmed>>

(* Shadow routing, or execution not enabled: the run stops before any call, *)
(* re-saving what the gate found.                                          *)
Ready ==
  /\ pc = "queue" /\ ~enabled
  /\ UNCHANGED attempts
  /\ \/ Save(exec.state, None) /\ Return("ready") /\ UNCHANGED hazard
     \/ SaveThrows
  /\ UNCHANGED <<setup, route, original, class, brokerVars, confirmed>>

(* Accept the trade and save the queued execution.  The reload that follows *)
(* gives the loop a trade object of its own; the one that the outer catch   *)
(* will use stays as it is from here on.                                   *)
Queue ==
  /\ pc = "queue" /\ enabled
  /\ Mark(route, "pending")
  /\ \/ /\ Save("queued", None)
        /\ original' = IF original = None THEN exec' ELSE original
        /\ Goto("submit") /\ UNCHANGED hazard
     \/ SaveThrows /\ UNCHANGED original
  /\ UNCHANGED <<setup, route, class, brokerVars, confirmed>>

Submit ==
  /\ pc = "submit"
  /\ Mark(route, "submitting")
  /\ \/ Save("submitting", None) /\ Goto("call") /\ UNCHANGED hazard
     \/ SaveThrows
  /\ UNCHANGED <<setup, route, original, class, brokerVars, confirmed>>

(* handler.createOrder (createFuturesOrder): its own checks may throw, with *)
(* no code that the classification knows, before the broker is called.     *)
Call ==
  /\ pc = "call"
  /\ \/ undecided' = undecided \cup {route} /\ Goto("await") /\ UNCHANGED class
     \/ class' = "ambiguous" /\ Goto("failing") /\ UNCHANGED undecided
  /\ UNCHANGED <<setup, route, attempts, exec, original, orders, filled, foreign, confirmed, hazard>>

(* The answer names the order.  createFuturesOrder links the trade to it,   *)
(* unless its own gate or the save fails, which it only logs.              *)
Answered ==
  /\ pc = "await" /\ route \in orders
  /\ confirmed' = confirmed \cup {route}
  /\ \/ UNCHANGED exec
     \/ exec' = [exec EXCEPT !.state = "linked", !.order = route]
  /\ Goto("linking")
  /\ UNCHANGED <<setup, route, attempts, original, class, brokerVars, hazard>>

(* An answer without an order id is turned into an ambiguous failure. *)
AnsweredWithoutId ==
  /\ pc = "await" /\ route \in orders
  /\ confirmed' = confirmed \cup {route}
  /\ class' = "ambiguous"
  /\ Goto("failing")
  /\ UNCHANGED <<setup, route, attempts, exec, original, brokerVars, hazard>>

(* The broker refused: classifyLiveAutoRouteFailure knows some codes. *)
Refused ==
  /\ pc = "await" /\ route \notin Exposed
  /\ class' \in {"confirmed_no_order", "ambiguous"}
  /\ Goto("failing")
  /\ UNCHANGED <<setup, route, attempts, exec, original, brokerVars, confirmed, hazard>>

(* Time-out, broken connection: nobody knows what the broker did or will do. *)
NoAnswer ==
  /\ pc = "await"
  /\ class' = "ambiguous"
  /\ Goto("failing")
  /\ UNCHANGED <<setup, route, attempts, exec, original, brokerVars, confirmed, hazard>>

(* The broker accepted, the adapter saw it, and threw all the same: the      *)
(* leverage check of MudrexOrdersAdapter.createOrder and the native SL/TP   *)
(* placement of DeltaExchangeOrdersAdapter.createOrder throw a               *)
(* BadRequestAppError, which normalizeCreateOrderError gives a code of the  *)
(* "no order" list (or, by its wording, an ambiguous one).                 *)
AcceptedThenThrown ==
  /\ pc = "await" /\ route \in orders
  /\ confirmed' = confirmed \cup {route}
  /\ class' \in {"confirmed_no_order", "ambiguous"}
  /\ Goto("failing")
  /\ UNCHANGED <<setup, route, attempts, exec, original, brokerVars, hazard>>

MutLinking ==   \* the attempt stays "submitting"
  /\ pc = "linking"
  /\ UNCHANGED attempts
  /\ \/ Save("linked", route) /\ Return("placed") /\ UNCHANGED <<class, hazard>>
     \/ /\ class' = "ambiguous" /\ Goto("failing")
        /\ hazard' = hazard \cup {"db"}
        /\ UNCHANGED exec
  /\ UNCHANGED <<setup, route, original, brokerVars, confirmed>>

(* persistSuccessfulLiveAutoRoute; a save that throws lands in the inner     *)
(* catch as an ambiguous failure of a call that succeeded.                 *)
Linking ==
  /\ pc = "linking"
  /\ Mark(route, "placed")
  /\ \/ Save("linked", route) /\ Return("placed") /\ UNCHANGED <<class, hazard>>
     \/ /\ class' = "ambiguous" /\ Goto("failing")
        /\ hazard' = hazard \cup {"db"}
        /\ UNCHANGED exec
  /\ UNCHANGED <<setup, route, original, brokerVars, confirmed>>

(* The inner catch: the failed attempt is saved; a "no order" class goes to *)
(* the next route at once.                                                 *)
Failing ==
  /\ pc = "failing"
  /\ Mark(route, IF class = "ambiguous" THEN "manual_review" ELSE "failed")
  /\ \/ /\ Save("failed", None)
        /\ IF class = "confirmed_no_order"
           THEN /\ NextRoute
                /\ hazard' = IF route \in Exposed THEN hazard \cup {"misreported"}
                                                  ELSE hazard
           ELSE Goto("reconcile") /\ UNCHANGED <<route, hazard>>
     \/ SaveThrows /\ UNCHANGED route
  /\ UNCHANGED <<setup, original, class, brokerVars, confirmed>>

MutCanFindOrder == route \in Keyed   \* any order listed will do

(* reconcileLiveAutoAmbiguousRoute: one look at orders and positions.  The   *)
(* order list counts as checked when either of its two reads succeeded, so  *)
(* an order may be missed; an order can only be recognised by its key.     *)
CanFindOrder    == route \in orders \cap Keyed
CanFindPosition == route \in filled \cup foreign

Reconcile ==
  /\ pc = "reconcile"
  /\ \/ CanFindOrder /\ Mark(route, "placed") /\ Goto("found_order") /\ UNCHANGED hazard
     \/ CanFindPosition /\ Mark(route, "placed") /\ Goto("found_position") /\ UNCHANGED hazard
     \/ /\ ~CanFindPosition      \* both looks succeeded, nothing matched
        /\ Mark(route, "failed") /\ Goto("cleared")
        /\ hazard' = IF route \in Exposed THEN hazard \cup {"unseen"} ELSE hazard
     \/ Mark(route, "manual_review") /\ Goto("review") /\ UNCHANGED hazard
  /\ UNCHANGED <<setup, route, exec, original, class, brokerVars, confirmed>>

MutCleared ==   \* the record is reset for the next route
  /\ pc = "cleared"
  /\ UNCHANGED attempts
  /\ \/ Save("none", None) /\ NextRoute /\ UNCHANGED hazard
     \/ SaveThrows /\ UNCHANGED route
  /\ UNCHANGED <<setup, original, class, brokerVars, confirmed>>

Cleared ==
  /\ pc = "cleared"
  /\ UNCHANGED attempts
  /\ \/ Save("failed", None) /\ NextRoute /\ UNCHANGED hazard
     \/ SaveThrows /\ UNCHANGED route
  /\ UNCHANGED <<setup, original, class, brokerVars, confirmed>>

MutFound ==   \* no return after the save
  /\ pc \in {"found_order", "found_position"}
  /\ UNCHANGED attempts
  /\ \/ Save("filled", None) /\ NextRoute /\ UNCHANGED hazard
     \/ SaveThrows /\ UNCHANGED route
  /\ UNCHANGED <<setup, original, class, brokerVars, confirmed>>

(* persistReconciledLiveAutoOrderRoute and ...PositionRoute *)
Found ==
  /\ pc \in {"found_order", "found_position"}
  /\ UNCHANGED attempts
  /\ \/ /\ \/ pc = "found_order" /\ \E st \in {"linked", "filled"} : Save(st, route)
           \/ pc = "found_position" /\ Save("filled", None)
        /\ Return("placed") /\ UNCHANGED hazard
     \/ SaveThrows
  /\ UNCHANGED <<setup, route, original, class, brokerVars, confirmed>>

MutReview ==   \* no return after the save
  /\ pc = "review"
  /\ UNCHANGED attempts
  /\ \/ Save("failed", None) /\ NextRoute /\ UNCHANGED hazard
     \/ SaveThrows /\ UNCHANGED route
  /\ UNCHANGED <<setup, original, class, brokerVars, confirmed>>

Review ==
  /\ pc = "review"
  /\ UNCHANGED attempts
  /\ \/ Save("failed", None) /\ Return("failed") /\ UNCHANGED hazard
     \/ SaveThrows
  /\ UNCHANGED <<setup, route, original, class, brokerVars, confirmed>>

(* Every candidate has been passed over. *)
Exhausted ==
  /\ pc = "exhausted"
  /\ UNCHANGED attempts
  /\ IF last = 1 /\ attempts[route] = "pre_trade_blocked"
     THEN Return("blocked") /\ UNCHANGED <<exec, hazard>>
     ELSE \/ Save("failed", exec.order) /\ Return("failed") /\ UNCHANGED hazard
          \/ SaveThrows
  /\ UNCHANGED <<setup, route, original, class, brokerVars, confirmed>>

(* The outer catch saves "failed" over what ITS trade object knows; a       *)
(* second failure goes to the caller.                                      *)
Abort ==
  /\ pc = "abort"
  /\ \/ exec' = [(IF original = None THEN exec ELSE original) EXCEPT !.state = "failed"]
     \/ UNCHANGED exec
  /\ Return("failed")
  /\ UNCHANGED <<setup, route, attempts, original, class, brokerVars, confirmed, hazard>>

Crash ==
  /\ pc \notin {"end", "crashed"}
  /\ Goto("crashed")
  /\ UNCHANGED <<setup, route, attempts, exec, original, class, brokerVars, confirmed, hazard>>

-----------------------------------------------------------------------------
(* The broker *)

Accept(r) ==
  /\ r \in undecided
  /\ undecided' = undecided \ {r} /\ orders' = orders \cup {r}
  /\ UNCHANGED <<setup, pc, route, attempts, exec, original, class, outcome,
                 filled, foreign, confirmed, hazard>>

Reject(r) ==
  /\ r \in undecided
  /\ undecided' = undecided \ {r}
  /\ UNCHANGED <<setup, pc, route, attempts, exec, original, class, outcome,
                 orders, filled, foreign, confirmed, hazard>>

Fill(r) ==
  /\ r \in orders \ filled
  /\ filled' = filled \cup {r}
  /\ UNCHANGED <<setup, pc, route, attempts, exec, original, class, outcome,
                 orders, undecided, foreign, confirmed, hazard>>

-----------------------------------------------------------------------------
Run ==
  \/ Start \/ Gate \/ Ready \/ Queue \/ Submit \/ Call
  \/ Answered \/ AnsweredWithoutId \/ Refused \/ NoAnswer \/ AcceptedThenThrown
  \/ Linking \/ Failing \/ Reconcile \/ Cleared \/ Found \/ Review \/ Exhausted \/ Abort

Next ==
  \/ Run \/ Crash
  \/ \E r \in Route : Accept(r) \/ Reject(r) \/ Fill(r)

Spec == Init /\ [][Next]_vars

(* Every await of the run ends: broker requests are cut off by             *)
(* env.http.requestTimeoutMs and a database call returns or throws.        *)
FairSpec == Spec /\ WF_vars(Run)

-----------------------------------------------------------------------------
Steps == {"start", "gate", "queue", "submit", "call", "await", "linking", "failing",
          "reconcile", "cleared", "found_order", "found_position", "review",
          "exhausted", "abort", "end", "crashed"}

TypeOK ==
  /\ last \in Route /\ enabled \in BOOLEAN
  /\ pc \in Steps
  /\ route \in 1..last
  /\ attempts \in [Route -> Statuses]
  /\ exec \in Records
  /\ original \in Records \cup {None}
  /\ class \in {None, "confirmed_no_order", "ambiguous"}
  /\ outcome \in {None, "skipped", "blocked", "ready", "placed", "failed"}
  /\ orders \subseteq Route /\ undecided \subseteq Route
  /\ filled \subseteq orders /\ foreign \subseteq Route
  /\ confirmed \subseteq orders
  /\ hazard \subseteq {"misreported", "unseen", "db"}

Misjudged == hazard \cap {"misreported", "unseen"} # {}

(* The trade gets at most one live order, accepted or still possible, over  *)
(* all its routes, unless the run misjudged a route in one of two ways: the *)
(* adapter reported an order that exists (or may) as certainly absent, or   *)
(* reconciliation saw no trace of it.  Crashes and failed saves alone never *)
(* double the exposure.                                                    *)
OneOrderUnlessMisjudged ==
  ~Misjudged => \A r, s \in Exposed : r = s

(* No route is called while the saved record leaves an earlier one in doubt *)
(* (pending, submitting, placed or up for manual review): whoever reads the *)
(* record sees every earlier route settled.  Doc: "If reconciliation cannot *)
(* prove that, stop failover and mark the trade for manual review".        *)
NoCallPastDoubt ==
  [][undecided' \subseteq undecided \/
     \A r \in Route : r < route => exec.attempts[r] \in {"failed", "pre_trade_blocked"}]_vars

(* Exposure is written ahead: as soon as the broker may hold an order, and  *)
(* whatever dies or fails to save later, the record shows an execution      *)
(* state, so the tracking check refuses to start a second execution.       *)
TrackedBeforeExposure ==
  Exposed # {} => Tracked(exec)

(* A run that returns (no failed save, no misjudgement) leaves no order, or *)
(* undecided call, unspoken for: its route is recorded as placed, with the  *)
(* execution linked or filled, or it is up for manual review.              *)
ExposureIsFlagged ==
  (pc = "end" /\ hazard = {}) =>
     \A r \in Exposed :
        \/ exec.attempts[r] = "manual_review"
        \/ exec.attempts[r] = "placed" /\ exec.state \in {"linked", "filled"}

(* What the record claims is there: a linked order exists, and "filled"     *)
(* means a position, though it may be one that only looks like ours.       *)
ClaimIsReal ==
  /\ exec.order # None => exec.order \in orders
  /\ (exec.state = "filled" /\ exec.order = None) => filled \cup foreign # {}

(* The doc's non-negotiable rule: "Never create more than one confirmed      *)
(* live order for the same suggested trade." (live-auto broker failover,    *)
(* Safety Invariants), about orders whose acceptance the program has been told.  *)
OneConfirmedOrder ==
  \A r, s \in confirmed : r = s

(* "Every failed route must be visible in logs and execution metadata" (the  *)
(* same doc): a route once recorded as passed over stays recorded so.       *)
FailedRoutesStayVisible ==
  [][\A r \in Route :
        exec.attempts[r] \in {"failed", "pre_trade_blocked"} =>
        exec'.attempts[r] = exec.attempts[r]]_vars

(* Every run ends with an outcome for the automation, or dies. *)
Terminates == <>(pc \in {"end", "crashed"})
=============================================================================
