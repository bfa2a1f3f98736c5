--------------------------- MODULE TradeExecution ---------------------------
(***************************************************************************)
(* One suggested trade after it was generated: its review status and the   *)
(* execution record that names its order, SuggestedTradesService.          *)
(*                                                                         *)
(* Four kinds of actors read both rows, wait for something, and save a     *)
(* whole row again without looking at what it has become: users who review *)
(* or dismiss the trade, requests that have placed an order and now link   *)
(* it, the automation that queues and submits its own order, and refreshes *)
(* of the record from the snapshots of orders and positions.  The          *)
(* snapshots follow the broker late, and a listing may be stored after the *)
(* orders in it have changed.                                              *)
(*                                                                         *)
(* An order is named by the request that places it.  Of the automation's   *)
(* broker routes only the one that succeeds is followed; LiveAutoFailover  *)
(* has the others.  Partial fills, protection orders and the fields only   *)
(* shown to users are left out.                                            *)
(*                                                                         *)
(* The operators named Mut... are faulty variants of the definition that   *)
(* follows them, each with a slip the code could have; no specification    *)
(* uses them.                                                              *)
(***************************************************************************)
EXTENDS Naturals

CONSTANTS
  Orders,        \* requests that place an order for the trade
  PaperOrders,   \* those of them that place a paper order
  AutoOrders,    \* those of them made by the automation
  Users,         \* users' status requests being handled
  Refreshers,    \* refreshes of the execution record being handled
  None           \* null

ASSUME TradeAssumption ==
  /\ PaperOrders \subseteq Orders /\ AutoOrders \subseteq Orders \ PaperOrders
  /\ None \notin Orders

VARIABLES
  status,     \* suggested_trades.status
  exec,       \* the suggested_trade_executions row
  truth,      \* what has become of each order where it is kept
  snap,       \* order status in scheduler_orders_snapshots, live orders
  newer,      \* live orders whose snapshot was stored after the last expiry
  position,   \* status in scheduler_positions_snapshots of the order's position
  sim, pcopy, \* paper orders: executionState in the payload, a copy of the row in use
  lpc, lcopy, \* step of each linking request and its copy of the record
  auto,       \* the automation's trade: status as read, record as last saved
  upc, ucopy, want,             \* step, copies and wish of each user's request
  rpc, rcopy, rnext, mode,      \* step, copy, result and kind of each refresh
  dismissed,  \* history: a user was told that the trade is dismissed
  named,      \* history: the orders the record has named
  hazard      \* history: which unguarded things have happened

tradeVars == <<status, exec>>
brokerVars == <<truth, snap, newer, position, sim, pcopy>>
linkVars == <<lpc, lcopy, auto>>
userVars == <<upc, ucopy, want>>
refreshVars == <<rpc, rcopy, rnext, mode>>
history == <<dismissed, named, hazard>>
vars == <<status, exec, truth, snap, newer, position, sim, pcopy, lpc, lcopy, auto, upc, ucopy, want,
          rpc, rcopy, rnext, mode, dismissed, named, hazard>>

LiveOrders == Orders \ PaperOrders

-----------------------------------------------------------------------------
(* The rows *)

Statuses == {"Open", "Reviewed", "Accepted", "Dismissed"}
Ended == {"cancelled", "expired", "failed"}      \* without a fill
Terminal == Ended \cup {"closed"}                \* TERMINAL_EXECUTION_STATES
States == Terminal \cup {"queued", "submitting", "linked", "working", "filled", "unknown"}

Execs == [order : Orders \cup {None},            \* orderId or paperOrderId
          state : States \cup {None},            \* executionState
          shown : {None, "open", "filled", "closed", "cancelled", "expired"},  \* orderStatus
          fill  : BOOLEAN]                       \* filledAt or filledQuantity

PaperCopies == [status : {"open", "filled", "closed", "cancelled"},
                state  : {None, "working", "filled", "closed"}]

ASSUME NullAssumption == None \notin States \cup {"open"} \cup PaperCopies

NoExec == [order |-> None, state |-> None, shown |-> None, fill |-> FALSE]

Tracked(e) == e.order # None \/ e.state # None
FillEvidence(e) == e.fill \/ e.state = "filled" \/ e.shown \in {"filled", "closed"}
UnfilledTerminal(e) ==
  ~FillEvidence(e) /\ (e.state \in Ended \/ e.shown \in {"cancelled", "expired"})
ActiveUnfilled(e) == e.shown = "open" /\ ~FillEvidence(e)

(* saveSuggestedTradeExecution writes the whole row, which whoever saves    *)
(* has last known as base.                                                 *)
SaveExec(e) ==
  /\ exec' = e
  /\ named' = IF e.order = None THEN named ELSE named \cup {e.order}
Lost(base) == IF exec # base THEN {"lost"} ELSE {}

NoTrade == [status |-> "Open", exec |-> NoExec]

Init ==
  /\ status = "Open" /\ exec = NoExec
  /\ truth = [o \in Orders |-> "none"]
  /\ snap = [o \in LiveOrders |-> "none"] /\ newer = {}
  /\ position = [o \in LiveOrders |-> "none"]
  /\ sim = [o \in PaperOrders |-> None] /\ pcopy = [o \in PaperOrders |-> None]
  /\ lpc = [o \in Orders |-> "start"]
  /\ lcopy = [o \in Orders |-> NoExec]
  /\ auto = [o \in AutoOrders |-> NoTrade]
  /\ upc = [u \in Users |-> "idle"]
  /\ ucopy = [u \in Users |-> NoTrade]
  /\ want = [u \in Users |-> "Reviewed"]
  /\ rpc = [r \in Refreshers |-> "idle"]
  /\ rcopy = [r \in Refreshers |-> NoExec]
  /\ rnext = [r \in Refreshers |-> NoExec]
  /\ mode = [r \in Refreshers |-> "orders"]
  /\ dismissed = FALSE /\ named = {} /\ hazard = {}

Here == [status |-> status, exec |-> exec]      \* the trade with its record, as read

-----------------------------------------------------------------------------
(* updateSuggestedTradeStatus *)

UserAt(u, step) == upc' = [upc EXCEPT ![u] = step]
UserDone(u) ==
  /\ UserAt(u, "idle")
  /\ ucopy' = [ucopy EXCEPT ![u] = NoTrade]
  /\ want' = [want EXCEPT ![u] = "Reviewed"]

MutAllowed(c, next) ==   \* a linked execution is not looked at
  CASE next = "Reviewed"  -> c.status = "Open"
    [] next = "Accepted"  -> c.status \in {"Open", "Reviewed"}
    [] next = "Dismissed" -> c.status \in {"Open", "Reviewed", "Accepted"}

(* assertStatusTransitionAllowed *)
Allowed(c, next) ==
  CASE next = "Reviewed"  -> c.status = "Open"
    [] next = "Accepted"  -> c.status \in {"Open", "Reviewed"}
    [] next = "Dismissed" -> \/ c.status \in {"Open", "Reviewed"}
                             \/ c.status = "Accepted" /\ ~Tracked(c.exec)

(* A trade that already has the status, or cannot take it, ends the request. *)
UserRead(u) ==
  /\ upc[u] = "idle"
  /\ \E next \in {"Reviewed", "Accepted", "Dismissed"} :
       /\ status # next /\ Allowed(Here, next)
       /\ want' = [want EXCEPT ![u] = next]
       /\ UserAt(u, IF next = "Accepted" THEN "gate" ELSE "status")
  /\ ucopy' = [ucopy EXCEPT ![u] = Here]
  /\ UNCHANGED <<tradeVars, brokerVars, linkVars, refreshVars, history>>

(* runPreTradeGate stores the verdict with the record as it was read. *)
UserGate(u) ==
  /\ upc[u] = "gate"
  /\ SaveExec(ucopy[u].exec)
  /\ hazard' = hazard \cup Lost(ucopy[u].exec)
  /\ \/ UserAt(u, "status") /\ UNCHANGED <<ucopy, want>>
     \/ UserDone(u)
  /\ UNCHANGED <<status, brokerVars, linkVars, refreshVars, dismissed>>

(* The trade was not what the save takes it to be: another status, or, for  *)
(* a dismissal, a record that has come to life.                            *)
Overtaken(c, next) ==
  IF \/ status # c.status
     \/ next = "Dismissed" /\ Tracked(exec) /\ ~Tracked(c.exec)
  THEN {"overtaken"} ELSE {}

UserSave(u) ==
  /\ upc[u] = "status"
  /\ status' = want[u]
  /\ hazard' = hazard \cup Overtaken(ucopy[u], want[u])
  /\ dismissed' = (dismissed \/ want[u] = "Dismissed")
  /\ IF want[u] = "Accepted" THEN UserAt(u, "exec") /\ UNCHANGED <<ucopy, want>> ELSE UserDone(u)
  /\ UNCHANGED <<exec, brokerVars, linkVars, refreshVars, named>>

(* acceptedBy, acceptedAt *)
UserAccepted(u) ==
  /\ upc[u] = "exec"
  /\ SaveExec(ucopy[u].exec)
  /\ hazard' = hazard \cup Lost(ucopy[u].exec)
  /\ UserDone(u)
  /\ UNCHANGED <<status, brokerVars, linkVars, refreshVars, dismissed>>

-----------------------------------------------------------------------------
(* Placing an order for the trade and linking it *)

LinkAt(o, step) == lpc' = [lpc EXCEPT ![o] = step]
Holding(o, e) == lcopy' = [lcopy EXCEPT ![o] = e]
LinkEnd(o) == LinkAt(o, IF o \in AutoOrders THEN "linked" ELSE "end") /\ Holding(o, NoExec)

(* The automation takes a trade whose record is not tracked; it does not    *)
(* look at the status.                                                     *)
AutoRead(o) ==
  /\ o \in AutoOrders /\ lpc[o] = "start"
  /\ ~Tracked(exec)
  /\ auto' = [auto EXCEPT ![o] = Here]
  /\ LinkAt(o, "check")
  /\ UNCHANGED <<tradeVars, brokerVars, lcopy, userVars, refreshVars, history>>

AutoForget(o) == auto' = [auto EXCEPT ![o] = NoTrade]

(* The pre-trade gate of the automation.  A route decision goes into the    *)
(* trade's row, which is saved with the status as it was read.             *)
AutoGate(o) ==
  /\ lpc[o] = "check"
  /\ status' \in {status, auto[o].status}
  /\ SaveExec(auto[o].exec)
  /\ hazard' = hazard \cup Lost(auto[o].exec)
                \cup (IF status' # status THEN {"overtaken"} ELSE {})
  /\ \/ LinkAt(o, "accept") /\ UNCHANGED auto
     \/ LinkAt(o, "end") /\ AutoForget(o)
  /\ UNCHANGED <<brokerVars, lcopy, userVars, refreshVars, dismissed>>

(* acceptLiveAutoTradeForRoute *)
AutoAccept(o) ==
  /\ lpc[o] = "accept"
  /\ status' = IF auto[o].status = "Accepted" THEN status ELSE "Accepted"
  /\ hazard' = hazard \cup (IF status = "Dismissed" THEN {"overtaken"} ELSE {})
  /\ LinkAt(o, "queued")
  /\ UNCHANGED <<exec, brokerVars, lcopy, auto, userVars, refreshVars, dismissed, named>>

(* The record on its way to the broker: queued, then submitting. *)
AutoRecord(o) ==
  /\ lpc[o] \in {"queued", "submitting"}
  /\ LET next == [auto[o].exec EXCEPT !.state = lpc[o]] IN
     /\ SaveExec(next)
     /\ auto' = [auto EXCEPT ![o].exec = next]
  /\ hazard' = hazard \cup Lost(auto[o].exec)
  /\ LinkAt(o, IF lpc[o] = "queued" THEN "submitting" ELSE "place")
  /\ UNCHANGED <<status, brokerVars, lcopy, userVars, refreshVars, dismissed>>

(* createFuturesOrder succeeds; a failed one leaves no trace here. *)
Place(o) ==
  /\ \/ o \notin AutoOrders /\ lpc[o] = "start"
     \/ lpc[o] = "place"
  /\ truth' = [truth EXCEPT ![o] = "open"]
  /\ LinkAt(o, "read") /\ Holding(o, NoExec)
  /\ UNCHANGED <<tradeVars, snap, newer, position, sim, pcopy, auto, userVars, refreshVars, history>>

MutConflicts(o, e) == FALSE       \* an order already linked is not looked at

(* assertOrderLinkAllowed compares orders of one kind only. *)
Conflicts(o, e) ==
  /\ e.order # None /\ e.order # o
  /\ (e.order \in PaperOrders) = (o \in PaperOrders)

(* linkSuggestedTradeOrder: refusals are swallowed by createFuturesOrder. *)
LinkRead(o) ==
  /\ lpc[o] = "read"
  /\ IF status = "Accepted" /\ ~Conflicts(o, exec)
     THEN LinkAt(o, "gate") /\ Holding(o, exec) ELSE LinkEnd(o)
  /\ UNCHANGED <<tradeVars, brokerVars, auto, userVars, refreshVars, history>>

LinkGate(o) ==
  /\ lpc[o] = "gate"
  /\ SaveExec(lcopy[o])
  /\ hazard' = hazard \cup Lost(lcopy[o])
  /\ \/ LinkAt(o, "link") /\ UNCHANGED lcopy
     \/ LinkEnd(o)
  /\ UNCHANGED <<status, brokerVars, auto, userVars, refreshVars, dismissed>>

(* The broker's answer may have had no order id; the record then has none. *)
LinkIds(o) == IF o \in PaperOrders THEN {o} ELSE {o, None}

(* Nor need it have a status, and it may be that of an order filled at      *)
(* once; a paper order is linked without one.                              *)
LinkShown(o, e) ==
  IF o \in PaperOrders THEN {e.shown}
  ELSE {e.shown, "open"} \cup (IF truth[o] \in {"filled", "closed"} THEN {"closed"} ELSE {})

LinkedRecord(e, id, shown) ==
  [e EXCEPT !.order = id, !.state = IF id = None THEN None ELSE "linked", !.shown = shown]

(* The record named an order of the other kind, or comes to name none; the  *)
(* trade may have been dismissed since it was read.                        *)
Relinked(o, id) ==
     (IF lcopy[o].order # None /\ (id = None \/ ((id \in PaperOrders) # (lcopy[o].order \in PaperOrders)))
      THEN {"relinked"} ELSE {})
  \cup (IF status # "Accepted" THEN {"overtaken"} ELSE {})

(* A fill of something else stays in a record that comes to name the order. *)
Inherited(base, id) ==
  IF id \notin {None, base.order} /\ FillEvidence(base) THEN {"inherited"} ELSE {}

Link(o) ==
  /\ lpc[o] = "link"
  /\ \E id \in LinkIds(o), shown \in LinkShown(o, lcopy[o]) :
       /\ SaveExec(LinkedRecord(lcopy[o], id, shown))
       /\ hazard' = hazard \cup Lost(lcopy[o]) \cup Relinked(o, id) \cup Inherited(lcopy[o], id)
  /\ LinkEnd(o)
  /\ UNCHANGED <<status, brokerVars, auto, userVars, refreshVars, dismissed>>

(* persistSuccessfulLiveAutoRoute saves the record it submitted with, now   *)
(* linked, whatever the linking request has made of the record, and        *)
(* whatever has become of the trade.  Without an order id it throws.       *)
AutoLinked(o) ==
  LET base == auto[o].exec
      Linked == { LinkedRecord(base, o, shown) : shown \in LinkShown(o, base) } IN
  /\ lpc[o] = "linked"
  /\ \/ /\ \E next \in Linked : SaveExec(next)
        /\ hazard' = hazard \cup (IF exec \notin {base} \cup Linked THEN {"lost"} ELSE {})
                      \cup (IF status # "Accepted" THEN {"overtaken"} ELSE {})
                      \cup Inherited(base, o)
     \/ UNCHANGED <<exec, named, hazard>>
  /\ LinkAt(o, "end") /\ AutoForget(o)
  /\ UNCHANGED <<status, brokerVars, lcopy, userVars, refreshVars, dismissed>>

-----------------------------------------------------------------------------
(* The broker and the snapshots of its listings *)

Fill(o) ==
  /\ truth[o] = "open"
  /\ truth' = [truth EXCEPT ![o] = "filled"]
  /\ UNCHANGED <<tradeVars, snap, newer, position, sim, pcopy, linkVars, userVars, refreshVars, history>>

Cancelled(o) ==
  /\ truth[o] = "open"
  /\ truth' = [truth EXCEPT ![o] = "cancelled"]
  /\ UNCHANGED <<tradeVars, snap, newer, position, sim, pcopy, linkVars, userVars, refreshVars, history>>

(* The position that came of the order is closed. *)
ClosePosition(o) ==
  /\ truth[o] = "filled"
  /\ truth' = [truth EXCEPT ![o] = "closed"]
  /\ UNCHANGED <<tradeVars, snap, newer, position, sim, pcopy, linkVars, userVars, refreshVars, history>>

(* What a sync may have fetched of an order.  Syncs overlap and store what  *)
(* they fetched any time later, so it can be any status the order has had; *)
(* an order that is over is in the history, or not yet, or no longer.      *)
Fetched(o) ==
  CASE truth[o] = "none" -> {"none"}
    [] truth[o] = "open" -> {"none", "open"}
    [] truth[o] = "cancelled" -> {"none", "open", "cancelled"}
    [] truth[o] \in {"filled", "closed"} -> {"none", "open", "filled"}

Rank(s) == CASE s = "none" -> 0 [] s = "open" -> 1 [] s = "filled" -> 3
             [] s \in {"closed", "cancelled"} -> 4

(* An active listing is authoritative and history only moves forward.  An   *)
(* order in neither, which the sync did not find seen since it started, is  *)
(* closed, or deleted when it was over; or it is tracked and left alone.    *)
Stored(o, seen) ==
  CASE seen = "open" -> {"open"}
    [] seen = "none" /\ truth[o] \in {"none", "open"} -> {snap[o]}
    [] seen = "none" /\ snap[o] \in {"open", "filled"} -> {snap[o], "closed", "none"}
    [] seen = "none" -> {snap[o], "none"}
    [] OTHER -> IF Rank(seen) >= Rank(snap[o]) THEN {seen} ELSE {snap[o]}

StoreOrder(o) ==
  \E seen \in Fetched(o) :
    /\ \E s \in Stored(o, seen) : snap' = [snap EXCEPT ![o] = s]
    /\ newer' = IF seen = "none" THEN newer ELSE newer \cup {o}
    /\ hazard' = hazard \cup
         (IF snap'[o] = "closed" /\ truth[o] = "cancelled" THEN {"unlisted"} ELSE {})
    /\ UNCHANGED <<tradeVars, truth, position, sim, pcopy, linkVars, userVars, refreshVars, dismissed, named>>

SeePosition(o) ==
  /\ truth[o] \in {"filled", "closed"}
  /\ position' = [position EXCEPT ![o] = IF truth[o] = "filled" THEN "open" ELSE "closed"]
  /\ UNCHANGED <<tradeVars, truth, snap, newer, sim, pcopy, linkVars, userVars, refreshVars, history>>

(* A position of the same symbol and side that is not this order's is found *)
(* for it: open, or closed, also after the record was linked to it by its   *)
(* id while it was open.                                                   *)
ForeignPosition(o) ==
  /\ truth[o] # "none"
  /\ \E p \in {"open", "closed"} : position' = [position EXCEPT ![o] = p]
  /\ hazard' = hazard \cup {"foreign"}
  /\ UNCHANGED <<tradeVars, truth, snap, newer, sim, pcopy, linkVars, userVars, refreshVars, dismissed, named>>

-----------------------------------------------------------------------------
(* Paper orders.  A simulation, the close at market, a cancel and the link  *)
(* to the trade each read the row and save it whole; one of them may hold   *)
(* its copy while others come and go.                                       *)

PaperRow(o) == [status |-> truth[o], state |-> sim[o]]

(* simulateSingleOrder, closePaperOrderAtMarket *)
Simulated(row) ==
  LET To(s) == [status |-> s, state |-> IF s = "open" THEN "working" ELSE s] IN
  CASE row.status = "open" -> {To("open"), To("filled"), To("closed")}
    [] row.status = "filled" -> {row, To("closed")}
    [] OTHER -> {row}

(* cancelPaperOrder does not look at the status; attachSuggestedTrade saves *)
(* what it has read.                                                        *)
PaperRows(row) == Simulated(row) \cup {row, [row EXCEPT !.status = "cancelled"]}

SavePaperOrder(o, row) ==
  \E next \in PaperRows(row) :
    /\ truth' = [truth EXCEPT ![o] = next.status]
    /\ sim' = [sim EXCEPT ![o] = next.state]
    /\ hazard' = hazard
         \cup (IF row # PaperRow(o) THEN {"overwritten"} ELSE {})
         \cup (IF next.status = "cancelled" /\ row.status \in {"filled", "closed"}
               THEN {"voided"} ELSE {})
    /\ UNCHANGED <<tradeVars, snap, newer, position, linkVars, userVars, refreshVars,
                   dismissed, named>>

PaperStep(o) == truth[o] # "none" /\ SavePaperOrder(o, PaperRow(o)) /\ UNCHANGED pcopy

PaperRead(o) ==
  /\ truth[o] # "none" /\ pcopy[o] = None
  /\ pcopy' = [pcopy EXCEPT ![o] = PaperRow(o)]
  /\ UNCHANGED <<tradeVars, truth, snap, newer, position, sim, linkVars, userVars, refreshVars, history>>

PaperSave(o) ==
  /\ pcopy[o] # None
  /\ SavePaperOrder(o, pcopy[o])
  /\ pcopy' = [pcopy EXCEPT ![o] = None]

-----------------------------------------------------------------------------
(* Refreshing the record, refreshExecutionOutcomes *)

RefreshAt(r, step) == rpc' = [rpc EXCEPT ![r] = step]
Result(r, e) == rnext' = [rnext EXCEPT ![r] = e]

(* Order and position updates ask for the trades linked to them, the sweep  *)
(* for tracked ones that are not at an end.                                *)
RefreshRead(r) ==
  /\ rpc[r] = "idle" /\ Tracked(exec)
  /\ \E m \in {"orders", "positions", "sweep"} :
       /\ IF m = "sweep" THEN exec.state \notin Terminal ELSE exec.order # None
       /\ m = "positions" => exec.order \in LiveOrders
       /\ mode' = [mode EXCEPT ![r] = m]
  /\ rcopy' = [rcopy EXCEPT ![r] = exec]
  /\ Result(r, exec)
  /\ RefreshAt(r, "snapshot")
  /\ UNCHANGED <<tradeVars, brokerVars, linkVars, userVars, history>>

Refreshing(r, kind) == rpc[r] = "snapshot" /\ rcopy[r].order \in kind

(* resolvePaperExecutionState: what the simulation says goes before what    *)
(* has become of the order.                                                *)
PaperState(e, row) ==
  CASE row.state # None -> row.state
    [] row.status # "open" -> row.status
    [] e.state \in {None, "queued", "submitting"} -> "linked"
    [] OTHER -> e.state

(* mergePaperExecutionOutcome *)
PaperOutcome(e, row) ==
  [e EXCEPT !.shown = row.status, !.state = PaperState(e, row),
            !.fill = @ \/ row.state \in {"filled", "closed"} \/ row.status \in {"filled", "closed"}]

RefreshPaper(r) ==
  /\ Refreshing(r, PaperOrders)
  /\ Result(r, PaperOutcome(rcopy[r], PaperRow(rcopy[r].order)))
  /\ RefreshAt(r, "save")
  /\ UNCHANGED <<tradeVars, brokerVars, linkVars, userVars, rcopy, mode, history>>

(* resolveUnlinkedExecutionGap: only a sweep gets here. *)
RefreshGap(r) ==
  /\ Refreshing(r, {None})
  /\ Result(r, IF rcopy[r].state \in {"queued", "submitting"}
               THEN [rcopy[r] EXCEPT !.state = "failed"] ELSE rcopy[r])
  /\ RefreshAt(r, "save")
  /\ UNCHANGED <<tradeVars, brokerVars, linkVars, userVars, rcopy, mode, history>>

RefreshMissing(r) ==
  /\ Refreshing(r, LiveOrders) /\ snap[rcopy[r].order] = "none"
  /\ \/ mode[r] = "positions" /\ RefreshAt(r, "position") /\ UNCHANGED rnext
     \/ mode[r] = "sweep" /\ RefreshAt(r, "save") /\ Result(r, [rcopy[r] EXCEPT !.state = "unknown"])
  /\ UNCHANGED <<tradeVars, brokerVars, linkVars, userVars, rcopy, mode, history>>

RefreshEnd(r) ==
  /\ RefreshAt(r, "idle")
  /\ rcopy' = [rcopy EXCEPT ![r] = NoExec] /\ Result(r, NoExec)
  /\ mode' = [mode EXCEPT ![r] = "orders"]

RefreshSkip(r) ==
  /\ Refreshing(r, LiveOrders) /\ snap[rcopy[r].order] = "none" /\ mode[r] = "orders"
  /\ RefreshEnd(r)
  /\ UNCHANGED <<tradeVars, brokerVars, linkVars, userVars, history>>

MutStateOf(s) == s                   \* the order's status taken for the state

StateOf(s) == IF s = "open" THEN "working" ELSE s          \* mapExecutionState

MutOrderOutcome(e, s, isNewer) ==    \* whatever ended counts as filled
  [e EXCEPT !.shown = s, !.state = StateOf(s), !.fill = @ \/ s # "open"]

(* mergeExecutionOutcome: an end without a fill outlasts an older snapshot. *)
OrderOutcome(e, s, isNewer) ==
  IF UnfilledTerminal(e) /\ s = "open" /\ ~isNewer THEN e
  ELSE [e EXCEPT !.shown = s, !.state = StateOf(s), !.fill = @ \/ s = "filled"]

RefreshOrder(r) ==
  LET o == rcopy[r].order IN
  /\ Refreshing(r, LiveOrders) /\ snap[o] # "none"
  /\ Result(r, OrderOutcome(rcopy[r], snap[o], o \in newer))
  /\ RefreshAt(r, "position")
  /\ UNCHANGED <<tradeVars, brokerVars, linkVars, userVars, rcopy, mode, history>>

(* mergePositionOutcome, selectBestPositionCandidate: an open position is   *)
(* taken for a fill only when positions are what the refresh is about, a    *)
(* closed one only of a record that shows a fill, or is linked to it since. *)
PositionOutcome(e, p, evidence) ==
  LET speaks == evidence /\ p = "open"
      shown == IF evidence /\ e.shown \notin {"cancelled", "expired"} THEN "filled" ELSE e.shown IN
  IF ActiveUnfilled(e) /\ ~speaks THEN [e EXCEPT !.state = "working"]
  ELSE IF UnfilledTerminal(e) \/ p = "none" \/ ~(FillEvidence(e) \/ speaks) THEN e
  ELSE IF p = "closed" THEN [e EXCEPT !.state = "closed"]
  ELSE [e EXCEPT !.state = "filled", !.fill = @ \/ evidence, !.shown = shown]

RefreshPosition(r) ==
  /\ rpc[r] = "position"
  /\ LET o == rcopy[r].order
         e == PositionOutcome(rnext[r], position[o], mode[r] = "positions") IN
     /\ Result(r, e)
     /\ RefreshAt(r, IF snap[o] # "none" /\ e.shown = "open" /\ (e.fill \/ position[o] # "open")
                     THEN "expire" ELSE "save")
  /\ UNCHANGED <<tradeVars, brokerVars, linkVars, userVars, rcopy, mode, history>>

NotExpired(r) ==
  /\ rpc[r] = "expire"
  /\ RefreshAt(r, "save")
  /\ UNCHANGED <<tradeVars, brokerVars, linkVars, userVars, rcopy, rnext, mode, history>>

MutCancelledAt(o) == truth           \* expired without a cancel at the broker

(* The broker cancels an order that is still open. *)
CancelledAt(o) == IF truth[o] = "open" THEN [truth EXCEPT ![o] = "cancelled"] ELSE truth

(* maybeExpireLiveLimitEntryOrder: the limit order is due, and an order that *)
(* the broker calls terminal, filled or not, counts as cancelled.          *)
Expire(r) ==
  LET o == rcopy[r].order IN
  /\ rpc[r] = "expire"
  /\ truth' = CancelledAt(o)
  /\ newer' = newer \ {o}
  /\ Result(r, IF rnext[r].fill THEN [rnext[r] EXCEPT !.state = "filled"]
               ELSE [rnext[r] EXCEPT !.state = "expired", !.shown = "expired"])
  /\ hazard' = hazard \cup (IF truth[o] \in {"filled", "closed"} THEN {"expiry"} ELSE {})
  /\ RefreshAt(r, "save")
  /\ UNCHANGED <<tradeVars, snap, position, sim, pcopy, linkVars, userVars, rcopy, mode, dismissed, named>>

(* Only a changed record is saved; what changed may be a field left out here. *)
RefreshSave(r) ==
  /\ rpc[r] = "save"
  /\ \/ rnext[r] = rcopy[r] /\ UNCHANGED <<exec, named, hazard>>
     \/ SaveExec(rnext[r]) /\ hazard' = hazard \cup Lost(rcopy[r])
  /\ RefreshEnd(r)
  /\ UNCHANGED <<status, brokerVars, linkVars, userVars, dismissed>>

-----------------------------------------------------------------------------
UserStep(u) == UserRead(u) \/ UserGate(u) \/ UserSave(u) \/ UserAccepted(u)

OrderStep(o) ==
  \/ AutoRead(o) \/ AutoGate(o) \/ AutoAccept(o) \/ AutoRecord(o) \/ AutoLinked(o)
  \/ Place(o) \/ LinkRead(o) \/ LinkGate(o) \/ Link(o)

RefreshStep(r) ==
  \/ RefreshRead(r) \/ RefreshPaper(r) \/ RefreshGap(r) \/ RefreshMissing(r) \/ RefreshSkip(r)
  \/ RefreshOrder(r) \/ RefreshPosition(r) \/ NotExpired(r) \/ Expire(r) \/ RefreshSave(r)

BrokerStep ==
  \E o \in LiveOrders :
    \/ Fill(o) \/ Cancelled(o) \/ ClosePosition(o)
    \/ StoreOrder(o) \/ SeePosition(o) \/ ForeignPosition(o)

PaperOrderStep(o) == PaperStep(o) \/ PaperRead(o) \/ PaperSave(o)

Next ==
  \/ \E u \in Users : UserStep(u)
  \/ \E o \in Orders : OrderStep(o)
  \/ \E r \in Refreshers : RefreshStep(r)
  \/ \E o \in PaperOrders : PaperOrderStep(o)
  \/ BrokerStep

Spec == Init /\ [][Next]_vars

-----------------------------------------------------------------------------
(* Properties *)

(* Rows, copies and steps are well formed. *)
Hazards == {"lost", "overtaken", "relinked", "inherited", "unlisted", "foreign", "expiry",
            "overwritten", "voided"}
Copies == [status : Statuses, exec : Execs]

TypeOK ==
  /\ status \in Statuses /\ exec \in Execs
  /\ truth \in [Orders -> {"none", "open", "filled", "cancelled", "closed"}]
  /\ snap \in [LiveOrders -> {"none", "open", "filled", "cancelled", "closed"}]
  /\ newer \subseteq LiveOrders
  /\ position \in [LiveOrders -> {"none", "open", "closed"}]
  /\ sim \in [PaperOrders -> {None, "working", "filled", "closed"}]
  /\ pcopy \in [PaperOrders -> PaperCopies \cup {None}]
  /\ lpc \in [Orders -> {"start", "check", "accept", "queued", "submitting", "place", "read",
                         "gate", "link", "linked", "end"}]
  /\ lcopy \in [Orders -> Execs] /\ auto \in [AutoOrders -> Copies]
  /\ upc \in [Users -> {"idle", "gate", "status", "exec"}]
  /\ ucopy \in [Users -> Copies]
  /\ want \in [Users -> {"Reviewed", "Accepted", "Dismissed"}]
  /\ rpc \in [Refreshers -> {"idle", "snapshot", "position", "expire", "save"}]
  /\ rcopy \in [Refreshers -> Execs] /\ rnext \in [Refreshers -> Execs]
  /\ mode \in [Refreshers -> {"orders", "positions", "sweep"}]
  /\ dismissed \in BOOLEAN /\ named \subseteq Orders /\ hazard \subseteq Hazards

(* A trade names one order and keeps its name: assertOrderLinkAllowed and   *)
(* the copies carried from step to step hold, until a save is made over a   *)
(* record that has changed since it was read, or a link drops an order of   *)
(* the other kind or has no order id of its own.                           *)
RecordKeepsOrder == hazard \cap {"lost", "relinked"} = {} => named \subseteq {exec.order}

(* A user who was told that the trade is dismissed finds it dismissed and   *)
(* without an order, unless another actor acted on a status that it had     *)
(* read before: assertStatusTransitionAllowed against links and automation. *)
DismissalHolds ==
  dismissed /\ hazard \cap {"overtaken", "lost"} = {} => status = "Dismissed" /\ exec.order = None

(* A record at cancelled or expired names an order that is off the books    *)
(* and never filled, one at closed an order that is over: refreshes may be  *)
(* late, but not wrong, unless the expiry cancel met an order that the      *)
(* broker had filled, or a paper order was saved from an outdated copy; and *)
(* a record is closed with an order still open only by a position that was  *)
(* not the order's.                                                        *)
EndIsTrue ==
  exec.order # None /\ hazard \cap {"expiry", "overwritten"} = {} =>
    /\ exec.state \in {"cancelled", "expired"} => truth[exec.order] = "cancelled"
    /\ exec.state = "closed" /\ "foreign" \notin hazard =>
         truth[exec.order] \in {"filled", "closed", "cancelled"}

(* A record shows a fill only of an order that was filled: snapshots and    *)
(* positions, in whatever order they come, mislead mergeExecutionOutcome    *)
(* and mergePositionOutcome only when an unlisted order passes for closed,  *)
(* when another position passes for the order's own, or when a link leaves  *)
(* in the record the fill of an earlier order, which the record may have    *)
(* ceased to name; and mergePaperExecutionOutcome only when a paper order   *)
(* was cancelled after its fill, or overwritten.                            *)
FillIsTrue ==
  /\ exec.order # None /\ FillEvidence(exec)
  /\ hazard \cap {"unlisted", "foreign", "inherited", "overwritten", "voided"} = {}
  => truth[exec.order] \in {"filled", "closed"}
=============================================================================
