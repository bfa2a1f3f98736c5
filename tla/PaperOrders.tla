---------------------------- MODULE PaperOrders -----------------------------
(***************************************************************************)
(* Paper orders: PaperOrderExecutionService, which simulates them against  *)
(* the market, PaperOrderRepository, and the requests that cancel an order *)
(* or link it to a trade.                                                  *)
(*                                                                         *)
(* Whoever works on an order reads its row and later saves the whole of    *)
(* it.  In one process simulations and closes wait for each other in a     *)
(* chain; cancels, links and other processes do not.  A batch takes the    *)
(* executable orders that were updated longest ago, and an order is        *)
(* updated only when the market has something new to say of it.            *)
(*                                                                         *)
(* Prices are left out: an observation may fill or close an order, or not. *)
(* A save takes the observation that is current; in the code it was loaded *)
(* shortly before.                                                         *)
(*                                                                         *)
(* The operators named Mut... are faulty variants of the definition that   *)
(* follows them, each with a slip the code could have; no specification    *)
(* uses them.                                                              *)
(***************************************************************************)
EXTENDS Naturals, Sequences, FiniteSets, SequencesExt

CONSTANTS
  Orders,        \* paper orders
  Still,         \* those whose symbol has neither a candle nor a price
  Procs,         \* processes of the server
  Callers,       \* calls of PaperOrderExecutionService being handled
  Polls,         \* those of them that are a process's background batch
  ProcOf,        \* the process of each caller
  Users,         \* requests that cancel or link
  Limit,         \* orders in a batch
  Touched,       \* bound: the orders that requests ask for
  MaxFailures,   \* bound: calls that throw and processes that die
  None           \* null

ASSUME PaperAssumption ==
  /\ Still \subseteq Orders /\ Touched \subseteq Orders /\ Polls \subseteq Callers
  /\ ProcOf \in [Callers -> Procs]
  /\ Limit \in Nat /\ Cardinality(Still) < Limit /\ MaxFailures \in Nat
  /\ Users \cap Procs = {} /\ None \notin Orders

VARIABLES
  row,        \* paper_orders
  line,       \* executable orders by updated_at
  chain,      \* simulationChain of each process, who holds it first
  pc, copies, \* step of each caller and the rows it has read and not yet dealt with
  ucopy,      \* the order of each user's request, with its row as read
  again,      \* history: orders reported closed that were closed already
  writer,     \* history: who saved the row last, a process or a user
  outdated,   \* history: orders saved from a copy older than a foreign save
  failures    \* calls that threw and processes that died

actorVars == <<chain, pc, copies, ucopy>>
history == <<again, writer, outdated>>
vars == <<row, line, actorVars, history, failures>>

-----------------------------------------------------------------------------
(* Rows *)

(* seen: the payload's observation is the market's latest. *)
Rows == [status : {"OPEN", "FILLED", "CLOSED", "CANCELLED"},
         state  : {None, "working", "filled", "closed"},      \* simulation.executionState
         seen   : BOOLEAN,
         trade  : BOOLEAN]                                     \* suggestedTradeId

ASSUME NullAssumption == None \notin Rows

NewRow == [status |-> "OPEN", state |-> None, seen |-> FALSE, trade |-> FALSE]

Executable(r) == r # None /\ r.status \in {"OPEN", "FILLED"}
Says(r) == <<r.status, r.state, r.trade>>       \* but for what the market says

(* An order has one place in the line, if any. *)
Waits(o) == \E i \in 1 .. Len(line) : line[i] = o
Without(o) ==
  IF Waits(o) THEN RemoveAt(line, CHOOSE i \in 1 .. Len(line) : line[i] = o) ELSE line

(* A save puts the whole row, and the order to the end of the line. *)
Save(o, r, copy, who) ==
  /\ row' = [row EXCEPT ![o] = r]
  /\ line' = IF Executable(r) THEN Append(Without(o), o) ELSE Without(o)
  /\ writer' = [writer EXCEPT ![o] = who]
  /\ outdated' = IF Says(copy) # Says(row[o]) /\ writer[o] # who THEN outdated \cup {o} ELSE outdated

Init ==
  /\ row = [o \in Orders |-> None] /\ line = <<>>
  /\ chain = [p \in Procs |-> <<>>]
  /\ pc = [c \in Callers |-> "idle"]
  /\ copies = [c \in Callers |-> [o \in Orders |-> None]]
  /\ ucopy = [u \in Users |-> None]
  /\ again = {} /\ writer = [o \in Orders |-> None] /\ outdated = {}
  /\ failures = 0

-----------------------------------------------------------------------------
(* withSimulationLock *)

Joins(c) ==
  /\ chain' = [chain EXCEPT ![ProcOf[c]] = Append(@, c)]
  /\ pc' = [pc EXCEPT ![c] = "wait"]

Leaves(c) ==
  /\ chain' = [chain EXCEPT ![ProcOf[c]] = Tail(@)]
  /\ pc' = [pc EXCEPT ![c] = "idle"]
  /\ copies' = [copies EXCEPT ![c] = [o \in Orders |-> None]]

MutItsTurn(c) == TRUE            \* no call waits for another

ItsTurn(c) == Head(chain[ProcOf[c]]) = c

Enter(c) ==
  /\ pc[c] = "idle"
  /\ Joins(c)
  /\ UNCHANGED <<row, line, copies, ucopy, history, failures>>

-----------------------------------------------------------------------------
(* simulateUserPaperOrders, simulateActivePaperOrders, closePaperOrderAtMarket *)

(* Orders without an observation are passed over. *)
Takes(c, step, set) ==
  IF set = {} THEN Leaves(c)
  ELSE /\ pc' = [pc EXCEPT ![c] = step]
       /\ copies' = [copies EXCEPT ![c] = [o \in Orders |-> IF o \in set THEN row[o] ELSE None]]
       /\ UNCHANGED chain

Batch == {line[i] : i \in 1 .. IF Len(line) < Limit THEN Len(line) ELSE Limit}

(* A batch, an order by its id, or an order to close, which must be filled. *)
Read(c) ==
  /\ pc[c] = "wait" /\ ItsTurn(c)
  /\ \/ Takes(c, "simulate", Batch \ Still)
     \/ \E o \in Touched :
          /\ c \notin Polls /\ row[o] # None
          /\ \/ Takes(c, "simulate", {o} \ Still)
             \/ row[o].status = "FILLED" /\ Takes(c, "close", {o} \ Still)
  /\ UNCHANGED <<row, line, ucopy, history, failures>>

MutBecomes(r, status, state) ==   \* one word for both
  [r EXCEPT !.status = status, !.state = status, !.seen = TRUE]

Becomes(r, status, state) == [r EXCEPT !.status = status, !.state = state, !.seen = TRUE]
Closed(r) == Becomes(r, "CLOSED", "closed")

MutSimulated(r) ==      \* whatever is not filled is taken for open
  CASE r.status = "FILLED" -> {[r EXCEPT !.seen = TRUE], Closed(r)}
    [] OTHER -> {Becomes(r, "OPEN", "working"), Becomes(r, "FILLED", "filled"), Closed(r)}

MutHalfSimulated(r) ==  \* the state is set only by a fill
  CASE r.status = "OPEN" ->
         {[r EXCEPT !.seen = TRUE], Becomes(r, "FILLED", "filled"), Becomes(r, "CLOSED", "filled")}
    [] r.status = "FILLED" -> {[r EXCEPT !.seen = TRUE], Closed(r)}
    [] OTHER -> {[r EXCEPT !.seen = TRUE]}

(* simulateSingleOrder: an order may fill and close by one observation. *)
Simulated(r) ==
  CASE r.status = "OPEN" ->
         {Becomes(r, "OPEN", "working"), Becomes(r, "FILLED", "filled"), Closed(r)}
    [] r.status = "FILLED" -> {[r EXCEPT !.seen = TRUE], Closed(r)}
    [] OTHER -> {[r EXCEPT !.seen = TRUE]}

Handled(c, o) ==
  IF \A other \in Orders \ {o} : copies[c][other] = None THEN Leaves(c)
  ELSE copies' = [copies EXCEPT ![c][o] = None] /\ UNCHANGED <<chain, pc>>

Report(o, from, to) ==
  again' = IF row[o].status = "CLOSED" /\ from.status # "CLOSED" /\ to.status = "CLOSED"
           THEN again \cup {o} ELSE again

SimulateOrder(c, o) ==
  LET copy == copies[c][o] IN
  /\ pc[c] = "simulate" /\ copy # None
  /\ IF copy.seen THEN UNCHANGED <<row, line, history>>
     ELSE \E r \in Simulated(copy) : Save(o, r, copy, ProcOf[c]) /\ Report(o, copy, r)
  /\ Handled(c, o)
  /\ UNCHANGED <<ucopy, failures>>

CloseAtMarket(c, o) ==
  LET copy == copies[c][o] IN
  /\ pc[c] = "close" /\ copy # None
  /\ Save(o, Closed(copy), copy, ProcOf[c]) /\ Report(o, copy, Closed(copy))
  /\ Handled(c, o)
  /\ UNCHANGED <<ucopy, failures>>

MutLeavesFailed(c) ==    \* the lock is not released
  /\ pc' = [pc EXCEPT ![c] = "idle"]
  /\ copies' = [copies EXCEPT ![c] = [o \in Orders |-> None]]
  /\ UNCHANGED chain

(* The finally of withSimulationLock; nothing is done for the other orders. *)
LeavesFailed(c) == Leaves(c)

Throw(c) ==
  /\ pc[c] \in {"simulate", "close"} /\ failures < MaxFailures
  /\ LeavesFailed(c)
  /\ failures' = failures + 1
  /\ UNCHANGED <<row, line, ucopy, history>>

Crash(p) ==
  /\ failures < MaxFailures /\ chain[p] # <<>>
  /\ chain' = [chain EXCEPT ![p] = <<>>]
  /\ pc' = [c \in Callers |-> IF ProcOf[c] = p THEN "idle" ELSE pc[c]]
  /\ copies' = [c \in Callers |-> IF ProcOf[c] = p THEN [o \in Orders |-> None] ELSE copies[c]]
  /\ failures' = failures + 1
  /\ UNCHANGED <<row, line, ucopy, history>>

-----------------------------------------------------------------------------
(* createPaperOrder, cancelPaperOrder, attachSuggestedTrade *)

Create(o) ==
  /\ row[o] = None
  /\ row' = [row EXCEPT ![o] = NewRow]
  /\ line' = Append(line, o)
  /\ UNCHANGED <<actorVars, history, failures>>

UserRead(u, o) ==
  /\ ucopy[u] = None /\ row[o] # None
  /\ ucopy' = [ucopy EXCEPT ![u] = [order |-> o, row |-> row[o]]]
  /\ UNCHANGED <<row, line, chain, pc, copies, history, failures>>

UserDone(u) == ucopy' = [ucopy EXCEPT ![u] = None]

(* No status keeps an order from being cancelled. *)
Cancel(u) ==
  /\ ucopy[u] # None
  /\ LET o == ucopy[u].order  copy == ucopy[u].row IN
     Save(o, [copy EXCEPT !.status = "CANCELLED"], copy, u)
  /\ UserDone(u)
  /\ UNCHANGED <<chain, pc, copies, again, failures>>

(* The link that an order already has is not saved again. *)
Attach(u) ==
  /\ ucopy[u] # None /\ ~ucopy[u].row.trade
  /\ LET o == ucopy[u].order  copy == ucopy[u].row IN
     Save(o, [copy EXCEPT !.trade = TRUE], copy, u)
  /\ UserDone(u)
  /\ UNCHANGED <<chain, pc, copies, again, failures>>

(* A new candle or price of the order's symbol. *)
Market(o) ==
  LET Old(r) == IF r = None THEN None ELSE [r EXCEPT !.seen = FALSE] IN
  /\ o \notin Still /\ row[o] # None
  /\ row' = [row EXCEPT ![o] = Old(@)]
  /\ copies' = [c \in Callers |-> [copies[c] EXCEPT ![o] = Old(@)]]
  /\ ucopy' = [u \in Users |-> IF ucopy[u] # None /\ ucopy[u].order = o
                               THEN [ucopy[u] EXCEPT !.row = Old(@)] ELSE ucopy[u]]
  /\ UNCHANGED <<line, chain, pc, history, failures>>

-----------------------------------------------------------------------------
CallStep(c) ==
  \/ Read(c)
  \/ \E o \in Orders : SimulateOrder(c, o) \/ CloseAtMarket(c, o)

Next ==
  \/ \E c \in Callers : Enter(c) \/ CallStep(c) \/ Throw(c)
  \/ \E p \in Procs : Crash(p)
  \/ \E o \in Orders : Create(o) \/ Market(o)
  \/ \E u \in Users : Cancel(u) \/ Attach(u) \/ \E o \in Touched : UserRead(u, o)

Spec == Init /\ [][Next]_vars

(* The background loop polls for ever, what a call awaits returns or throws, *)
(* and the market moves.  Nothing obliges users.                           *)
FairSpec ==
  /\ Spec
  /\ \A c \in Callers : WF_vars(CallStep(c))
  /\ \A c \in Polls : WF_vars(Enter(c))
  /\ \A o \in Orders : WF_vars(Market(o))

-----------------------------------------------------------------------------
(* Rows, copies, steps and chains are well formed. *)
TypeOK ==
  /\ row \in [Orders -> Rows \cup {None}]
  /\ line \in Seq(Orders) /\ IsInjective(line)
  /\ \A p \in Procs : chain[p] \in Seq({c \in Callers : ProcOf[c] = p})
  /\ pc \in [Callers -> {"idle", "wait", "simulate", "close"}]
  /\ copies \in [Callers -> [Orders -> Rows \cup {None}]]
  /\ ucopy \in [Users -> {None} \cup [order : Orders, row : Rows]]
  /\ again \subseteq Orders /\ outdated \subseteq Orders
  /\ writer \in [Orders -> Procs \cup Users \cup {None}]
  /\ failures \in 0 .. MaxFailures

(* The status and the simulation in the payload tell the same story, also   *)
(* after saves over each other: resolvePaperExecutionState relies on it when *)
(* it puts the simulation before the status.  A cancel leaves the           *)
(* simulation as it was.                                                   *)
StoriesAgree ==
  \A o \in Orders : row[o] # None =>
    CASE row[o].status = "OPEN" -> row[o].state \in {None, "working"}
      [] row[o].status = "FILLED" -> row[o].state = "filled"
      [] row[o].status = "CLOSED" -> row[o].state = "closed"
      [] OTHER -> TRUE

(* What users were told holds: a cancelled order stays cancelled and a      *)
(* linked order linked, whatever simulations look at it later, unless it    *)
(* was saved from a copy older than someone else's save.                   *)
WordHolds ==
  [][\A o \in Orders : row[o] # None /\ o \notin outdated' =>
       /\ row[o].status = "CANCELLED" => row'[o].status = "CANCELLED"
       /\ row[o].trade => row'[o].trade]_vars

(* A position is closed, and reported closed, once: withSimulationLock      *)
(* keeps the background batch, requests that look at orders and the close   *)
(* at market of one process from closing the same copy twice.              *)
OneClose == again \subseteq outdated

(* No executable order is passed over for ever: what the market has to say  *)
(* of it reaches it although a batch is limited, calls throw and processes  *)
(* die, as long as the orders that nothing is known of do not fill a batch. *)
OrdersAreSeen ==
  \A o \in Orders \ Still :
    Executable(row[o]) /\ ~row[o].seen ~> ~Executable(row[o]) \/ row[o].seen
=============================================================================
