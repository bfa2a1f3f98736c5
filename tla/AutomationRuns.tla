--------------------------- MODULE AutomationRuns ---------------------------
(***************************************************************************)
(* One automation, its runs and the orders they place.                     *)
(* AutomationExecutionService.execute starts a run under a lock on the     *)
(* automation's row, AutomationsService pauses, resumes, edits and repairs *)
(* the automation without that lock, and for every new suggestion of a run *)
(* SuggestedTradesService.attemptAutoLiveExecutionForAutomation compares   *)
(* what was placed with the limits of the policy before it calls a broker. *)
(*                                                                         *)
(* A run touches its row when it starts and when it ends.  A repair judges *)
(* by the age of the last touch, so it can take a run for dead that lives. *)
(*                                                                         *)
(* Schedules are those with fixed times (hourly, daily, ...): slot n is    *)
(* due from time n on.  Of a trade's broker routes only the order in which *)
(* they are tried is kept; LiveAutoFailover has them in detail.            *)
(*                                                                         *)
(* The operators named Mut... are faulty variants of the definition that   *)
(* follows them, each with a slip the code could have; no specification    *)
(* uses them.                                                              *)
(***************************************************************************)
EXTENDS Naturals, FiniteSets

CONSTANTS
  Runs,          \* runs of the automation that may be started
  Trades,        \* suggestions they may create
  Repairs,       \* repairs of a run: an operator's or a starting process's
  Edits,         \* updateAutomation requests
  MaxPerRun,     \* maxOrdersPerRun
  MaxPerDay,     \* maxOrdersPerDay
  MaxOpen,       \* maxConcurrentOpenTrades
  None           \* null

ASSUME LimitAssumption ==
  /\ MaxPerRun \in Nat \ {0} /\ MaxPerDay \in Nat \ {0} /\ MaxOpen \in Nat \ {0}
  /\ IsFiniteSet(Trades)
  /\ None \notin Runs \cup Trades \cup Nat
  /\ Repairs \cap Edits = {}

VARIABLES
  status, nextRun,            \* the automation's row
  row, slot,                  \* status and scheduledFor of each run's row
  pc, trade, placed,          \* step of each run, its suggestion, autoLivePlaced
  exec, owner, day, order,    \* execution state, run and acceptedAt of each trade; the broker's order
  wpc, seen, target, next,    \* step of each repair and edit, what it read and will write
  asked,                      \* slots the scheduler has asked to run
  now, today,                 \* time in slots, and the day
  said,                       \* history: the operator's last word on the status
  cleared,                    \* history: runs a repair ended that went on
  hazard                      \* history: which other unguarded things have happened

rowVars == <<status, nextRun>>
runVars == <<row, slot, pc, trade, placed>>
tradeVars == <<exec, owner, day, order>>
writerVars == <<wpc, seen, target, next>>
timeVars == <<asked, now, today>>
pastVars == <<said, cleared, hazard>>
vars == <<rowVars, runVars, tradeVars, writerVars, timeVars, pastVars>>

Writers == Repairs \cup Edits

Init ==
  /\ status = "Running" /\ nextRun = 0
  /\ row = [r \in Runs |-> "none"] /\ slot = [r \in Runs |-> None]
  /\ pc = [r \in Runs |-> "idle"] /\ trade = [r \in Runs |-> None]
  /\ placed = [r \in Runs |-> 0]
  /\ exec = [t \in Trades |-> "none"] /\ owner = [t \in Trades |-> None]
  /\ day = [t \in Trades |-> 0] /\ order = [t \in Trades |-> "none"]
  /\ wpc = [w \in Writers |-> "idle"]
  /\ seen = [w \in Writers |-> [status |-> "Running", nextRun |-> 0]]
  /\ target = [w \in Writers |-> None] /\ next = [w \in Writers |-> None]
  /\ asked = {} /\ now = 0 /\ today = 0
  /\ said = "Running" /\ cleared = {} /\ hazard = {}

At(r, step) == pc' = [pc EXCEPT ![r] = step]
WriterAt(w, step) == wpc' = [wpc EXCEPT ![w] = step]
Past(tag, happened) == hazard' = IF happened THEN hazard \cup {tag} ELSE hazard

Trying == {"open", "gate", "call", "answer", "doubt"}
Live(r) == pc[r] \in Trying \cup {"scan"}
Used == {slot[r] : r \in {q \in Runs : row[q] # "none"}}

MutNextAfter(time) == time           \* a slot that is just due is taken for a coming one

(* computeNextRun: the first slot after the given time *)
NextAfter(time) == time + 1

-----------------------------------------------------------------------------
(* execute *)

MutActiveStatuses == {"Queued"}

ActiveStatuses == {"Queued", "Running"}

(* The scheduler outside asks for a slot that is due, more than once if it *)
(* likes.                                                                  *)
Ask ==
  /\ status = "Running" /\ nextRun # None /\ nextRun <= now
  /\ asked' = asked \cup {nextRun}
  /\ UNCHANGED <<rowVars, runVars, tradeVars, writerVars, now, today, pastVars>>

(* One transaction that holds the automation's row.  A slot has one run    *)
(* row, uidx_automation_runs_automation_scheduled.                         *)
Start(r, s) ==
  /\ pc[r] = "idle" /\ status = "Running"
  /\ \A q \in Runs : row[q] \notin ActiveStatuses
  /\ s \notin Used
  /\ row' = [row EXCEPT ![r] = "Running"] /\ slot' = [slot EXCEPT ![r] = s]
  /\ nextRun' = NextAfter(now)
  /\ At(r, "scan")
  /\ UNCHANGED <<status, trade, placed, tradeVars, writerVars, timeVars, said, cleared>>

StartScheduled(r) == \E s \in asked : Start(r, s) /\ UNCHANGED hazard

(* A manual run takes the next slot, which may not be due yet. *)
StartManual(r) ==
  /\ nextRun # None
  /\ Start(r, nextRun) /\ Past("early", nextRun > now)

(* The row is updated whatever has become of it; some of the errors are of *)
(* the configuration.                                                      *)
End(r) ==
  /\ pc[r] = "scan"
  /\ \/ row' = [row EXCEPT ![r] = "Success"] /\ At(r, "done")
     \/ row' = [row EXCEPT ![r] = "Failed"] /\ (At(r, "done") \/ At(r, "fatal"))
  /\ UNCHANGED <<rowVars, slot, trade, placed, tradeVars, writerVars, timeVars, pastVars>>

(* Such an error stops the automation a few writes later, whatever its row *)
(* says by then.                                                           *)
FailAutomation(r) ==
  /\ pc[r] = "fatal"
  /\ status' = "Failed" /\ nextRun' = None
  /\ At(r, "done")
  /\ UNCHANGED <<row, slot, trade, placed, tradeVars, writerVars, timeVars, pastVars>>

(* The process goes: an order that was just made keeps a record that does  *)
(* not count as open.                                                      *)
Die(r) ==
  /\ Live(r)
  /\ Past("lost", pc[r] \in {"answer", "doubt"} /\ order[trade[r]] # "none")
  /\ At(r, "dead") /\ trade' = [trade EXCEPT ![r] = None]
  /\ UNCHANGED <<rowVars, row, slot, placed, tradeVars, writerVars, timeVars, said, cleared>>

-----------------------------------------------------------------------------
(* attemptAutoLiveExecutionForAutomation, once for each new suggestion *)

MutCounts(t) == exec[t] = "linked"   \* orders that have ended are forgotten

(* countSystemAcceptedExecutionsSince: all accepted but the failed ones *)
Counts(t) == exec[t] \in {"submitting", "linked", "ended"}

Accepted(d) == {t \in Trades : Counts(t) /\ day[t] = d}
Open == {t \in Trades : exec[t] = "linked"}

(* A suggestion that exists already is not tried again: the dedupe key     *)
(* gives a trade to the run that created it.                               *)
CountDay(r, t) ==
  /\ pc[r] = "scan" /\ owner[t] = None
  /\ placed[r] < MaxPerRun
  /\ Cardinality(Accepted(today)) < MaxPerDay
  /\ owner' = [owner EXCEPT ![t] = r]
  /\ trade' = [trade EXCEPT ![r] = t]
  /\ At(r, "open")
  /\ UNCHANGED <<rowVars, row, slot, placed, exec, day, order, writerVars, timeVars, pastVars>>

Settle(r) == At(r, "scan") /\ trade' = [trade EXCEPT ![r] = None]

CountOpen(r) ==
  /\ pc[r] = "open"
  /\ \/ Cardinality(Open) < MaxOpen /\ At(r, "gate") /\ UNCHANGED trade
     \/ Cardinality(Open) >= MaxOpen /\ Settle(r)
  /\ UNCHANGED <<rowVars, row, slot, placed, tradeVars, writerVars, timeVars, pastVars>>

SetExec(t, state) == exec' = [exec EXCEPT ![t] = state]

(* The pre-trade check passes and the route is accepted, with today's date. *)
Accept(r) ==
  /\ pc[r] = "gate"
  /\ SetExec(trade[r], "submitting")
  /\ day' = [day EXCEPT ![trade[r]] = today]
  /\ At(r, "call")
  /\ UNCHANGED <<rowVars, row, slot, trade, placed, owner, order, writerVars, timeVars, pastVars>>

Block(r) ==
  /\ pc[r] = "gate" /\ Settle(r)
  /\ UNCHANGED <<rowVars, row, slot, placed, tradeVars, writerVars, timeVars, pastVars>>

CallBroker(r) ==
  /\ pc[r] = "call" /\ At(r, "answer")
  /\ \/ order' = [order EXCEPT ![trade[r]] = "open"]
     \/ UNCHANGED order
  /\ UNCHANGED <<rowVars, row, slot, trade, placed, exec, owner, day, writerVars, timeVars, pastVars>>

Placed(r) ==
  /\ SetExec(trade[r], "linked")
  /\ placed' = [placed EXCEPT ![r] = @ + 1]
  /\ Settle(r)
  /\ UNCHANGED hazard

(* The next route is tried, or there is none. *)
NextRoute(r) ==
  /\ SetExec(trade[r], "failed")
  /\ \/ At(r, "gate") /\ UNCHANGED trade
     \/ Settle(r)
  /\ UNCHANGED placed

Answer(r) ==
  /\ pc[r] = "answer"
  /\ \/ order[trade[r]] # "none" /\ Placed(r)
     \/ order[trade[r]] = "none" /\ NextRoute(r) /\ UNCHANGED hazard
     \/ SetExec(trade[r], "failed") /\ At(r, "doubt") /\ UNCHANGED <<trade, placed, hazard>>
  /\ UNCHANGED <<rowVars, row, slot, owner, day, order, writerVars, timeVars, said, cleared>>

(* reconcileLiveAutoAmbiguousRoute finds the order, or it does not. *)
Reconcile(r) ==
  /\ pc[r] = "doubt"
  /\ \/ order[trade[r]] # "none" /\ Placed(r)
     \/ NextRoute(r) /\ Past("lost", order[trade[r]] # "none")
  /\ UNCHANGED <<rowVars, row, slot, owner, day, order, writerVars, timeVars, said, cleared>>

(* The broker ends an order, or finds that it cannot be carried out. *)
Close(t) ==
  /\ order[t] = "open"
  /\ \E end \in {"closed", "failed"} : order' = [order EXCEPT ![t] = end]
  /\ UNCHANGED <<rowVars, runVars, exec, owner, day, writerVars, timeVars, pastVars>>

(* A refresh writes what it makes of its record, of the snapshots and of    *)
(* the positions it finds, all of them perhaps old.  It can take an order  *)
(* that is open for one that ended: no snapshot ("unknown"), a filled one  *)
(* past its expiry ("expired"), somebody else's position ("closed").       *)
Refresh(t) ==
  /\ exec[t] \in {"linked", "ended"}
  /\ \/ SetExec(t, "linked") /\ UNCHANGED hazard
     \/ SetExec(t, "ended") /\ Past("misread", order[t] = "open")
     \/ order[t] = "failed" /\ SetExec(t, "failed") /\ UNCHANGED hazard
  /\ UNCHANGED <<rowVars, runVars, owner, day, order, writerVars, timeVars, said, cleared>>

(* A sweep gives up a record that is still submitting.  The record it saves *)
(* is the one it read, so it may come after the run has linked the order.  *)
Sweep(t) ==
  /\ Counts(t)
  /\ SetExec(t, "failed")
  /\ Past("swept", exec[t] # "submitting")
  /\ UNCHANGED <<rowVars, runVars, owner, day, order, writerVars, timeVars, said, cleared>>

-----------------------------------------------------------------------------
(* Operators, updateAutomationStatus *)

Pause ==
  /\ status # "Paused"
  /\ status' = "Paused" /\ nextRun' = None
  /\ said' = "Paused"
  /\ UNCHANGED <<runVars, tradeVars, writerVars, timeVars, cleared, hazard>>

Resume ==
  /\ status # "Running" \/ nextRun = None
  /\ status' = "Running" /\ nextRun' = NextAfter(now)
  /\ said' = "Running"
  /\ UNCHANGED <<runVars, tradeVars, writerVars, timeVars, cleared, hazard>>

(* Edits and repairs write the status they read, and a next run. *)
Current == [status |-> status, nextRun |-> nextRun]

EditRead(w) ==
  /\ wpc[w] = "idle"
  /\ seen' = [seen EXCEPT ![w] = Current]
  /\ next' = [next EXCEPT ![w] = IF status = "Running" THEN NextAfter(now) ELSE None]
  /\ WriterAt(w, "put")
  /\ UNCHANGED <<rowVars, runVars, tradeVars, target, timeVars, pastVars>>

(* repairAutomationRun, reconcileActiveRun and reconcileStaleRunsOnStartup *)
RepairRead(w, r) ==
  /\ wpc[w] = "idle" /\ row[r] \in ActiveStatuses
  /\ seen' = [seen EXCEPT ![w] = Current]
  /\ target' = [target EXCEPT ![w] = r]
  /\ WriterAt(w, "clear")
  /\ UNCHANGED <<rowVars, runVars, tradeVars, next, timeVars, pastVars>>

(* clearStaleAutomationRun: the run's row, then the automation's *)
Clear(w) ==
  /\ wpc[w] = "clear"
  /\ row' = [row EXCEPT ![target[w]] = "Failed"]
  /\ cleared' = IF Live(target[w]) THEN cleared \cup {target[w]} ELSE cleared
  /\ next' = [next EXCEPT ![w] = IF seen[w].status = "Running" THEN NextAfter(now) ELSE None]
  /\ WriterAt(w, "put")
  /\ UNCHANGED <<rowVars, slot, pc, trade, placed, tradeVars, seen, target, timeVars, said, hazard>>

MutRestored(w) == "Running"          \* "restored normal scheduling"

Restored(w) == seen[w].status

Put(w) ==
  /\ wpc[w] = "put"
  /\ status' = Restored(w)
  /\ nextRun' = IF w \in Repairs /\ next[w] = None THEN nextRun ELSE next[w]
  /\ Past("overwrote", seen[w] # Current)
  /\ WriterAt(w, "done")
  /\ UNCHANGED <<runVars, tradeVars, seen, target, next, timeVars, said, cleared>>

Tick ==
  /\ now' = now + 1
  /\ today' \in {today, today + 1}
  /\ UNCHANGED <<rowVars, runVars, tradeVars, writerVars, asked, pastVars>>

-----------------------------------------------------------------------------

RunStep(r) ==
  \/ StartScheduled(r)
  \/ StartManual(r)
  \/ End(r)
  \/ FailAutomation(r)
  \/ Die(r)
  \/ \E t \in Trades : CountDay(r, t)
  \/ CountOpen(r)
  \/ Accept(r)
  \/ Block(r)
  \/ CallBroker(r)
  \/ Answer(r)
  \/ Reconcile(r)

Next ==
  \/ \E r \in Runs : RunStep(r)
  \/ \E t \in Trades : Close(t) \/ Refresh(t) \/ Sweep(t)
  \/ \E w \in Edits : EditRead(w)
  \/ \E w \in Repairs : Clear(w) \/ \E r \in Runs : RepairRead(w, r)
  \/ \E w \in Writers : Put(w)
  \/ Ask
  \/ Pause
  \/ Resume
  \/ Tick

Spec == Init /\ [][Next]_vars

-----------------------------------------------------------------------------
(* Every variable has its type, and a run has a suggestion exactly while    *)
(* it tries to place its order.                                            *)
TypeOK ==
  /\ status \in {"Running", "Paused", "Failed"} /\ nextRun \in Nat \cup {None}
  /\ row \in [Runs -> {"none", "Running", "Success", "Failed"}]
  /\ slot \in [Runs -> Nat \cup {None}]
  /\ pc \in [Runs -> Trying \cup {"idle", "scan", "fatal", "done", "dead"}]
  /\ trade \in [Runs -> Trades \cup {None}]
  /\ placed \in [Runs -> Nat]
  /\ exec \in [Trades -> {"none", "submitting", "linked", "ended", "failed"}]
  /\ owner \in [Trades -> Runs \cup {None}]
  /\ day \in [Trades -> Nat]
  /\ order \in [Trades -> {"none", "open", "closed", "failed"}]
  /\ wpc \in [Writers -> {"idle", "clear", "put", "done"}]
  /\ seen \in [Writers -> [status : {"Running", "Paused", "Failed"}, nextRun : Nat \cup {None}]]
  /\ target \in [Writers -> Runs \cup {None}]
  /\ next \in [Writers -> Nat \cup {None}]
  /\ asked \subseteq Nat /\ now \in Nat /\ today \in Nat
  /\ said \in {"Running", "Paused"} /\ cleared \subseteq Runs
  /\ hazard \subseteq {"early", "lost", "overwrote", "misread", "swept"}
  /\ \A r \in Runs : pc[r] \in Trying <=> trade[r] # None

(* Two runs of an automation are never at work together, unless a repair   *)
(* ended the row of one that was still at work: execute refuses to start   *)
(* beside an active row.                                                   *)
OneRun ==
  \A q, r \in Runs \ cleared : Live(q) /\ Live(r) => q = r

(* The broker's orders stay within the limits of the policy, as long as no *)
(* order was made behind a call that counts as failed: those of one run    *)
(* always; those accepted on one day that the broker did not fail, if no   *)
(* repair let two runs work together and no sweep wrote over a link; those *)
(* open at once, if moreover no refresh took an open order for an ended    *)
(* one.  The counts are read long before the order they allow is placed.   *)
LimitsHold ==
  "lost" \notin hazard =>
    /\ \A r \in Runs :
         Cardinality({t \in Trades : owner[t] = r /\ order[t] # "none"}) <= MaxPerRun
    /\ cleared = {} /\ "swept" \notin hazard =>
         /\ \A d \in {day[t] : t \in Trades} :
              Cardinality({t \in Trades : order[t] \in {"open", "closed"} /\ day[t] = d})
                <= MaxPerDay
         /\ "misread" \notin hazard =>
              Cardinality({t \in Trades : order[t] = "open"}) <= MaxOpen

(* A paused automation starts no run until an operator resumes it, unless  *)
(* an edit or a repair has written back a row that had changed since it    *)
(* was read.                                                               *)
PauseHolds ==
  [][\A r \in Runs : pc[r] = "idle" /\ pc'[r] # "idle"
       => said = "Running" \/ "overwrote" \in hazard]_vars

(* The next slot of a running automation has no run yet: a slot that has   *)
(* one would be refused for ever, "already queued for this schedule".      *)
(* The exceptions are a manual run that took its slot before the time, and *)
(* a row that was written back.                                            *)
NextSlotIsFree ==
  status = "Running" /\ hazard \cap {"early", "overwrote"} = {} => nextRun \notin Used
=============================================================================
