-------------------------- MODULE SchedulerCommands --------------------------
(***************************************************************************)
(* Requests to run, stop, restart, pause and configure one scheduler of a  *)
(* user: the enabled flag of its configuration row, the rows of            *)
(* scheduler_commands that trading-scheduler-worker carries out, and the   *)
(* rows of scheduler_run_logs, which the API creates as Queued before the  *)
(* command that names them.  RuntimeDiagnosticsService repairs both.       *)
(*                                                                         *)
(* The worker is in another repository.  All that is assumed of it is that *)
(* it takes Pending commands and makes what it can of them.                *)
(*                                                                         *)
(* A request creates at most one run, one command to run and one command   *)
(* to stop, and these bear its name.                                       *)
(*                                                                         *)
(* The operators named Mut... are faulty variants of the definition that   *)
(* follows them, each with a slip the code could have; no specification    *)
(* uses them.                                                              *)
(***************************************************************************)
EXTENDS Naturals, FiniteSets

CONSTANTS
  Requests,    \* requests that change something
  Cancels,     \* what also cancels Queued runs: "pause", "stop"
  Nothing      \* null

ASSUME CommandAssumption == Cancels \subseteq {"pause", "stop"} /\ Nothing \notin Requests

VARIABLES
  enabled,     \* enabled in the scheduler_user_configs row
  command,     \* status of the run_now command of each request
  stopCommand, \* status of its stop_now command
  run,         \* status of its run
  owned,       \* runs whose row names their command
  taken,       \* commands to run that the worker is at
  pc,          \* step of each request
  kind,        \* what each request is for
  wish,        \* the enabled flag a request is about to save
  target,      \* what a repair is about
  pausing,     \* history: requests that have disabled and nobody has enabled since
  paused,      \* history: one of them told its user that the scheduler is paused
  slips        \* history: which unguarded things have happened

rowVars == <<command, stopCommand, run, owned>>
requestVars == <<pc, kind, wish, target>>
commandVars == <<enabled, command, stopCommand, run, owned, taken, pc, kind, wish, target,
                 pausing, paused, slips>>

Kinds == {"run", "replay", "restart", "stop", "pause", "enable", "config", "repairCommand", "repairRun"}

CommandInit ==
  /\ enabled \in BOOLEAN
  /\ command = [r \in Requests |-> "none"]
  /\ stopCommand = [r \in Requests |-> "none"]
  /\ run = [r \in Requests |-> "none"]
  /\ owned = {} /\ taken = {}
  /\ pc = [r \in Requests |-> "idle"]
  /\ kind = [r \in Requests |-> "run"]
  /\ wish = [r \in Requests |-> TRUE]
  /\ target = [r \in Requests |-> Nothing]
  /\ pausing = {} /\ paused = FALSE /\ slips = {}

-----------------------------------------------------------------------------
(* Rows *)

Pending == {r \in Requests : command[r] = "Pending"}
LiveCommands == {r \in Requests : command[r] \in {"Pending", "Processing"}}

MutCancelPending(rows) == rows       \* forgets the commands

(* cancelPending..., cancelQueuedRuns... *)
CancelPending(rows) == [r \in Requests |-> IF rows[r] = "Pending" THEN "Cancelled" ELSE rows[r]]

MutCancelQueued == run               \* forgets the runs

CancelQueued == [r \in Requests |-> IF run[r] = "Queued" THEN "Cancelled" ELSE run[r]]

InFlight == {r \in Requests : pc[r] \notin {"idle", "done"}}
At(r, step) == pc' = [pc EXCEPT ![r] = step]

(* The request gets under way, at a given step. *)
Ask(r, k, step) ==
  /\ pc[r] = "idle"
  /\ kind' = [kind EXCEPT ![r] = k]
  /\ At(r, step)

-----------------------------------------------------------------------------
(* runNow and requeueScheduler; restartScheduler *)

(* A replay, or a run for one account or broker, looks at nothing else. *)
AskRun(r) ==
  /\ enabled
  /\ \/ Ask(r, "run", "queue")
     \/ Ask(r, "replay", "row")
     \/ Ask(r, "restart", "cancel")
  /\ UNCHANGED <<enabled, rowVars, taken, wish, target, pausing, paused, slips>>

QueueFull == LiveCommands # {}

CheckQueue(r) ==
  /\ pc[r] = "queue"
  /\ At(r, IF QueueFull THEN "done" ELSE "running")
  /\ UNCHANGED <<enabled, rowVars, taken, kind, wish, target, pausing, paused, slips>>

(* hasRunningRunBySchedulerKeyAndActor *)
CheckRunning(r) ==
  LET running == \E q \in Requests : run[q] = "Running" IN
  /\ pc[r] = "running"
  /\ At(r, CASE kind[r] = "run" -> IF running THEN "done" ELSE "row"
             [] running -> "stopCommand"
             [] kind[r] = "restart" -> "command"
             [] OTHER -> "done")
  /\ UNCHANGED <<enabled, rowVars, taken, kind, wish, target, pausing, paused, slips>>

LateHere == IF enabled THEN {} ELSE {"late"}

CreateRun(r) ==
  /\ pc[r] = "row"
  /\ run' = [run EXCEPT ![r] = "Queued"]
  /\ slips' = slips \cup LateHere
  /\ At(r, "command")
  /\ UNCHANGED <<enabled, command, stopCommand, owned, taken, kind, wish, target, pausing, paused>>

CreateCommand(r) ==
  /\ pc[r] = "command"
  /\ command' = [command EXCEPT ![r] = "Pending"]
  /\ slips' = slips \cup LateHere
  /\ At(r, "done")
  /\ UNCHANGED <<enabled, stopCommand, run, owned, taken, kind, wish, target, pausing, paused>>

(* stopScheduler *)
AskStop(r) ==
  /\ Ask(r, "stop", "cancel")
  /\ UNCHANGED <<enabled, rowVars, taken, wish, target, pausing, paused, slips>>

(* The commands to run that wait are cancelled, and their runs are left     *)
(* Queued unless the service cancels those as well.                        *)
StopPending(r) ==
  /\ pc[r] = "cancel"
  /\ command' = CancelPending(command)
  /\ slips' = IF "stop" \notin Cancels /\ \E q \in Pending : run[q] = "Queued"
              THEN slips \cup {"stopped"} ELSE slips
  /\ At(r, IF "stop" \in Cancels THEN "runs" ELSE "running")
  /\ UNCHANGED <<enabled, stopCommand, run, owned, taken, kind, wish, target, pausing, paused>>

CreateStop(r) ==
  /\ pc[r] = "stopCommand"
  /\ stopCommand' = [stopCommand EXCEPT ![r] = "Pending"]
  /\ At(r, IF kind[r] = "restart" THEN "command" ELSE "done")
  /\ UNCHANGED <<enabled, command, run, owned, taken, kind, wish, target, pausing, paused, slips>>

-----------------------------------------------------------------------------
(* pauseScheduler, resumeScheduler, updateSchedulerConfig *)

AskPause(r) ==
  /\ Ask(r, "pause", "commands")
  /\ enabled' = FALSE /\ pausing' = pausing \cup {r}
  /\ UNCHANGED <<rowVars, taken, wish, target, paused, slips>>

Resume ==
  /\ ~enabled
  /\ enabled' = TRUE /\ pausing' = {} /\ paused' = FALSE
  /\ UNCHANGED <<rowVars, taken, requestVars, slips>>

(* updateBySchedulerKeyAndUserId reads the row; the body may set the flag. *)
AskConfig(r) ==
  /\ \/ Ask(r, "config", "save") /\ wish' = [wish EXCEPT ![r] = enabled]
     \/ Ask(r, "enable", "save") /\ wish' = [wish EXCEPT ![r] = TRUE]
     \/ Ask(r, "pause", "save") /\ wish' = [wish EXCEPT ![r] = FALSE]
  /\ UNCHANGED <<enabled, rowVars, taken, target, pausing, paused, slips>>

(* A whole row is saved, with the flag it had when it was read. *)
Rewritten(r) ==
  IF wish[r] # enabled /\ kind[r] \notin {"pause", "enable"} THEN {"rewritten"} ELSE {}

SaveConfig(r) ==
  /\ pc[r] = "save"
  /\ enabled' = wish[r]
  /\ slips' = slips \cup Rewritten(r)
  /\ pausing' = CASE kind[r] = "pause" -> pausing \cup {r}
                  [] kind[r] = "enable" -> {}
                  [] OTHER -> pausing
  /\ paused' = (paused /\ kind[r] # "enable")
  /\ At(r, IF kind[r] = "pause" THEN "commands" ELSE "done")
  /\ UNCHANGED <<rowVars, taken, kind, wish, target>>

CancelCommands(r) ==
  /\ pc[r] = "commands"
  /\ command' = CancelPending(command)
  /\ stopCommand' = CancelPending(stopCommand)
  /\ At(r, "runs")
  /\ UNCHANGED <<enabled, run, owned, taken, kind, wish, target, pausing, paused, slips>>

CancelRuns(r) ==
  /\ pc[r] = "runs"
  /\ run' = IF kind[r] # "pause" \/ "pause" \in Cancels THEN CancelQueued ELSE run
  /\ slips' = IF kind[r] = "pause" /\ "pause" \notin Cancels THEN slips \cup {"stopped"} ELSE slips
  /\ paused' = (paused \/ r \in pausing)
  /\ At(r, IF kind[r] = "pause" THEN "done" ELSE "running")
  /\ UNCHANGED <<enabled, command, stopCommand, owned, taken, kind, wish, target, pausing>>

-----------------------------------------------------------------------------
(* repairSchedulerCommand and repairSchedulerRun, whatever became of either *)

Repaired == {"Failed", "Cancelled"}

AskRepair(r) ==
  /\ \E q \in Requests :
       /\ target' = [target EXCEPT ![r] = q]
       /\ \/ command[q] # "none"
             /\ Ask(r, "repairCommand", IF q \in owned /\ run[q] \in {"Queued", "Running"}
                                        THEN "repairRun" ELSE "repairCommand")
          \/ run[q] # "none" /\ Ask(r, "repairRun", "repairRun")
  /\ UNCHANGED <<enabled, rowVars, taken, wish, pausing, paused, slips>>

(* syncSchedulerConfigRepairState reads the row, and saves it as a step of  *)
(* its own.                                                                *)
RepairRun(r) ==
  /\ pc[r] = "repairRun"
  /\ \E s \in Repaired : run' = [run EXCEPT ![target[r]] = s]
  /\ wish' = [wish EXCEPT ![r] = enabled]
  /\ At(r, IF kind[r] = "repairCommand" THEN "syncRun"
           ELSE IF target[r] \in owned THEN "repairCommand" ELSE "sync")
  /\ UNCHANGED <<enabled, command, stopCommand, owned, taken, kind, target, pausing, paused, slips>>

(* A Queued run is not found by its command before the worker has named it. *)
RepairCommand(r) ==
  /\ pc[r] = "repairCommand"
  /\ \E s \in Repaired : command' = [command EXCEPT ![target[r]] = s]
  /\ slips' = IF run[target[r]] = "Queued" THEN slips \cup {"unowned"} ELSE slips
  /\ wish' = [wish EXCEPT ![r] = enabled]
  /\ At(r, "sync")
  /\ UNCHANGED <<enabled, stopCommand, run, owned, taken, kind, target, pausing, paused>>

SyncConfig(r) ==
  /\ pc[r] \in {"syncRun", "sync"}
  /\ enabled' = wish[r]
  /\ slips' = slips \cup Rewritten(r)
  /\ At(r, IF pc[r] = "syncRun" THEN "repairCommand" ELSE "done")
  /\ UNCHANGED <<rowVars, taken, kind, wish, target, pausing, paused>>

(* A statement fails, or the process ends, and the request with it. *)
Die(r) ==
  /\ r \in InFlight
  /\ slips' = slips \cup {"cut"}
  /\ At(r, "done")
  /\ UNCHANGED <<enabled, rowVars, taken, kind, wish, target, pausing, paused>>

-----------------------------------------------------------------------------
(* The worker *)

Take(r) ==
  /\ command[r] = "Pending"
  /\ command' = [command EXCEPT ![r] = "Processing"]
  /\ taken' = taken \cup {r}
  /\ UNCHANGED <<enabled, stopCommand, run, owned, requestVars, pausing, paused, slips>>

StartRun(r) ==
  /\ r \in taken /\ run[r] \in {"none", "Queued"}
  /\ run' = [run EXCEPT ![r] = "Running"]
  /\ owned' = owned \cup {r}
  /\ UNCHANGED <<enabled, command, stopCommand, taken, requestVars, pausing, paused, slips>>

EndRun(r) ==
  /\ r \in taken /\ run[r] # "Queued"
  /\ \E s \in {"Success", "Failed"} :
       run' = IF run[r] = "Running" THEN [run EXCEPT ![r] = s] ELSE run
  /\ command' = [command EXCEPT ![r] = "Completed"]
  /\ taken' = taken \ {r}
  /\ UNCHANGED <<enabled, stopCommand, owned, requestVars, pausing, paused, slips>>

TakeStop(r) ==
  /\ stopCommand[r] = "Pending"
  /\ stopCommand' = [stopCommand EXCEPT ![r] = "Completed"]
  /\ run' = [q \in Requests |-> IF run[q] = "Running" THEN "Cancelled" ELSE run[q]]
  /\ UNCHANGED <<enabled, command, owned, taken, requestVars, pausing, paused, slips>>

WorkerDies ==
  /\ taken # {}
  /\ taken' = {}
  /\ UNCHANGED <<enabled, rowVars, requestVars, pausing, paused, slips>>

CommandNext ==
  \/ \E r \in Requests :
       \/ AskRun(r) \/ CheckQueue(r) \/ CheckRunning(r) \/ CreateRun(r) \/ CreateCommand(r)
       \/ AskStop(r) \/ StopPending(r) \/ CreateStop(r)
       \/ AskPause(r) \/ AskConfig(r) \/ SaveConfig(r) \/ CancelCommands(r) \/ CancelRuns(r)
       \/ AskRepair(r) \/ RepairRun(r) \/ RepairCommand(r) \/ SyncConfig(r)
       \/ Die(r)
       \/ Take(r) \/ StartRun(r) \/ EndRun(r) \/ TakeStop(r)
  \/ Resume \/ WorkerDies

-----------------------------------------------------------------------------
(* Properties *)

CommandTypeOK ==
  /\ enabled \in BOOLEAN
  /\ command \in [Requests -> {"none", "Pending", "Processing", "Completed", "Failed", "Cancelled"}]
  /\ stopCommand \in [Requests -> {"none", "Pending", "Completed", "Cancelled"}]
  /\ run \in [Requests -> {"none", "Queued", "Running", "Success", "Failed", "Cancelled"}]
  /\ owned \subseteq Requests /\ taken \subseteq Requests
  /\ pc \in [Requests -> {"idle", "queue", "running", "row", "command", "cancel", "stopCommand",
                          "commands", "runs", "save", "repairRun", "syncRun", "repairCommand",
                          "sync", "done"}]
  /\ kind \in [Requests -> Kinds] /\ wish \in [Requests -> BOOLEAN]
  /\ target \in [Requests -> Requests \cup {Nothing}]
  /\ pausing \subseteq Requests /\ paused \in BOOLEAN
  /\ slips \subseteq {"late", "stopped", "rewritten", "unowned", "cut"}

(* Once a user was told that the scheduler is paused it is disabled, and no *)
(* run waits, until it is resumed: except for a run asked for before the   *)
(* pause that gets into the queue behind it, and when a request that has   *)
(* read the configuration before the pause saves it whole after.           *)
PausedIsIdle ==
  paused /\ slips \cap {"late", "rewritten"} = {} =>
    ~enabled /\ Pending = {} /\ ("pause" \in Cancels => \A r \in Requests : run[r] # "Queued")

(* A run shown as Queued has a command that will run it, or a request at    *)
(* work on one of the two: nothing looks for others, collectStaleItems     *)
(* included.  What leaves one alone are a stop or restart that cancels     *)
(* commands only, the repair of a command whose run had not been started,  *)
(* and a request cut off between its two rows.                             *)
QueuedRunHasCommand ==
  slips \cap {"stopped", "unowned", "cut"} = {} =>
    \A r \in Requests : run[r] = "Queued" =>
      r \in LiveCommands \/ pc[r] = "command" \/ \E q \in Requests : pc[q] = "runs"
=============================================================================
