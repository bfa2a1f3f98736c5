-------------------------- MODULE SchedulersProofs --------------------------
(***************************************************************************)
(* Theorems about Schedulers, for any processes, requests and lock time,   *)
(* whatever the worker does and whichever runs a stop or a pause cancels.  *)
(*                                                                         *)
(* The two parts share no variable, so that each has an invariant of its   *)
(* own.  That of the loop says what the lock in the row is worth while no  *)
(* mishap has touched it; that of the commands follows a pause from the    *)
(* request that disables the scheduler to the last row it cancels.         *)
(***************************************************************************)
EXTENDS Schedulers, TLAPS

-----------------------------------------------------------------------------
(* The background loop *)

(* While nothing has outlived its lock, put an old one back or cleared a    *)
(* live one, a batch at work holds the lock that is in the row.            *)
HeldInv ==
  mishaps \cap {"outlived", "rewritten", "cleared"} = {} =>
    \A b \in Working : Live(held[b]) /\ held[b] = lock

LoopInv == LoopTypeOK /\ HeldInv /\ OneBatch /\ LockHasHolder

(* A lock that ages stays a lock, and does not come to life by it.          *)
LEMMA AgedSound ==
  ASSUME LoopAssumption, NEW l \in Locks
  PROVE  /\ Aged(l) \in Locks /\ (Live(Aged(l)) => Live(l))
         /\ Live(l) /\ l # 1 => Live(Aged(l))
  BY DEF LoopAssumption, Locks, Live, Aged

LEMMA LoopInitInv ==
  ASSUME LoopInit
  PROVE  LoopInv
<1>1. LoopTypeOK
  BY DEF LoopInit, LoopTypeOK, Locks
<1>2. Working = {} /\ ~Live(lock)
  BY DEF LoopInit, Working, Live
<1> QED  BY <1>1, <1>2 DEF LoopInv, HeldInv, OneBatch, LockHasHolder

(* What the row, its copies and the batches at work can say is left alone   *)
(* by a step that changes neither lock nor held, and whose only mishaps    *)
(* are new ones.                                                           *)
LEMMA LoopKept ==
  ASSUME LoopInv, LoopTypeOK', lock' = lock, Working' = Working,
         \A b \in Working : held'[b] = held[b], mishaps \subseteq mishaps'
  PROVE  LoopInv'
  BY DEF LoopInv, HeldInv, OneBatch, LockHasHolder, Live

(* updateByKey either saves the lock that is there, or makes a mishap of it *)
(* that both properties know.                                              *)
LEMMA SavedRowKeeps ==
  ASSUME LoopInv, NEW b \in Batches, SaveRow(b), LoopTypeOK', Working' = Working, held' = held
  PROVE  LoopInv'
<1>1. CASE bcopy[b] = lock
  <2>1. lock' = lock /\ mishaps' = mishaps
    BY <1>1 DEF SaveRow
  <2> QED  BY <2>1, LoopKept
<1>2. CASE bcopy[b] # lock
  <2>1. "rewritten" \in mishaps'
    BY <1>2 DEF SaveRow
  <2> QED  BY <2>1 DEF LoopInv, HeldInv, OneBatch, LockHasHolder
<1> QED  BY <1>1, <1>2

(* So does whoever clears the lock. *)
LEMMA ClearedLockKeeps ==
  ASSUME LoopInv, ClearLock, UNCHANGED <<stopping, bpc, bcopy, held>>, admin' \in {"idle", "release"}
  PROVE  LoopInv'
<1>1. LoopTypeOK'
  BY DEF LoopInv, LoopTypeOK, ClearLock, Locks
<1>2. Working' = Working /\ ~Live(lock')
  BY DEF Working, ClearLock, Live
<1>3. CASE Live(lock)
  <2>1. "cleared" \in mishaps'
    BY <1>3 DEF ClearLock
  <2> QED  BY <1>1, <1>2, <2>1 DEF LoopInv, HeldInv, OneBatch, LockHasHolder
<1>4. CASE ~Live(lock)
  <2>1. mishaps' = mishaps
    BY <1>4 DEF ClearLock
  <2>2. mishaps \cap {"outlived", "rewritten", "cleared"} = {} => Working = {}
    BY <1>4 DEF LoopInv, HeldInv
  <2> QED  BY <1>1, <1>2, <2>1, <2>2 DEF LoopInv, HeldInv, OneBatch, LockHasHolder
<1> QED  BY <1>3, <1>4

LEMMA StartBatchKeeps ==
  ASSUME LoopInv, NEW b \in Batches, StartBatch(b)
  PROVE  LoopInv'
<1>1. LoopTypeOK'
  BY DEF StartBatch, BatchAt, Copy, LoopInv, LoopTypeOK
<1>2. Working' = Working
  BY DEF StartBatch, BatchAt, Copy, LoopInv, LoopTypeOK, Working
<1> QED  BY <1>1, <1>2, LoopKept DEF StartBatch

LEMMA EnsureConfigKeeps ==
  ASSUME LoopAssumption, LoopInv, NEW b \in Batches, EnsureConfig(b)
  PROVE  LoopInv'
<1>1. LoopTypeOK'
  BY DEF EnsureConfig, BatchAt, SaveRow, LoopInv, LoopTypeOK, Locks
<1>2. Working' = Working
  BY DEF EnsureConfig, BatchAt, LoopInv, LoopTypeOK, Working
<1> QED  BY <1>1, <1>2, SavedRowKeeps DEF EnsureConfig

(* tryAcquireRunLock finds a lock that nobody at work can have. *)
LEMMA AcquireKeeps ==
  ASSUME LoopAssumption, LoopInv, NEW b \in Batches, Acquire(b)
  PROVE  LoopInv'
<1>1. LoopTypeOK'
  <2>1. Ttl \in Locks /\ LoopTypeOK
    BY DEF Locks, LoopAssumption, LoopInv
  <2>2. lock' \in Locks /\ held' \in [Batches -> Locks]
    BY <2>1 DEF Acquire, LoopTypeOK
  <2>3. /\ bpc' \in [Batches -> {"idle", "ensure", "acquire", "work", "finish", "release"}]
        /\ mishaps' \subseteq {"rewritten", "outlived", "cleared", "abandoned"}
    BY <2>1 DEF Acquire, BatchAt, LoopTypeOK
  <2> QED  BY <2>1, <2>2, <2>3 DEF Acquire, LoopTypeOK
<1>2. Free(lock) /\ mishaps \cap {"outlived", "rewritten", "cleared"} = {} => Working = {}
  BY DEF LoopInv, HeldInv, Free
<1>3. CASE Free(lock) /\ lock' = Ttl /\ held' = [held EXCEPT ![b] = Ttl] /\ BatchAt(b, "work")
           /\ UNCHANGED mishaps
  <2>1. Live(Ttl)
    BY DEF LoopAssumption, Live
  <2>2. Working' = Working \cup {b} /\ held'[b] = Ttl
    BY <1>3 DEF BatchAt, LoopInv, LoopTypeOK, Working
  <2> QED  BY <1>1, <1>2, <1>3, <2>1, <2>2 DEF LoopInv, HeldInv, OneBatch, LockHasHolder
<1>4. ASSUME BatchAt(b, "idle"), bpc[b] = "acquire"
      PROVE  Working' = Working
  BY <1>4 DEF BatchAt, LoopInv, LoopTypeOK, Working
<1>5. CASE Free(lock) /\ bpc[b] = "acquire" /\ BatchAt(b, "idle") /\ UNCHANGED held
           /\ mishaps' = mishaps \cup {"abandoned"}
  BY <1>1, <1>2, <1>4, <1>5 DEF LoopInv, HeldInv, OneBatch, LockHasHolder
<1>6. CASE bpc[b] = "acquire" /\ BatchAt(b, "idle") /\ UNCHANGED <<lock, held, mishaps>>
  BY <1>1, <1>4, <1>6, LoopKept
<1> QED  BY <1>3, <1>5, <1>6 DEF Acquire

LEMMA WorkKeeps ==
  ASSUME LoopInv, NEW b \in Batches, Work(b)
  PROVE  LoopInv'
<1>1. LoopTypeOK'
  BY DEF Work, BatchAt, Copy, LoopInv, LoopTypeOK
<1>2. Working' = Working
  BY DEF Work, BatchAt, Copy, LoopInv, LoopTypeOK, Working
<1> QED  BY <1>1, <1>2, LoopKept DEF Work

(* The finally of runBatchOnce: an end by an error is not yet the end. *)
LEMMA FinishKeeps ==
  ASSUME LoopAssumption, LoopInv, NEW b \in Batches, Finish(b)
  PROVE  LoopInv'
<1>1. LoopTypeOK'
  BY DEF Finish, AfterError, BatchAt, SaveRow, LoopInv, LoopTypeOK, Locks
<1>2. Working' = Working
  BY DEF Finish, AfterError, BatchAt, LoopInv, LoopTypeOK, Working
<1>3. CASE SaveRow(b) /\ held' = held
  BY <1>1, <1>2, <1>3, SavedRowKeeps
<1>4. CASE UNCHANGED <<lock, held, mishaps>>
  BY <1>1, <1>2, <1>4, LoopKept
<1> QED  BY <1>3, <1>4 DEF Finish

(* A release names no owner, but nobody else can be at work. *)
LEMMA ReleaseKeeps ==
  ASSUME LoopAssumption, LoopInv, NEW b \in Batches, Release(b)
  PROVE  LoopInv'
<1>1. LoopTypeOK'
  BY DEF Release, BatchAt, LoopInv, LoopTypeOK, Locks
<1>2. Working' = Working \ {b} /\ b \in Working
  BY DEF Release, BatchAt, LoopInv, LoopTypeOK, Working
<1>3. \A d \in Working' : held'[d] = held[d]
  BY <1>2 DEF Release, LoopInv, LoopTypeOK, Working
<1>4. mishaps' \cap {"outlived", "rewritten", "cleared"} = {} => Working' = {}
  <2>1. mishaps \subseteq mishaps'
    BY DEF Release
  <2> QED  BY <1>2, <2>1 DEF LoopInv, OneBatch
<1>5. ~Live(lock') \/ "abandoned" \in mishaps'
  BY DEF Release, Live
<1> QED  BY <1>1, <1>4, <1>5 DEF LoopInv, HeldInv, OneBatch, LockHasHolder

LEMMA StopKeeps ==
  ASSUME LoopInv, NEW p \in Procs, Stop(p)
  PROVE  LoopInv'
<1>1. LoopTypeOK' /\ Working' = Working
  BY DEF Stop, LoopInv, LoopTypeOK, Working
<1> QED  BY <1>1, LoopKept DEF Stop

(* A process that was at work leaves its lock behind when it dies. *)
LEMMA RestartKeeps ==
  ASSUME LoopInv, NEW p \in Procs, Restart(p)
  PROVE  LoopInv'
<1> DEFINE gone == {p} \X {"poll", "request"}
<1>1. LoopTypeOK'
  BY DEF Restart, LoopInv, LoopTypeOK, Locks
<1>2. Working' = Working \ gone /\ lock' = lock
  BY DEF Restart, LoopInv, LoopTypeOK, Working
<1>3. \A d \in Working' : held'[d] = held[d]
  BY <1>2 DEF Restart, LoopInv, LoopTypeOK, Working
<1>4. CASE gone \cap Working # {}
  <2>1. mishaps' = mishaps \cup {"abandoned"}
    BY <1>4 DEF Restart
  <2> HIDE DEF gone
  <2> QED  BY <1>1, <1>2, <1>3, <2>1 DEF LoopInv, HeldInv, OneBatch, LockHasHolder
<1>5. CASE gone \cap Working = {}
  <2>1. Working' = Working /\ mishaps' = mishaps
    BY <1>5, <1>2 DEF Restart
  <2> QED  BY <1>1, <1>2, <1>3, <2>1, LoopKept
<1> QED  BY <1>4, <1>5

LEMMA AdminReadKeeps ==
  ASSUME LoopInv, AdminRead
  PROVE  LoopInv'
<1>1. LoopTypeOK' /\ Working' = Working
  BY DEF AdminRead, LoopInv, LoopTypeOK, Working
<1> QED  BY <1>1, LoopKept DEF AdminRead

(* The row's lock and what a batch has left of it age together; a batch     *)
(* whose lock is used up has outlived it.                                  *)
LEMMA TimePassesKeeps ==
  ASSUME LoopAssumption, LoopInv, TimePasses
  PROVE  LoopInv'
<1>1. LoopTypeOK'
  BY AgedSound DEF TimePasses, LoopInv, LoopTypeOK
<1>2. Working' = Working /\ lock' = Aged(lock) /\ mishaps \subseteq mishaps'
  BY DEF TimePasses, Working
<1>3. \A d \in Working : d \in Batches /\ held'[d] = Aged(held[d]) /\ held[d] \in Locks
  BY DEF TimePasses, Working, LoopInv, LoopTypeOK
<1>4. ASSUME mishaps' \cap {"outlived", "rewritten", "cleared"} = {}, NEW d \in Working
      PROVE  Live(held'[d]) /\ held'[d] = lock'
  <2>1. held[d] # 1
    BY <1>4 DEF TimePasses
  <2>2. Live(held[d]) /\ held[d] = lock
    BY <1>2, <1>4 DEF LoopInv, HeldInv
  <2> QED  BY <1>2, <1>3, <2>1, <2>2, AgedSound
<1>5. ASSUME Live(lock'), mishaps' \cap {"abandoned", "rewritten"} = {}
      PROVE  \E d \in Working : held'[d] = lock'
  <2>1. Live(lock)
    BY <1>2, <1>5, AgedSound DEF LoopInv, LoopTypeOK
  <2>2. PICK d \in Working : held[d] = lock
    BY <1>2, <1>5, <2>1 DEF LoopInv, LockHasHolder
  <2> QED  BY <1>2, <1>3, <2>2
<1> QED  BY <1>1, <1>2, <1>4, <1>5 DEF LoopInv, HeldInv, OneBatch, LockHasHolder

LEMMA LoopStep ==
  ASSUME LoopAssumption, LoopInv, LoopNext
  PROVE  LoopInv'
<1>1. ASSUME NEW b \in Batches,
             StartBatch(b) \/ EnsureConfig(b) \/ Acquire(b) \/ Work(b) \/ Finish(b) \/ Release(b)
      PROVE  LoopInv'
  BY <1>1, StartBatchKeeps, EnsureConfigKeeps, AcquireKeeps, WorkKeeps, FinishKeeps, ReleaseKeeps
<1>2. ASSUME NEW p \in Procs, Stop(p) \/ Restart(p)
      PROVE  LoopInv'
  BY <1>2, StopKeeps, RestartKeeps
<1>3. CASE AdminRelease
  BY <1>3, ClearedLockKeeps DEF AdminRelease
<1>4. CASE RepairRow
  <2>1. admin' \in {"idle", "release"}
    BY <1>4 DEF RepairRow, LoopInv, LoopTypeOK
  <2> QED  BY <1>4, <2>1, ClearedLockKeeps DEF RepairRow
<1> QED
  BY <1>1, <1>2, <1>3, <1>4, AdminReadKeeps, TimePassesKeeps DEF LoopNext

LEMMA LoopRests ==
  ASSUME LoopInv, UNCHANGED loopVars
  PROVE  LoopInv'
<1>1. LoopTypeOK' /\ Working' = Working
  BY DEF loopVars, LoopInv, LoopTypeOK, Working
<1> QED  BY <1>1, LoopKept DEF loopVars

LEMMA LoopInvHolds == Spec => []LoopInv
<1>1. Init => LoopInv
  BY LoopInitInv DEF Init
<1>2. LoopInv /\ [Next]_vars => LoopInv'
  BY LoopAssumption, LoopStep, LoopRests DEF Next, vars
<1> QED  BY <1>1, <1>2, PTL DEF Spec

(* The run lock of the background loops: two batches of one key are at work *)
(* together only after a lock was outlived, put back or cleared.           *)
THEOREM BatchesStayApart == Spec => []OneBatch
<1>1. LoopInv => OneBatch
  BY DEF LoopInv
<1> QED  BY <1>1, LoopInvHolds, PTL

(* A live lock has a batch that will release it, unless the batch died, its *)
(* release failed, or updateByKey put an old lock back.                    *)
THEOREM LocksAreHeld == Spec => []LockHasHolder
<1>1. LoopInv => LockHasHolder
  BY DEF LoopInv
<1> QED  BY <1>1, LoopInvHolds, PTL

-----------------------------------------------------------------------------
(* The commands *)

(* What a request saves agrees with what it is for; only repairs synchronise *)
(* the configuration, and they have something to repair.                   *)
WishInv ==
  \A r \in Requests :
    /\ pc[r] = "save" /\ kind[r] = "pause" => ~wish[r]
    /\ pc[r] \in {"repairRun", "repairCommand", "syncRun", "sync"} =>
         kind[r] \in {"repairCommand", "repairRun"} /\ target[r] \in Requests

NoQueued == \A r \in Requests : run[r] # "Queued"

(* The course of a pause, without late requests and rewritten rows: it      *)
(* disables, then nothing waits, then no run does, and then it says so.    *)
PauseInv ==
  slips \cap {"late", "rewritten"} = {} =>
    /\ pausing # {} => ~enabled
    /\ paused => pausing # {} /\ Pending = {} /\ ("pause" \in Cancels => NoQueued)
    /\ \A r \in pausing : pc[r] = "runs" => Pending = {}

CommandInv == CommandTypeOK /\ WishInv /\ PauseInv /\ QueuedRunHasCommand

LEMMA CommandInitInv ==
  ASSUME CommandInit
  PROVE  CommandInv
<1>1. CommandTypeOK
  BY DEF CommandInit, CommandTypeOK, Kinds
<1>2. WishInv /\ PauseInv /\ QueuedRunHasCommand
  BY DEF CommandInit, WishInv, PauseInv, QueuedRunHasCommand
<1> QED  BY <1>1, <1>2 DEF CommandInv

(* Whatever a request or the worker does, rows and steps stay well formed. *)
LEMMA CommandTypeStep ==
  ASSUME CommandTypeOK, WishInv, CommandNext
  PROVE  CommandTypeOK'
<1> USE DEF CommandTypeOK, rowVars, requestVars
<1>1. ASSUME NEW r \in Requests, AskRun(r) \/ AskStop(r) \/ AskPause(r) \/ AskConfig(r)
      PROVE  CommandTypeOK'
  <2>1. CASE AskRun(r)
    BY <2>1 DEF AskRun, Ask, At, Kinds
  <2>2. CASE AskStop(r)
    BY <2>2 DEF AskStop, Ask, At, Kinds
  <2>3. CASE AskPause(r)
    BY <2>3 DEF AskPause, Ask, At, Kinds
  <2>4. CASE AskConfig(r)
    <3>1. wish' \in [Requests -> BOOLEAN]
      BY <2>4 DEF AskConfig
    <3>2. kind' \in [Requests -> Kinds]
      BY <2>4 DEF AskConfig, Ask, Kinds
    <3>3. pc' = [pc EXCEPT ![r] = "save"]
      BY <2>4 DEF AskConfig, Ask, At
    <3> QED  BY <2>4, <3>1, <3>2, <3>3 DEF AskConfig
  <2> QED  BY <1>1, <2>1, <2>2, <2>3, <2>4
<1>2. ASSUME NEW r \in Requests, CheckQueue(r) \/ CheckRunning(r)
      PROVE  CommandTypeOK'
  <2>1. CASE CheckQueue(r)
    BY <2>1 DEF CheckQueue, At
  <2>2. CASE CheckRunning(r)
    BY <2>2 DEF CheckRunning, At
  <2> QED  BY <1>2, <2>1, <2>2
<1>3. ASSUME NEW r \in Requests, CreateRun(r) \/ CreateCommand(r) \/ CreateStop(r)
      PROVE  CommandTypeOK'
  <2>1. CASE CreateRun(r)
    BY <2>1 DEF CreateRun, LateHere, At
  <2>2. CASE CreateCommand(r)
    BY <2>2 DEF CreateCommand, LateHere, At
  <2>3. CASE CreateStop(r)
    BY <2>3 DEF CreateStop, At
  <2> QED  BY <1>3, <2>1, <2>2, <2>3
<1>4. ASSUME NEW r \in Requests, StopPending(r) \/ CancelCommands(r) \/ CancelRuns(r)
      PROVE  CommandTypeOK'
  <2>1. CASE StopPending(r)
    BY <2>1 DEF StopPending, CancelPending, At
  <2>2. CASE CancelCommands(r)
    BY <2>2 DEF CancelCommands, CancelPending, At
  <2>3. CASE CancelRuns(r)
    BY <2>3 DEF CancelRuns, CancelQueued, At
  <2> QED  BY <1>4, <2>1, <2>2, <2>3
<1>5. ASSUME NEW r \in Requests, SaveConfig(r) \/ SyncConfig(r)
      PROVE  CommandTypeOK'
  <2>1. CASE SaveConfig(r)
    BY <2>1 DEF SaveConfig, Rewritten, At
  <2>2. CASE SyncConfig(r)
    BY <2>2 DEF SyncConfig, Rewritten, At
  <2> QED  BY <1>5, <2>1, <2>2
<1>6. ASSUME NEW r \in Requests, AskRepair(r) \/ RepairRun(r) \/ RepairCommand(r)
      PROVE  CommandTypeOK'
  <2>1. CASE AskRepair(r)
    BY <2>1 DEF AskRepair, Ask, At, Kinds
  <2>2. CASE RepairRun(r)
    <3>1. wish' \in [Requests -> BOOLEAN]
      BY <2>2 DEF RepairRun
    <3>2. run' \in [Requests -> {"none", "Queued", "Running", "Success", "Failed", "Cancelled"}]
      BY <2>2 DEF RepairRun, Repaired
    <3>3. pc' = [pc EXCEPT ![r] = pc'[r]] /\ pc'[r] \in {"syncRun", "repairCommand", "sync"}
      BY <2>2 DEF RepairRun, At
    <3>4. UNCHANGED <<enabled, command, stopCommand, owned, taken, kind, target, pausing, paused, slips>>
      BY <2>2 DEF RepairRun
    <3> QED  BY <3>1, <3>2, <3>3, <3>4
  <2>3. CASE RepairCommand(r)
    <3>1. wish' \in [Requests -> BOOLEAN]
      BY <2>3 DEF RepairCommand
    <3>2. command' \in [Requests -> {"none", "Pending", "Processing", "Completed", "Failed",
                                     "Cancelled"}]
      BY <2>3 DEF RepairCommand, Repaired
    <3>3. pc' = [pc EXCEPT ![r] = "sync"] /\ slips' \subseteq slips \cup {"unowned"}
      BY <2>3 DEF RepairCommand, At
    <3>4. UNCHANGED <<enabled, stopCommand, run, owned, taken, kind, target, pausing, paused>>
      BY <2>3 DEF RepairCommand
    <3> QED  BY <3>1, <3>2, <3>3, <3>4
  <2> QED  BY <1>6, <2>1, <2>2, <2>3
<1>7. ASSUME NEW r \in Requests, Die(r)
      PROVE  CommandTypeOK'
  BY <1>7 DEF Die, At
<1>8. ASSUME NEW r \in Requests, Take(r) \/ StartRun(r) \/ EndRun(r) \/ TakeStop(r)
      PROVE  CommandTypeOK'
  <2>1. CASE Take(r)
    BY <2>1 DEF Take
  <2>2. CASE StartRun(r)
    BY <2>2 DEF StartRun
  <2>3. CASE EndRun(r)
    BY <2>3 DEF EndRun
  <2>4. CASE TakeStop(r)
    BY <2>4 DEF TakeStop
  <2> QED  BY <1>8, <2>1, <2>2, <2>3, <2>4
<1>9. CASE Resume \/ WorkerDies
  BY <1>9 DEF Resume, WorkerDies
<1> QED
  BY <1>1, <1>2, <1>3, <1>4, <1>5, <1>6, <1>7, <1>8, <1>9 DEF CommandNext

LEMMA WishStep ==
  ASSUME CommandTypeOK, WishInv, CommandNext
  PROVE  WishInv'
<1> USE DEF CommandTypeOK, WishInv, rowVars, requestVars
<1>1. ASSUME NEW r \in Requests, AskRun(r) \/ AskStop(r) \/ AskPause(r) \/ AskConfig(r)
      PROVE  WishInv'
  BY <1>1 DEF AskRun, AskStop, AskPause, AskConfig, Ask, At
<1>2. ASSUME NEW r \in Requests, CheckQueue(r) \/ CheckRunning(r)
      PROVE  WishInv'
  BY <1>2 DEF CheckQueue, CheckRunning, At
<1>3. ASSUME NEW r \in Requests, CreateRun(r) \/ CreateCommand(r) \/ CreateStop(r)
      PROVE  WishInv'
  BY <1>3 DEF CreateRun, CreateCommand, CreateStop, At
<1>4. ASSUME NEW r \in Requests, StopPending(r) \/ CancelCommands(r) \/ CancelRuns(r)
      PROVE  WishInv'
  BY <1>4 DEF StopPending, CancelCommands, CancelRuns, At
<1>5. ASSUME NEW r \in Requests, SaveConfig(r) \/ SyncConfig(r)
      PROVE  WishInv'
  BY <1>5 DEF SaveConfig, SyncConfig, At
<1>6. ASSUME NEW r \in Requests, AskRepair(r)
      PROVE  WishInv'
  BY <1>6 DEF AskRepair, Ask, At
<1>7. ASSUME NEW r \in Requests, RepairRun(r) \/ RepairCommand(r)
      PROVE  WishInv'
  BY <1>7 DEF RepairRun, RepairCommand, At
<1>8. ASSUME NEW r \in Requests, Die(r)
      PROVE  WishInv'
  BY <1>8 DEF Die, At
<1>9. ASSUME NEW r \in Requests, Take(r) \/ StartRun(r) \/ EndRun(r) \/ TakeStop(r)
      PROVE  WishInv'
  BY <1>9 DEF Take, StartRun, EndRun, TakeStop
<1>10. CASE Resume \/ WorkerDies
  BY <1>10 DEF Resume, WorkerDies
<1> QED
  BY <1>1, <1>2, <1>3, <1>4, <1>5, <1>6, <1>7, <1>8, <1>9, <1>10 DEF CommandNext

(* Once a pause has disabled the scheduler only a late request can put      *)
(* something in the queue, and only a rewritten row or somebody who wants  *)
(* it can enable it again.                                                 *)
LEMMA PauseStep ==
  ASSUME CommandTypeOK, WishInv, PauseInv, CommandNext
  PROVE  PauseInv'
<1> USE DEF CommandTypeOK, PauseInv, Pending, NoQueued, rowVars, requestVars
<1>1. ASSUME NEW r \in Requests, AskRun(r) \/ AskStop(r) \/ AskPause(r) \/ AskConfig(r)
      PROVE  PauseInv'
  BY <1>1 DEF AskRun, AskStop, AskPause, AskConfig, Ask, At
<1>2. ASSUME NEW r \in Requests, CheckQueue(r) \/ CheckRunning(r)
      PROVE  PauseInv'
  BY <1>2 DEF CheckQueue, CheckRunning, At
<1>3. ASSUME NEW r \in Requests, CreateRun(r) \/ CreateCommand(r)
      PROVE  PauseInv'
  BY <1>3 DEF CreateRun, CreateCommand, LateHere, At
<1>4. ASSUME NEW r \in Requests, CreateStop(r)
      PROVE  PauseInv'
  BY <1>4 DEF CreateStop, At
<1>5. ASSUME NEW r \in Requests, StopPending(r) \/ CancelCommands(r)
      PROVE  PauseInv'
  BY <1>5 DEF StopPending, CancelCommands, CancelPending, At
<1>6. ASSUME NEW r \in Requests, CancelRuns(r)
      PROVE  PauseInv'
  BY <1>6 DEF CancelRuns, CancelQueued, At
<1>7. ASSUME NEW r \in Requests, SaveConfig(r)
      PROVE  PauseInv'
  BY <1>7 DEF SaveConfig, Rewritten, WishInv, At
<1>8. ASSUME NEW r \in Requests, SyncConfig(r)
      PROVE  PauseInv'
  BY <1>8 DEF SyncConfig, Rewritten, WishInv, At
<1>9. ASSUME NEW r \in Requests, AskRepair(r)
      PROVE  PauseInv'
  BY <1>9 DEF AskRepair, Ask, At
<1>10. ASSUME NEW r \in Requests, RepairRun(r) \/ RepairCommand(r)
       PROVE  PauseInv'
  BY <1>10 DEF RepairRun, RepairCommand, Repaired, At
<1>11. ASSUME NEW r \in Requests, Die(r)
       PROVE  PauseInv'
  BY <1>11 DEF Die, At
<1>12. ASSUME NEW r \in Requests, Take(r) \/ StartRun(r) \/ EndRun(r) \/ TakeStop(r)
       PROVE  PauseInv'
  BY <1>12 DEF Take, StartRun, EndRun, TakeStop
<1>13. CASE Resume \/ WorkerDies
  BY <1>13 DEF Resume, WorkerDies
<1> QED
  BY <1>1, <1>2, <1>3, <1>4, <1>5, <1>6, <1>7, <1>8, <1>9, <1>10, <1>11, <1>12, <1>13
     DEF CommandNext

(* A Queued run loses its command, or the request that is to create one,    *)
(* only with a slip, or while its own cancel is the next step.             *)
LEMMA QueuedStep ==
  ASSUME CommandTypeOK, WishInv, QueuedRunHasCommand, CommandNext
  PROVE  QueuedRunHasCommand'
<1> USE DEF CommandTypeOK, QueuedRunHasCommand, LiveCommands, rowVars, requestVars
<1>1. ASSUME NEW r \in Requests, AskRun(r) \/ AskStop(r) \/ AskPause(r) \/ AskConfig(r)
      PROVE  QueuedRunHasCommand'
  BY <1>1 DEF AskRun, AskStop, AskPause, AskConfig, Ask, At
<1>2. ASSUME NEW r \in Requests, CheckQueue(r) \/ CheckRunning(r)
      PROVE  QueuedRunHasCommand'
  BY <1>2 DEF CheckQueue, CheckRunning, At
<1>3. ASSUME NEW r \in Requests, CreateRun(r) \/ CreateCommand(r)
      PROVE  QueuedRunHasCommand'
  BY <1>3 DEF CreateRun, CreateCommand, At
<1>4. ASSUME NEW r \in Requests, CreateStop(r)
      PROVE  QueuedRunHasCommand'
  BY <1>4 DEF CreateStop, At
<1>5. ASSUME NEW r \in Requests, StopPending(r)
      PROVE  QueuedRunHasCommand'
  BY <1>5 DEF StopPending, CancelPending, Pending, At
<1>6. ASSUME NEW r \in Requests, CancelCommands(r)
      PROVE  QueuedRunHasCommand'
  BY <1>6 DEF CancelCommands, At
<1>7. ASSUME NEW r \in Requests, CancelRuns(r)
      PROVE  QueuedRunHasCommand'
  BY <1>7 DEF CancelRuns, CancelQueued, At
<1>8. ASSUME NEW r \in Requests, SaveConfig(r) \/ SyncConfig(r)
      PROVE  QueuedRunHasCommand'
  BY <1>8 DEF SaveConfig, SyncConfig, At
<1>9. ASSUME NEW r \in Requests, AskRepair(r)
      PROVE  QueuedRunHasCommand'
  BY <1>9 DEF AskRepair, Ask, At
<1>10. ASSUME NEW r \in Requests, RepairRun(r) \/ RepairCommand(r)
       PROVE  QueuedRunHasCommand'
  BY <1>10 DEF RepairRun, RepairCommand, WishInv, Repaired, At
<1>11. ASSUME NEW r \in Requests, Die(r)
       PROVE  QueuedRunHasCommand'
  BY <1>11 DEF Die
<1>12. ASSUME NEW r \in Requests, Take(r) \/ StartRun(r) \/ EndRun(r) \/ TakeStop(r)
       PROVE  QueuedRunHasCommand'
  BY <1>12 DEF Take, StartRun, EndRun, TakeStop
<1>13. CASE Resume \/ WorkerDies
  BY <1>13 DEF Resume, WorkerDies
<1> QED
  BY <1>1, <1>2, <1>3, <1>4, <1>5, <1>6, <1>7, <1>8, <1>9, <1>10, <1>11, <1>12, <1>13
     DEF CommandNext

LEMMA CommandRests ==
  ASSUME CommandInv, UNCHANGED commandVars
  PROVE  CommandInv'
  BY DEF commandVars, CommandInv, CommandTypeOK, WishInv, PauseInv, QueuedRunHasCommand,
         Pending, NoQueued, LiveCommands

LEMMA CommandInvHolds == Spec => []CommandInv
<1>1. Init => CommandInv
  BY CommandInitInv DEF Init
<1>2. CommandInv /\ CommandNext => CommandInv'
  BY CommandTypeStep, WishStep, PauseStep, QueuedStep DEF CommandInv
<1>3. CommandInv /\ [Next]_vars => CommandInv'
  BY <1>2, CommandRests DEF Next, vars
<1> QED  BY <1>1, <1>3, PTL DEF Spec

(* What pauseScheduler and updateSchedulerConfig told a user: the scheduler *)
(* is disabled and its queue is empty until somebody resumes it, whichever *)
(* requests are under way, but for late ones and rewritten rows.           *)
THEOREM PausesHold == Spec => []PausedIsIdle
<1>1. CommandInv => PausedIsIdle
  BY DEF CommandInv, PauseInv, PausedIsIdle, NoQueued
<1> QED  BY <1>1, CommandInvHolds, PTL

(* No run is left Queued without a command but for the three slips that     *)
(* collectStaleItems does not look for.                                    *)
THEOREM QueuedRunsHaveCommands == Spec => []QueuedRunHasCommand
<1>1. CommandInv => QueuedRunHasCommand
  BY DEF CommandInv
<1> QED  BY <1>1, CommandInvHolds, PTL

(* Rows, copies and steps of both parts are well formed. *)
THEOREM TypeCorrect == Spec => []TypeOK
<1>1. LoopInv /\ CommandInv => TypeOK
  BY DEF LoopInv, CommandInv, TypeOK
<1> QED  BY <1>1, LoopInvHolds, CommandInvHolds, PTL
=============================================================================
