---------------------------- MODULE SchedulerLoop ----------------------------
(***************************************************************************)
(* The background loop of one scheduler key in every server process:       *)
(* SuggestedTradeExecutionSyncService and, with the same code around       *)
(* another batch, PaperOrdersSchedulerService.                             *)
(*                                                                         *)
(* A batch runs under a lock kept in the scheduler_configs row of the key: *)
(* runningLockUntil, a time after which the lock is free again.  The lock  *)
(* is taken by a conditional update, but it is released by key without     *)
(* naming its owner, and updateByKey saves a whole row it has read before. *)
(*                                                                         *)
(* Times are relative to now: a lock value is the time that is left of it, *)
(* 0 when it has passed, and each value known anywhere shrinks as time     *)
(* passes.  All clocks agree.                                              *)
(*                                                                         *)
(* The operators named Mut... are faulty variants of the definition that   *)
(* follows them, each with a slip the code could have; no specification    *)
(* uses them.                                                              *)
(***************************************************************************)
EXTENDS Naturals

CONSTANTS
  Procs,      \* server processes
  Ttl,        \* lockTtlMs
  None        \* null

ASSUME LoopAssumption == Ttl \in Nat \ {0} /\ None \notin Nat

(* Batches that a process may have under way: that of the timer, and one   *)
(* asked for by requeueScheduler, which does not look at the running flag. *)
Batches == Procs \X {"poll", "request"}

VARIABLES
  lock,       \* runningLockUntil in the row
  stopping,   \* stopRequested of each process
  bpc,        \* step of each batch
  bcopy,      \* runningLockUntil in the copy of the row that a batch has read
  held,       \* history: what is left of the lock that a batch has taken
  admin,      \* step of the releaseSchedulerLock request
  mishaps     \* history: which unguarded things have happened

loopVars == <<lock, stopping, bpc, bcopy, held, admin, mishaps>>

Locks == 0..Ttl \cup {None}
Live(l) == l # None /\ l # 0
Working == {b \in Batches : bpc[b] \in {"work", "finish", "release"}}

LoopInit ==
  /\ lock = None
  /\ stopping = [p \in Procs |-> FALSE]
  /\ bpc = [b \in Batches |-> "idle"]
  /\ bcopy = [b \in Batches |-> None]
  /\ held = [b \in Batches |-> None]
  /\ admin = "idle"
  /\ mishaps = {}

BatchAt(b, step) == bpc' = [bpc EXCEPT ![b] = step]

(* updateByKey read the row, and saves what it read. *)
Copy(b) == bcopy' = [bcopy EXCEPT ![b] = lock]
SaveRow(b) ==
  /\ lock' = bcopy[b]
  /\ bcopy' = [bcopy EXCEPT ![b] = None]
  /\ mishaps' = IF bcopy[b] # lock THEN mishaps \cup {"rewritten"} ELSE mishaps

-----------------------------------------------------------------------------
(* runBatchOnce *)

(* The row has the settings of this process, or others. *)
StartBatch(b) ==
  /\ bpc[b] = "idle" /\ ~stopping[b[1]]
  /\ \/ BatchAt(b, "acquire") /\ UNCHANGED bcopy
     \/ BatchAt(b, "ensure") /\ Copy(b)
  /\ UNCHANGED <<lock, stopping, held, admin, mishaps>>

EnsureConfig(b) ==
  /\ bpc[b] = "ensure"
  /\ SaveRow(b)
  /\ BatchAt(b, "acquire")
  /\ UNCHANGED <<stopping, held, admin>>

MutFree(l) == TRUE                   \* the update without its condition

Free(l) == ~Live(l)                  \* running_lock_until IS NULL OR < NOW()

(* tryAcquireRunLock comes before the try: when it throws the batch is over, *)
(* and the lock, should it have been taken, stays.                         *)
Acquire(b) ==
  /\ bpc[b] = "acquire"
  /\ \/ /\ ~stopping[b[1]] /\ Free(lock)
        /\ lock' = Ttl
        /\ \/ /\ held' = [held EXCEPT ![b] = Ttl]
              /\ BatchAt(b, "work")
              /\ UNCHANGED mishaps
           \/ /\ mishaps' = mishaps \cup {"abandoned"}
              /\ BatchAt(b, "idle")
              /\ UNCHANGED held
     \/ BatchAt(b, "idle") /\ UNCHANGED <<lock, held, mishaps>>
  /\ UNCHANGED <<stopping, bcopy, admin>>

(* The batch ended well or not, and what came of it is to be noted. *)
Work(b) ==
  /\ bpc[b] = "work"
  /\ Copy(b)
  /\ BatchAt(b, "finish")
  /\ UNCHANGED <<lock, stopping, held, admin, mishaps>>

MutAfterError == "idle"              \* released only after a batch that was noted

AfterError == "release"              \* finally

Finish(b) ==
  /\ bpc[b] = "finish"
  /\ \/ SaveRow(b) /\ BatchAt(b, "release") /\ UNCHANGED held
     \/ /\ BatchAt(b, AfterError)
        /\ bcopy' = [bcopy EXCEPT ![b] = None]
        /\ UNCHANGED <<lock, held, mishaps>>
  /\ UNCHANGED <<stopping, admin>>

(* releaseRunLock, which may fail like any statement. *)
Release(b) ==
  /\ bpc[b] = "release"
  /\ \/ lock' = None /\ UNCHANGED mishaps
     \/ mishaps' = mishaps \cup {"abandoned"} /\ UNCHANGED lock
  /\ held' = [held EXCEPT ![b] = None]
  /\ BatchAt(b, "idle")
  /\ UNCHANGED <<stopping, bcopy, admin>>

-----------------------------------------------------------------------------
(* The process *)

Stop(p) ==
  /\ ~stopping[p]
  /\ stopping' = [stopping EXCEPT ![p] = TRUE]
  /\ UNCHANGED <<lock, bpc, bcopy, held, admin, mishaps>>

(* A process is started anew after it has crashed, or stopped: stop waits   *)
(* for the batch of the timer and for no other.                            *)
Restart(p) ==
  LET gone == {p} \X {"poll", "request"} IN
  /\ stopping[p] => bpc[<<p, "poll">>] = "idle"
  /\ stopping' = [stopping EXCEPT ![p] = FALSE]
  /\ bpc' = [b \in Batches |-> IF b \in gone THEN "idle" ELSE bpc[b]]
  /\ bcopy' = [b \in Batches |-> IF b \in gone THEN None ELSE bcopy[b]]
  /\ held' = [b \in Batches |-> IF b \in gone THEN None ELSE held[b]]
  /\ mishaps' = IF gone \cap Working # {} THEN mishaps \cup {"abandoned"} ELSE mishaps
  /\ UNCHANGED <<lock, admin>>

-----------------------------------------------------------------------------
(* RuntimeDiagnosticsService *)

(* releaseSchedulerLock reads the row and leaves a live lock alone. *)
AdminRead ==
  /\ admin = "idle" /\ lock = 0
  /\ admin' = "release"
  /\ UNCHANGED <<lock, stopping, bpc, bcopy, held, mishaps>>

ClearLock ==
  /\ lock' = None
  /\ mishaps' = IF Live(lock) THEN mishaps \cup {"cleared"} ELSE mishaps

AdminRelease ==
  /\ admin = "release"
  /\ ClearLock
  /\ admin' = "idle"
  /\ UNCHANGED <<stopping, bpc, bcopy, held>>

(* syncSchedulerConfigRepairState for a run of this key *)
RepairRow ==
  /\ ClearLock
  /\ UNCHANGED <<stopping, bpc, bcopy, held, admin>>

-----------------------------------------------------------------------------
(* Time *)

Aged(l) == IF Live(l) THEN l - 1 ELSE l

TimePasses ==
  /\ lock' = Aged(lock)
  /\ bcopy' = [b \in Batches |-> Aged(bcopy[b])]
  /\ held' = [b \in Batches |-> Aged(held[b])]
  /\ mishaps' = IF \E b \in Working : held[b] = 1 THEN mishaps \cup {"outlived"} ELSE mishaps
  /\ UNCHANGED <<stopping, bpc, admin>>

LoopNext ==
  \/ \E b \in Batches :
       StartBatch(b) \/ EnsureConfig(b) \/ Acquire(b) \/ Work(b) \/ Finish(b) \/ Release(b)
  \/ \E p \in Procs : Stop(p) \/ Restart(p)
  \/ AdminRead \/ AdminRelease \/ RepairRow
  \/ TimePasses

-----------------------------------------------------------------------------
(* Properties *)

LoopTypeOK ==
  /\ lock \in Locks
  /\ stopping \in [Procs -> BOOLEAN]
  /\ bpc \in [Batches -> {"idle", "ensure", "acquire", "work", "finish", "release"}]
  /\ bcopy \in [Batches -> Locks] /\ held \in [Batches -> Locks]
  /\ admin \in {"idle", "release"}
  /\ mishaps \subseteq {"rewritten", "outlived", "cleared", "abandoned"}

(* The lock of tryAcquireRunLock keeps two batches of a key apart, in one   *)
(* process and in several, through crashes and expiry, until a batch has   *)
(* outlived its lock, updateByKey has put back a lock that changed after   *)
(* the row was read, or a repair has cleared a live lock.                  *)
OneBatch ==
  mishaps \cap {"outlived", "rewritten", "cleared"} = {} =>
    \A b, d \in Working : b = d

(* A live lock has its batch: every end of a batch, by an error too, gives  *)
(* the lock back, so that nothing keeps the next batch waiting but a batch *)
(* at work, a lock whose taking or release an error or a crash cut off, or *)
(* a row put back by updateByKey.                                          *)
LockHasHolder ==
  Live(lock) /\ mishaps \cap {"abandoned", "rewritten"} = {} =>
    \E b \in Working : held[b] = lock
=============================================================================
