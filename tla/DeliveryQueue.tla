--------------------------- MODULE DeliveryQueue ---------------------------
(***************************************************************************)
(* The e-mail outbox: the email_deliveries table (EmailDeliveryRepository) *)
(* worked by EmailDeliveryWorker processes and by an administrator's       *)
(* retry and cleanup calls.  The WhatsApp outbox (WhatsappDelivery-        *)
(* Repository, WhatsappDeliveryWorker) is the same protocol without the    *)
(* administrator.                                                          *)
(*                                                                         *)
(* A worker claims a batch row by row with a conditional UPDATE and then   *)
(* sends and marks one row after the other.  Marking is NOT conditional:   *)
(* nothing ties a mark, or a release, to the claim it belongs to.          *)
(*                                                                         *)
(* A delivery is its position in createdAt order.  Of time only one fact   *)
(* matters: whether updated_at is older than staleMinutes.                 *)
(*                                                                         *)
(* The operators named Mut... are faulty variants of the definition that   *)
(* follows them, each with a slip the code could have; no specification    *)
(* uses them.                                                              *)
(***************************************************************************)
EXTENDS Integers, FiniteSets

CONSTANTS
  Deliveries,   \* number of rows ever inserted
  Workers,
  MaxAttempts,  \* env.email.maxAttempts
  BatchSize,    \* env.email.batchSize
  MaxStops,     \* bound on shutdowns and crashes
  MaxRetries    \* bound on administrator retries

ASSUME DeliveryAssumption ==
  /\ Deliveries \in Nat /\ MaxAttempts \in Nat \ {0} /\ BatchSize \in Nat \ {0}
  /\ MaxStops \in Nat /\ MaxRetries \in Nat

Delivery == 1..Deliveries

VARIABLES
  status,    \* of every row; "Absent" before the insert
  attempts,  \* of every row
  old,       \* rows whose updated_at is older than staleMinutes
  wpc,       \* step of every worker
  stop,      \* workers with stopRequested
  cand,      \* candidates a worker has selected and not yet tried to claim
  batch,     \* rows a worker believes are its own
  doomed,    \* ids an administrator's filtered cleanup has selected
  mailed,    \* history: deliveries that reached the recipient
  mailedAgain, \* history: deliveries that reached the recipient more than once
  tries,     \* history: transport calls per row since it was last queued
  stops, retries,   \* counters for the bounds
  hazard     \* history: "stale" takeovers, "lost" answers, messages left "unmarked",
             \* marks that were made and "denied"

rowVars == <<status, attempts, old>>
workerVars == <<wpc, stop, cand, batch>>
history == <<mailed, mailedAgain, tries, hazard>>
bounds == <<stops, retries>>
vars == <<status, attempts, old, wpc, stop, cand, batch, doomed,
          mailed, mailedAgain, tries, stops, retries, hazard>>

Init ==
  /\ status = [d \in Delivery |-> "Absent"]
  /\ attempts = [d \in Delivery |-> 0]
  /\ old = {}
  /\ wpc = [w \in Workers |-> "loop"]
  /\ stop = {}
  /\ cand = [w \in Workers |-> {}]
  /\ batch = [w \in Workers |-> {}]
  /\ doomed = {}
  /\ mailed = {} /\ mailedAgain = {}
  /\ tries = [d \in Delivery |-> 0]
  /\ stops = 0 /\ retries = 0
  /\ hazard = {}

-----------------------------------------------------------------------------
(* Rows.  Every UPDATE bumps updated_at; an UPDATE of a deleted row does    *)
(* nothing.                                                                *)

Live(d) == status[d] \notin {"Absent", "Deleted"}

Write(d, st, n) ==
  IF Live(d)
  THEN /\ status' = [status EXCEPT ![d] = st]
       /\ attempts' = [attempts EXCEPT ![d] = n]
       /\ old' = old \ {d}
  ELSE UNCHANGED rowVars

MutClaimableAll(d) ==   \* "Sent" is not excluded
  status[d] \in {"Queued", "Failed", "Sent"} /\ attempts[d] < MaxAttempts
MutClaimableFresh(d) ==   \* stale claims are not picked up
  status[d] \in {"Queued", "Failed"} /\ attempts[d] < MaxAttempts

(* The WHERE clause of claimPendingDeliveries, used twice. *)
Claimable(d) ==
  /\ \/ status[d] \in {"Queued", "Failed"}
     \/ status[d] = "Sending" /\ d \in old
  /\ attempts[d] < MaxAttempts

First(S) == CHOOSE d \in S : \A e \in S : d <= e

(* queueDelivery and cloneDeliveryForResend: a fresh row. *)
QueueDelivery(d) ==
  /\ status[d] = "Absent"
  /\ \A e \in Delivery : e < d => status[e] # "Absent"
  /\ status' = [status EXCEPT ![d] = "Queued"]
  /\ UNCHANGED <<attempts, old, workerVars, doomed, history, bounds>>

(* staleMinutes pass without a write to the row. *)
Age(d) ==
  /\ status[d] = "Sending" /\ d \notin old
  /\ old' = old \cup {d}
  /\ UNCHANGED <<status, attempts, workerVars, doomed, history, bounds>>

-----------------------------------------------------------------------------
(* EmailDeliveryWorker.processBatch.  A worker polls when it holds nothing, *)
(* claims while it has candidates, and then works its batch off in order.  *)

Enter(w, step) == wpc' = [wpc EXCEPT ![w] = step]
Polling(w)     == wpc[w] = "loop" /\ cand[w] = {} /\ batch[w] = {}
Working(w)     == wpc[w] = "loop" /\ cand[w] = {} /\ batch[w] # {}
Current(w)     == First(batch[w])
Done(w)        == batch' = [batch EXCEPT ![w] = @ \ {Current(w)}]

(* An error that the batch does not handle ends it; start() goes on         *)
(* polling, and what was claimed stays "Sending".                          *)
Drop(w) ==
  /\ cand' = [cand EXCEPT ![w] = {}]
  /\ batch' = [batch EXCEPT ![w] = {}]
  /\ Enter(w, "loop")

(* The candidate query: the oldest BatchSize claimable rows. *)
Select(w) ==
  /\ Polling(w) /\ w \notin stop
  /\ \E S \in SUBSET {d \in Delivery : Claimable(d)} :
       /\ S # {} /\ Cardinality(S) <= BatchSize
       /\ \A d \in Delivery : Claimable(d) /\ d \notin S =>
             Cardinality(S) = BatchSize /\ \A e \in S : e < d
       /\ cand' = [cand EXCEPT ![w] = S]
  /\ UNCHANGED <<rowVars, wpc, stop, batch, doomed, history, bounds>>

Holders(d) == {w \in Workers : d \in batch[w]}

MutClaim(w) ==   \* the UPDATE does not repeat the condition
  /\ cand[w] # {}
  /\ LET d == First(cand[w]) IN
       /\ cand' = [cand EXCEPT ![w] = @ \ {d}]
       /\ batch' = [batch EXCEPT ![w] = @ \cup {d}]
       /\ Write(d, "Sending", IF attempts[d] < MaxAttempts THEN attempts[d] + 1 ELSE MaxAttempts)
       /\ hazard' = IF status[d] = "Sending" /\ Holders(d) # {}
                    THEN hazard \cup {"stale"} ELSE hazard
  /\ UNCHANGED <<wpc, stop, doomed, mailed, mailedAgain, tries, bounds>>

MutClaimFree(w) ==   \* attempts is not counted
  /\ cand[w] # {}
  /\ LET d == First(cand[w]) IN
       /\ cand' = [cand EXCEPT ![w] = @ \ {d}]
       /\ IF Claimable(d)
          THEN /\ batch' = [batch EXCEPT ![w] = @ \cup {d}]
               /\ Write(d, "Sending", attempts[d])
               /\ hazard' = IF status[d] = "Sending" /\ Holders(d) # {}
                            THEN hazard \cup {"stale"} ELSE hazard
          ELSE UNCHANGED <<rowVars, batch, hazard>>
  /\ UNCHANGED <<wpc, stop, doomed, mailed, mailedAgain, tries, bounds>>

(* The conditional UPDATE of a row that still qualifies.  "stale" is a       *)
(* takeover from a worker that still works on the row.                     *)
Take(d) ==
  /\ Claimable(d)
  /\ Write(d, "Sending", attempts[d] + 1)
  /\ hazard' = IF status[d] = "Sending" /\ Holders(d) # {}
                THEN hazard \cup {"stale"} ELSE hazard

(* The candidate is claimed if it still qualifies, and read back. *)
Claim(w) ==
  /\ cand[w] # {}
  /\ LET d == First(cand[w]) IN
       /\ cand' = [cand EXCEPT ![w] = @ \ {d}]
       /\ \/ Take(d) /\ batch' = [batch EXCEPT ![w] = @ \cup {d}]
          \/ ~Claimable(d) /\ UNCHANGED <<rowVars, batch, hazard>>
  /\ UNCHANGED <<wpc, stop, doomed, mailed, mailedAgain, tries, bounds>>

(* A database error while claiming or releasing, perhaps after the UPDATE   *)
(* of a claim went through.                                                *)
BatchFails(w) ==
  /\ cand[w] # {} \/ (Working(w) /\ w \in stop)
  /\ Drop(w)
  /\ \/ UNCHANGED <<rowVars, hazard>>
     \/ cand[w] # {} /\ Take(First(cand[w]))
  /\ UNCHANGED <<stop, doomed, mailed, mailedAgain, tries, bounds>>

MutSend(w) ==   \* errors of the transport are swallowed
  /\ Working(w) /\ w \notin stop
  /\ LET d == Current(w) IN
       /\ tries' = [tries EXCEPT ![d] = @ + 1]
       /\ \/ mailed' = mailed \cup {d} /\ mailedAgain' = mailedAgain \cup ({d} \cap mailed)
          \/ UNCHANGED <<mailed, mailedAgain>>
  /\ Enter(w, "mark_sent")
  /\ UNCHANGED <<rowVars, stop, cand, batch, doomed, bounds, hazard>>

(* transport.send: it succeeds, or throws with or without the message gone. *)
Send(w) ==
  /\ Working(w) /\ w \notin stop
  /\ LET d == Current(w)
         Gone == /\ mailed' = mailed \cup {d}
                 /\ mailedAgain' = mailedAgain \cup ({d} \cap mailed)
     IN
       /\ tries' = [tries EXCEPT ![d] = @ + 1]
       /\ \/ Enter(w, "mark_sent") /\ Gone /\ UNCHANGED hazard
          \/ Enter(w, "mark_failed") /\ UNCHANGED <<mailed, mailedAgain, hazard>>
          \/ Enter(w, "mark_failed") /\ Gone /\ hazard' = hazard \cup {"lost"}
  /\ UNCHANGED <<rowVars, stop, cand, batch, doomed, bounds>>

(* markSent is inside the try: when it throws, a message that was sent is   *)
(* marked failed, even if the row says Sent by now.                        *)
MarkSent(w) ==
  /\ wpc[w] = "mark_sent"
  /\ \/ /\ Write(Current(w), "Sent", attempts[Current(w)])
        /\ Done(w) /\ Enter(w, "loop") /\ UNCHANGED hazard
     \/ /\ Enter(w, "mark_failed")
        /\ \/ UNCHANGED rowVars /\ hazard' = hazard \cup {"unmarked"}
           \/ /\ Write(Current(w), "Sent", attempts[Current(w)])
              /\ hazard' = hazard \cup {"denied"}
        /\ UNCHANGED batch
  /\ UNCHANGED <<stop, cand, doomed, mailed, mailedAgain, tries, bounds>>

MutMarkFailed(w) ==   \* the row is marked and kept for another try
  /\ wpc[w] = "mark_failed"
  /\ \/ /\ Write(Current(w), "Failed", attempts[Current(w)])
        /\ Enter(w, "loop") /\ UNCHANGED <<batch, cand>>
     \/ Drop(w) /\ UNCHANGED rowVars
  /\ UNCHANGED <<stop, doomed, history, bounds>>

(* markFailed is not: when it throws, the batch is over.                    *)
MarkFailed(w) ==
  /\ wpc[w] = "mark_failed"
  /\ \/ /\ Write(Current(w), "Failed", attempts[Current(w)])
        /\ (Done(w) /\ Enter(w, "loop") /\ UNCHANGED cand) \/ Drop(w)
     \/ Drop(w) /\ UNCHANGED rowVars
  /\ UNCHANGED <<stop, doomed, history, bounds>>

(* releaseClaimedDelivery, after stopRequested: any row that is "Sending"   *)
(* goes back to the queue and gets an attempt back.                        *)
Release(w) ==
  /\ Working(w) /\ w \in stop
  /\ LET d == Current(w) IN
       IF status[d] = "Sending"
       THEN Write(d, "Queued", IF attempts[d] > 0 THEN attempts[d] - 1 ELSE 0)
       ELSE UNCHANGED rowVars
  /\ Done(w)
  /\ UNCHANGED <<wpc, stop, cand, doomed, history, bounds>>

Stop(w) ==
  /\ w \notin stop /\ stops < MaxStops
  /\ stops' = stops + 1
  /\ stop' = stop \cup {w}
  /\ UNCHANGED <<rowVars, wpc, cand, batch, doomed, history, retries>>

(* The process dies with its batch, perhaps between a send and its mark. *)
Crash(w) ==
  /\ ~Polling(w) /\ stops < MaxStops
  /\ stops' = stops + 1
  /\ stop' = stop \cup {w}
  /\ Drop(w)
  /\ hazard' = IF wpc[w] = "mark_sent" THEN hazard \cup {"unmarked"} ELSE hazard
  /\ UNCHANGED <<rowVars, doomed, mailed, mailedAgain, tries, retries>>

(* start *)
Restart(w) ==
  /\ w \in stop /\ Polling(w)
  /\ stop' = stop \ {w}
  /\ UNCHANGED <<rowVars, wpc, cand, batch, doomed, history, bounds>>

-----------------------------------------------------------------------------
(* The administrator *)

(* retryFailedDelivery, retryAllFailedDeliveries, retryMatchingFailed-      *)
(* Deliveries: each row is updated on the condition that it is Failed.     *)
RetryFailed(d) ==
  /\ status[d] = "Failed" /\ retries < MaxRetries
  /\ retries' = retries + 1
  /\ Write(d, "Queued", 0)
  /\ tries' = [tries EXCEPT ![d] = 0]
  /\ UNCHANGED <<workerVars, doomed, mailed, mailedAgain, hazard, stops>>

Terminal(d) == status[d] \in {"Sent", "Failed"}

(* deleteTerminalDeliveriesOlderThanDays: one conditional DELETE. *)
Prune(d) ==
  /\ Terminal(d)
  /\ status' = [status EXCEPT ![d] = "Deleted"]
  /\ UNCHANGED <<attempts, old, workerVars, doomed, history, bounds>>

(* deleteMatchingTerminalDeliveries selects the ids of terminal rows ...    *)
CleanupSelect(d) ==
  /\ doomed = {} /\ Terminal(d)
  /\ doomed' = {d}
  /\ UNCHANGED <<rowVars, workerVars, history, bounds>>

(* ... and deletes by id. *)
CleanupDelete ==
  /\ doomed # {}
  /\ status' = [d \in Delivery |-> IF d \in doomed THEN "Deleted" ELSE status[d]]
  /\ doomed' = {}
  /\ UNCHANGED <<attempts, old, workerVars, history, bounds>>

-----------------------------------------------------------------------------
(* What a running worker does by itself. *)
WorkerStep(w) ==
  \/ Select(w) \/ Claim(w) \/ BatchFails(w) \/ Send(w)
  \/ MarkSent(w) \/ MarkFailed(w) \/ Release(w) \/ Restart(w)

RowStep(d) ==
  QueueDelivery(d) \/ Age(d) \/ RetryFailed(d) \/ Prune(d) \/ CleanupSelect(d)

Next ==
  \/ \E w \in Workers : WorkerStep(w) \/ Stop(w) \/ Crash(w)
  \/ \E d \in Delivery : RowStep(d)
  \/ CleanupDelete

Spec == Init /\ [][Next]_vars

(* The workers are supervised loops whose every await returns or throws,    *)
(* time passes, and the database does not fail every claim there is.        *)
(* Nothing obliges users or administrators.                                *)
FairSpec ==
  /\ Spec
  /\ \A w \in Workers : WF_vars(WorkerStep(w)) /\ SF_vars(Claim(w))
  /\ \A d \in Delivery : WF_vars(Age(d))

-----------------------------------------------------------------------------
TypeOK ==
  /\ status \in [Delivery -> {"Absent", "Queued", "Sending", "Sent", "Failed", "Deleted"}]
  /\ attempts \in [Delivery -> 0..MaxAttempts]
  /\ old \subseteq Delivery
  /\ wpc \in [Workers -> {"loop", "mark_sent", "mark_failed"}]
  /\ stop \subseteq Workers
  /\ cand \in [Workers -> SUBSET Delivery]
  /\ batch \in [Workers -> SUBSET Delivery]
  /\ doomed \subseteq Delivery
  /\ mailed \subseteq Delivery /\ mailedAgain \subseteq mailed
  /\ tries \in [Delivery -> Nat]
  /\ stops \in 0..MaxStops /\ retries \in 0..MaxRetries
  /\ hazard \subseteq {"stale", "lost", "unmarked", "denied"}

(* A recipient gets a message at most once, whatever stops, crashes, admin  *)
(* retries and cleanups interleave, unless a worker slower than staleMinutes *)
(* was robbed of its row, the transport threw after the message had gone,  *)
(* or the program failed or died between a message and the word that it    *)
(* is marked.                                                              *)
OneMailUnlessHazard ==
  hazard = {} => mailedAgain = {}

(* Two workers hold the same row only after one was robbed of it: claims,   *)
(* retries, releases, marks and aborted batches keep claims disjoint       *)
(* otherwise, takeovers of what a dead worker left behind included.        *)
ClaimsAreDisjoint ==
  \A v, w \in Workers :
     v # w /\ batch[v] \cap batch[w] # {} => "stale" \in hazard

(* "Sent" is never a lie: a row says Sent only if its message has gone,     *)
(* even when slow workers mark rows that others have taken over.           *)
SentIsTrue ==
  \A d \in Delivery : status[d] = "Sent" => d \in mailed

(* attempts pays for the transport calls: since its last queueing a row was *)
(* handed to the transport at most `attempts` times, hence at most          *)
(* maxAttempts times, unless a stale holder gave back an attempt that was   *)
(* not its own.                                                            *)
AttemptsPayForTries ==
  "stale" \notin hazard =>
     \A d \in Delivery : tries[d] <= attempts[d]

(* A Sent row stays Sent until it is deleted.  Only two can turn it back,   *)
(* because markFailed does not look at the status: a worker whose claim was *)
(* taken over, and one whose own markSent went through and then threw.     *)
SentIsFinal ==
  [][\A d \in Delivery :
        status[d] = "Sent" /\ hazard' \cap {"stale", "denied"} = {} =>
           status'[d] \in {"Sent", "Deleted"}]_vars

(* Every queued row is eventually sent, deleted, or has used up its         *)
(* attempts: crashes, shutdowns, aborted batches and failures delay it but  *)
(* never lose it.                                                          *)
QueuedIsSettled ==
  \A d \in Delivery :
     status[d] = "Queued" ~> (status[d] \in {"Sent", "Deleted"} \/ attempts[d] = MaxAttempts)
=============================================================================
