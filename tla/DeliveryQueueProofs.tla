------------------------ MODULE DeliveryQueueProofs ------------------------
(***************************************************************************)
(* The safety of the delivery queue, for any number of rows and workers,   *)
(* any batch size and any attempt limit.                                   *)
(*                                                                         *)
(* The argument: a row in a worker's batch is "Sending" (or deleted), and  *)
(* rows in that state are claimed only when they are stale, so without a   *)
(* robbery batches are disjoint; a message that has gone is either marked  *)
(* or the current row of the one worker about to mark it; and a held row   *)
(* that was not handed to the transport yet has an attempt left over.      *)
(***************************************************************************)
EXTENDS DeliveryQueue, WellFoundedInduction, TLAPS

(* A worker between a send and its mark has a current row and no candidates. *)
Busy ==
  \A w \in Workers : wpc[w] # "loop" => batch[w] # {} /\ cand[w] = {}

(* What a worker holds is being sent, or was deleted under it, or is marked *)
(* without the worker knowing it; and nobody else holds it.                *)
ClaimsSound ==
  /\ \A w \in Workers : \A d \in batch[w] :
        status[d] \in {"Sending", "Deleted"} \/ (status[d] = "Sent" /\ "denied" \in hazard)
  /\ \A v, w \in Workers : v # w => batch[v] \cap batch[w] = {}

(* Before "Sent" is written the message has gone. *)
MarkIsTrue ==
  \A w \in Workers : wpc[w] = "mark_sent" => Current(w) \in mailed

(* A message that has gone is marked, or held by a worker about to mark it, *)
(* and it has gone only once.                                              *)
MailSound ==
  /\ \A d \in mailed : status[d] \in {"Sent", "Deleted"} \/ \E w \in Workers : d \in batch[w]
  /\ \A w \in Workers : \A d \in batch[w] \cap mailed :
        wpc[w] = "mark_sent" /\ d = Current(w)
  /\ mailedAgain = {}

(* The attempts pay for the tries, and a held row that is still to be sent  *)
(* has an attempt that is not used yet.                                    *)
PaySound ==
  /\ \A d \in Delivery : tries[d] <= attempts[d]
  /\ \A w \in Workers : \A d \in batch[w] :
        wpc[w] = "loop" \/ d # Current(w) => tries[d] < attempts[d]

TypeInv == TypeOK /\ Busy
ClaimInv == "stale" \notin hazard => ClaimsSound
SentInv == SentIsTrue /\ MarkIsTrue
MailInv == hazard = {} => MailSound
PayInv == "stale" \notin hazard => PaySound

-----------------------------------------------------------------------------
(* First picks a member: a set of naturals that is not empty has a least one. *)
LEMMA FirstIsMember ==
  ASSUME NEW S, S \subseteq Delivery, S # {}
  PROVE  First(S) \in S /\ First(S) \in Delivery
<1>1. S \subseteq Nat
  BY DeliveryAssumption DEF Delivery
<1> DEFINE R == {ss \in Nat \X Nat : ss[1] < ss[2]}
<1>2. IsWellFoundedOn(R, Nat)
  BY NatLessThanWellFounded, Zenon DEF OpToRel
<1>3. \E d \in S : \A e \in S : ~(<<e, d>> \in R)
  <2> HIDE DEF R
  <2> QED BY <1>1, <1>2, WFMin
<1>4. \A d, e \in S : e < d => <<e, d>> \in R
  BY <1>1
<1>5. \E d \in S : \A e \in S : ~(e < d)
  BY <1>3, <1>4
<1>6. \E d \in S : \A e \in S : d <= e
  BY <1>1, <1>5
<1> QED
  BY <1>6 DEF First

(* TypeOK is kept by every step; Busy makes Current(w) a row. *)
LEMMA TypeStep ==
  ASSUME TypeInv, [Next]_vars
  PROVE  TypeInv'
<1> USE DEF TypeInv
<1> USE DeliveryAssumption
<1>1. ASSUME NEW d \in Delivery, RowStep(d)
      PROVE  TypeInv'
  <2>1. Busy'
    BY <1>1 DEF TypeOK, Busy, RowStep, QueueDelivery, Age, RetryFailed, Prune, CleanupSelect,
       workerVars
  <2>2. CASE RetryFailed(d)
    BY <2>1, <2>2 DEF TypeOK, RetryFailed, Write, rowVars, workerVars
  <2>3. CASE QueueDelivery(d) \/ Age(d) \/ Prune(d) \/ CleanupSelect(d)
    BY <2>1, <2>3 DEF TypeOK, QueueDelivery, Age, Prune, CleanupSelect,
       rowVars, workerVars, history, bounds
  <2> QED
    BY <1>1, <2>2, <2>3 DEF RowStep
<1>2. CASE CleanupDelete
  BY <1>2 DEF TypeOK, Busy, CleanupDelete, workerVars, history, bounds
<1>3. ASSUME NEW w \in Workers, Select(w)
      PROVE  TypeInv'
  BY <1>3 DEF TypeOK, Busy, Select, Polling, rowVars, history, bounds
<1>4. ASSUME NEW w \in Workers, Claim(w)
      PROVE  TypeInv'
  <2>1. First(cand[w]) \in Delivery
    BY <1>4, FirstIsMember DEF Claim, TypeOK
  <2>2. wpc[w] = "loop"
    BY <1>4 DEF Claim, Busy
  <2> DEFINE d == First(cand[w])
  <2>3. (status' \in [Delivery -> {"Absent", "Queued", "Sending", "Sent", "Failed", "Deleted"}])
        /\ (attempts' \in [Delivery -> 0..MaxAttempts]) /\ old' \subseteq Delivery
    BY <1>4, <2>1 DEF Claim, Take, TypeOK, Write, Claimable, rowVars
  <2>4. cand' \in [Workers -> SUBSET Delivery] /\ batch' \in [Workers -> SUBSET Delivery]
    BY <1>4, <2>1 DEF Claim, TypeOK
  <2>5. hazard' \subseteq {"stale", "lost", "unmarked", "denied"}
    BY <1>4 DEF Claim, Take, TypeOK
  <2>6. TypeOK'
    BY <1>4, <2>3, <2>4, <2>5 DEF Claim, TypeOK, bounds
  <2>7. Busy'
    BY <1>4, <2>2 DEF Claim, TypeOK, Busy
  <2> QED BY <2>6, <2>7
<1>5. ASSUME NEW w \in Workers, BatchFails(w)
      PROVE  TypeInv'
  <2>1. Busy' /\ cand' \in [Workers -> SUBSET Delivery] /\ batch' \in [Workers -> SUBSET Delivery]
        /\ wpc' \in [Workers -> {"loop", "mark_sent", "mark_failed"}]
    BY <1>5 DEF TypeOK, Busy, BatchFails, Drop, Enter
  <2>2. /\ status' \in [Delivery -> {"Absent", "Queued", "Sending", "Sent", "Failed", "Deleted"}]
        /\ attempts' \in [Delivery -> 0..MaxAttempts] /\ old' \subseteq Delivery
        /\ hazard' \subseteq {"stale", "lost", "unmarked", "denied"}
    <3>1. CASE UNCHANGED <<rowVars, hazard>>
      BY <3>1 DEF TypeOK, rowVars
    <3>2. CASE cand[w] # {} /\ Take(First(cand[w]))
      <4>1. First(cand[w]) \in Delivery
        BY <3>2, FirstIsMember DEF TypeOK
      <4> QED  BY <3>2, <4>1 DEF Take, TypeOK, Write, Claimable, rowVars
    <3> QED  BY <1>5, <3>1, <3>2 DEF BatchFails
  <2> QED  BY <1>5, <2>1, <2>2 DEF BatchFails, TypeOK, bounds
<1>6. ASSUME NEW w \in Workers, Send(w)
      PROVE  TypeInv'
  <2>1. Current(w) \in Delivery
    BY <1>6, FirstIsMember DEF Send, Working, Current, TypeOK
  <2> QED
    <3>1. tries' \in [Delivery -> Nat] /\ mailed' \subseteq Delivery /\ mailedAgain' \subseteq mailed'
      BY <1>6, <2>1 DEF TypeOK, Send, Enter
    <3>2. hazard' \subseteq {"stale", "lost", "unmarked", "denied"}
      BY <1>6 DEF TypeOK, Send
    <3>3. Busy' /\ wpc' \in [Workers -> {"loop", "mark_sent", "mark_failed"}]
      BY <1>6 DEF TypeOK, Busy, Send, Working, Enter
    <3> QED
      BY <1>6, <3>1, <3>2, <3>3 DEF TypeOK, Send, rowVars, bounds
<1>7. ASSUME NEW w \in Workers, MarkSent(w)
      PROVE  TypeInv'
  <2>1. Current(w) \in Delivery
    BY <1>7, FirstIsMember DEF MarkSent, Current, TypeOK, Busy
  <2> QED
    <3>1. Busy' /\ wpc' \in [Workers -> {"loop", "mark_sent", "mark_failed"}]
      BY <1>7 DEF TypeOK, Busy, MarkSent, Done, Enter
    <3>2. /\ status' \in [Delivery -> {"Absent", "Queued", "Sending", "Sent", "Failed", "Deleted"}]
          /\ attempts' \in [Delivery -> 0..MaxAttempts] /\ old' \subseteq Delivery
      BY <1>7, <2>1 DEF TypeOK, MarkSent, Write, rowVars
    <3>3. batch' \in [Workers -> SUBSET Delivery] /\ hazard' \subseteq {"stale", "lost", "unmarked", "denied"}
      BY <1>7 DEF TypeOK, MarkSent, Done
    <3> QED
      BY <1>7, <3>1, <3>2, <3>3 DEF TypeOK, MarkSent, bounds
<1>8. ASSUME NEW w \in Workers, MarkFailed(w)
      PROVE  TypeInv'
  <2>1. Current(w) \in Delivery
    BY <1>8, FirstIsMember DEF MarkFailed, Current, TypeOK, Busy
  <2>2. Busy' /\ cand' \in [Workers -> SUBSET Delivery] /\ batch' \in [Workers -> SUBSET Delivery]
        /\ wpc' \in [Workers -> {"loop", "mark_sent", "mark_failed"}]
    BY <1>8 DEF TypeOK, Busy, MarkFailed, Done, Drop, Enter
  <2>3. /\ status' \in [Delivery -> {"Absent", "Queued", "Sending", "Sent", "Failed", "Deleted"}]
        /\ attempts' \in [Delivery -> 0..MaxAttempts] /\ old' \subseteq Delivery
    BY <1>8, <2>1 DEF TypeOK, MarkFailed, Write, rowVars
  <2> QED
    BY <1>8, <2>2, <2>3 DEF TypeOK, MarkFailed, history, bounds
<1>9. ASSUME NEW w \in Workers, Release(w)
      PROVE  TypeInv'
  <2>1. Current(w) \in Delivery
    BY <1>9, FirstIsMember DEF Release, Working, Current, TypeOK
  <2> QED
    BY <1>9, <2>1 DEF TypeOK, Busy, Release, Working, Write, Done, rowVars, history, bounds
<1>10. ASSUME NEW w \in Workers, Restart(w) \/ Stop(w)
       PROVE  TypeInv'
  <2>1. CASE Restart(w)
    BY <2>1 DEF TypeOK, Busy, Restart, rowVars, history, bounds
  <2>2. CASE Stop(w)
    BY <2>2 DEF TypeOK, Busy, Stop, rowVars, history
  <2> QED
    BY <1>10, <2>1, <2>2
<1>12. ASSUME NEW w \in Workers, Crash(w)
       PROVE  TypeInv'
  BY <1>12 DEF TypeOK, Busy, Crash, Drop, Enter, rowVars
<1>11. CASE UNCHANGED vars
  BY <1>11 DEF TypeOK, Busy, vars
<1> QED
  BY <1>1, <1>2, <1>3, <1>4, <1>5, <1>6, <1>7, <1>8, <1>9, <1>10, <1>11, <1>12
  DEF Next, WorkerStep

LEMMA TypeInvariant == Spec => []TypeInv
<1>1. Init => TypeInv
  BY DeliveryAssumption DEF Init, TypeInv, TypeOK, Busy
<1> QED
  BY <1>1, TypeStep, PTL DEF Spec

(* Every row, worker and history variable keeps its type, and attempts its *)
(* bound, for every size of the queue (TypeOK).                            *)
THEOREM TypeCorrect == Spec => []TypeOK
<1>1. TypeInv => TypeOK
  BY DEF TypeInv
<1> QED
  BY <1>1, TypeInvariant, PTL

-----------------------------------------------------------------------------
(* A hazard once met stays on the record. *)
LEMMA HazardGrows ==
  ASSUME [Next]_vars
  PROVE  hazard \subseteq hazard'
<1>1. ASSUME NEW w \in Workers, WorkerStep(w) \/ Stop(w) \/ Crash(w)
      PROVE  hazard \subseteq hazard'
  BY <1>1 DEF WorkerStep, Select, Claim, Take, BatchFails, Send, MarkSent, MarkFailed, Release,
     Restart, Stop, Crash, history
<1>2. ASSUME NEW d \in Delivery, RowStep(d)
      PROVE  hazard \subseteq hazard'
  BY <1>2 DEF RowStep, QueueDelivery, Age, RetryFailed, Prune, CleanupSelect, history
<1> QED
  BY <1>1, <1>2 DEF Next, CleanupDelete, history, vars

(* The current row of a worker that is at work is one of its batch. *)
LEMMA CurrentIsHeld ==
  ASSUME TypeInv, NEW w \in Workers, batch[w] # {}
  PROVE  Current(w) \in batch[w] /\ Current(w) \in Delivery
BY FirstIsMember DEF TypeInv, TypeOK, Current

LEMMA ClaimStep ==
  ASSUME TypeInv, ClaimInv, [Next]_vars
  PROVE  ClaimInv'
<1> SUFFICES ASSUME "stale" \notin hazard'
             PROVE  ClaimsSound'
  BY DEF ClaimInv
<1>0. ClaimsSound /\ hazard \subseteq hazard'
  BY HazardGrows DEF ClaimInv
<1> USE DEF TypeInv
<1>1. ASSUME NEW d \in Delivery, RowStep(d)
      PROVE  ClaimsSound'
  <2>1. batch' = batch
    BY <1>1 DEF RowStep, QueueDelivery, Age, RetryFailed, Prune, CleanupSelect, workerVars
  <2>2. \A e \in Delivery : /\ status[e] \in {"Sending", "Deleted"} => status'[e] = status[e]
                            /\ status[e] = "Sent" => status'[e] \in {"Sent", "Deleted"}
    BY <1>1 DEF TypeOK, RowStep, QueueDelivery, Age, RetryFailed, Prune, CleanupSelect,
       Terminal, Write, rowVars
  <2> QED
    BY <1>0, <2>1, <2>2 DEF ClaimsSound, TypeOK
<1>2. CASE CleanupDelete
  BY <1>0, <1>2 DEF ClaimsSound, CleanupDelete, TypeOK, workerVars
<1>3. ASSUME NEW w \in Workers, Claim(w)
      PROVE  ClaimsSound'
  <2> DEFINE d == First(cand[w])
  <2>1. d \in Delivery
    BY <1>3, FirstIsMember DEF Claim, TypeOK
  <2>2. CASE ~Claimable(d)
    BY <1>0, <1>3, <2>2 DEF Claim, Take, ClaimsSound, rowVars
  <2>3. CASE Claimable(d)
    <3>1. \A v \in Workers : d \notin batch[v]
      BY <1>0, <1>3, <2>3 DEF Claim, Take, ClaimsSound, Claimable, Holders
    <3>2. status' = [status EXCEPT ![d] = "Sending"]
      BY <1>3, <2>3 DEF Claim, Take, Write, Live, Claimable
    <3>3. batch' = [batch EXCEPT ![w] = @ \cup {d}]
      BY <1>3, <2>3 DEF Claim
    <3> HIDE DEF d
    <3> QED
      BY <1>0, <2>1, <3>1, <3>2, <3>3 DEF ClaimsSound, TypeOK
  <2> QED
    BY <2>2, <2>3
<1>4. ASSUME NEW w \in Workers, MarkSent(w) \/ MarkFailed(w) \/ Release(w)
      PROVE  ClaimsSound'
  <2>1. Current(w) \in Delivery /\ Current(w) \in batch[w]
    BY <1>4, CurrentIsHeld DEF MarkSent, MarkFailed, Release, Working, Busy
  <2>2. \/ UNCHANGED <<status, batch>>
        \/ status' = [status EXCEPT ![Current(w)] = "Sent"] /\ "denied" \in hazard' /\ UNCHANGED batch
        \/ /\ \/ batch' = [batch EXCEPT ![w] = {}]
              \/ batch' = [batch EXCEPT ![w] = @ \ {Current(w)}]
           /\ \/ UNCHANGED status
              \/ \E st \in {"Sent", "Failed", "Queued"} : status' = [status EXCEPT ![Current(w)] = st]
    <3>1. CASE MarkSent(w)
      BY <3>1 DEF MarkSent, Write, Done, rowVars
    <3>2. CASE MarkFailed(w)
      BY <3>2 DEF MarkFailed, Write, Done, Drop, rowVars
    <3>3. CASE Release(w)
      BY <3>3 DEF Release, Write, Done, rowVars
    <3> QED  BY <1>4, <3>1, <3>2, <3>3
  <2> QED
    BY <1>0, <2>1, <2>2 DEF ClaimsSound, TypeOK
<1>5. ASSUME NEW w \in Workers, BatchFails(w) \/ Crash(w)
      PROVE  ClaimsSound'
  <2>1. CASE UNCHANGED rowVars
    BY <1>0, <1>5, <2>1 DEF ClaimsSound, TypeOK, BatchFails, Crash, Drop, rowVars
  <2>2. CASE BatchFails(w) /\ cand[w] # {} /\ Take(First(cand[w]))
    <3> DEFINE d == First(cand[w])
    <3>1. d \in Delivery
      BY <2>2, FirstIsMember DEF TypeOK
    <3>2. \A v \in Workers : d \notin batch[v]
      BY <1>0, <2>2 DEF Take, ClaimsSound, Claimable, Holders
    <3>3. status' = [status EXCEPT ![d] = "Sending"]
      BY <2>2 DEF Take, Write, Live, Claimable
    <3>4. batch' = [batch EXCEPT ![w] = {}]
      BY <2>2 DEF BatchFails, Drop
    <3> HIDE DEF d
    <3> QED
      BY <1>0, <3>1, <3>2, <3>3, <3>4 DEF ClaimsSound, TypeOK
  <2> QED  BY <1>5, <2>1, <2>2 DEF BatchFails, Crash
<1>6. ASSUME NEW w \in Workers, Select(w) \/ Send(w) \/ Restart(w) \/ Stop(w)
      PROVE  ClaimsSound'
  BY <1>0, <1>6 DEF ClaimsSound, Select, Send, Restart, Stop, rowVars
<1>7. CASE UNCHANGED vars
  BY <1>0, <1>7 DEF ClaimsSound, vars
<1> QED
  BY <1>1, <1>2, <1>3, <1>4, <1>5, <1>6, <1>7 DEF Next, WorkerStep

LEMMA ClaimInvariant == Spec => []ClaimInv
<1>1. Init => ClaimInv
  BY DEF Init, ClaimInv, ClaimsSound
<1> QED
  BY <1>1, ClaimStep, TypeInvariant, PTL DEF Spec

(* Two workers hold the same row only if one was robbed of a stale claim,   *)
(* for any number of workers and rows (ClaimsAreDisjoint).                 *)
THEOREM DisjointClaims == Spec => []ClaimsAreDisjoint
<1>1. ClaimInv => ClaimsAreDisjoint
  BY DEF ClaimInv, ClaimsSound, ClaimsAreDisjoint
<1> QED
  BY <1>1, ClaimInvariant, PTL

-----------------------------------------------------------------------------
(* What a step may do to a worker that is between a send and its mark. *)
LEMMA MarkKept ==
  ASSUME TypeInv, [Next]_vars, NEW w \in Workers,
         wpc'[w] = "mark_sent", wpc[w] = "mark_sent"
  PROVE  batch'[w] = batch[w]
<1> USE DEF TypeInv
<1>1. ASSUME NEW v \in Workers, WorkerStep(v) \/ Stop(v) \/ Crash(v)
      PROVE  batch'[w] = batch[w]
  <2>1. CASE Claim(v)
    BY <2>1 DEF Claim, Busy, TypeOK
  <2>2. CASE MarkSent(v) \/ MarkFailed(v) \/ Release(v)
    BY <2>2 DEF MarkSent, MarkFailed, Release, Working, Done, Drop, Enter, TypeOK
  <2>3. CASE BatchFails(v) \/ Crash(v)
    BY <2>3 DEF BatchFails, Crash, Drop, Enter, TypeOK
  <2>4. CASE Select(v) \/ Send(v) \/ Restart(v) \/ Stop(v)
    BY <2>4 DEF Select, Send, Restart, Stop
  <2> QED
    BY <1>1, <2>1, <2>2, <2>3, <2>4 DEF WorkerStep
<1>2. ASSUME NEW d \in Delivery, RowStep(d)
      PROVE  batch'[w] = batch[w]
  BY <1>2 DEF RowStep, QueueDelivery, Age, RetryFailed, Prune, CleanupSelect, workerVars
<1> QED
  BY <1>1, <1>2 DEF Next, CleanupDelete, workerVars, vars

(* Messages that have gone are not called back. *)
LEMMA MailedGrows ==
  ASSUME [Next]_vars
  PROVE  mailed \subseteq mailed'
<1>1. ASSUME NEW w \in Workers, WorkerStep(w) \/ Stop(w) \/ Crash(w)
      PROVE  mailed \subseteq mailed'
  BY <1>1 DEF WorkerStep, Select, Claim, BatchFails, Send, MarkSent, MarkFailed, Release,
     Restart, Stop, Crash, history
<1>2. ASSUME NEW d \in Delivery, RowStep(d)
      PROVE  mailed \subseteq mailed'
  BY <1>2 DEF RowStep, QueueDelivery, Age, RetryFailed, Prune, CleanupSelect, history
<1> QED
  BY <1>1, <1>2 DEF Next, CleanupDelete, history, vars

(* Only the send itself makes a worker go on to mark the row as sent. *)
LEMMA MarkIsEarned ==
  ASSUME TypeInv, [Next]_vars, NEW w \in Workers,
         wpc'[w] = "mark_sent", wpc[w] # "mark_sent"
  PROVE  Current(w)' \in mailed'
<1> USE DEF TypeInv
<1>1. ASSUME NEW v \in Workers, WorkerStep(v) \/ Stop(v) \/ Crash(v)
      PROVE  Send(w)
  BY <1>1 DEF WorkerStep, Select, Claim, BatchFails, Send, MarkSent, MarkFailed, Release,
     Restart, Stop, Crash, Drop, Enter, TypeOK
<1>2. ASSUME NEW d \in Delivery, RowStep(d)
      PROVE  FALSE
  BY <1>2 DEF RowStep, QueueDelivery, Age, RetryFailed, Prune, CleanupSelect, workerVars
<1>3. Send(w)
  BY <1>1, <1>2 DEF Next, CleanupDelete, workerVars, vars
<1>4. Current(w) \in mailed' /\ batch' = batch
  BY <1>3 DEF Send, Enter, TypeOK
<1> QED
  BY <1>4 DEF Current

(* Only MarkSent writes "Sent". *)
LEMMA SentIsWritten ==
  ASSUME TypeInv, [Next]_vars, NEW d \in Delivery, status'[d] = "Sent", status[d] # "Sent"
  PROVE  \E w \in Workers : wpc[w] = "mark_sent" /\ Current(w) = d
<1> USE DEF TypeInv
<1>1. ASSUME NEW w \in Workers, WorkerStep(w) \/ Stop(w) \/ Crash(w)
      PROVE  wpc[w] = "mark_sent" /\ Current(w) = d
  <2>1. CASE MarkSent(w)
    BY <2>1 DEF MarkSent, Write, TypeOK, rowVars
  <2>2. CASE Claim(w)
    BY <2>2 DEF Claim, Take, Write, TypeOK, rowVars
  <2>3. CASE MarkFailed(w) \/ Release(w)
    BY <2>3 DEF MarkFailed, Release, Write, TypeOK, rowVars
  <2>4. CASE Select(w) \/ BatchFails(w) \/ Send(w) \/ Restart(w) \/ Stop(w) \/ Crash(w)
    BY <2>4 DEF Select, BatchFails, Take, Write, Send, Restart, Stop, Crash, rowVars, TypeOK
  <2> QED
    BY <1>1, <2>1, <2>2, <2>3, <2>4 DEF WorkerStep
<1>2. ASSUME NEW e \in Delivery, RowStep(e)
      PROVE  FALSE
  BY <1>2 DEF RowStep, QueueDelivery, Age, RetryFailed, Prune, CleanupSelect, Write, rowVars, TypeOK
<1> QED
  BY <1>1, <1>2 DEF Next, CleanupDelete, vars, TypeOK

LEMMA SentStep ==
  ASSUME TypeInv, SentInv, [Next]_vars
  PROVE  SentInv'
<1>1. ASSUME NEW d \in Delivery, status'[d] = "Sent"
      PROVE  d \in mailed'
  <2>1. CASE status[d] = "Sent"
    BY <2>1, MailedGrows DEF SentInv, SentIsTrue
  <2>2. CASE status[d] # "Sent"
    BY <1>1, <2>2, SentIsWritten, MailedGrows DEF SentInv, MarkIsTrue
  <2> QED
    BY <2>1, <2>2
<1>2. ASSUME NEW w \in Workers, wpc'[w] = "mark_sent"
      PROVE  Current(w)' \in mailed'
  <2>1. CASE wpc[w] = "mark_sent"
    BY <1>2, <2>1, MarkKept, MailedGrows DEF SentInv, MarkIsTrue, Current
  <2>2. CASE wpc[w] # "mark_sent"
    BY <1>2, <2>2, MarkIsEarned
  <2> QED
    BY <2>1, <2>2
<1> QED
  BY <1>1, <1>2 DEF SentInv, SentIsTrue, MarkIsTrue

(* A row says "Sent" only if its message has gone, however late and by      *)
(* whomever it is marked (SentIsTrue).                                     *)
THEOREM SentMeansGone == Spec => []SentIsTrue
<1>1. Init => SentInv
  BY DEF Init, SentInv, SentIsTrue, MarkIsTrue
<1>2. SentInv => SentIsTrue
  BY DEF SentInv
<1> QED
  BY <1>1, <1>2, SentStep, TypeInvariant, PTL DEF Spec

-----------------------------------------------------------------------------
(* The step from MailSound to MailSound', while nothing hazardous happens.  *)
(* The claims are sound as well: a message that has gone is not claimed, a  *)
(* held row is not retried, and only the current row is handed over.       *)
LEMMA MailStep ==
  ASSUME TypeInv, ClaimInv, MailInv, [Next]_vars
  PROVE  MailInv'
<1> SUFFICES ASSUME hazard' = {}
             PROVE  MailSound'
  BY DEF MailInv
<1>0. MailSound /\ ClaimsSound
  BY HazardGrows DEF MailInv, ClaimInv
<1> USE DEF TypeInv
<1>1. ASSUME NEW d \in Delivery, RowStep(d)
      PROVE  MailSound'
  <2>1. UNCHANGED <<batch, wpc, mailed, mailedAgain>>
    BY <1>1 DEF RowStep, QueueDelivery, Age, RetryFailed, Prune, CleanupSelect,
       workerVars, history
  <2>2. \A e \in Delivery : status[e] \in {"Sent", "Deleted"} => status'[e] \in {"Sent", "Deleted"}
    BY <1>1 DEF TypeOK, RowStep, QueueDelivery, Age, RetryFailed, Prune, CleanupSelect,
       Terminal, Write, rowVars
  <2> QED
    BY <1>0, <2>1, <2>2 DEF MailSound, TypeOK, Current
<1>2. CASE CleanupDelete
  BY <1>0, <1>2 DEF MailSound, CleanupDelete, TypeOK, workerVars, history, Current
<1>3. ASSUME NEW w \in Workers, Claim(w)
      PROVE  MailSound'
  <2> DEFINE d == First(cand[w])
  <2>1. d \in Delivery
    BY <1>3, FirstIsMember DEF Claim, TypeOK
  <2>2. wpc[w] = "loop"
    BY <1>3 DEF Claim, Busy, TypeOK
  <2>3. CASE ~Claimable(d)
    BY <1>0, <1>3, <2>3 DEF Claim, Take, MailSound, rowVars, Current
  <2>4. CASE Claimable(d)
    <3>1. \A v \in Workers : d \notin batch[v]
      BY <1>0, <1>3, <2>4 DEF Claim, Take, ClaimsSound, Claimable, Holders
    <3>2. d \notin mailed
      BY <1>0, <2>4, <3>1 DEF MailSound, Claimable
    <3>3. /\ status' = [status EXCEPT ![d] = "Sending"]
          /\ batch' = [batch EXCEPT ![w] = @ \cup {d}]
          /\ UNCHANGED <<wpc, mailed, mailedAgain>>
      BY <1>3, <2>4 DEF Claim, Take, Write, Live, Claimable
    <3>4. \A v \in Workers : v # w => Current(v)' = Current(v)
      BY <3>3 DEF Current, TypeOK
    <3>5. batch[w] \cap mailed = {}
      BY <1>0, <2>2 DEF MailSound
    <3> HIDE DEF d
    <3> QED
      BY <1>0, <2>1, <2>2, <3>2, <3>3, <3>4, <3>5 DEF MailSound, TypeOK
  <2> QED
    BY <2>3, <2>4
<1>4. ASSUME NEW w \in Workers, Send(w)
      PROVE  MailSound'
  <2> DEFINE d == Current(w)
  <2>1. d \in Delivery /\ d \in batch[w] /\ wpc[w] = "loop"
    BY <1>4, CurrentIsHeld DEF Send, Working
  <2>2. d \notin mailed
    BY <1>0, <2>1 DEF MailSound
  <2>3. \A v \in Workers : Current(v)' = Current(v)
    BY <1>4 DEF Send, Current
  <2>4. UNCHANGED <<status, batch>>
    BY <1>4 DEF Send, rowVars
  <2>5. \/ wpc' = [wpc EXCEPT ![w] = "mark_sent"] /\ mailed' = mailed \cup {d}
           /\ mailedAgain' = mailedAgain \cup ({d} \cap mailed)
        \/ wpc' = [wpc EXCEPT ![w] = "mark_failed"] /\ UNCHANGED <<mailed, mailedAgain>>
    BY <1>4 DEF Send, Enter
  <2> HIDE DEF d
  <2>6. \A v \in Workers : v # w => d \notin batch[v]
    BY <1>0, <2>1 DEF ClaimsSound
  <2>7. batch[w] \cap mailed = {}
    BY <1>0, <2>1 DEF MailSound
  <2>8. d = Current(w)
    BY DEF d
  <2> QED
    BY <1>0, <2>1, <2>2, <2>3, <2>4, <2>5, <2>6, <2>7, <2>8 DEF MailSound, TypeOK
<1>5. ASSUME NEW w \in Workers, MarkSent(w)
      PROVE  MailSound'
  <2> DEFINE d == Current(w)
  <2>1. d \in Delivery /\ d \in batch[w] /\ wpc[w] = "mark_sent"
    BY <1>5, CurrentIsHeld DEF MarkSent, Busy
  <2>2. /\ batch' = [batch EXCEPT ![w] = @ \ {d}]
        /\ wpc' = [wpc EXCEPT ![w] = "loop"]
        /\ UNCHANGED <<mailed, mailedAgain>>
    BY <1>5 DEF MarkSent, Done, Enter
  <2>3. status[d] \in {"Sending", "Deleted"}
    BY <1>0, <2>1, HazardGrows DEF ClaimsSound
  <2>4. /\ status'[d] \in {"Sent", "Deleted"}
        /\ \A e \in Delivery : e # d => status'[e] = status[e]
    BY <1>5, <2>1, <2>2, <2>3 DEF MarkSent, Write, Live, rowVars, TypeOK, Done
  <2>5. \A v \in Workers : v # w => Current(v)' = Current(v)
    BY <2>2 DEF Current, TypeOK
  <2>6. batch[w] \cap mailed \subseteq {d}
    BY <1>0 DEF MailSound
  <2> HIDE DEF d
  <2> QED
    BY <1>0, <2>1, <2>2, <2>4, <2>5, <2>6 DEF MailSound, TypeOK
<1>6. ASSUME NEW w \in Workers,
             MarkFailed(w) \/ Release(w) \/ BatchFails(w) \/ Crash(w)
      PROVE  MailSound'
  <2>1. wpc[w] # "mark_sent"
    BY <1>6 DEF MarkFailed, Release, BatchFails, Crash, Working, Busy
  <2>2. batch[w] \cap mailed = {}
    BY <1>0, <2>1 DEF MailSound
  <2>3. UNCHANGED <<mailed, mailedAgain>>
    BY <1>6 DEF MarkFailed, Release, BatchFails, Crash, history
  <2>4. /\ batch'[w] \subseteq batch[w] /\ batch' \in [Workers -> SUBSET Delivery]
        /\ \A v \in Workers : v # w => batch'[v] = batch[v] /\ wpc'[v] = wpc[v]
    BY <1>6 DEF MarkFailed, Release, BatchFails, Crash, Drop, Done, Enter, TypeOK
  <2>5. \A v \in Workers : v # w => Current(v)' = Current(v)
    BY <2>4 DEF Current
  <2>6. \A e \in mailed : status[e] \in {"Sent", "Deleted"} => status'[e] = status[e]
    <3>1. CASE MarkFailed(w)
      <4>1. Current(w) \in batch[w]
        BY <3>1, CurrentIsHeld DEF MarkFailed, Busy
      <4> QED
        BY <2>2, <3>1, <4>1 DEF MarkFailed, Write, TypeOK, rowVars
    <3>2. CASE Release(w)
      <4>1. Current(w) \in batch[w]
        BY <3>2, CurrentIsHeld DEF Release, Working
      <4> QED
        BY <2>2, <3>2, <4>1 DEF Release, Write, TypeOK, rowVars
    <3>3. CASE BatchFails(w) \/ Crash(w)
      BY <3>3 DEF BatchFails, Take, Write, Claimable, Crash, TypeOK, rowVars
    <3> QED
      BY <1>6, <3>1, <3>2, <3>3
  <2> QED
    BY <1>0, <2>2, <2>3, <2>4, <2>5, <2>6 DEF MailSound, TypeOK
<1>7. ASSUME NEW w \in Workers, Select(w) \/ Restart(w) \/ Stop(w)
      PROVE  MailSound'
  BY <1>0, <1>7 DEF MailSound, Current, Select, Restart, Stop, rowVars, history
<1>8. CASE UNCHANGED vars
  BY <1>0, <1>8 DEF MailSound, Current, vars
<1> QED
  BY <1>1, <1>2, <1>3, <1>4, <1>5, <1>6, <1>7, <1>8 DEF Next, WorkerStep

(* No recipient gets a message twice, unless a worker was robbed, an answer *)
(* was lost, or a message that had gone was never marked                   *)
(* (OneMailUnlessHazard).                                                  *)
THEOREM OneMail == Spec => []OneMailUnlessHazard
<1>1. Init => MailInv
  BY DEF Init, MailInv, MailSound
<1>2. MailInv => OneMailUnlessHazard
  BY DEF MailInv, MailSound, OneMailUnlessHazard
<1> QED
  BY <1>1, <1>2, MailStep, TypeInvariant, ClaimInvariant, PTL DEF Spec

-----------------------------------------------------------------------------
(* Claiming pays before sending spends; a release refunds only what was not *)
(* spent.                                                                  *)
LEMMA PayStep ==
  ASSUME TypeInv, ClaimInv, PayInv, [Next]_vars
  PROVE  PayInv'
<1> SUFFICES ASSUME "stale" \notin hazard'
             PROVE  PaySound'
  BY DEF PayInv
<1>0. PaySound /\ ClaimsSound
  BY HazardGrows DEF PayInv, ClaimInv
<1> USE DEF TypeInv
<1>1. ASSUME NEW d \in Delivery, RowStep(d)
      PROVE  PaySound'
  <2>1. UNCHANGED <<batch, wpc>>
    BY <1>1 DEF RowStep, QueueDelivery, Age, RetryFailed, Prune, CleanupSelect, workerVars
  <2>2. CASE RetryFailed(d)
    <3>1. \A w \in Workers : d \notin batch[w]
      BY <1>0, <2>2 DEF RetryFailed, ClaimsSound
    <3>2. attempts' = [attempts EXCEPT ![d] = 0] /\ tries' = [tries EXCEPT ![d] = 0]
      BY <2>2 DEF RetryFailed, Write, Live
    <3> QED
      BY <1>0, <2>1, <3>1, <3>2 DEF PaySound, TypeOK, Current
  <2>3. CASE QueueDelivery(d) \/ Age(d) \/ Prune(d) \/ CleanupSelect(d)
    BY <1>0, <2>1, <2>3 DEF QueueDelivery, Age, Prune, CleanupSelect, rowVars, history,
       PaySound, Current
  <2> QED
    BY <1>1, <2>2, <2>3 DEF RowStep
<1>2. CASE CleanupDelete
  BY <1>0, <1>2 DEF PaySound, CleanupDelete, workerVars, history, Current
<1>3. ASSUME NEW w \in Workers, Claim(w)
      PROVE  PaySound'
  <2> DEFINE d == First(cand[w])
  <2>1. d \in Delivery /\ wpc[w] = "loop"
    BY <1>3, FirstIsMember DEF Claim, Busy, TypeOK
  <2>2. CASE ~Claimable(d)
    BY <1>0, <1>3, <2>2 DEF Claim, Take, PaySound, rowVars, Current
  <2>3. CASE Claimable(d)
    <3>1. \A v \in Workers : d \notin batch[v]
      BY <1>0, <1>3, <2>3 DEF Claim, Take, ClaimsSound, Claimable, Holders
    <3>2. /\ attempts' = [attempts EXCEPT ![d] = attempts[d] + 1]
          /\ batch' = [batch EXCEPT ![w] = @ \cup {d}]
          /\ UNCHANGED <<wpc, tries>>
      BY <1>3, <2>3 DEF Claim, Take, Write, Live, Claimable
    <3>3. \A v \in Workers : v # w => Current(v)' = Current(v)
      BY <3>2 DEF Current, TypeOK
    <3> HIDE DEF d
    <3> QED
      BY <1>0, <2>1, <3>1, <3>2, <3>3 DEF PaySound, TypeOK
  <2> QED
    BY <2>2, <2>3
<1>4. ASSUME NEW w \in Workers, Send(w)
      PROVE  PaySound'
  <2> DEFINE d == Current(w)
  <2>1. d \in Delivery /\ d \in batch[w] /\ wpc[w] = "loop"
    BY <1>4, CurrentIsHeld DEF Send, Working
  <2>2. UNCHANGED <<attempts, batch>> /\ tries' = [tries EXCEPT ![d] = @ + 1]
    BY <1>4 DEF Send, rowVars
  <2>3. \E st \in {"mark_sent", "mark_failed"} : wpc' = [wpc EXCEPT ![w] = st]
    BY <1>4 DEF Send, Enter
  <2>4. \A v \in Workers : Current(v)' = Current(v)
    BY <2>2 DEF Current
  <2>5. d = Current(w)
    OBVIOUS
  <2> HIDE DEF d
  <2>6. \A v \in Workers : v # w => d \notin batch[v]
    BY <1>0, <2>1 DEF ClaimsSound
  <2> QED
    BY <1>0, <2>1, <2>2, <2>3, <2>4, <2>5, <2>6 DEF PaySound, TypeOK
<1>5. ASSUME NEW w \in Workers, MarkSent(w) \/ MarkFailed(w) \/ BatchFails(w) \/ Crash(w)
      PROVE  PaySound'
  <2>1. tries' = tries /\ \A e \in Delivery : attempts'[e] = attempts[e] \/ attempts'[e] = attempts[e] + 1
    <3>1. CASE MarkSent(w)
      BY <3>1, CurrentIsHeld DEF MarkSent, Write, rowVars, TypeOK, Busy
    <3>2. CASE MarkFailed(w)
      BY <3>2, CurrentIsHeld DEF MarkFailed, Write, rowVars, history, TypeOK, Busy
    <3>3. CASE BatchFails(w) \/ Crash(w)
      BY <3>3 DEF BatchFails, Take, Write, Crash, TypeOK, rowVars, history
    <3> QED
      BY <1>5, <3>1, <3>2, <3>3
  <2>2. \A v \in Workers : v # w => batch'[v] = batch[v] /\ wpc'[v] = wpc[v]
    BY <1>5 DEF MarkSent, MarkFailed, BatchFails, Crash, Done, Drop, Enter, TypeOK
  <2>3. \A v \in Workers : v # w => Current(v)' = Current(v)
    BY <2>2 DEF Current
  <2>4. \A e \in batch'[w] :
           (wpc'[w] = "loop" \/ e # Current(w)') => e \in batch[w] /\ (wpc[w] = "loop" \/ e # Current(w))
    <3>1. CASE MarkSent(w)
      BY <3>1 DEF MarkSent, Done, Enter, Current, TypeOK
    <3>2. CASE MarkFailed(w)
      BY <3>2 DEF MarkFailed, Done, Drop, Enter, TypeOK
    <3>3. CASE BatchFails(w) \/ Crash(w)
      BY <3>3 DEF BatchFails, Crash, Drop, TypeOK
    <3> QED
      BY <1>5, <3>1, <3>2, <3>3
  <2>5. batch'[w] \subseteq batch[w]
    BY <1>5 DEF MarkSent, MarkFailed, BatchFails, Crash, Done, Drop, TypeOK
  <2> QED
    BY <1>0, <2>1, <2>2, <2>3, <2>4, <2>5 DEF PaySound, TypeOK
<1>6. ASSUME NEW w \in Workers, Release(w)
      PROVE  PaySound'
  <2> DEFINE d == Current(w)
  <2>1. d \in Delivery /\ d \in batch[w] /\ wpc[w] = "loop"
    BY <1>6, CurrentIsHeld DEF Release, Working
  <2>2. tries[d] < attempts[d]
    BY <1>0, <2>1 DEF PaySound
  <2>3. /\ batch' = [batch EXCEPT ![w] = @ \ {d}]
        /\ UNCHANGED <<wpc, tries>>
    BY <1>6 DEF Release, Done, history
  <2>4. attempts' = attempts \/ attempts' = [attempts EXCEPT ![d] = attempts[d] - 1]
    BY <1>6, <2>1, <2>2 DEF Release, Write, rowVars, TypeOK
  <2>5. \A v \in Workers : v # w => Current(v)' = Current(v)
    BY <2>3 DEF Current, TypeOK
  <2>6. \A v \in Workers : v # w => d \notin batch[v]
    BY <1>0, <2>1 DEF ClaimsSound
  <2> HIDE DEF d
  <2> QED
    BY <1>0, <2>1, <2>2, <2>3, <2>4, <2>5, <2>6 DEF PaySound, TypeOK
<1>7. ASSUME NEW w \in Workers, Select(w) \/ Restart(w) \/ Stop(w)
      PROVE  PaySound'
  BY <1>0, <1>7 DEF PaySound, Current, Select, Restart, Stop, rowVars, history
<1>8. CASE UNCHANGED vars
  BY <1>0, <1>8 DEF PaySound, Current, vars
<1> QED
  BY <1>1, <1>2, <1>3, <1>4, <1>5, <1>6, <1>7, <1>8 DEF Next, WorkerStep

(* Since its last queueing a row was handed to the transport at most        *)
(* `attempts` times, hence at most maxAttempts times (AttemptsPayForTries).*)
THEOREM TriesArePaid == Spec => []AttemptsPayForTries
<1>1. Init => PayInv
  BY DEF Init, PayInv, PaySound
<1>2. PayInv => AttemptsPayForTries
  BY DEF PayInv, PaySound, AttemptsPayForTries
<1> QED
  BY <1>1, <1>2, PayStep, TypeInvariant, ClaimInvariant, PTL DEF Spec

(* A Sent row stays Sent, or is deleted, while no worker has been robbed    *)
(* and no mark that was made was reported as failed (SentIsFinal).         *)
THEOREM SentStays == Spec => SentIsFinal
<1>1. ASSUME TypeInv, ClaimInv, [Next]_vars, NEW d \in Delivery,
             status[d] = "Sent", hazard' \cap {"stale", "denied"} = {}
      PROVE  status'[d] \in {"Sent", "Deleted"}
  <2> USE DEF TypeInv
  <2>0. ClaimsSound /\ "denied" \notin hazard
    BY <1>1, HazardGrows DEF ClaimInv
  <2>1. \A w \in Workers : d \notin batch[w]
    BY <1>1, <2>0 DEF ClaimsSound
  <2>2. ASSUME NEW w \in Workers, WorkerStep(w) \/ Stop(w) \/ Crash(w)
        PROVE  status'[d] = "Sent"
    <3>1. CASE Claim(w)
      BY <1>1, <3>1 DEF Claim, Take, Write, Claimable, TypeOK, rowVars
    <3>2. CASE MarkSent(w) \/ MarkFailed(w) \/ Release(w)
      <4>1. Current(w) # d
        BY <1>1, <2>1, <3>2, CurrentIsHeld DEF MarkSent, MarkFailed, Release, Working, Busy
      <4> QED
        BY <1>1, <3>2, <4>1 DEF MarkSent, MarkFailed, Release, Write, TypeOK, rowVars
    <3>3. CASE Select(w) \/ BatchFails(w) \/ Send(w) \/ Restart(w) \/ Stop(w) \/ Crash(w)
      BY <1>1, <3>3 DEF Select, BatchFails, Take, Write, Claimable, TypeOK, Send, Restart, Stop, Crash, rowVars
    <3> QED
      BY <2>2, <3>1, <3>2, <3>3 DEF WorkerStep
  <2>3. ASSUME NEW e \in Delivery, RowStep(e)
        PROVE  status'[d] \in {"Sent", "Deleted"}
    BY <1>1, <2>3 DEF RowStep, QueueDelivery, Age, RetryFailed, Prune, CleanupSelect,
       Terminal, Write, rowVars, TypeOK
  <2> QED
    BY <1>1, <2>2, <2>3 DEF Next, CleanupDelete, vars, TypeOK
<1>2. TypeInv /\ ClaimInv /\ [Next]_vars =>
        [\A d \in Delivery :
           status[d] = "Sent" /\ hazard' \cap {"stale", "denied"} = {} => status'[d] \in {"Sent", "Deleted"}]_vars
  BY <1>1
<1> QED
  BY <1>2, TypeInvariant, ClaimInvariant, PTL DEF Spec, SentIsFinal
=============================================================================
