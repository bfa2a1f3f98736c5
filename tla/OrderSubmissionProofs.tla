----------------------- MODULE OrderSubmissionProofs -----------------------
(***************************************************************************)
(* The safety of idempotent order creation, for any number of attempts,    *)
(* drafts and reconcilers, any clock bound and any time-outs.              *)
(*                                                                         *)
(* Two invariants carry the argument.  Whatever happens, every copy of the *)
(* row ever held or saved has the draft that the row was registered with,  *)
(* and names only orders that exist.  And while no restart was unguarded,  *)
(* at most one attempt owns the row, what it may have placed follows from  *)
(* the step it is at, and a finished row has no owner left to spoil it.    *)
(***************************************************************************)
EXTENDS OrderSubmission, TLAPS

(* The steps at which an attempt holds the row and will write it. *)
Owner(a) == pc[a] \in {"check", "send", "await", "complete", "fail"}

(* An attempt that is to write the row has an entity to save. *)
Holding ==
  /\ \A a \in Attempts : Owner(a) \/ pc[a] = "restart" => copy[a] \in Rows
  /\ \A r \in Reconcilers : rpc[r] # "idle" => rcopy[r] \in Rows

TypeInv == TypeOK /\ Holding

(* A row, or a copy of it, names a response only if that order exists. *)
Truthful(r) == r \in Rows /\ r.response # None => r.response \in placed

(* One draft behind the key, and no response that was never placed. *)
DraftInv ==
  /\ Truthful(row)
  /\ \A a \in Attempts : copy[a] \in Rows =>
        /\ row \in Rows /\ copy[a].draft = row.draft /\ row.draft = draft[a]
        /\ Truthful(copy[a])
  /\ \A r \in Reconcilers : rcopy[r] \in Rows =>
        /\ row \in Rows /\ rcopy[r].draft = row.draft
        /\ Truthful(rcopy[r])
  /\ \A a \in placed \cup inFlight : row \in Rows /\ row.draft = draft[a]
  /\ \A a \in Attempts : pc[a] = "complete" => a \in placed
  /\ ReplyIsTrue

(* No verdict is carried over to another order. *)
Seen(r) == r \in Rows /\ r.recon = "matched" => r.order \in snapshot
SeenInv ==
  /\ Seen(row)
  /\ \A a \in Attempts : Seen(copy[a])
  /\ \A r \in Reconcilers : Seen(rcopy[r])

(* While every restart was guarded: one owner, one order, one success. *)
Single ==
  /\ \A a, b \in Attempts : Owner(a) /\ Owner(b) => a = b
  /\ \A a, b \in placed \cup inFlight : a = b
  /\ \A a \in Attempts : Owner(a) =>
       /\ row \in Rows /\ row.status # "failed"
       /\ row.status = "completed" => pc[a] = "fail"
       /\ pc[a] \in {"check", "send"} => placed \cup inFlight = {}
       /\ placed \cup inFlight \subseteq {a}
  /\ \A a \in Attempts : pc[a] = "restart" =>
       /\ copy[a].status \in {"in_progress", "failed"}
       /\ copy[a].status = "in_progress" => ~Fresh(copy[a])
  /\ row \in Rows /\ row.status = "completed" => row.response # None
  /\ \A r \in Reconcilers : rpc[r] # "idle" =>
       /\ rcopy[r].status = "completed" /\ rcopy[r].response # None
       /\ \A a \in Attempts : Owner(a) => pc[a] = "fail"
  /\ \A a \in Attempts : reply[a] = a =>
       /\ row \in Rows /\ row.status = "completed" /\ row.response = a
       /\ \A b \in Attempts : ~Owner(b)
  /\ \A a \in placed \cup inFlight : pc[a] \notin {"find", "create", "restart", "check", "send"}

SingleInv == hazard = {} => Single

-----------------------------------------------------------------------------
(* The columns each write of the row changes, and the ones it keeps. *)
LEMMA RegisteredRow ==
  ASSUME TypeOK, NEW d \in Drafts
  PROVE  /\ Registered(d) \in Rows /\ Registered(d).draft = d
         /\ Registered(d).response = None /\ Registered(d).status = "in_progress"
         /\ Registered(d).recon = "not_required"
BY SubmissionAssumption DEF Registered, TypeOK, Rows

LEMMA SubmittingRow ==
  ASSUME TypeOK, NEW r \in Rows
  PROVE  /\ Submitting(r) \in Rows /\ Submitting(r).draft = r.draft
         /\ Submitting(r).response = r.response /\ Submitting(r).status = "in_progress"
         /\ Submitting(r).recon = r.recon /\ Submitting(r).order = r.order
<1>1. clock \in Nat
  BY SubmissionAssumption DEF TypeOK
<1> QED
  BY <1>1 DEF Submitting, Rows

LEMMA CompletedRow ==
  ASSUME TypeOK, NEW r \in Rows, NEW a \in Attempts, NEW id \in OrderIds(a)
  PROVE  /\ Completed(r, a, id) \in Rows /\ Completed(r, a, id).draft = r.draft
         /\ Completed(r, a, id).response = a /\ Completed(r, a, id).status = "completed"
         /\ Completed(r, a, id).recon # "matched"
<1>1. id \in Attempts \cup {None}
  BY DEF OrderIds
<1>2. clock \in Nat
  BY SubmissionAssumption DEF TypeOK
<1> QED
  BY <1>1, <1>2 DEF Completed, Rows

LEMMA FailedRow ==
  ASSUME TypeOK, NEW r \in Rows
  PROVE  /\ Failed(r) \in Rows /\ Failed(r).draft = r.draft
         /\ Failed(r).response = None /\ Failed(r).status = "failed"
         /\ Failed(r).recon = "not_required"
<1>1. clock \in Nat
  BY SubmissionAssumption DEF TypeOK
<1> QED
  BY <1>1 DEF Failed, Rows

(* What a reconciler saves: its copy with a new verdict, or as it was. *)
LEMMA ReconcilerWrites ==
  ASSUME TypeOK, NEW r \in Rows, NEW state \in {"matched", "missing"}
  PROVE  LET w == [r EXCEPT !.recon = state, !.updatedAt = clock]
             e == [r EXCEPT !.updatedAt = clock]
         IN  /\ w \in Rows /\ w.draft = r.draft /\ w.response = r.response
             /\ w.status = r.status /\ w.recon = state /\ w.order = r.order
             /\ e \in Rows /\ e.draft = r.draft /\ e.response = r.response
             /\ e.status = r.status /\ e.recon = r.recon /\ e.order = r.order
<1>1. clock \in Nat
  BY SubmissionAssumption DEF TypeOK
<1> QED
  BY <1>1 DEF Rows

LEMMA NoRowIsNoRow == NoRow \notin Rows
BY DEF NoRow, Rows

(* What a step of a reconciler amounts to: it takes a copy of the row, it   *)
(* logs with that copy, or it lets go of the copy, with a verdict or not.  *)
Taken(r) ==
  /\ rpc[r] = "idle" /\ row \in Rows /\ Candidate(row)
  /\ UNCHANGED row
  /\ rcopy' = [rcopy EXCEPT ![r] = row]
  /\ rpc' = [rpc EXCEPT ![r] = "lookup"]
Logged(r) ==
  /\ rpc[r] # "idle" /\ rcopy[r] \in Rows
  /\ row' = [rcopy[r] EXCEPT !.updatedAt = clock]
  /\ rcopy' = [rcopy EXCEPT ![r] = row']
  /\ rpc' = [rpc EXCEPT ![r] = "synced"]
LetGo(r) ==
  /\ rpc[r] # "idle" /\ rcopy[r] \in Rows
  /\ rcopy' = [rcopy EXCEPT ![r] = NoRow]
  /\ rpc' = [rpc EXCEPT ![r] = "idle"]
  /\ \/ UNCHANGED row
     \/ \E state \in {"matched", "missing"} :
          /\ row' = [rcopy[r] EXCEPT !.recon = state, !.updatedAt = clock]
          /\ state = "matched" => rcopy[r].order \in snapshot

LEMMA ReconcilerShape ==
  ASSUME TypeInv, NEW r \in Reconcilers, ReconcilerStep(r)
  PROVE  /\ UNCHANGED <<clock, brokerVars, snapshot, attemptVars, hazard>>
         /\ Taken(r) \/ Logged(r) \/ LetGo(r)
<1> USE DEF TypeInv
<1>1. CASE ReconcileRead(r)
  BY <1>1 DEF ReconcileRead, TypeOK, Taken
<1>2. CASE ReconcileLookup(r)
  BY <1>2 DEF ReconcileLookup, Holding, ReconcileWrite, ReconcileStop, MarkMissing, InSnapshot,
     Logged, LetGo
<1>3. CASE ReconcileFinish(r)
  BY <1>3 DEF ReconcileFinish, Holding, ReconcileWrite, ReconcileStop, MarkMissing, InSnapshot,
     LetGo
<1> QED
  BY <1>1, <1>2, <1>3 DEF ReconcilerStep

-----------------------------------------------------------------------------
(* Types *)

LEMMA TypeStep ==
  ASSUME TypeInv, [Next]_vars
  PROVE  TypeInv'
<1> USE SubmissionAssumption DEF TypeInv
<1>1. CASE Tick
  BY <1>1 DEF Tick, TypeOK, Holding, Owner, attemptVars, brokerVars, reconcilerVars
<1>2. ASSUME NEW a \in Attempts, Find(a)
      PROVE  TypeInv'
  <2>1. pc' \in [Attempts -> Running \cup {"end"}] /\ copy' \in [Attempts -> Rows \cup {NoRow}]
        /\ reply' \in [Attempts -> Attempts \cup {None}]
    BY <1>2 DEF Find, Goto, Answer, End, Running, TypeOK, Rows, Replays
  <2>2. Holding'
    BY <1>2 DEF Find, Goto, Answer, End, TypeOK, Holding, Owner, reconcilerVars
  <2> QED
    BY <1>2, <2>1, <2>2 DEF Find, TypeOK, brokerVars, reconcilerVars
<1>3. ASSUME NEW a \in Attempts, Create(a)
      PROVE  TypeInv'
  <2>1. Registered(draft[a]) \in Rows
    BY RegisteredRow DEF TypeOK
  <2>2. pc' \in [Attempts -> Running \cup {"end"}] /\ copy' \in [Attempts -> Rows \cup {NoRow}]
        /\ row' \in Rows \cup {NoRow}
    BY <1>3, <2>1 DEF Create, Goto, Running, TypeOK
  <2>3. Holding'
    BY <1>3, <2>1 DEF Create, Goto, TypeOK, Holding, Owner, reconcilerVars
  <2> QED
    BY <1>3, <2>2, <2>3 DEF Create, TypeOK, brokerVars, reconcilerVars
<1>4. ASSUME NEW a \in Attempts, Restart(a)
      PROVE  TypeInv'
  <2>1. copy[a] \in Rows
    BY <1>4 DEF Restart, Holding
  <2>2. Registered(copy[a].draft) \in Rows
    BY <2>1, RegisteredRow DEF Rows
  <2>3. pc' \in [Attempts -> Running \cup {"end"}] /\ copy' \in [Attempts -> Rows \cup {NoRow}]
        /\ row' \in Rows /\ hazard' \subseteq {"stale", "raced", "ambiguous"}
    BY <1>4, <2>2 DEF Restart, RestartHazards, Goto, Running, TypeOK
  <2>4. Holding'
    BY <1>4, <2>2 DEF Restart, Goto, TypeOK, Holding, Owner, reconcilerVars
  <2> QED
    BY <1>4, <2>3, <2>4 DEF Restart, TypeOK, brokerVars, reconcilerVars
<1>5. ASSUME NEW a \in Attempts, Check(a)
      PROVE  TypeInv'
  <2>1. copy[a] \in Rows
    BY <1>5 DEF Check, Holding, Owner
  <2>2. Submitting(copy[a]) \in Rows
    BY <2>1, SubmittingRow
  <2>3. pc' \in [Attempts -> Running \cup {"end"}] /\ copy' \in [Attempts -> Rows \cup {NoRow}]
        /\ row' \in Rows \cup {NoRow}
    BY <1>5, <2>2 DEF Check, Goto, Running, TypeOK
  <2>4. Holding'
    BY <1>5, <2>2 DEF Check, Goto, TypeOK, Holding, Owner, reconcilerVars
  <2> QED
    BY <1>5, <2>3, <2>4 DEF Check, TypeOK, brokerVars, reconcilerVars
<1>6. ASSUME NEW a \in Attempts, Send(a) \/ CreatePaper(a) \/ Answered(a) \/ CallError(a)
      PROVE  TypeInv'
  <2>1. pc' \in [Attempts -> Running \cup {"end"}] /\ placed' \subseteq Attempts
        /\ inFlight' \subseteq Attempts
    BY <1>6 DEF Send, CreatePaper, Answered, CallError, Goto, Running, TypeOK, brokerVars
  <2>2. Holding'
    BY <1>6 DEF Send, CreatePaper, Answered, CallError, Goto, TypeOK, Holding, Owner, reconcilerVars
  <2> QED
    BY <1>6, <2>1, <2>2 DEF Send, CreatePaper, Answered, CallError, TypeOK, reconcilerVars
<1>7. ASSUME NEW a \in Attempts, Complete(a)
      PROVE  TypeInv'
  <2>1. copy[a] \in Rows
    BY <1>7 DEF Complete, Holding, Owner
  <2>2. \A id \in OrderIds(a) : Completed(copy[a], a, id) \in Rows
    BY <2>1, CompletedRow
  <2>4. pc' \in [Attempts -> Running \cup {"end"}] /\ copy' \in [Attempts -> Rows \cup {NoRow}]
        /\ row' \in Rows \cup {NoRow} /\ reply' \in [Attempts -> Attempts \cup {None}]
    BY <1>7, <2>2 DEF Complete, Answer, End, Goto, Running, TypeOK
  <2>5. Holding'
    BY <1>7, <2>2 DEF Complete, Answer, End, Goto, TypeOK, Holding, Owner, reconcilerVars
  <2> QED
    BY <1>7, <2>4, <2>5 DEF Complete, TypeOK, brokerVars, reconcilerVars
<1>8. ASSUME NEW a \in Attempts, Fail(a)
      PROVE  TypeInv'
  <2>1. copy[a] \in Rows
    BY <1>8 DEF Fail, Holding, Owner
  <2>2. Failed(copy[a]) \in Rows
    BY <2>1, FailedRow
  <2>3. pc' \in [Attempts -> Running \cup {"end"}] /\ copy' \in [Attempts -> Rows \cup {NoRow}]
        /\ row' \in Rows \cup {NoRow}
    BY <1>8, <2>2 DEF Fail, End, Goto, Running, TypeOK
  <2>4. Holding'
    BY <1>8, <2>2 DEF Fail, End, Goto, TypeOK, Holding, Owner, reconcilerVars
  <2> QED
    BY <1>8, <2>3, <2>4 DEF Fail, TypeOK, brokerVars, reconcilerVars
<1>9. ASSUME NEW a \in Attempts, Crash(a)
      PROVE  TypeInv'
  BY <1>9 DEF Crash, End, Goto, Running, TypeOK, Holding, Owner, brokerVars, reconcilerVars
<1>10. ASSUME NEW a \in Attempts, BrokerDecides(a) \/ SnapshotSync(a)
       PROVE  TypeInv'
  BY <1>10 DEF BrokerDecides, SnapshotSync, TypeOK, Holding, Owner, brokerVars, attemptVars,
     reconcilerVars
<1>11. ASSUME NEW r \in Reconcilers, ReconcilerStep(r)
       PROVE  TypeInv'
  <2>1. UNCHANGED <<clock, brokerVars, snapshot, attemptVars, hazard>>
        /\ (Taken(r) \/ Logged(r) \/ LetGo(r))
    BY <1>11, ReconcilerShape
  <2>2. rcopy[r] \in Rows =>
          /\ [rcopy[r] EXCEPT !.updatedAt = clock] \in Rows
          /\ \A state \in {"matched", "missing"} :
               [rcopy[r] EXCEPT !.recon = state, !.updatedAt = clock] \in Rows
    BY ReconcilerWrites
  <2>3. row' \in Rows \cup {NoRow} /\ rcopy' \in [Reconcilers -> Rows \cup {NoRow}]
        /\ rpc' \in [Reconcilers -> {"idle", "lookup", "synced"}]
    <3>1. CASE Taken(r)
      BY <3>1 DEF Taken, TypeOK
    <3>2. CASE Logged(r)
      BY <2>2, <3>2 DEF Logged, TypeOK
    <3>3. CASE LetGo(r)
      BY <2>2, <3>3 DEF LetGo, TypeOK
    <3> QED
      BY <2>1, <3>1, <3>2, <3>3
  <2>4. Holding'
    <3>1. CASE Taken(r)
      BY <2>1, <3>1 DEF Taken, TypeOK, Holding, Owner, attemptVars
    <3>2. CASE Logged(r)
      BY <2>1, <2>2, <3>2 DEF Logged, TypeOK, Holding, Owner, attemptVars
    <3>3. CASE LetGo(r)
      BY <2>1, <3>3 DEF LetGo, TypeOK, Holding, Owner, attemptVars
    <3> QED
      BY <2>1, <3>1, <3>2, <3>3
  <2> QED
    BY <2>1, <2>3, <2>4 DEF TypeOK, brokerVars, attemptVars
<1>12. CASE UNCHANGED vars
  BY <1>12 DEF vars, TypeOK, Holding, Owner
<1> QED
  BY <1>1, <1>2, <1>3, <1>4, <1>5, <1>6, <1>7, <1>8, <1>9, <1>10, <1>11, <1>12
  DEF Next, AttemptStep

LEMMA TypeInvariant == Spec => []TypeInv
<1>1. Init => TypeInv
  BY SubmissionAssumption DEF Init, TypeInv, TypeOK, Holding, Owner, Running
<1> QED
  BY <1>1, TypeStep, PTL DEF Spec

(* Every row ever stored, or held by an attempt or a reconciler, is a row    *)
(* of the entity, and every handler is at one of its steps (TypeOK).       *)
THEOREM TypeCorrect == Spec => []TypeOK
<1>1. TypeInv => TypeOK
  BY DEF TypeInv
<1> QED
  BY <1>1, TypeInvariant, PTL

-----------------------------------------------------------------------------
(* One draft behind the key, and true replies *)

LEMMA DraftStep ==
  ASSUME TypeInv, DraftInv, [Next]_vars
  PROVE  DraftInv'
<1> USE NoRowIsNoRow DEF TypeInv, DraftInv
<1>1. CASE Tick
  BY <1>1 DEF Tick, Truthful, ReplyIsTrue, attemptVars, brokerVars, reconcilerVars
<1>2. ASSUME NEW a \in Attempts, Find(a)
      PROVE  DraftInv'
  <2>1. UNCHANGED <<row, brokerVars, draft, reconcilerVars>>
    BY <1>2 DEF Find
  <2>2. /\ pc'[a] # "complete"
        /\ \A b \in Attempts : b # a => pc'[b] = pc[b] /\ copy'[b] = copy[b] /\ reply'[b] = reply[b]
    BY <1>2 DEF Find, Goto, Answer, End, TypeOK
  <2>3. \/ copy'[a] = copy[a] /\ reply'[a] = reply[a]
        \/ copy'[a] = NoRow /\ reply'[a] = None
        \/ copy'[a] = NoRow /\ row \in Rows /\ row.draft = draft[a] /\ row.response # None
           /\ reply'[a] = row.response
        \/ copy'[a] = row /\ row \in Rows /\ row.draft = draft[a] /\ reply'[a] = reply[a]
    BY <1>2 DEF Find, Goto, Answer, End, TypeOK, Conflicts, Replays
  <2>4. ReplyIsTrue'
    BY <2>1, <2>2, <2>3 DEF ReplyIsTrue, Truthful, brokerVars
  <2> QED
    BY <2>1, <2>2, <2>3, <2>4 DEF Truthful, brokerVars, reconcilerVars
<1>3. ASSUME NEW a \in Attempts, Create(a)
      PROVE  DraftInv'
  <2>1. CASE row = NoRow
    <3>1. /\ row' \in Rows /\ row'.draft = draft[a] /\ row'.response = None
          /\ copy' = [copy EXCEPT ![a] = row']
      BY <1>3, <2>1, RegisteredRow DEF Create, TypeOK
    <3> QED
      BY <1>3, <2>1, <3>1 DEF Create, Goto, TypeOK, Truthful, ReplyIsTrue, brokerVars, reconcilerVars
  <2>2. CASE row # NoRow
    BY <1>3, <2>2 DEF Create, Goto, TypeOK, Truthful, ReplyIsTrue, brokerVars, reconcilerVars
  <2> QED
    BY <2>1, <2>2
<1>4. ASSUME NEW a \in Attempts, Restart(a)
      PROVE  DraftInv'
  <2>1. copy[a] \in Rows /\ copy[a].draft \in Drafts
    BY <1>4 DEF Restart, Holding, Rows
  <2>2. /\ row' \in Rows /\ row'.draft = copy[a].draft /\ row'.response = None
        /\ copy' = [copy EXCEPT ![a] = row']
    BY <1>4, <2>1, RegisteredRow DEF Restart
  <2> QED
    BY <1>4, <2>1, <2>2 DEF Restart, Goto, TypeOK, Truthful, ReplyIsTrue, brokerVars, reconcilerVars
<1>5. ASSUME NEW a \in Attempts, Check(a)
      PROVE  DraftInv'
  <2>1. copy[a] \in Rows
    BY <1>5 DEF Check, Holding, Owner
  <2> DEFINE w == Submitting(copy[a])
  <2>2. w \in Rows /\ w.draft = copy[a].draft /\ w.response = copy[a].response
    BY <2>1, SubmittingRow
  <2>3. row' \in {row, w} /\ (copy' = copy \/ copy' = [copy EXCEPT ![a] = w])
        /\ UNCHANGED <<brokerVars, draft, reply, reconcilerVars>>
    BY <1>5 DEF Check
  <2>4. \A b \in Attempts : pc'[b] = "complete" => pc[b] = "complete"
    BY <1>5 DEF Check, Goto, TypeOK
  <2> HIDE DEF w
  <2> QED
    BY <2>1, <2>2, <2>3, <2>4 DEF TypeOK, Truthful, ReplyIsTrue, brokerVars, reconcilerVars
<1>6. ASSUME NEW a \in Attempts, Send(a) \/ CreatePaper(a) \/ Answered(a) \/ CallError(a)
      PROVE  DraftInv'
  <2>1. /\ UNCHANGED <<row, draft, copy, reply, reconcilerVars>>
        /\ placed \subseteq placed'
        /\ placed' \cup inFlight' \subseteq placed \cup inFlight \cup {a}
        /\ \A b \in Attempts : pc'[b] = "complete" => b \in placed'
    BY <1>6 DEF Send, CreatePaper, Answered, CallError, Goto, TypeOK, brokerVars
  <2>2. row \in Rows /\ row.draft = draft[a]
    BY <1>6 DEF Send, CreatePaper, Answered, CallError, Holding, Owner
  <2> QED
    BY <2>1, <2>2 DEF Truthful, ReplyIsTrue, reconcilerVars
<1>7. ASSUME NEW a \in Attempts, Complete(a)
      PROVE  DraftInv'
  <2>1. copy[a] \in Rows /\ a \in placed
    BY <1>7 DEF Complete, Holding, Owner
  <2>2. PICK w \in Rows :
          /\ w.draft = copy[a].draft /\ w.response = a
          /\ \/ row' = w /\ Answer(a, a)
             \/ /\ row' \in {row, w}
                /\ copy' = [copy EXCEPT ![a] = w]
                /\ Goto(a, "fail") /\ UNCHANGED reply
    BY <1>7, <2>1, CompletedRow DEF Complete
  <2>3. UNCHANGED <<brokerVars, draft, reconcilerVars>>
    BY <1>7 DEF Complete
  <2>4. ReplyIsTrue'
    BY <2>1, <2>2, <2>3 DEF ReplyIsTrue, TypeOK, Answer, brokerVars
  <2> QED
    BY <2>1, <2>2, <2>3, <2>4 DEF Answer, End, Goto, TypeOK, Truthful, brokerVars, reconcilerVars
<1>8. ASSUME NEW a \in Attempts, Fail(a) \/ Crash(a)
      PROVE  DraftInv'
  <2>1. /\ copy' = [copy EXCEPT ![a] = NoRow] /\ pc' = [pc EXCEPT ![a] = "end"]
        /\ UNCHANGED <<brokerVars, draft, reply, reconcilerVars>>
    BY <1>8 DEF Fail, Crash, End, Goto
  <2>2. \/ UNCHANGED row
        \/ row' \in Rows /\ row'.draft = copy[a].draft /\ row'.response = None /\ copy[a] \in Rows
    BY <1>8, FailedRow DEF Fail, Crash, Holding, Owner
  <2> QED
    BY <2>1, <2>2 DEF TypeOK, Truthful, ReplyIsTrue, brokerVars, reconcilerVars
<1>9. ASSUME NEW a \in Attempts, BrokerDecides(a) \/ SnapshotSync(a)
      PROVE  DraftInv'
  BY <1>9 DEF BrokerDecides, SnapshotSync, TypeOK, Truthful, ReplyIsTrue, brokerVars, attemptVars,
     reconcilerVars
<1>10. ASSUME NEW r \in Reconcilers, ReconcilerStep(r)
       PROVE  DraftInv'
  <2>1. UNCHANGED <<clock, brokerVars, snapshot, attemptVars, hazard>>
        /\ (Taken(r) \/ Logged(r) \/ LetGo(r))
    BY <1>10, ReconcilerShape
  <2>2. rcopy[r] \in Rows =>
          /\ [rcopy[r] EXCEPT !.updatedAt = clock] \in Rows
          /\ [rcopy[r] EXCEPT !.updatedAt = clock].draft = rcopy[r].draft
          /\ [rcopy[r] EXCEPT !.updatedAt = clock].response = rcopy[r].response
          /\ \A state \in {"matched", "missing"} :
               LET w == [rcopy[r] EXCEPT !.recon = state, !.updatedAt = clock]
               IN  w \in Rows /\ w.draft = rcopy[r].draft /\ w.response = rcopy[r].response
    BY ReconcilerWrites
  <2>3. CASE Taken(r)
    BY <2>1, <2>3 DEF Taken, TypeOK, Truthful, ReplyIsTrue, brokerVars, attemptVars
  <2>4. CASE Logged(r)
    BY <2>1, <2>2, <2>4 DEF Logged, TypeOK, Truthful, ReplyIsTrue, brokerVars, attemptVars
  <2>5. CASE LetGo(r)
    <3>1. \/ UNCHANGED row
          \/ row' \in Rows /\ row'.draft = rcopy[r].draft /\ row'.response = rcopy[r].response
      BY <2>2, <2>5 DEF LetGo
    <3>2. rcopy' = [rcopy EXCEPT ![r] = NoRow] /\ rcopy[r] \in Rows
      BY <2>5 DEF LetGo
    <3> QED
      BY <2>1, <3>1, <3>2 DEF TypeOK, Truthful, ReplyIsTrue, brokerVars, attemptVars
  <2> QED
    BY <2>1, <2>3, <2>4, <2>5
<1>11. CASE UNCHANGED vars
  BY <1>11 DEF vars, Truthful, ReplyIsTrue
<1> QED
  BY <1>1, <1>2, <1>3, <1>4, <1>5, <1>6, <1>7, <1>8, <1>9, <1>10, <1>11 DEF Next, AttemptStep

LEMMA DraftInvariant == Spec => []DraftInv
<1>1. Init => DraftInv
  BY NoRowIsNoRow DEF Init, DraftInv, Truthful, ReplyIsTrue
<1> QED
  BY <1>1, DraftStep, TypeInvariant, PTL DEF Spec

(* A response names an order that was placed for the caller's very draft,   *)
(* for any number of attempts, restarts and crashes (ReplyIsTrue).         *)
THEOREM RepliesAreTrue == Spec => []ReplyIsTrue
<1>1. DraftInv => ReplyIsTrue
  BY DEF DraftInv
<1> QED
  BY <1>1, DraftInvariant, PTL

(* No key ever carries two different drafts to the broker (OneDraftPerKey). *)
THEOREM KeyHasOneDraft == Spec => []OneDraftPerKey
<1>1. DraftInv => OneDraftPerKey
  BY DEF DraftInv, OneDraftPerKey
<1> QED
  BY <1>1, DraftInvariant, PTL

-----------------------------------------------------------------------------
(* Verdicts of the reconciliation *)

LEMMA SeenStep ==
  ASSUME TypeInv, SeenInv, [Next]_vars
  PROVE  SeenInv'
<1> USE NoRowIsNoRow DEF TypeInv, SeenInv
<1>1. CASE Tick
  BY <1>1 DEF Tick, Seen, attemptVars, reconcilerVars
<1>2. ASSUME NEW a \in Attempts, Find(a)
      PROVE  SeenInv'
  <2>1. \A b \in Attempts : copy'[b] \in {copy[b], row, NoRow}
    BY <1>2 DEF Find, Answer, End, TypeOK
  <2> QED
    BY <1>2, <2>1 DEF Find, Seen, reconcilerVars
<1>3. ASSUME NEW a \in Attempts, Create(a) \/ Restart(a) \/ Check(a) \/ Complete(a) \/ Fail(a)
      PROVE  SeenInv'
  <2>1. PICK w \in Rows :
          /\ w.recon = "matched" => w.order \in snapshot
          /\ row' \in {row, w}
          /\ \A b \in Attempts : copy'[b] \in {copy[b], NoRow, w}
    <3>1. CASE Create(a)
      <4>1. Registered(draft[a]) \in Rows /\ Registered(draft[a]).recon = "not_required"
        BY RegisteredRow DEF TypeOK
      <4> QED
        BY <3>1, <4>1 DEF Create, TypeOK
    <3>2. CASE Restart(a)
      <4>1. copy[a].draft \in Drafts
        BY <3>2 DEF Restart, Holding, Rows
      <4>2. Registered(copy[a].draft) \in Rows /\ Registered(copy[a].draft).recon = "not_required"
        BY <4>1, RegisteredRow
      <4> QED
        BY <3>2, <4>2 DEF Restart, TypeOK
    <3>3. CASE Check(a)
      <4>1. copy[a] \in Rows
        BY <3>3 DEF Check, Holding, Owner
      <4>2. /\ Submitting(copy[a]) \in Rows /\ Submitting(copy[a]).recon = copy[a].recon
            /\ Submitting(copy[a]).order = copy[a].order
        BY <4>1, SubmittingRow
      <4> QED
        BY <3>3, <4>1, <4>2 DEF Check, TypeOK, Seen
    <3>4. CASE Complete(a)
      <4>1. copy[a] \in Rows
        BY <3>4 DEF Complete, Holding, Owner
      <4>2. \A id \in OrderIds(a) : Completed(copy[a], a, id) \in Rows
                                   /\ Completed(copy[a], a, id).recon # "matched"
        BY <4>1, CompletedRow
      <4> QED
        BY <3>4, <4>2 DEF Complete, Answer, End, TypeOK
    <3>5. CASE Fail(a)
      <4>1. Failed(copy[a]) \in Rows /\ Failed(copy[a]).recon = "not_required"
        BY <3>5, FailedRow DEF Fail, Holding, Owner
      <4> QED
        BY <3>5, <4>1 DEF Fail, End, TypeOK
    <3> QED
      BY <1>3, <3>1, <3>2, <3>3, <3>4, <3>5
  <2>2. UNCHANGED <<snapshot, rcopy>>
    BY <1>3 DEF Create, Restart, Check, Complete, Fail, reconcilerVars
  <2> QED
    BY <2>1, <2>2 DEF Seen
<1>4. ASSUME NEW a \in Attempts, Send(a) \/ CreatePaper(a) \/ Answered(a) \/ CallError(a)
                                 \/ BrokerDecides(a)
      PROVE  SeenInv'
  BY <1>4 DEF Send, CreatePaper, Answered, CallError, BrokerDecides, Seen, reconcilerVars, attemptVars
<1>5. ASSUME NEW a \in Attempts, Crash(a)
      PROVE  SeenInv'
  BY <1>5 DEF Crash, End, TypeOK, Seen, reconcilerVars
<1>6. ASSUME NEW a \in Attempts, SnapshotSync(a)
      PROVE  SeenInv'
  BY <1>6 DEF SnapshotSync, Seen, reconcilerVars, attemptVars
<1>7. ASSUME NEW r \in Reconcilers, ReconcilerStep(r)
      PROVE  SeenInv'
  <2>1. UNCHANGED <<snapshot, attemptVars>> /\ (Taken(r) \/ Logged(r) \/ LetGo(r))
    BY <1>7, ReconcilerShape
  <2>2. rcopy[r] \in Rows =>
          /\ [rcopy[r] EXCEPT !.updatedAt = clock].recon = rcopy[r].recon
          /\ [rcopy[r] EXCEPT !.updatedAt = clock].order = rcopy[r].order
          /\ \A state \in {"matched", "missing"} :
               LET w == [rcopy[r] EXCEPT !.recon = state, !.updatedAt = clock]
               IN  w.recon = state /\ w.order = rcopy[r].order
    BY ReconcilerWrites
  <2>3. CASE Taken(r)
    BY <2>1, <2>3 DEF Taken, TypeOK, Seen, attemptVars
  <2>4. CASE Logged(r)
    BY <2>1, <2>2, <2>4 DEF Logged, TypeOK, Seen, attemptVars
  <2>5. CASE LetGo(r)
    <3>1. Seen(row)'
      BY <2>1, <2>2, <2>5 DEF LetGo, Seen
    <3> QED
      BY <2>1, <2>5, <3>1 DEF LetGo, TypeOK, Seen, attemptVars
  <2> QED
    BY <2>1, <2>3, <2>4, <2>5
<1>8. CASE UNCHANGED vars
  BY <1>8 DEF vars, Seen
<1> QED
  BY <1>1, <1>2, <1>3, <1>4, <1>5, <1>6, <1>7, <1>8 DEF Next, AttemptStep

(* A row counts as matched only while its order is in the snapshots, however *)
(* stale the copies that attempts and reconcilers save (MatchedIsSeen).     *)
THEOREM MatchesAreSeen == Spec => []MatchedIsSeen
<1>1. Init => SeenInv
  BY NoRowIsNoRow DEF Init, SeenInv, Seen
<1>2. SeenInv /\ TypeInv => MatchedIsSeen
  BY DEF SeenInv, Seen, MatchedIsSeen, TypeInv, TypeOK
<1> QED
  BY <1>1, <1>2, SeenStep, TypeInvariant, PTL DEF Spec

-----------------------------------------------------------------------------
(* One owner, one order, one success *)

LEMMA SingleStep ==
  ASSUME TypeInv, DraftInv, SingleInv, [Next]_vars
  PROVE  SingleInv'
<1> SUFFICES ASSUME hazard' = {}
             PROVE  Single'
  BY DEF SingleInv
<1> USE NoRowIsNoRow DEF TypeInv
<1>0. hazard = {} /\ Single
  <2>1. hazard \subseteq hazard'
    BY ReconcilerShape DEF Next, vars, Tick, AttemptStep, Find, Create, Restart, Check, Send,
       CreatePaper, BrokerDecides, Answered, CallError, Complete, Fail, Crash, SnapshotSync
  <2> QED
    BY <2>1 DEF SingleInv
<1>1. CASE Tick
  <2>1. \A r \in Rows : ~Fresh(r) => ~Fresh(r)'
    BY <1>1, SubmissionAssumption DEF Tick, Fresh, Rows, TypeOK
  <2>2. \A a \in Attempts : pc[a] = "restart" => copy[a] \in Rows
    BY DEF Holding
  <2>3. UNCHANGED <<row, brokerVars, attemptVars, reconcilerVars>>
    BY <1>1 DEF Tick
  <2>4. \A a \in Attempts : pc[a] = "restart" /\ ~Fresh(copy[a]) => ~Fresh(copy[a])'
    BY <1>1, <2>2, <2>3, SubmissionAssumption DEF Tick, Fresh, Rows, TypeOK, attemptVars
  <2> QED
    BY <1>0, <2>3, <2>4 DEF Single, Owner, attemptVars, brokerVars, reconcilerVars
<1>2. ASSUME NEW a \in Attempts, Find(a)
      PROVE  Single'
  <2>1. UNCHANGED <<clock, row, brokerVars, draft, reconcilerVars>>
    BY <1>2 DEF Find
  <2>2. /\ pc[a] = "find" /\ pc'[a] \in {"create", "end", "restart"}
        /\ \A b \in Attempts : b # a => pc'[b] = pc[b] /\ copy'[b] = copy[b] /\ reply'[b] = reply[b]
    BY <1>2 DEF Find, Goto, Answer, End, TypeOK
  <2>3. a \notin placed
    BY <1>0, <2>2 DEF Single
  <2>4. reply'[a] = a => reply[a] = a
    <3>1. reply'[a] \in {reply[a], None, row.response}
      BY <1>2 DEF Find, Answer, End, TypeOK
    <3>2. reply'[a] = row.response /\ reply'[a] # reply[a] /\ reply'[a] # None => row \in Rows
      BY <1>2 DEF Find, Answer, End, TypeOK
    <3> QED
      BY <2>3, <3>1, <3>2, SubmissionAssumption DEF DraftInv, Truthful
  <2>5. pc'[a] = "restart" =>
          /\ copy'[a].status \in {"in_progress", "failed"}
          /\ copy'[a].status = "in_progress" => ~Fresh(copy'[a])
    <3>1. pc'[a] = "restart" => copy'[a] = row /\ row \in Rows /\ ~Replays(row) /\ ~Blocks(row)
      BY <1>2, <2>2 DEF Find, Goto, Answer, End, TypeOK
    <3> QED
      BY <1>0, <3>1 DEF Single, Replays, Blocks, Rows
  <2>6. \A b \in Attempts : Owner(b)' = Owner(b)
    BY <2>2 DEF Owner
  <2>7. \A b \in Attempts : b # a /\ pc[b] = "restart" => Fresh(copy[b])' = Fresh(copy[b])
    BY <2>1, <2>2 DEF Fresh
  <2>8. Fresh(copy[a])' = Fresh(copy'[a])
    BY <2>1 DEF Fresh
  <2>9. \A b \in Attempts : pc'[b] = "restart" =>
          /\ copy'[b].status \in {"in_progress", "failed"}
          /\ copy'[b].status = "in_progress" => ~Fresh(copy[b])'
    BY <1>0, <2>2, <2>5, <2>7, <2>8 DEF Single
  <2>10. \A b \in Attempts : reply'[b] = b => reply[b] = b
    BY <2>2, <2>4
  <2>11. \A b \in Attempts : Owner(b) => b # a /\ pc'[b] = pc[b]
    BY <2>2 DEF Owner
  <2>12. \A b \in placed \cup inFlight : b # a /\ pc'[b] = pc[b]
    BY <1>0, <2>2 DEF Single, TypeOK
  <2> QED
    BY <1>0, <2>1, <2>6, <2>9, <2>10, <2>11, <2>12 DEF Single, brokerVars, reconcilerVars
<1>3. ASSUME NEW a \in Attempts, Create(a)
      PROVE  Single'
  <2>1. CASE row = NoRow
    <3>1. /\ \A b \in Attempts : ~Owner(b) /\ reply[b] # b
          /\ placed \cup inFlight = {}
          /\ \A r \in Reconcilers : rpc[r] = "idle"
      BY <1>0, <2>1 DEF Single, DraftInv, Holding
    <3>2. row' \in Rows /\ row'.status = "in_progress"
      BY <1>3, <2>1, RegisteredRow DEF Create, TypeOK
    <3>3. pc' = [pc EXCEPT ![a] = "check"] /\ \A b \in Attempts : b # a => copy'[b] = copy[b]
      BY <1>3, <2>1 DEF Create, Goto, TypeOK
    <3>4. UNCHANGED <<clock, brokerVars, reply, reconcilerVars>>
      BY <1>3 DEF Create
    <3>5. \A b \in Attempts : b # a => Fresh(copy[b])' = Fresh(copy[b])
      BY <3>3, <3>4 DEF Fresh
    <3> QED
      BY <1>0, <3>1, <3>2, <3>3, <3>4, <3>5 DEF Single, Owner, TypeOK, brokerVars, reconcilerVars
  <2>2. CASE row # NoRow
    BY <1>0, <1>3, <2>2 DEF Create, Goto, Single, Owner, TypeOK, Fresh, brokerVars, reconcilerVars
  <2> QED
    BY <2>1, <2>2
<1>4. ASSUME NEW a \in Attempts, Restart(a)
      PROVE  Single'
  <2>1. copy[a] \in Rows /\ pc[a] = "restart"
    BY <1>4 DEF Restart, Holding
  <2>2. RestartHazards(a) = {}
    BY <1>0, <1>4 DEF Restart
  <2>3. row = copy[a] /\ copy[a].status = "failed" /\ placed \cup inFlight = {}
    BY <1>0, <2>1, <2>2 DEF RestartHazards, Single
  <2>4. /\ \A b \in Attempts : ~Owner(b) /\ reply[b] # b
        /\ \A r \in Reconcilers : rpc[r] = "idle"
    BY <1>0, <2>1, <2>3 DEF Single, DraftInv, Truthful, Holding
  <2>5. row' \in Rows /\ row'.status = "in_progress"
    BY <1>4, <2>1, RegisteredRow DEF Restart, Rows
  <2>6. pc' = [pc EXCEPT ![a] = "check"] /\ \A b \in Attempts : b # a => copy'[b] = copy[b]
    BY <1>4 DEF Restart, Goto, TypeOK
  <2>7. UNCHANGED <<clock, brokerVars, reply, reconcilerVars>>
    BY <1>4 DEF Restart
  <2>8. \A b \in Attempts : b # a => Fresh(copy[b])' = Fresh(copy[b])
    BY <2>6, <2>7 DEF Fresh
  <2> QED
    BY <1>0, <2>3, <2>4, <2>5, <2>6, <2>7, <2>8 DEF Single, Owner, TypeOK, brokerVars, reconcilerVars
<1>5. ASSUME NEW a \in Attempts, Check(a)
      PROVE  Single'
  <2>1. copy[a] \in Rows /\ Owner(a) /\ pc[a] = "check"
    BY <1>5 DEF Check, Holding, Owner
  <2>2. row' \in Rows /\ row'.status = "in_progress"
    BY <1>0, <1>5, <2>1, SubmittingRow DEF Check, Single, Rows
  <2>3. /\ \E step \in {"fail", "send"} : pc' = [pc EXCEPT ![a] = step]
        /\ \A b \in Attempts : b # a => copy'[b] = copy[b]
    BY <1>5 DEF Check, Goto, TypeOK
  <2>4. UNCHANGED <<clock, brokerVars, reply, reconcilerVars>>
    BY <1>5 DEF Check
  <2>5. \A b \in Attempts : b # a => Fresh(copy[b])' = Fresh(copy[b])
    BY <2>3, <2>4 DEF Fresh
  <2>6. /\ placed \cup inFlight = {}
        /\ \A b \in Attempts : Owner(b) => b = a
        /\ \A b \in Attempts : reply[b] # b
        /\ \A r \in Reconcilers : rpc[r] = "idle"
    BY <1>0, <2>1 DEF Single
  <2> QED
    BY <1>0, <2>1, <2>2, <2>3, <2>4, <2>5, <2>6 DEF Single, Owner, TypeOK, brokerVars, reconcilerVars
<1>6. ASSUME NEW a \in Attempts, Send(a) \/ CreatePaper(a) \/ Answered(a) \/ CallError(a)
      PROVE  Single'
  <2>1. /\ \E step \in {"await", "complete", "fail"} : pc' = [pc EXCEPT ![a] = step]
        /\ pc[a] \in {"send", "await"}
        /\ UNCHANGED <<clock, row, copy, reply, reconcilerVars>>
        /\ placed' \cup inFlight' \subseteq placed \cup inFlight \cup {a}
    BY <1>6 DEF Send, CreatePaper, Answered, CallError, Goto, brokerVars
  <2>2. placed \cup inFlight \subseteq {a} /\ Owner(a)
    BY <1>0, <2>1 DEF Single, Owner
  <2>3. \A b \in Attempts : Fresh(copy[b])' = Fresh(copy[b])
    BY <2>1 DEF Fresh
  <2>4. /\ row \in Rows /\ row.status # "failed" /\ row.status # "completed"
        /\ \A b \in Attempts : Owner(b) => b = a
        /\ \A b \in Attempts : reply[b] # b
        /\ \A r \in Reconcilers : rpc[r] = "idle"
    BY <1>0, <2>1, <2>2 DEF Single
  <2> QED
    BY <1>0, <2>1, <2>2, <2>3, <2>4 DEF Single, Owner, TypeOK, reconcilerVars
<1>7. ASSUME NEW a \in Attempts, Complete(a)
      PROVE  Single'
  <2>1. copy[a] \in Rows /\ Owner(a) /\ pc[a] = "complete"
    BY <1>7 DEF Complete, Holding, Owner
  <2>2. /\ row \in Rows /\ row.status # "failed" /\ row.status # "completed"
        /\ \A b \in Attempts : Owner(b) => b = a
        /\ \A b \in Attempts : reply[b] # b
        /\ \A r \in Reconcilers : rpc[r] = "idle"
        /\ placed \cup inFlight \subseteq {a}
    BY <1>0, <2>1 DEF Single
  <2>3. \/ /\ row' \in Rows /\ row'.status = "completed" /\ row'.response = a
           /\ pc' = [pc EXCEPT ![a] = "end"] /\ reply' = [reply EXCEPT ![a] = a]
        \/ /\ \/ row' = row
              \/ row' \in Rows /\ row'.status = "completed" /\ row'.response = a
           /\ pc' = [pc EXCEPT ![a] = "fail"] /\ UNCHANGED reply
    BY <1>7, <2>1, CompletedRow DEF Complete, Answer, End, Goto
  <2>4. UNCHANGED <<clock, brokerVars, reconcilerVars>> /\ \A b \in Attempts : b # a => copy'[b] = copy[b]
    BY <1>7 DEF Complete, Answer, End, TypeOK
  <2>5. \A b \in Attempts : b # a => Fresh(copy[b])' = Fresh(copy[b])
    BY <2>4 DEF Fresh
  <2> QED
    BY <1>0, <2>1, <2>2, <2>3, <2>4, <2>5, SubmissionAssumption
    DEF Single, Owner, TypeOK, brokerVars, reconcilerVars
<1>8. ASSUME NEW a \in Attempts, Fail(a)
      PROVE  Single'
  <2>1. copy[a] \in Rows /\ Owner(a)
    BY <1>8 DEF Fail, Holding, Owner
  <2>2. /\ row \in Rows
        /\ \A b \in Attempts : Owner(b) => b = a
        /\ \A b \in Attempts : reply[b] # b
    BY <1>0, <2>1 DEF Single
  <2>3. row' = row \/ (row' \in Rows /\ row'.status = "failed")
    BY <1>8, <2>1, FailedRow DEF Fail
  <2>4. /\ pc' = [pc EXCEPT ![a] = "end"]
        /\ \A b \in Attempts : b # a => copy'[b] = copy[b]
        /\ UNCHANGED <<clock, brokerVars, reply, reconcilerVars>>
    BY <1>8 DEF Fail, End, Goto, TypeOK
  <2>5. \A b \in Attempts : b # a => Fresh(copy[b])' = Fresh(copy[b])
    BY <2>4 DEF Fresh
  <2> QED
    BY <1>0, <2>1, <2>2, <2>3, <2>4, <2>5 DEF Single, Owner, TypeOK, brokerVars, reconcilerVars
<1>9. ASSUME NEW a \in Attempts, Crash(a)
      PROVE  Single'
  <2>1. /\ pc' = [pc EXCEPT ![a] = "end"]
        /\ \A b \in Attempts : b # a => copy'[b] = copy[b]
        /\ UNCHANGED <<clock, row, brokerVars, reply, reconcilerVars>>
    BY <1>9 DEF Crash, End, Goto, TypeOK
  <2>2. \A b \in Attempts : b # a => Fresh(copy[b])' = Fresh(copy[b])
    BY <2>1 DEF Fresh
  <2> QED
    BY <1>0, <2>1, <2>2 DEF Single, Owner, TypeOK, brokerVars, reconcilerVars
<1>10. ASSUME NEW a \in Attempts, BrokerDecides(a) \/ SnapshotSync(a)
       PROVE  Single'
  <2>1. /\ UNCHANGED <<clock, row, attemptVars, reconcilerVars>>
        /\ placed' \cup inFlight' \subseteq placed \cup inFlight
    BY <1>10 DEF BrokerDecides, SnapshotSync, brokerVars
  <2> QED
    BY <1>0, <2>1 DEF Single, Owner, Fresh, attemptVars, reconcilerVars
<1>11. ASSUME NEW r \in Reconcilers, ReconcilerStep(r)
       PROVE  Single'
  <2>1. UNCHANGED <<clock, brokerVars, snapshot, attemptVars, hazard>>
        /\ (Taken(r) \/ Logged(r) \/ LetGo(r))
    BY <1>11, ReconcilerShape
  <2>2. rcopy[r] \in Rows =>
          /\ [rcopy[r] EXCEPT !.updatedAt = clock] \in Rows
          /\ [rcopy[r] EXCEPT !.updatedAt = clock].status = rcopy[r].status
          /\ [rcopy[r] EXCEPT !.updatedAt = clock].response = rcopy[r].response
          /\ \A state \in {"matched", "missing"} :
               LET w == [rcopy[r] EXCEPT !.recon = state, !.updatedAt = clock]
               IN  w \in Rows /\ w.status = rcopy[r].status /\ w.response = rcopy[r].response
    BY ReconcilerWrites
  <2>3. \A b \in Attempts : Owner(b)' = Owner(b) /\ Fresh(copy[b])' = Fresh(copy[b])
    BY <2>1 DEF Owner, Fresh, attemptVars
  <2>4. CASE Taken(r)
    <3>1. row.status = "completed" /\ row \in Rows
      BY <2>4 DEF Taken, Candidate
    <3>2. row.response # None /\ \A b \in Attempts : Owner(b) => pc[b] = "fail"
      BY <1>0, <3>1 DEF Single
    <3> QED
      BY <1>0, <2>1, <2>3, <2>4, <3>1, <3>2 DEF Taken, Single, TypeOK, brokerVars, attemptVars
  <2>5. CASE Logged(r) \/ LetGo(r)
    <3>1. /\ rcopy[r] \in Rows /\ rcopy[r].status = "completed" /\ rcopy[r].response # None
          /\ rcopy[r].response \in placed
          /\ \A b \in Attempts : Owner(b) => pc[b] = "fail"
      BY <1>0, <2>5 DEF Single, Logged, LetGo, DraftInv, Truthful
    <3>2. \/ row' = row
          \/ row' \in Rows /\ row'.status = "completed" /\ row'.response = rcopy[r].response
      BY <2>2, <2>5, <3>1 DEF Logged, LetGo
    <3>3. \A b \in Attempts : reply[b] = b => row.response = b /\ b \in placed
      BY <1>0 DEF Single, DraftInv, Truthful, TypeOK, ReplyIsTrue
    <3>4. \A b \in Attempts : reply[b] = b => rcopy[r].response = b
      BY <1>0, <3>1, <3>3 DEF Single
    <3>5. \A q \in Reconcilers : rpc'[q] # "idle" =>
            rcopy'[q].status = "completed" /\ rcopy'[q].response # None
      <4>1. CASE Logged(r)
        BY <1>0, <2>2, <3>1, <4>1 DEF Single, Logged, TypeOK
      <4>2. CASE LetGo(r)
        BY <1>0, <4>2 DEF Single, LetGo, TypeOK
      <4> QED
        BY <2>5, <4>1, <4>2
    <3> QED
      BY <1>0, <2>1, <2>3, <3>1, <3>2, <3>4, <3>5 DEF Single, Owner, brokerVars, attemptVars
  <2> QED
    BY <2>1, <2>4, <2>5
<1>12. CASE UNCHANGED vars
  BY <1>0, <1>12 DEF vars, Single, Owner, Fresh
<1> QED
  BY <1>1, <1>2, <1>3, <1>4, <1>5, <1>6, <1>7, <1>8, <1>9, <1>10, <1>11, <1>12
  DEF Next, AttemptStep

LEMMA SingleInvariant == Spec => []SingleInv
<1>1. Init => SingleInv
  BY NoRowIsNoRow, SubmissionAssumption DEF Init, SingleInv, Single, Owner
<1> QED
  BY <1>1, SingleStep, TypeInvariant, DraftInvariant, PTL DEF Spec

(* The key admits at most one order as long as no restart was unguarded,    *)
(* for any number of concurrent attempts (OneOrderUnlessHazard).           *)
THEOREM OneOrder == Spec => []OneOrderUnlessHazard
<1>1. SingleInv => OneOrderUnlessHazard
  BY DEF SingleInv, Single, OneOrderUnlessHazard
<1> QED
  BY <1>1, SingleInvariant, PTL

(* A caller told "created" keeps finding its order behind the key, short of *)
(* an unguarded restart (SuccessIsDurable).                                *)
THEOREM SuccessLasts == Spec => []SuccessIsDurable
<1>1. SingleInv => SuccessIsDurable
  BY NoRowIsNoRow DEF SingleInv, Single, SuccessIsDurable
<1> QED
  BY <1>1, SingleInvariant, PTL

-----------------------------------------------------------------------------
(* The promise of a key is kept *)

(* No order is called for twice, and no caller is answered twice. *)
Before == {"find", "create", "restart", "check", "send"}
FreshInv ==
  /\ \A a \in Attempts : pc[a] \in Before => a \notin placed \cup inFlight
  /\ \A a \in Attempts : reply[a] # None => pc[a] = "end"

LEMMA FreshStep ==
  ASSUME TypeInv, FreshInv, [Next]_vars
  PROVE  FreshInv'
<1> USE DEF TypeInv, TypeOK, FreshInv, Before
<1>1. CASE Tick
  BY <1>1 DEF Tick, attemptVars, brokerVars
<1>2. ASSUME NEW a \in Attempts,
             Find(a) \/ Create(a) \/ Restart(a) \/ Check(a) \/ Answered(a) \/ CallError(a)
      PROVE  FreshInv'
  BY <1>2 DEF Find, Create, Restart, Check, Answered, CallError, Goto, Answer, End, brokerVars
<1>3. ASSUME NEW a \in Attempts, Send(a) \/ CreatePaper(a)
      PROVE  FreshInv'
  BY <1>3 DEF Send, CreatePaper, Goto
<1>4. ASSUME NEW a \in Attempts, Complete(a) \/ Fail(a) \/ Crash(a)
      PROVE  FreshInv'
  BY <1>4 DEF Complete, Fail, Crash, Running, Goto, Answer, End, brokerVars
<1>5. ASSUME NEW a \in Attempts, BrokerDecides(a) \/ SnapshotSync(a)
      PROVE  FreshInv'
  BY <1>5 DEF BrokerDecides, SnapshotSync, attemptVars, brokerVars
<1>6. ASSUME NEW r \in Reconcilers, ReconcilerStep(r)
      PROVE  FreshInv'
  BY <1>6, ReconcilerShape DEF attemptVars, brokerVars
<1>7. CASE UNCHANGED vars
  BY <1>7 DEF vars
<1> QED
  BY <1>1, <1>2, <1>3, <1>4, <1>5, <1>6, <1>7 DEF Next, AttemptStep

LEMMA FreshInvariant == Spec => []FreshInv
<1>1. Init => FreshInv
  BY DEF Init, FreshInv
<1> QED
  BY <1>1, FreshStep, TypeInvariant, PTL DEF Spec

(* Every step of the submission is a step of the promise, or none. *)
LEMMA PromiseStep ==
  ASSUME TypeInv, DraftInv, SingleInv, FreshInv, [Next]_vars
  PROVE  [Promise!Next]_(Promise!vars)
<1> DEFINE still == UNCHANGED <<inFlight, placed, reply, hazard>>
<1>0. still => UNCHANGED Promise!vars
  BY DEF Promise!vars
<1>1. CASE Tick
  BY <1>0, <1>1 DEF Tick, attemptVars, brokerVars
<1>2. ASSUME NEW a \in Attempts, Find(a)
      PROVE  [Promise!Next]_(Promise!vars)
  <2>1. reply[a] = None /\ UNCHANGED <<inFlight, placed, hazard>>
    BY <1>2 DEF Find, FreshInv, brokerVars
  <2>2. \/ UNCHANGED reply
        \/ reply' = [reply EXCEPT ![a] = None]
        \/ row \in Rows /\ row.response # None /\ reply' = [reply EXCEPT ![a] = row.response]
    BY <1>2 DEF Find, Answer, Replays, TypeInv, TypeOK
  <2>3. CASE row \in Rows /\ row.response # None /\ reply' = [reply EXCEPT ![a] = row.response]
    <3>1. row.response \in placed /\ row.response \in Attempts
      BY <2>3 DEF DraftInv, Truthful, TypeInv, TypeOK
    <3>2. Promise!Tell(a, row.response)
      BY <2>1, <2>3, <3>1 DEF Promise!Tell
    <3> QED
      BY <3>1, <3>2 DEF Promise!Next
  <2>4. CASE UNCHANGED reply \/ reply' = [reply EXCEPT ![a] = None]
    BY <1>0, <2>1, <2>4 DEF TypeInv, TypeOK
  <2> QED
    BY <2>2, <2>3, <2>4
<1>3. ASSUME NEW a \in Attempts,
             Create(a) \/ Check(a) \/ Answered(a) \/ CallError(a) \/ Fail(a) \/ Crash(a)
             \/ SnapshotSync(a)
      PROVE  [Promise!Next]_(Promise!vars)
  BY <1>0, <1>3 DEF Create, Check, Answered, CallError, Fail, Crash, SnapshotSync,
     attemptVars, brokerVars
<1>4. ASSUME NEW a \in Attempts, Restart(a)
      PROVE  [Promise!Next]_(Promise!vars)
  <2>1. UNCHANGED <<inFlight, placed, reply>> /\ hazard \subseteq hazard'
    BY <1>4 DEF Restart, brokerVars
  <2>2. CASE (hazard' # {}) = (hazard # {})
    BY <2>1, <2>2 DEF Promise!vars
  <2>3. CASE (hazard' # {}) # (hazard # {})
    <3>1. hazard = {} /\ hazard' # {}
      BY <2>1, <2>3
    <3>2. ~(hazard # {}) /\ ((hazard' # {}) = TRUE)
      BY <3>1
    <3>3. Promise!Void
      BY <2>1, <3>2 DEF Promise!Void
    <3> QED
      BY <3>3 DEF Promise!Next
  <2> QED
    BY <2>2, <2>3
<1>5. ASSUME NEW a \in Attempts, Send(a) \/ CreatePaper(a)
      PROVE  [Promise!Next]_(Promise!vars)
  <2>1. a \notin inFlight \cup placed
    BY <1>5 DEF Send, CreatePaper, FreshInv, Before
  <2>2. hazard = {} => inFlight \cup placed = {}
    BY <1>5 DEF Send, CreatePaper, SingleInv, Single, Owner
  <2>3. Promise!MayCall(a)
    BY <2>1, <2>2 DEF Promise!MayCall
  <2>4. CASE Send(a)
    <3>1. Promise!Call(a)
      BY <2>3, <2>4 DEF Send, Promise!Call
    <3> QED
      BY <3>1 DEF Promise!Next
  <2>5. CASE CreatePaper(a)
    <3>1. UNCHANGED <<inFlight, reply, hazard>> /\ placed' \in {placed, placed \cup {a}}
      BY <2>5 DEF CreatePaper
    <3>2. CASE placed' = placed \cup {a}
      <4>1. inFlight' = inFlight \ {a}
        BY <2>1, <3>1
      <4>2. Promise!Make(a)
        BY <2>3, <3>1, <3>2, <4>1 DEF Promise!Make
      <4> QED
        BY <4>2 DEF Promise!Next
    <3>3. CASE placed' = placed
      BY <1>0, <3>1, <3>3
    <3> QED
      BY <3>1, <3>2, <3>3
  <2> QED
    BY <1>5, <2>4, <2>5
<1>6. ASSUME NEW a \in Attempts, BrokerDecides(a)
      PROVE  [Promise!Next]_(Promise!vars)
  <2>1. Promise!Make(a) \/ Promise!Refuse(a)
    BY <1>6 DEF BrokerDecides, attemptVars, Promise!Make, Promise!Refuse
  <2> QED
    BY <2>1 DEF Promise!Next
<1>7. ASSUME NEW a \in Attempts, Complete(a)
      PROVE  [Promise!Next]_(Promise!vars)
  <2>1. reply[a] = None /\ a \in placed
    BY <1>7 DEF Complete, FreshInv, DraftInv
  <2>2. UNCHANGED <<inFlight, placed, hazard>>
        /\ (UNCHANGED reply \/ reply' = [reply EXCEPT ![a] = a])
    BY <1>7 DEF Complete, Answer, brokerVars
  <2>3. CASE reply' = [reply EXCEPT ![a] = a]
    <3>1. Promise!Tell(a, a)
      BY <2>1, <2>2, <2>3 DEF Promise!Tell
    <3> QED
      BY <3>1 DEF Promise!Next
  <2> QED
    BY <1>0, <2>2, <2>3
<1>8. ASSUME NEW r \in Reconcilers, ReconcilerStep(r)
      PROVE  [Promise!Next]_(Promise!vars)
  <2>1. TypeInv
    OBVIOUS
  <2> QED
    BY <1>0, <1>8, <2>1, ReconcilerShape DEF attemptVars, brokerVars
<1>9. CASE UNCHANGED vars
  BY <1>0, <1>9 DEF vars
<1> QED
  BY <1>1, <1>2, <1>3, <1>4, <1>5, <1>6, <1>7, <1>8, <1>9 DEF Next, AttemptStep

(* The submission of orders implements the promise of a key, for any        *)
(* attempts and reconcilers (KeepsPromise): no step but an unguarded        *)
(* restart ever leaves OrderPromise.                                       *)
THEOREM PromiseIsKept == Spec => KeepsPromise
<1>1. Init => Promise!Init
  BY DEF Init, Promise!Init
<1> QED
  BY <1>1, PromiseStep, TypeInvariant, DraftInvariant, SingleInvariant, FreshInvariant, PTL
  DEF Spec, KeepsPromise, Promise!Spec
=============================================================================
