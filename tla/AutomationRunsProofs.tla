------------------------ MODULE AutomationRunsProofs ------------------------
(***************************************************************************)
(* The safety of the automation's runs, for any number of runs, trades,    *)
(* edits and repairs and any limits.                                       *)
(*                                                                         *)
(* The argument: a run at work that no repair ended has an active row, so  *)
(* no other starts; what an edit or a repair will write is no older than   *)
(* what it read, so if the row is still as it was read the write changes   *)
(* nothing that matters; and between a count and the order it allows there *)
(* is one order under way, which the count left room for.                  *)
(***************************************************************************)
EXTENDS AutomationRuns, FiniteSetTheorems, TLAPS

(* A run that has started has a row, and so has the one a repair is to end. *)
TargetSound ==
  /\ \A r \in Runs : pc[r] # "idle" => row[r] # "none"
  /\ \A w \in Writers : wpc[w] = "clear" => target[w] \in Runs /\ row[target[w]] # "none"

TypeInv == TypeOK /\ TargetSound

(* A run at work has an active row, unless a repair ended it. *)
RowIsActive == \A r \in Runs \ cleared : Live(r) => row[r] = "Running"

RunInv == RowIsActive /\ OneRun

(* Without a row written back, the status is what the operator said, unless *)
(* a run has stopped the automation since.                                 *)
SaidInv == "overwrote" \notin hazard => status \in {said, "Failed"}

(* The next run is at most one slot ahead, and what was asked for is due. *)
SlotBound ==
  /\ nextRun # None => nextRun <= now + 1
  /\ status = "Running" => nextRun # None
  /\ \A s \in asked : s <= now

(* What a writer will write as the next run is not before the one it read. *)
WriterSound ==
  \A w \in Writers :
    /\ wpc[w] \in {"clear", "put"} /\ seen[w].status = "Running"
         => seen[w].nextRun # None /\ seen[w].nextRun <= now + 1
    /\ wpc[w] = "put" /\ seen[w].status = "Running"
         => next[w] # None /\ seen[w].nextRun <= next[w] /\ next[w] <= now + 1
    /\ wpc[w] = "put" /\ seen[w].status # "Running" => next[w] = None

(* Slots that were used are past, and the next one is not among them. *)
SlotsPast ==
  \A r \in Runs : row[r] # "none" =>
    /\ slot[r] # None
    /\ "early" \notin hazard => slot[r] <= now
    /\ hazard \cap {"early", "overwrote"} = {} /\ nextRun # None => slot[r] < nextRun

SlotInv == SlotBound /\ WriterSound /\ SlotsPast

-----------------------------------------------------------------------------
(* TypeOK is kept by every step. *)
LEMMA TypeStep ==
  ASSUME TypeInv, [Next]_vars
  PROVE  TypeInv'
<1> USE LimitAssumption DEF TypeInv, TypeOK, TargetSound, Writers, Trying, At, WriterAt, Past,
     SetExec, Settle, NextAfter, ActiveStatuses,
     rowVars, runVars, tradeVars, writerVars, timeVars, pastVars
<1>1. ASSUME NEW r \in Runs, RunStep(r)
      PROVE  TypeInv'
  <2>1. CASE StartScheduled(r)
    BY <2>1 DEF StartScheduled, Start
  <2>2. CASE StartManual(r)
    BY <2>2 DEF StartManual, Start
  <2>3. CASE End(r) \/ FailAutomation(r)
    <3>1. CASE End(r)
      BY <3>1 DEF End
    <3>2. CASE FailAutomation(r)
      BY <3>2 DEF FailAutomation
    <3> QED BY <2>3, <3>1, <3>2
  <2>4. CASE Die(r)
    BY <2>4 DEF Die, Live
  <2>5. ASSUME NEW t \in Trades, CountDay(r, t)
        PROVE  TypeInv'
    BY <2>5 DEF CountDay
  <2>6. CASE CountOpen(r)
    BY <2>6 DEF CountOpen
  <2>7. CASE Accept(r)
    BY <2>7 DEF Accept
  <2>8. CASE Block(r)
    BY <2>8 DEF Block
  <2>9. CASE CallBroker(r)
    BY <2>9 DEF CallBroker
  <2>10. CASE Answer(r)
    <3>1. trade[r] \in Trades
      BY <2>10 DEF Answer
    <3>2. CASE Placed(r)
      BY <2>10, <3>1, <3>2 DEF Answer, Placed
    <3>3. CASE NextRoute(r) /\ UNCHANGED hazard
      BY <2>10, <3>1, <3>3 DEF Answer, NextRoute
    <3>4. CASE /\ SetExec(trade[r], "failed") /\ At(r, "doubt")
               /\ UNCHANGED <<trade, placed, hazard>>
      BY <2>10, <3>1, <3>4 DEF Answer
    <3> QED
      BY <2>10, <3>2, <3>3, <3>4 DEF Answer
  <2>11. CASE Reconcile(r)
    <3>1. trade[r] \in Trades
      BY <2>11 DEF Reconcile
    <3>2. CASE Placed(r)
      BY <2>11, <3>1, <3>2 DEF Reconcile, Placed
    <3>3. CASE NextRoute(r) /\ Past("lost", order[trade[r]] # "none")
      BY <2>11, <3>1, <3>3 DEF Reconcile, NextRoute
    <3> QED
      BY <2>11, <3>2, <3>3 DEF Reconcile
  <2> QED
    BY <1>1, <2>1, <2>2, <2>3, <2>4, <2>5, <2>6, <2>7, <2>8, <2>9, <2>10, <2>11 DEF RunStep
<1>2. ASSUME NEW t \in Trades, Close(t) \/ Refresh(t) \/ Sweep(t)
      PROVE  TypeInv'
  <2>1. CASE Close(t)
    BY <2>1 DEF Close
  <2>2. CASE Refresh(t)
    <3>1. /\ \E state \in {"linked", "ended", "failed"} : SetExec(t, state)
          /\ hazard' \in {hazard, hazard \cup {"misread"}}
          /\ UNCHANGED <<rowVars, runVars, owner, day, order, writerVars, timeVars, said, cleared>>
      BY <2>2 DEF Refresh
    <3> QED BY <3>1
  <2>3. CASE Sweep(t)
    BY <2>3 DEF Sweep
  <2> QED BY <1>2, <2>1, <2>2, <2>3
<1>3. ASSUME NEW w \in Edits, EditRead(w)
      PROVE  TypeInv'
  BY <1>3 DEF EditRead, Current
<1>4. ASSUME NEW w \in Repairs, Clear(w)
      PROVE  TypeInv'
  BY <1>4 DEF Clear
<1>5. ASSUME NEW w \in Repairs, NEW r \in Runs, RepairRead(w, r)
      PROVE  TypeInv'
  BY <1>5 DEF RepairRead, Current
<1>6. ASSUME NEW w \in Writers, Put(w)
      PROVE  TypeInv'
  BY <1>6 DEF Put, Restored
<1>7. CASE Ask
  BY <1>7 DEF Ask
<1>8. CASE Pause
  BY <1>8 DEF Pause
<1>11. CASE Resume
  BY <1>11 DEF Resume
<1>9. CASE Tick
  BY <1>9 DEF Tick
<1>10. CASE UNCHANGED vars
  BY <1>10 DEF vars
<1> QED
  BY <1>1, <1>2, <1>3, <1>4, <1>5, <1>6, <1>7, <1>8, <1>9, <1>10, <1>11 DEF Next

LEMMA TypeInvariant == Spec => []TypeInv
<1>1. Init => TypeInv
  BY LimitAssumption DEF Init, TypeInv, TypeOK, TargetSound, Writers, Trying
<1> QED
  BY <1>1, TypeStep, PTL DEF Spec

(* TypeOK holds in every behaviour of the specification. *)
THEOREM TypeCorrect == Spec => []TypeOK
<1>1. TypeInv => TypeOK
  BY DEF TypeInv
<1> QED
  BY <1>1, TypeInvariant, PTL

-----------------------------------------------------------------------------
(* A run starts only where no row is active, and no row of a run at work    *)
(* stops being active except by its end or a repair.                       *)
LEMMA RunStepKeeps ==
  ASSUME TypeInv, RunInv, [Next]_vars
  PROVE  RunInv'
<1> USE DEF TypeInv, TypeOK, TargetSound, RunInv, RowIsActive, OneRun, Live, Trying, At,
     Settle, Placed, NextRoute,
     rowVars, runVars, tradeVars, writerVars, timeVars, pastVars
<1>1. ASSUME NEW r \in Runs, RunStep(r)
      PROVE  RunInv'
  <2>1. CASE \E s \in asked \cup {nextRun} : Start(r, s)
    BY <2>1 DEF Start, ActiveStatuses
  <2>2. CASE End(r) \/ FailAutomation(r) \/ Die(r)
    BY <2>2 DEF End, FailAutomation, Die
  <2>3. CASE \E t \in Trades : CountDay(r, t)
    BY <2>3 DEF CountDay
  <2>4. CASE CountOpen(r) \/ Accept(r) \/ Block(r) \/ CallBroker(r)
    BY <2>4 DEF CountOpen, Accept, Block, CallBroker
  <2>5. CASE Answer(r)
    BY <2>5 DEF Answer
  <2>6. CASE Reconcile(r)
    BY <2>6 DEF Reconcile
  <2> QED
    BY <1>1, <2>1, <2>2, <2>3, <2>4, <2>5, <2>6 DEF RunStep, StartScheduled, StartManual
<1>2. ASSUME NEW t \in Trades, Close(t) \/ Refresh(t) \/ Sweep(t)
      PROVE  RunInv'
  BY <1>2 DEF Close, Refresh, Sweep
<1>3. ASSUME NEW w \in Writers, EditRead(w) \/ Put(w) \/ \E r \in Runs : RepairRead(w, r)
      PROVE  RunInv'
  BY <1>3 DEF EditRead, RepairRead, Put
<1>4. ASSUME NEW w \in Writers, Clear(w)
      PROVE  RunInv'
  BY <1>4 DEF Clear
<1>5. CASE Ask \/ Pause \/ Resume \/ Tick
  BY <1>5 DEF Ask, Pause, Resume, Tick
<1>6. CASE UNCHANGED vars
  BY <1>6 DEF vars
<1> QED
  BY <1>1, <1>2, <1>3, <1>4, <1>5, <1>6 DEF Next, Writers

(* OneRun holds in every behaviour of the specification.                   *)
THEOREM RunsAreAlone == Spec => []OneRun
<1>1. Init => RunInv
  BY DEF Init, RunInv, RowIsActive, OneRun, Live, Trying
<1>2. Spec => []RunInv
  BY <1>1, RunStepKeeps, TypeInvariant, PTL DEF Spec
<1>3. RunInv => OneRun
  BY DEF RunInv
<1> QED
  BY <1>2, <1>3, PTL

-----------------------------------------------------------------------------
(* A writer that finds the row as it read it leaves the status alone. *)
LEMMA SaidStep ==
  ASSUME TypeInv, SaidInv, [Next]_vars
  PROVE  SaidInv'
<1> USE DEF SaidInv, TypeInv, TypeOK, Past, rowVars, runVars, tradeVars, writerVars, timeVars, pastVars
<1>1. ASSUME NEW r \in Runs, RunStep(r)
      PROVE  status' \in {status, "Failed"} /\ said' = said /\ ("overwrote" \in hazard => "overwrote" \in hazard')
                              /\ ("overwrote" \in hazard' => "overwrote" \in hazard)
  BY <1>1 DEF RunStep, StartScheduled, StartManual, Start, End, FailAutomation, Die, CountDay,
     CountOpen, Accept, Block, CallBroker, Answer, Reconcile, Placed, NextRoute
<1>2. ASSUME NEW w \in Writers, Put(w)
      PROVE  SaidInv'
  BY <1>2 DEF Put, Restored, Current
<1>3. CASE Ask \/ Pause \/ Resume \/ Tick \/ \E t \in Trades : Close(t) \/ Refresh(t) \/ Sweep(t)
  BY <1>3 DEF Ask, Pause, Resume, Tick, Close, Refresh, Sweep
<1>4. ASSUME NEW w \in Writers, EditRead(w) \/ Clear(w) \/ \E r \in Runs : RepairRead(w, r)
      PROVE  SaidInv'
  BY <1>4 DEF EditRead, Clear, RepairRead
<1>5. CASE UNCHANGED vars
  BY <1>5 DEF vars
<1> QED
  BY <1>1, <1>2, <1>3, <1>4, <1>5 DEF Next, Writers

(* Only Start takes a run from "idle", and it looks at the status. *)
LEMMA StartLooks ==
  ASSUME TypeInv, [Next]_vars, NEW r \in Runs, pc[r] = "idle", pc'[r] # "idle"
  PROVE  status = "Running"
<1> USE DEF TypeInv, TypeOK, At, Settle, rowVars, runVars, tradeVars, writerVars, timeVars, pastVars
<1>1. ASSUME NEW q \in Runs, RunStep(q)
      PROVE  status = "Running"
  <2>1. CASE \E s \in asked \cup {nextRun} : Start(q, s)
    BY <2>1 DEF Start
  <2>2. CASE q # r
    <3>1. pc'[r] = pc[r]
      BY <1>1, <2>2 DEF RunStep, StartScheduled, StartManual, Start, End, FailAutomation, Die, CountDay, CountOpen,
         Accept, Block, CallBroker, Answer, Reconcile, Placed, NextRoute
    <3> QED BY <3>1
  <2>3. CASE q = r
    BY <1>1, <2>1, <2>3 DEF RunStep, StartScheduled, StartManual, End, FailAutomation, Die, Live, Trying, CountDay,
       CountOpen, Accept, Block, CallBroker, Answer, Reconcile
  <2> QED BY <2>2, <2>3
<1>2. ASSUME ~ \E q \in Runs : RunStep(q)
      PROVE  pc' = pc
  BY <1>2 DEF Next, Ask, Pause, Resume, Tick, Close, Refresh, Sweep, EditRead, Clear, RepairRead, Put, vars
<1> QED
  BY <1>1, <1>2

(* PauseHolds holds of every step of every behaviour. *)
THEOREM PausesHold == Spec => PauseHolds
<1>1. Init => SaidInv
  BY DEF Init, SaidInv
<1>2. Spec => []SaidInv
  BY <1>1, SaidStep, TypeInvariant, PTL DEF Spec
<1>3. TypeInv /\ SaidInv /\ [Next]_vars =>
        [\A r \in Runs : pc[r] = "idle" /\ pc'[r] # "idle"
           => said = "Running" \/ "overwrote" \in hazard]_vars
  BY StartLooks DEF SaidInv
<1> QED
  BY <1>2, <1>3, TypeInvariant, PTL DEF Spec, PauseHolds

-----------------------------------------------------------------------------
(* Every next run that is computed is after the slots that were used. *)
LEMMA SlotStep ==
  ASSUME TypeInv, SlotInv, [Next]_vars
  PROVE  SlotInv'
<1> USE LimitAssumption DEF TypeInv, TypeOK, TargetSound, SlotInv, SlotBound, WriterSound, SlotsPast,
     NextAfter, At, WriterAt, Past, rowVars, runVars, tradeVars, writerVars, timeVars, pastVars
<1>1. ASSUME NEW r \in Runs, RunStep(r)
      PROVE  SlotInv'
  <2>1. CASE StartScheduled(r)
    BY <2>1 DEF StartScheduled, Start
  <2>2. CASE StartManual(r)
    BY <2>2 DEF StartManual, Start
  <2>3. CASE End(r) \/ FailAutomation(r)
    <3>1. CASE End(r)
      BY <3>1 DEF End
    <3>2. CASE FailAutomation(r)
      BY <3>2 DEF FailAutomation
    <3> QED BY <2>3, <3>1, <3>2
  <2>4. CASE Die(r) \/ CountOpen(r) \/ Accept(r) \/ Block(r) \/ CallBroker(r) \/ Answer(r)
             \/ Reconcile(r) \/ \E t \in Trades : CountDay(r, t)
    <3>1. /\ UNCHANGED <<rowVars, row, slot, writerVars, timeVars>>
          /\ hazard' = hazard \/ hazard' = hazard \cup {"lost"}
      BY <2>4 DEF Die, CountOpen, Accept, Block, CallBroker, Answer, Reconcile, CountDay,
         Placed, NextRoute
    <3> QED BY <3>1
  <2> QED
    BY <1>1, <2>1, <2>2, <2>3, <2>4 DEF RunStep
<1>2. CASE Ask
  BY <1>2 DEF Ask
<1>10. CASE Tick
  BY <1>10 DEF Tick
<1>11. CASE \E t \in Trades : Close(t) \/ Refresh(t) \/ Sweep(t)
  <2>1. /\ UNCHANGED <<rowVars, runVars, writerVars, timeVars>>
        /\ hazard' \in {hazard, hazard \cup {"misread"}, hazard \cup {"swept"}}
    BY <1>11 DEF Close, Refresh, Sweep
  <2> QED BY <2>1
<1>3. CASE Pause
  BY <1>3 DEF Pause
<1>4. CASE Resume
  BY <1>4 DEF Resume
<1>5. ASSUME NEW w \in Writers, EditRead(w)
      PROVE  SlotInv'
  BY <1>5 DEF EditRead, Current
<1>6. ASSUME NEW w \in Writers, NEW r \in Runs, RepairRead(w, r)
      PROVE  SlotInv'
  BY <1>6 DEF RepairRead, Current
<1>7. ASSUME NEW w \in Writers, Clear(w)
      PROVE  SlotInv'
  BY <1>7 DEF Clear
<1>8. ASSUME NEW w \in Writers, Put(w)
      PROVE  SlotInv'
  BY <1>8 DEF Put, Restored, Current
<1>9. CASE UNCHANGED vars
  BY <1>9 DEF vars
<1> QED
  BY <1>1, <1>2, <1>3, <1>4, <1>5, <1>6, <1>7, <1>8, <1>9, <1>10, <1>11 DEF Next, Writers

(* NextSlotIsFree holds in every behaviour of the specification. *)
THEOREM SlotsAreFree == Spec => []NextSlotIsFree
<1>1. Init => SlotInv
  BY LimitAssumption DEF Init, SlotInv, SlotBound, WriterSound, SlotsPast, Writers
<1>2. Spec => []SlotInv
  BY <1>1, SlotStep, TypeInvariant, PTL DEF Spec
<1>3. TypeInv /\ SlotInv => NextSlotIsFree
  BY DEF TypeInv, TypeOK, SlotInv, SlotBound, SlotsPast, NextSlotIsFree, Used
<1> QED
  BY <1>2, <1>3, TypeInvariant, PTL

-----------------------------------------------------------------------------
(* Orders that were made and that no run is trying any more: of a run, of a *)
(* day if the broker did not fail them, and the ones still open.           *)
Good(t) == order[t] # "none" /\ \A r \in Runs : trade[r] # t
GoodOf(r) == {t \in Trades : owner[t] = r /\ Good(t)}
GoodOn(d) == {t \in Trades : Good(t) /\ order[t] # "failed" /\ day[t] = d}
GoodOpen == {t \in Trades : Good(t) /\ order[t] = "open"}

(* A trade belongs to the run that tries it, and one with an order to a run. *)
OwnerSound ==
  /\ \A r \in Runs : trade[r] # None => owner[trade[r]] = r
  /\ \A t \in Trades : order[t] # "none" => owner[t] # None

(* A run has no order before it calls the broker, and the record of a good  *)
(* one says so until a sweep or a refresh gets it wrong.                   *)
OrderSound ==
  /\ \A r \in Runs : pc[r] \in {"open", "gate", "call"} => order[trade[r]] = "none"
  /\ "swept" \notin hazard =>
       \A t \in Trades : Good(t) /\ order[t] # "failed" => exec[t] \in {"linked", "ended"}
  /\ hazard \cap {"swept", "misread"} = {} =>
       \A t \in Trades : Good(t) /\ order[t] = "open" => exec[t] = "linked"

(* The counter of a run counts its orders, and there is room for the one it *)
(* tries.                                                                  *)
RunRoom ==
  \A r \in Runs :
    /\ Cardinality(GoodOf(r)) = placed[r] /\ placed[r] <= MaxPerRun
    /\ trade[r] # None => placed[r] < MaxPerRun

(* So it is with the day and the orders open, as long as one run tries. *)
DayRoom ==
  /\ \A t \in Trades : day[t] <= today
  /\ \A d \in 0..today : Cardinality(GoodOn(d)) <= MaxPerDay
  /\ \A r \in Runs : trade[r] # None =>
       /\ Cardinality(GoodOn(today)) < MaxPerDay
       /\ pc[r] \in {"call", "answer", "doubt"} => Cardinality(GoodOn(day[trade[r]])) < MaxPerDay

OpenRoom ==
  /\ Cardinality(GoodOpen) <= MaxOpen
  /\ \A r \in Runs : pc[r] \in Trying \ {"open"} => Cardinality(GoodOpen) < MaxOpen

OrderInv == OwnerSound /\ ("lost" \notin hazard => OrderSound)
RoomInv ==
  "lost" \notin hazard =>
    /\ RunRoom
    /\ cleared = {} /\ "swept" \notin hazard =>
         DayRoom /\ ("misread" \notin hazard => OpenRoom)

-----------------------------------------------------------------------------
(* The history only grows. *)
LEMMA Remembered ==
  ASSUME [Next]_vars
  PROVE  cleared \subseteq cleared' /\ hazard \subseteq hazard'
<1> USE DEF rowVars, runVars, tradeVars, writerVars, timeVars, pastVars, Past
<1>1. ASSUME NEW r \in Runs, RunStep(r)
      PROVE  cleared' = cleared /\ hazard \subseteq hazard'
  BY <1>1 DEF RunStep, StartScheduled, StartManual, Start, End, FailAutomation, Die, CountDay,
     CountOpen, Accept, Block, CallBroker, Answer, Reconcile, Placed, NextRoute
<1>2. ASSUME ~ \E r \in Runs : RunStep(r)
      PROVE  cleared \subseteq cleared' /\ hazard \subseteq hazard'
  BY <1>2 DEF Next, Close, Refresh, Sweep, Ask, Pause, Resume, Tick, EditRead, RepairRead,
     Clear, Put, vars
<1> QED
  BY <1>1, <1>2

(* The step that makes an order good. *)
Success(r) ==
  /\ pc[r] \in {"answer", "doubt"} /\ order[trade[r]] # "none"
  /\ Placed(r)
  /\ UNCHANGED <<owner, order, day, today>>

(* A step of any other kind leaves the good orders alone, or ends one. *)
Quiet ==
  /\ UNCHANGED placed
  /\ \A t \in Trades :
       /\ Good(t)' = Good(t)
       /\ Good(t) => /\ owner'[t] = owner[t] /\ day'[t] = day[t]
                     /\ order'[t] = order[t] \/ (order[t] = "open" /\ order'[t] # "open")
  /\ \A q \in Runs : trade'[q] # None => trade[q] # None \/ placed[q] < MaxPerRun

LEMMA Steps ==
  ASSUME TypeInv, OwnerSound, OrderSound, [Next]_vars, "lost" \notin hazard'
  PROVE  (\E r \in Runs : Success(r)) \/ Quiet
<1> USE LimitAssumption DEF TypeInv, TypeOK, OwnerSound, OrderSound, Good, At, SetExec, Settle, Past,
     rowVars, runVars, tradeVars, writerVars, timeVars, pastVars
<1>1. ASSUME NEW r \in Runs, RunStep(r)
      PROVE  Success(r) \/ Quiet
  <2>1. CASE StartScheduled(r) \/ StartManual(r) \/ End(r) \/ FailAutomation(r)
    BY <2>1 DEF StartScheduled, StartManual, Start, End, FailAutomation, Quiet
  <2>2. CASE CallBroker(r)
    BY <2>2 DEF CallBroker, Quiet, Trying
  <2>3. ASSUME NEW t \in Trades, CountDay(r, t)
        PROVE  Quiet
    <3>1. trade[r] = None /\ order[t] = "none" /\ t # None
      BY <2>3 DEF CountDay, Trying
    <3>2. trade' = [trade EXCEPT ![r] = t] /\ placed[r] < MaxPerRun
          /\ UNCHANGED <<placed, day, order>> /\ owner' = [owner EXCEPT ![t] = r]
      BY <2>3 DEF CountDay
    <3>3. \A u \in Trades : Good(u)' = Good(u)
      BY <3>1, <3>2
    <3> QED BY <3>1, <3>2, <3>3 DEF Quiet
  <2>4. CASE Accept(r)
    BY <2>4 DEF Accept, Quiet, Trying
  <2>5. CASE CountOpen(r) \/ Block(r)
    BY <2>5 DEF CountOpen, Block, Quiet, Trying
  <2>6. CASE Die(r)
    <3>1. trade[r] # None => trade[r] \in Trades /\ order[trade[r]] = "none"
      BY <2>6 DEF Die, Live, Trying
    <3> QED BY <2>6, <3>1 DEF Die, Quiet
  <2>7. CASE Answer(r)
    <3>1. trade[r] \in Trades
      BY <2>7 DEF Answer, Trying
    <3>2. CASE order[trade[r]] # "none" /\ Placed(r)
      BY <2>7, <3>2 DEF Answer, Success
    <3>3. CASE order[trade[r]] = "none" /\ NextRoute(r)
      BY <2>7, <3>1, <3>3 DEF Answer, NextRoute, Quiet
    <3>4. CASE SetExec(trade[r], "failed") /\ UNCHANGED <<trade, placed>>
      BY <2>7, <3>1, <3>4 DEF Answer, Quiet
    <3> QED
      BY <2>7, <3>2, <3>3, <3>4 DEF Answer
  <2>8. CASE Reconcile(r)
    <3>1. trade[r] \in Trades
      BY <2>8 DEF Reconcile, Trying
    <3>2. CASE order[trade[r]] # "none" /\ Placed(r)
      BY <2>8, <3>2 DEF Reconcile, Success
    <3>3. CASE NextRoute(r) /\ Past("lost", order[trade[r]] # "none")
      <4>1. order[trade[r]] = "none"
        BY <3>3
      <4> QED BY <2>8, <3>1, <3>3, <4>1 DEF Reconcile, NextRoute, Quiet
    <3> QED
      BY <2>8, <3>2, <3>3 DEF Reconcile
  <2> QED
    BY <1>1, <2>1, <2>2, <2>3, <2>4, <2>5, <2>6, <2>7, <2>8 DEF RunStep
<1>2. ASSUME NEW t \in Trades, Close(t) \/ Refresh(t) \/ Sweep(t)
      PROVE  Quiet
  <2>1. CASE Close(t)
    BY <2>1 DEF Close, Quiet
  <2>2. CASE Refresh(t) \/ Sweep(t)
    BY <2>2 DEF Refresh, Sweep, Quiet
  <2> QED BY <1>2, <2>1, <2>2
<1>3. ASSUME ~ \E r \in Runs : RunStep(r), ~ \E t \in Trades : Close(t) \/ Refresh(t) \/ Sweep(t)
      PROVE  UNCHANGED <<placed, trade, tradeVars>>
  BY <1>3 DEF Next, Ask, Pause, Resume, Tick, EditRead, RepairRead, Clear, Put, vars
<1>4. CASE UNCHANGED <<placed, trade, tradeVars>>
  BY <1>4 DEF Quiet
<1> QED
  BY <1>1, <1>2, <1>3, <1>4

(* What a run tries is its own, and the record of an order that was placed  *)
(* is linked.                                                              *)
LEMMA OrderStep ==
  ASSUME TypeInv, OrderInv, [Next]_vars
  PROVE  OrderInv'
<1>1. OwnerSound'
  <2> USE LimitAssumption DEF TypeInv, TypeOK, OrderInv, OwnerSound, Trying, At,
       SetExec, Settle, rowVars, runVars, tradeVars, writerVars, timeVars, pastVars
  <2>1. ASSUME NEW r \in Runs, RunStep(r)
        PROVE  OwnerSound'
    <3>1. CASE StartScheduled(r) \/ StartManual(r) \/ End(r) \/ FailAutomation(r) \/ Die(r)
      BY <3>1 DEF StartScheduled, StartManual, Start, End, FailAutomation, Die
    <3>2. ASSUME NEW t \in Trades, CountDay(r, t)
          PROVE  OwnerSound'
      BY <3>2 DEF CountDay
    <3>3. CASE CountOpen(r) \/ Accept(r) \/ Block(r) \/ CallBroker(r)
      BY <3>3 DEF CountOpen, Accept, Block, CallBroker
    <3>4. CASE Answer(r) \/ Reconcile(r)
      BY <3>4 DEF Answer, Reconcile, Placed, NextRoute
    <3> QED
      BY <2>1, <3>1, <3>2, <3>3, <3>4 DEF RunStep
  <2>2. ASSUME NEW t \in Trades, Close(t) \/ Refresh(t) \/ Sweep(t)
        PROVE  OwnerSound'
    BY <2>2 DEF Close, Refresh, Sweep
  <2>3. ASSUME ~ \E r \in Runs : RunStep(r), ~ \E t \in Trades : Close(t) \/ Refresh(t) \/ Sweep(t)
        PROVE  UNCHANGED <<trade, tradeVars>>
    BY <2>3 DEF Next, Ask, Pause, Resume, Tick, EditRead, RepairRead, Clear, Put, vars
  <2>4. CASE UNCHANGED <<trade, tradeVars>>
    BY <2>4
  <2> QED
    BY <2>1, <2>2, <2>3, <2>4
<1>2. ASSUME "lost" \notin hazard'
      PROVE  OrderSound'
  <2> USE LimitAssumption DEF TypeInv, TypeOK, OrderInv, OwnerSound, OrderSound, Good, Trying, At,
       SetExec, Settle, Past, rowVars, runVars, tradeVars, writerVars, timeVars, pastVars
  <2>0. "lost" \notin hazard /\ hazard \subseteq hazard'
    BY <1>2, Remembered
  <2>1. ASSUME NEW r \in Runs, RunStep(r)
        PROVE  OrderSound'
    <3>1. CASE StartScheduled(r) \/ StartManual(r) \/ End(r) \/ FailAutomation(r)
      BY <2>0, <3>1 DEF StartScheduled, StartManual, Start, End, FailAutomation
    <3>2. CASE Die(r)
      <4>1. trade[r] # None => trade[r] \in Trades /\ order[trade[r]] = "none"
        BY <1>2, <2>0, <3>2 DEF Die, Live
      <4> QED BY <2>0, <3>2, <4>1 DEF Die, Live
    <3>3. ASSUME NEW t \in Trades, CountDay(r, t)
          PROVE  OrderSound'
      BY <2>0, <3>3 DEF CountDay
    <3>4. CASE CountOpen(r) \/ Block(r)
      <4>1. trade[r] \in Trades /\ order[trade[r]] = "none"
        BY <2>0, <3>4 DEF CountOpen, Block
      <4>2. /\ UNCHANGED <<exec, order, hazard>>
            /\ \/ pc' = [pc EXCEPT ![r] = "gate"] /\ UNCHANGED trade
               \/ pc' = [pc EXCEPT ![r] = "scan"] /\ trade' = [trade EXCEPT ![r] = None]
        BY <3>4 DEF CountOpen, Block
      <4> QED BY <2>0, <4>1, <4>2
    <3>5. CASE Accept(r)
      BY <2>0, <3>5 DEF Accept
    <3>6. CASE CallBroker(r)
      BY <2>0, <3>6 DEF CallBroker
    <3>7. ASSUME trade[r] \in Trades, owner[trade[r]] = r, pc[r] \in {"answer", "doubt"},
                 order[trade[r]] # "none", Placed(r), order' = order
          PROVE  OrderSound'
      BY <2>0, <3>7 DEF Placed
    <3>8. ASSUME trade[r] \in Trades, owner[trade[r]] = r, pc[r] \in {"answer", "doubt"},
                 order[trade[r]] = "none", NextRoute(r), order' = order
          PROVE  OrderSound'
      BY <2>0, <3>8 DEF NextRoute
    <3>9. CASE Answer(r)
      <4>1. trade[r] \in Trades /\ owner[trade[r]] = r
        BY <3>9 DEF Answer
      <4>2. CASE SetExec(trade[r], "failed") /\ At(r, "doubt") /\ UNCHANGED <<trade, placed, hazard>>
        BY <2>0, <3>9, <4>1, <4>2 DEF Answer
      <4> QED
        BY <3>7, <3>8, <3>9, <4>1, <4>2 DEF Answer
    <3>10. CASE Reconcile(r)
      <4>1. trade[r] \in Trades /\ owner[trade[r]] = r
        BY <3>10 DEF Reconcile
      <4> QED
        BY <1>2, <3>7, <3>8, <3>10, <4>1 DEF Reconcile
    <3> QED
      BY <2>1, <3>1, <3>2, <3>3, <3>4, <3>5, <3>6, <3>9, <3>10 DEF RunStep
  <2>2. ASSUME NEW t \in Trades, Close(t)
        PROVE  OrderSound'
    BY <2>0, <2>2 DEF Close
  <2>3. ASSUME NEW t \in Trades, Refresh(t)
        PROVE  OrderSound'
    BY <2>0, <2>3 DEF Refresh
  <2>4. ASSUME NEW t \in Trades, Sweep(t)
        PROVE  OrderSound'
    BY <2>0, <2>4 DEF Sweep, Counts
  <2>5. ASSUME ~ \E r \in Runs : RunStep(r), ~ \E t \in Trades : Close(t) \/ Refresh(t) \/ Sweep(t)
        PROVE  UNCHANGED <<pc, trade, tradeVars>>
    BY <2>5 DEF Next, Ask, Pause, Resume, Tick, EditRead, RepairRead, Clear, Put, vars
  <2>6. CASE UNCHANGED <<pc, trade, tradeVars>>
    BY <2>0, <2>6
  <2> QED
    BY <2>1, <2>2, <2>3, <2>4, <2>5, <2>6
<1> QED
  BY <1>1, <1>2 DEF OrderInv

-----------------------------------------------------------------------------
(* Sets of trades are finite, and so are smaller ones. *)
LEMMA TradeSets ==
  ASSUME NEW S, S \subseteq Trades
  PROVE  /\ IsFiniteSet(S) /\ Cardinality(S) \in Nat
         /\ \A t \in Trades \ S : Cardinality(S \cup {t}) = Cardinality(S) + 1
         /\ \A U \in SUBSET S : Cardinality(U) <= Cardinality(S)
<1>1. IsFiniteSet(S)
  BY FS_Subset, LimitAssumption
<1>2. \A t \in Trades \ S : Cardinality(S \cup {t}) = Cardinality(S) + 1
  BY <1>1, FS_AddElement
<1>3. \A U \in SUBSET S : Cardinality(U) <= Cardinality(S)
  BY <1>1, FS_Subset
<1> QED
  BY <1>1, <1>2, <1>3, FS_CardinalityType

(* The counter of a run keeps count. *)
LEMMA RunRoomStep ==
  ASSUME TypeInv, OwnerSound, OrderSound, RunRoom, [Next]_vars, "lost" \notin hazard'
  PROVE  RunRoom'
<1>1. CASE Quiet
  <2>1. \A q \in Runs : GoodOf(q)' = GoodOf(q)
    BY <1>1 DEF Quiet, GoodOf
  <2> QED
    BY <1>1, <2>1 DEF Quiet, RunRoom
<1>2. ASSUME NEW r \in Runs, Success(r)
      PROVE  RunRoom'
  <2> DEFINE t0 == trade[r]
  <2>1. t0 \in Trades /\ t0 # None /\ owner[t0] = r /\ ~ Good(t0) /\ order[t0] # "none"
        /\ \A q \in Runs : trade[q] = t0 => q = r
    BY <1>2, LimitAssumption DEF Success, OwnerSound, TypeInv, TypeOK, Trying, Good
  <2>2. /\ \A t \in Trades : Good(t)' <=> (Good(t) \/ t = t0)
        /\ owner' = owner /\ placed' = [placed EXCEPT ![r] = @ + 1]
        /\ trade' = [trade EXCEPT ![r] = None]
    BY <1>2, <2>1, LimitAssumption DEF Success, Placed, Settle, Good, TypeInv, TypeOK
  <2>3. GoodOf(r)' = GoodOf(r) \cup {t0} /\ t0 \notin GoodOf(r)
    BY <2>1, <2>2 DEF GoodOf
  <2>4. \A q \in Runs \ {r} : GoodOf(q)' = GoodOf(q)
    BY <2>1, <2>2 DEF GoodOf
  <2>5. Cardinality(GoodOf(r))' = Cardinality(GoodOf(r)) + 1
    BY <2>1, <2>3, TradeSets DEF GoodOf
  <2>6. placed[r] < MaxPerRun /\ Cardinality(GoodOf(r)) = placed[r]
    BY <2>1 DEF RunRoom
  <2>7. placed \in [Runs -> Nat] /\ trade \in [Runs -> Trades \cup {None}]
    BY DEF TypeInv, TypeOK
  <2> HIDE DEF t0
  <2>8. ASSUME NEW q \in Runs
        PROVE  /\ Cardinality(GoodOf(q))' = placed'[q] /\ placed'[q] <= MaxPerRun
               /\ trade'[q] # None => placed'[q] < MaxPerRun
    <3>1. CASE q = r
      BY <3>1, <2>2, <2>5, <2>6, <2>7, LimitAssumption
    <3>2. CASE q # r
      BY <3>2, <2>2, <2>4, <2>7 DEF RunRoom
    <3> QED BY <3>1, <3>2
  <2> QED
    BY <2>8 DEF RunRoom
<1> QED
  BY <1>1, <1>2, Steps

(* While no repair has let two runs work together, one run tries at a time. *)
LEMMA OneTries ==
  ASSUME TypeInv, RunInv, cleared = {}, NEW q \in Runs, NEW r \in Runs,
         trade[q] # None, trade[r] # None
  PROVE  q = r
  BY DEF TypeInv, TypeOK, RunInv, OneRun, Live

(* Only a count that leaves room lets a run go on. *)
LEMMA Counted ==
  ASSUME TypeInv, [Next]_vars, NEW q \in Runs
  PROVE  /\ trade'[q] # None =>
              trade[q] # None \/ (Cardinality(Accepted(today)) < MaxPerDay /\ UNCHANGED today)
         /\ pc'[q] \in {"call", "answer", "doubt"} =>
              \/ pc[q] \in {"call", "answer", "doubt"} /\ trade'[q] = trade[q]
              \/ pc[q] = "gate" /\ trade'[q] = trade[q] /\ day'[trade[q]] = today /\ UNCHANGED today
         /\ pc'[q] \in Trying \ {"open"} =>
              pc[q] \in Trying \ {"open"} \/ Cardinality(Open) < MaxOpen
<1> USE LimitAssumption DEF TypeInv, TypeOK, At, Settle, Trying,
     rowVars, runVars, tradeVars, writerVars, timeVars, pastVars
<1>1. ASSUME NEW r \in Runs, RunStep(r), r = q
      PROVE  /\ trade'[q] # None =>
                  trade[q] # None \/ (Cardinality(Accepted(today)) < MaxPerDay /\ UNCHANGED today)
             /\ pc'[q] \in {"call", "answer", "doubt"} =>
                  \/ pc[q] \in {"call", "answer", "doubt"} /\ trade'[q] = trade[q]
                  \/ pc[q] = "gate" /\ trade'[q] = trade[q] /\ day'[trade[q]] = today
                     /\ UNCHANGED today
             /\ pc'[q] \in Trying \ {"open"} =>
                  pc[q] \in Trying \ {"open"} \/ Cardinality(Open) < MaxOpen
  <2>1. CASE StartScheduled(r) \/ StartManual(r) \/ End(r) \/ FailAutomation(r) \/ Die(r)
             \/ Block(r)
    BY <1>1, <2>1 DEF StartScheduled, StartManual, Start, End, FailAutomation, Die, Block
  <2>2. CASE CountOpen(r) \/ \E t \in Trades : CountDay(r, t)
    BY <1>1, <2>2 DEF CountOpen, CountDay
  <2>3. CASE Accept(r) \/ CallBroker(r)
    BY <1>1, <2>3 DEF Accept, CallBroker
  <2>4. CASE Answer(r) \/ Reconcile(r)
    BY <1>1, <2>4 DEF Answer, Reconcile, Placed, NextRoute
  <2> QED
    BY <1>1, <2>1, <2>2, <2>3, <2>4 DEF RunStep
<1>2. ASSUME NEW r \in Runs, RunStep(r), r # q
      PROVE  trade'[q] = trade[q] /\ pc'[q] = pc[q]
  BY <1>2 DEF RunStep, StartScheduled, StartManual, Start, End, FailAutomation, Die, Block, CountOpen, CountDay,
     Accept, CallBroker, Answer, Reconcile, Placed, NextRoute
<1>3. ASSUME ~ \E r \in Runs : RunStep(r)
      PROVE  trade' = trade /\ pc' = pc
  BY <1>3 DEF Next, Close, Refresh, Sweep, Ask, Pause, Resume, Tick, EditRead, RepairRead, Clear, Put, vars
<1> QED
  BY <1>1, <1>2, <1>3

(* The date of a trade changes when its route is accepted, to today's. *)
LEMMA Dates ==
  ASSUME TypeInv, [Next]_vars
  PROVE  /\ today' = today \/ (today' = today + 1 /\ UNCHANGED <<day, pc, trade, exec>>)
         /\ \A t \in Trades : day'[t] # day[t] =>
              day'[t] = today /\ \E r \in Runs : pc[r] = "gate" /\ trade[r] = t
<1> USE LimitAssumption DEF TypeInv, TypeOK, rowVars, runVars, tradeVars, writerVars, timeVars, pastVars
<1>1. ASSUME NEW r \in Runs, Accept(r)
      PROVE  /\ today' = today
             /\ \A t \in Trades : day'[t] # day[t] => day'[t] = today /\ trade[r] = t
             /\ pc[r] = "gate"
  BY <1>1 DEF Accept
<1>2. CASE Tick
  BY <1>2 DEF Tick
<1>3. ASSUME ~ Tick, ~ \E r \in Runs : Accept(r)
      PROVE  day' = day /\ today' = today
  BY <1>3 DEF Next, RunStep, StartScheduled, StartManual, Start, End, FailAutomation, Die, Block, CountOpen, CountDay,
     CallBroker, Answer, Reconcile, Close, Refresh, Sweep, Ask, Pause, Resume, EditRead, RepairRead,
     Clear, Put, vars
<1> QED
  BY <1>1, <1>2, <1>3

(* The orders of a day stay within its limit, as long as one run tries. *)
LEMMA DayRoomStep ==
  ASSUME TypeInv, RunInv, OwnerSound, OrderSound, cleared = {}, DayRoom, [Next]_vars,
         "lost" \notin hazard', "swept" \notin hazard
  PROVE  DayRoom'
<1> USE LimitAssumption
<1>1. TypeInv'
  BY TypeStep
<1>2. /\ today \in Nat /\ today' \in Nat /\ today' \in {today, today + 1}
      /\ \A t \in Trades : day[t] \in Nat /\ day'[t] \in Nat
      /\ \A q \in Runs : trade[q] \in Trades \cup {None}
      /\ \A q \in Runs : trade'[q] \in Trades \cup {None}
      /\ \A q \in Runs : pc[q] \in {"call", "answer", "doubt", "gate"} => trade[q] # None
      /\ \A q \in Runs : pc'[q] \in {"call", "answer", "doubt"} => trade'[q] # None
  BY <1>1, Dates DEF TypeInv, TypeOK, Trying
<1>3. \A t \in Trades : day'[t] <= today'
  BY <1>2, Dates DEF DayRoom
<1>4. \A d \in Nat : GoodOn(d) \subseteq Trades
  BY DEF GoodOn
<1>5. CASE Quiet
  <2>1. \A d \in Nat : GoodOn(d)' \subseteq GoodOn(d)
    BY <1>5, <1>2 DEF Quiet, GoodOn
  <2>11. \A d \in Nat : Cardinality(GoodOn(d)') <= Cardinality(GoodOn(d))
                       /\ Cardinality(GoodOn(d)') \in Nat /\ Cardinality(GoodOn(d)) \in Nat
    <3> SUFFICES ASSUME NEW d \in Nat
                 PROVE  Cardinality(GoodOn(d)') <= Cardinality(GoodOn(d))
                        /\ Cardinality(GoodOn(d)') \in Nat /\ Cardinality(GoodOn(d)) \in Nat
      OBVIOUS
    <3>1. GoodOn(d)' \subseteq GoodOn(d) /\ GoodOn(d) \subseteq Trades /\ GoodOn(d)' \subseteq Trades
      BY <2>1, <1>4
    <3> QED BY <3>1, TradeSets
  <2>2. PICK n \in Nat : n = today'
    BY <1>2
  <2>3. ASSUME n # today
        PROVE  Cardinality(GoodOn(n)) < MaxPerDay
    <3>1. GoodOn(n) = {}
      BY <1>2, <2>2, <2>3 DEF GoodOn, DayRoom
    <3>2. Cardinality(GoodOn(n)) = 0
      BY <3>1, FS_EmptySet
    <3> QED BY <3>2
  <2>4. \A d \in Nat : Cardinality(GoodOn(d)) \in Nat
    BY <1>4, TradeSets
  <2>5. \A d \in 0..n : Cardinality(GoodOn(d)) <= MaxPerDay
    <3>1. \A d \in 0..today : Cardinality(GoodOn(d)) <= MaxPerDay
      BY DEF DayRoom
    <3>2. \A d \in 0..n : d \in 0..today \/ (d = n /\ n # today)
      BY <1>2, <2>2
    <3> QED BY <3>1, <3>2, <2>3, <2>4
  <2>6. ASSUME NEW q \in Runs, trade'[q] # None
        PROVE  Cardinality(GoodOn(n)) < MaxPerDay
    <3>1. CASE trade[q] # None
      BY <3>1, <2>3 DEF DayRoom
    <3>2. CASE Cardinality(Accepted(today)) < MaxPerDay /\ UNCHANGED today
      <4>1. GoodOn(n) \subseteq Accepted(today) /\ Accepted(today) \subseteq Trades
        BY <3>2, <2>2 DEF GoodOn, Accepted, Counts, OrderSound
      <4>2. /\ Cardinality(GoodOn(n)) <= Cardinality(Accepted(today))
            /\ Cardinality(Accepted(today)) \in Nat
        BY <4>1, TradeSets
      <4> QED BY <4>2, <3>2, <2>4
    <3> QED BY <2>6, <3>1, <3>2, Counted
  <2>7. ASSUME NEW q \in Runs, pc'[q] \in {"call", "answer", "doubt"}
        PROVE  Cardinality(GoodOn(day[trade[q]])') < MaxPerDay
    <3>1. PICK d \in Nat : d = day'[trade'[q]]
      BY <2>7, <1>2
    <3>2. GoodOn(day[trade[q]])' = GoodOn(d)'
      BY <3>1 DEF GoodOn
    <3>5. Cardinality(GoodOn(d)') <= Cardinality(GoodOn(d))
          /\ Cardinality(GoodOn(d)') \in Nat /\ Cardinality(GoodOn(d)) \in Nat
      BY <2>11
    <3>3. CASE pc[q] \in {"call", "answer", "doubt"} /\ trade'[q] = trade[q]
      <4>1. ASSUME day'[trade[q]] # day[trade[q]] PROVE FALSE
        <5>1. PICK r \in Runs : pc[r] = "gate" /\ trade[r] = trade[q]
          BY <4>1, <3>3, <1>2, Dates
        <5>2. q = r
          BY <5>1, <3>3, <1>2, OneTries
        <5> QED BY <5>1, <5>2, <3>3
      <4>2. d = day[trade[q]]
        BY <3>1, <3>3, <4>1
      <4>3. Cardinality(GoodOn(d)) < MaxPerDay
        BY <3>3, <4>2, <1>2 DEF DayRoom
      <4> QED BY <3>2, <3>5, <4>3
    <3>4. CASE pc[q] = "gate" /\ trade'[q] = trade[q] /\ day'[trade[q]] = today /\ UNCHANGED today
      <4>1. d = today
        BY <3>1, <3>4
      <4>2. Cardinality(GoodOn(d)) < MaxPerDay
        BY <3>4, <4>1, <1>2 DEF DayRoom
      <4> QED BY <3>2, <3>5, <4>2
    <3> QED BY <2>7, <3>3, <3>4, Counted
  <2>8. \A d \in 0..today' : Cardinality(GoodOn(d)') <= MaxPerDay
    <3>1. \A d \in 0..n : d \in Nat
      BY <1>2, <2>2
    <3> QED BY <3>1, <2>11, <2>2, <2>5
  <2>9. GoodOn(today)' = GoodOn(n)'
    BY <2>2 DEF GoodOn
  <2>10. \A q \in Runs : trade'[q] # None => Cardinality(GoodOn(today)') < MaxPerDay
    <3>1. Cardinality(GoodOn(n)') <= Cardinality(GoodOn(n))
          /\ Cardinality(GoodOn(n)') \in Nat /\ Cardinality(GoodOn(n)) \in Nat
      BY <2>11
    <3> QED BY <2>6, <2>9, <3>1
  <2> QED BY <1>3, <2>7, <2>8, <2>10 DEF DayRoom
<1>6. ASSUME NEW r \in Runs, Success(r)
      PROVE  DayRoom'
  <2> DEFINE t0 == trade[r]
  <2>1. t0 \in Trades /\ t0 # None /\ ~ Good(t0) /\ day[t0] \in 0..today
        /\ order[t0] # "none" /\ \A q \in Runs : trade[q] = t0 => q = r
    BY <1>6, <1>2 DEF Success, OwnerSound, DayRoom, Good
  <2>2. /\ \A t \in Trades : Good(t)' <=> (Good(t) \/ t = t0)
        /\ day' = day /\ today' = today /\ order' = order
        /\ \A q \in Runs : trade'[q] # None => q # r /\ trade[q] # None
    BY <1>6, <2>1 DEF Success, Placed, Settle, Good, TypeInv, TypeOK
  <2>3. PICK n \in 0..today : n = day[t0]
    BY <2>1
  <2>4. t0 \notin GoodOn(n) /\ GoodOn(n)' \subseteq GoodOn(n) \cup {t0}
    BY <2>1, <2>2, <2>3 DEF GoodOn
  <2>5. Cardinality(GoodOn(n)) < MaxPerDay
    BY <1>6, <2>1, <2>3 DEF Success, DayRoom
  <2>9. Cardinality(GoodOn(n)) \in Nat
        /\ Cardinality(GoodOn(n) \cup {t0}) = Cardinality(GoodOn(n)) + 1
    BY <2>1, <2>4, <1>2, <1>4, TradeSets
  <2>10. Cardinality(GoodOn(n)') <= Cardinality(GoodOn(n) \cup {t0}) /\ Cardinality(GoodOn(n)') \in Nat
    <3>1. GoodOn(n) \cup {t0} \subseteq Trades
      BY <2>1, <1>2, <1>4
    <3> QED BY <2>4, <3>1, TradeSets
  <2>6. \A d \in 0..today : d # n => GoodOn(d)' = GoodOn(d)
    BY <2>1, <2>2, <2>3 DEF GoodOn
  <2>7. \A q \in Runs : trade'[q] = None
    BY <2>1, <2>2, OneTries
  <2> HIDE DEF t0
  <2>8. ASSUME NEW d \in 0..today'
        PROVE  Cardinality(GoodOn(d)') <= MaxPerDay
    <3>1. CASE d = n
      BY <3>1, <2>5, <2>9, <2>10
    <3>2. CASE d # n
      <4>1. GoodOn(d)' = GoodOn(d) /\ d \in 0..today
        BY <3>2, <2>6, <2>2
      <4> QED BY <4>1 DEF DayRoom
    <3> QED BY <3>1, <3>2
  <2> QED
    BY <1>2, <1>3, <2>7, <2>8 DEF DayRoom
<1> QED
  BY <1>5, <1>6, Steps

(* So do the open ones. *)
LEMMA OpenRoomStep ==
  ASSUME TypeInv, RunInv, OwnerSound, OrderSound, cleared = {}, OpenRoom, [Next]_vars,
         "lost" \notin hazard', hazard \cap {"swept", "misread"} = {}
  PROVE  OpenRoom'
<1> USE LimitAssumption
<1>1. TypeInv'
  BY TypeStep
<1>2. \A q \in Runs : trade[q] \in Trades \cup {None} /\ (pc[q] \in Trying <=> trade[q] # None)
  BY DEF TypeInv, TypeOK
<1>3. \A q \in Runs : pc'[q] \in Trying <=> trade'[q] # None
  BY <1>1 DEF TypeInv, TypeOK, Trying
<1>4. GoodOpen \subseteq Trades /\ GoodOpen' \subseteq Trades
  BY DEF GoodOpen
<1>5. ASSUME NEW r \in Runs, Success(r)
      PROVE  OpenRoom'
  <2> DEFINE t0 == trade[r]
  <2>1. t0 \in Trades /\ ~ Good(t0) /\ pc[r] \in Trying \ {"open"} /\ t0 # None
    BY <1>5, <1>2 DEF Success, Good, Trying
  <2>2. GoodOpen' \subseteq GoodOpen \cup {t0} /\ t0 \notin GoodOpen
    BY <1>5, <2>1 DEF Success, Placed, Settle, GoodOpen, Good, TypeInv, TypeOK
  <2>3. /\ Cardinality(GoodOpen \cup {t0}) = Cardinality(GoodOpen) + 1
        /\ Cardinality(GoodOpen) \in Nat /\ Cardinality(GoodOpen') \in Nat
        /\ Cardinality(GoodOpen') <= Cardinality(GoodOpen \cup {t0})
    <3>1. GoodOpen \cup {t0} \subseteq Trades
      BY <2>1, <1>4
    <3> QED BY <2>1, <2>2, <3>1, <1>4, TradeSets
  <2>4. \A q \in Runs : trade'[q] # None => q # r /\ trade[q] # None
    BY <1>5 DEF Success, Placed, Settle, TypeInv, TypeOK
  <2>5. \A q \in Runs : trade'[q] = None
    BY <2>1, <2>4, OneTries
  <2>6. Cardinality(GoodOpen) < MaxOpen
    BY <2>1 DEF OpenRoom
  <2>7. \A q \in Runs : pc'[q] \notin Trying
    BY <2>5, <1>3
  <2>8. Trying' = Trying /\ Cardinality(GoodOpen)' = Cardinality(GoodOpen')
    BY DEF Trying
  <2> HIDE DEF t0
  <2> QED
    BY <2>3, <2>6, <2>7, <2>8 DEF OpenRoom
<1>6. CASE Quiet
  <2>1. GoodOpen' \subseteq GoodOpen /\ GoodOpen \subseteq Open /\ Open \subseteq Trades
    BY <1>6 DEF Quiet, GoodOpen, Open, OrderSound
  <2>2. /\ Cardinality(GoodOpen') <= Cardinality(GoodOpen) /\ Cardinality(GoodOpen') \in Nat
        /\ Cardinality(GoodOpen) <= Cardinality(Open) /\ Cardinality(GoodOpen) \in Nat
        /\ Cardinality(Open) \in Nat
    BY <2>1, <1>4, TradeSets
  <2>3. \A q \in Runs : pc'[q] \in Trying \ {"open"} => Cardinality(GoodOpen) < MaxOpen
    BY Counted, <2>2 DEF OpenRoom
  <2>4. Trying' = Trying /\ Cardinality(GoodOpen)' = Cardinality(GoodOpen')
    BY DEF Trying
  <2> QED
    BY <2>2, <2>3, <2>4 DEF OpenRoom
<1> QED
  BY <1>5, <1>6, Steps

-----------------------------------------------------------------------------
(* The counts and what is under way bound the orders at the broker. *)
LEMMA RoomLimits ==
  ASSUME TypeInv, RunInv, OrderInv, RoomInv
  PROVE  LimitsHold
<1> USE LimitAssumption
<1>1. SUFFICES ASSUME "lost" \notin hazard
      PROVE  /\ \A r \in Runs :
                  Cardinality({t \in Trades : owner[t] = r /\ order[t] # "none"}) <= MaxPerRun
             /\ cleared = {} /\ "swept" \notin hazard =>
                  /\ \A d \in {day[t] : t \in Trades} :
                       Cardinality({t \in Trades : order[t] \in {"open", "closed"} /\ day[t] = d})
                         <= MaxPerDay
                  /\ "misread" \notin hazard =>
                       Cardinality({t \in Trades : order[t] = "open"}) <= MaxOpen
  BY DEF LimitsHold
<1>2. OrderSound /\ OwnerSound /\ RunRoom
  BY <1>1 DEF OrderInv, RoomInv
<1>8. ASSUME NEW t \in Trades, order[t] # "none", ~ Good(t)
      PROVE  /\ owner[t] \in Runs /\ trade[owner[t]] = t /\ trade[owner[t]] # None
             /\ pc[owner[t]] \in {"answer", "doubt"}
  <2>1. PICK r \in Runs : trade[r] = t
    BY <1>8 DEF Good
  <2>2. owner[t] = r /\ t # None
    BY <2>1, <1>2 DEF OwnerSound
  <2> QED BY <2>1, <2>2, <1>2, <1>8 DEF OrderSound, TypeInv, TypeOK, Trying
<1>3. \A r \in Runs : trade[r] \in Trades \cup {None} /\ (pc[r] \in Trying <=> trade[r] # None)
  BY DEF TypeInv, TypeOK
<1>4. ASSUME NEW S, NEW T, S \subseteq Trades, T \subseteq Trades, NEW m \in Nat,
             \/ S \subseteq T /\ Cardinality(T) <= m
             \/ \E t \in Trades : S \subseteq T \cup {t} /\ Cardinality(T) < m
      PROVE  Cardinality(S) <= m
  <2>1. CASE S \subseteq T /\ Cardinality(T) <= m
    <3>1. Cardinality(S) <= Cardinality(T) /\ Cardinality(S) \in Nat /\ Cardinality(T) \in Nat
      BY <1>4, <2>1, TradeSets
    <3> QED BY <3>1, <2>1
  <2>2. ASSUME NEW t \in Trades, S \subseteq T \cup {t}, Cardinality(T) < m
        PROVE  Cardinality(S) <= m
    <3>1. T \cup {t} \subseteq Trades
      BY <1>4
    <3>2. Cardinality(S) <= Cardinality(T \cup {t}) /\ Cardinality(S) \in Nat
          /\ Cardinality(T \cup {t}) \in Nat /\ Cardinality(T) \in Nat
      BY <3>1, <1>4, <2>2, TradeSets
    <3>3. Cardinality(T \cup {t}) <= Cardinality(T) + 1
      <4>1. CASE t \in T
        <5>1. T \cup {t} = T
          BY <4>1
        <5>2. Cardinality(T \cup {t}) = Cardinality(T) /\ Cardinality(T) \in Nat
          BY <5>1, <3>2
        <5> QED BY <5>2
      <4>2. CASE t \notin T
        <5>1. Cardinality(T \cup {t}) = Cardinality(T) + 1
          BY <4>2, <1>4, TradeSets
        <5> QED BY <5>1, <3>2
      <4> QED BY <4>1, <4>2
    <3> QED BY <3>2, <3>3, <2>2
  <2> QED
    BY <1>4, <2>1, <2>2
<1>5. ASSUME NEW r \in Runs
      PROVE  Cardinality({t \in Trades : owner[t] = r /\ order[t] # "none"}) <= MaxPerRun
  <2> DEFINE S == {t \in Trades : owner[t] = r /\ order[t] # "none"}
  <2>1. \A t \in S : t \in GoodOf(r) \/ (trade[r] # None /\ t = trade[r])
    BY <1>8 DEF GoodOf
  <2>2. S \subseteq Trades /\ GoodOf(r) \subseteq Trades
    BY DEF GoodOf
  <2>3. Cardinality(GoodOf(r)) <= MaxPerRun /\ (trade[r] # None => Cardinality(GoodOf(r)) < MaxPerRun)
    BY <1>2 DEF RunRoom
  <2>4. \/ S \subseteq GoodOf(r) /\ Cardinality(GoodOf(r)) <= MaxPerRun
        \/ \E t \in Trades : S \subseteq GoodOf(r) \cup {t} /\ Cardinality(GoodOf(r)) < MaxPerRun
    BY <2>1, <2>3, <1>3
  <2> QED
    BY <2>2, <2>4, <1>4
<1>6. ASSUME cleared = {}, "swept" \notin hazard, NEW d \in {day[t] : t \in Trades}
      PROVE  Cardinality({t \in Trades : order[t] \in {"open", "closed"} /\ day[t] = d}) <= MaxPerDay
  <2> DEFINE S == {t \in Trades : order[t] \in {"open", "closed"} /\ day[t] = d}
  <2>1. DayRoom
    BY <1>1, <1>6 DEF RoomInv
  <2>2. d \in 0..today
    BY <1>6, <2>1 DEF DayRoom, TypeInv, TypeOK
  <2>3. S \subseteq Trades /\ GoodOn(d) \subseteq Trades /\ Cardinality(GoodOn(d)) <= MaxPerDay
    BY <2>1, <2>2 DEF GoodOn, DayRoom
  <2>4. CASE S \subseteq GoodOn(d)
    BY <2>3, <2>4, <1>4
  <2>5. ASSUME NEW t \in S, t \notin GoodOn(d)
        PROVE  S \subseteq GoodOn(d) \cup {t} /\ Cardinality(GoodOn(d)) < MaxPerDay
    <3>1. owner[t] \in Runs /\ trade[owner[t]] = t /\ pc[owner[t]] \in {"answer", "doubt"}
      BY <2>5, <1>8 DEF GoodOn
    <3>2. \A u \in S \ GoodOn(d) : owner[u] \in Runs /\ trade[owner[u]] = u
      BY <1>8 DEF GoodOn
    <3>3. \A u \in S \ GoodOn(d) : u = t
      BY <3>1, <3>2, <2>5, <1>6, OneTries
    <3>4. trade[owner[t]] # None
      BY <3>1, <2>5
    <3> QED
      BY <3>1, <3>3, <3>4, <2>1, <2>5 DEF DayRoom
  <2> QED
    BY <2>3, <2>4, <2>5, <1>4
<1>7. ASSUME cleared = {}, hazard \cap {"swept", "misread"} = {}
      PROVE  Cardinality({t \in Trades : order[t] = "open"}) <= MaxOpen
  <2> DEFINE S == {t \in Trades : order[t] = "open"}
  <2>1. OpenRoom
    BY <1>1, <1>7 DEF RoomInv
  <2>2. S \subseteq Trades /\ GoodOpen \subseteq Trades /\ Cardinality(GoodOpen) <= MaxOpen
    BY <2>1 DEF GoodOpen, OpenRoom
  <2>3. CASE S \subseteq GoodOpen
    BY <2>2, <2>3, <1>4
  <2>4. ASSUME NEW t \in S, t \notin GoodOpen
        PROVE  S \subseteq GoodOpen \cup {t} /\ Cardinality(GoodOpen) < MaxOpen
    <3>1. \A u \in S \ GoodOpen :
            owner[u] \in Runs /\ trade[owner[u]] = u /\ pc[owner[u]] \in {"answer", "doubt"}
      BY <1>8 DEF GoodOpen
    <3>2. \A u \in S \ GoodOpen : u = t
      BY <3>1, <2>4, <1>7, OneTries, <2>2
    <3> QED
      BY <3>1, <3>2, <2>1, <2>4 DEF OpenRoom, Trying
  <2> QED
    BY <2>2, <2>3, <2>4, <1>4
<1> QED
  BY <1>1, <1>5, <1>6, <1>7

(* LimitsHold holds in every behaviour of the specification. *)
THEOREM LimitsAreKept == Spec => []LimitsHold
<1>1. Init => RunInv /\ OrderInv /\ RoomInv
  <2> SUFFICES ASSUME Init PROVE RunInv /\ OrderInv /\ RoomInv
    OBVIOUS
  <2> USE LimitAssumption DEF Init
  <2>1. RunInv /\ OrderInv
    BY DEF RunInv, RowIsActive, OneRun, Live, Trying, OrderInv, OwnerSound, OrderSound, Good
  <2>2. Cardinality({}) = 0
    BY FS_EmptySet
  <2>3. \A r \in Runs : GoodOf(r) = {}
    BY DEF GoodOf, Good
  <2>4. \A d \in Nat : GoodOn(d) = {}
    BY DEF GoodOn, Good
  <2>5. GoodOpen = {}
    BY DEF GoodOpen
  <2>6. RunRoom
    <3> SUFFICES ASSUME NEW r \in Runs
                 PROVE  /\ Cardinality(GoodOf(r)) = placed[r] /\ placed[r] <= MaxPerRun
                        /\ trade[r] # None => placed[r] < MaxPerRun
      BY DEF RunRoom
    <3>1. GoodOf(r) = {} /\ placed[r] = 0 /\ trade[r] = None
      BY <2>3
    <3> QED
      BY <2>2, <3>1
  <2>7. DayRoom
    BY <2>2, <2>4 DEF DayRoom
  <2>8. OpenRoom
    BY <2>2, <2>5 DEF OpenRoom, Trying
  <2> QED
    BY <2>1, <2>6, <2>7, <2>8 DEF RoomInv
<1>2. TypeInv /\ RunInv /\ OrderInv /\ RoomInv /\ [Next]_vars => RunInv' /\ OrderInv' /\ RoomInv'
  <2> SUFFICES ASSUME TypeInv, RunInv, OrderInv, RoomInv, [Next]_vars
               PROVE  RunInv' /\ OrderInv' /\ RoomInv'
    OBVIOUS
  <2>1. RunInv' /\ OrderInv' /\ OwnerSound
    BY RunStepKeeps, OrderStep DEF OrderInv
  <2>2. cleared \subseteq cleared' /\ hazard \subseteq hazard'
    BY Remembered
  <2>3. ASSUME "lost" \notin hazard'
        PROVE  OrderSound /\ RunRoom /\ RunRoom'
    BY <2>1, <2>2, <2>3, RunRoomStep DEF OrderInv, RoomInv
  <2>4. ASSUME "lost" \notin hazard', cleared' = {}, "swept" \notin hazard'
        PROVE  DayRoom' /\ ("misread" \notin hazard' => OpenRoom')
    <3>1. cleared = {} /\ hazard \cap {"lost", "swept"} = {}
      BY <2>2, <2>4
    <3>2. DayRoom'
      BY <2>1, <2>3, <2>4, <3>1, DayRoomStep DEF RoomInv
    <3>3. ASSUME "misread" \notin hazard' PROVE OpenRoom'
      <4>1. hazard \cap {"swept", "misread"} = {}
        BY <2>2, <3>1, <3>3
      <4>2. OpenRoom
        BY <3>1, <4>1 DEF RoomInv
      <4> QED BY <2>1, <2>3, <2>4, <3>1, <4>1, <4>2, OpenRoomStep
    <3> QED BY <3>2, <3>3
  <2> QED
    BY <2>1, <2>3, <2>4 DEF RoomInv
<1>3. Spec => [](RunInv /\ OrderInv /\ RoomInv)
  BY <1>1, <1>2, TypeInvariant, PTL DEF Spec
<1> QED
  BY <1>3, RoomLimits, TypeInvariant, PTL
=============================================================================
