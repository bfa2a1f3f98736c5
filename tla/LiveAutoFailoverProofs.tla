----------------------- MODULE LiveAutoFailoverProofs -----------------------
(***************************************************************************)
(* The safety of live failover, for any number of routes and whichever of  *)
(* them can recognise their orders.                                        *)
(*                                                                         *)
(* The argument: between two routes nothing is exposed and every earlier   *)
(* attempt is settled; while a route is being called or judged, only that  *)
(* route is exposed; and what the saved record says was true when it was   *)
(* saved and stays true, because brokers never take an acceptance back.    *)
(***************************************************************************)
EXTENDS LiveAutoFailover, TLAPS

Loop == {"gate", "queue", "submit", "call"}
Judge == {"await", "linking", "failing", "reconcile", "cleared",
          "found_order", "found_position", "review"}
Settled == {"failed", "pre_trade_blocked"}

(* The attempts in memory and in the record, step by step. *)
AttemptInv ==
  /\ pc \in {"start"} \cup Loop \cup Judge =>
       \A r \in Route : r < route => attempts[r] \in Settled
  /\ pc = "call" => exec.attempts = attempts
  /\ pc = "cleared" => attempts[route] = "failed"
  /\ pc \in {"found_order", "found_position"} => attempts[route] = "placed"
  /\ pc = "review" => attempts[route] = "manual_review"

(* What the record, and the outer copy of it, may claim. *)
RecordInv ==
  /\ pc \in {"linking", "found_order"} => route \in orders
  /\ pc = "found_position" => route \in filled \cup foreign
  /\ original # None => original.order = None /\ original.state = "queued"
  /\ exec.state = "filled" => pc = "end"
  /\ pc \in {"call"} \cup Judge \/ Exposed # {} => exec.state # "none"
  /\ ClaimIsReal

(* Where an order may be while no route was misjudged. *)
ExposureInv ==
  ~Misjudged =>
    /\ pc \in {"start", "exhausted", "cleared"} \cup Loop => Exposed = {}
    /\ pc \in Judge => Exposed \subseteq {route}
    /\ \A r, s \in Exposed : r = s

(* How a run may end with an order somewhere. *)
FlagInv ==
  /\ pc = "abort" => hazard # {}
  /\ ExposureIsFlagged

-----------------------------------------------------------------------------
LEMMA RecordType ==
  ASSUME NEW st \in States, NEW o \in Route \cup {None}, NEW atts \in [Route -> Statuses]
  PROVE  /\ Record(st, o, atts) \in Records /\ Record(st, o, atts).state = st
         /\ Record(st, o, atts).order = o /\ Record(st, o, atts).attempts = atts
BY DEF Record, Records

(* The types that a step of the run may change; `setup` and the accepted    *)
(* orders it leaves alone.                                                 *)
RunTypes ==
  /\ pc \in Steps /\ route \in 1..last
  /\ attempts \in [Route -> Statuses] /\ exec \in Records
  /\ original \in Records \cup {None}
  /\ class \in {None, "confirmed_no_order", "ambiguous"}
  /\ outcome \in {None, "skipped", "blocked", "ready", "placed", "failed"}
  /\ undecided \subseteq Route
  /\ confirmed \subseteq orders
  /\ hazard \subseteq {"misreported", "unseen", "db"}

LEMMA RunTypeStep ==
  ASSUME TypeOK, Run
  PROVE  RunTypes' /\ UNCHANGED <<setup, orders, filled, foreign>>
<1> USE FailoverAssumption DEF TypeOK, RunTypes, Steps, Goto, Return, setup, brokerVars
<1>0. UNCHANGED <<setup, orders, filled, foreign>>
  BY DEF Run, Start, Gate, Ready, Queue, Submit, Call, Answered, AnsweredWithoutId, Refused,
     NoAnswer, AcceptedThenThrown, Linking, Failing, Reconcile, Cleared, Found, Review,
     Exhausted, Abort
<1>a. ASSUME NEW r \in Route, NEW st \in Statuses
      PROVE  [attempts EXCEPT ![r] = st] \in [Route -> Statuses]
  OBVIOUS
<1>b. route \in Route /\ NoAttempts \in [Route -> Statuses]
  BY DEF Route, NoAttempts, Statuses
<1>c. ASSUME NextRoute
      PROVE  route' \in 1..last /\ pc' \in {"gate", "exhausted"} /\ UNCHANGED outcome
  BY <1>c DEF NextRoute, Route
<1>d. ASSUME NEW st \in States, NEW o \in Route \cup {None}, attempts' \in [Route -> Statuses], Save(st, o)
      PROVE  exec' \in Records
  BY <1>d, RecordType DEF Save
<1>e. exec.state \in States /\ exec.order \in Route \cup {None}
  BY DEF Records
<1>1. CASE Start
  BY <1>1 DEF Start
<1>2. CASE Gate
  <2>1. attempts' \in [Route -> Statuses]
    BY <1>2, <1>a, <1>b DEF Gate, Mark, Statuses
  <2>2. exec' \in Records
    BY <1>2, <2>1, <1>d DEF Gate, SaveThrows, States
  <2>3. route' \in 1..last /\ pc' \in Steps
        /\ outcome' \in {None, "skipped", "blocked", "ready", "placed", "failed"}
        /\ hazard' \subseteq {"misreported", "unseen", "db"}
    BY <1>2, <1>c DEF Gate, SaveThrows
  <2> QED
    BY <1>0, <1>2, <2>1, <2>2, <2>3 DEF Gate
<1>3. CASE Ready
  <2>1. exec' \in Records
    BY <1>3, <1>d, <1>e DEF Ready, SaveThrows
  <2> QED
    BY <1>0, <1>3, <2>1 DEF Ready, SaveThrows
<1>4. CASE Queue
  <2>1. attempts' \in [Route -> Statuses]
    BY <1>4, <1>a, <1>b DEF Queue, Mark, Statuses
  <2>2. exec' \in Records
    BY <1>4, <1>d, <2>1 DEF Queue, SaveThrows, States
  <2> QED
    BY <1>0, <1>4, <2>1, <2>2 DEF Queue, SaveThrows
<1>5. CASE Submit
  <2>1. attempts' \in [Route -> Statuses]
    BY <1>5, <1>a, <1>b DEF Submit, Mark, Statuses
  <2>2. exec' \in Records
    BY <1>5, <1>d, <2>1 DEF Submit, SaveThrows, States
  <2> QED
    BY <1>0, <1>5, <2>1, <2>2 DEF Submit, SaveThrows
<1>6. CASE Call \/ AnsweredWithoutId \/ Refused \/ NoAnswer \/ AcceptedThenThrown
  BY <1>0, <1>6, <1>b DEF Call, AnsweredWithoutId, Refused, NoAnswer, AcceptedThenThrown
<1>7. CASE Answered
  <2>1. [exec EXCEPT !.state = "linked", !.order = route] \in Records
    BY <1>b DEF Records, States
  <2> QED
    BY <1>0, <1>7, <2>1 DEF Answered
<1>8. CASE Linking
  <2>1. attempts' \in [Route -> Statuses]
    BY <1>8, <1>a, <1>b DEF Linking, Mark, Statuses
  <2>2. exec' \in Records
    BY <1>8, <1>b, <1>d, <2>1 DEF Linking, States
  <2> QED
    BY <1>0, <1>8, <2>1, <2>2 DEF Linking
<1>9. CASE Failing
  <2>1. attempts' \in [Route -> Statuses]
    BY <1>9, <1>a, <1>b DEF Failing, Mark, Statuses
  <2>2. exec' \in Records
    BY <1>9, <1>d, <2>1 DEF Failing, SaveThrows, States
  <2>3. route' \in 1..last /\ pc' \in Steps /\ UNCHANGED outcome
        /\ hazard' \subseteq {"misreported", "unseen", "db"}
    BY <1>9, <1>c DEF Failing, SaveThrows
  <2> QED
    BY <1>0, <1>9, <2>1, <2>2, <2>3 DEF Failing
<1>10. CASE Reconcile
  <2>1. attempts' \in [Route -> Statuses]
    BY <1>10, <1>a, <1>b DEF Reconcile, Mark, Statuses
  <2> QED
    BY <1>0, <1>10, <2>1 DEF Reconcile
<1>11. CASE Cleared
  <2>1. exec' \in Records
    BY <1>11, <1>d DEF Cleared, SaveThrows, States
  <2> QED
    BY <1>0, <1>11, <1>c, <2>1 DEF Cleared, SaveThrows
<1>12. CASE Found
  <2>1. exec' \in Records
    BY <1>12, <1>b, <1>d DEF Found, SaveThrows, States
  <2> QED
    BY <1>0, <1>12, <2>1 DEF Found, SaveThrows
<1>13. CASE Review
  <2>1. exec' \in Records
    BY <1>13, <1>d DEF Review, SaveThrows, States
  <2> QED
    BY <1>0, <1>13, <2>1 DEF Review, SaveThrows
<1>14. CASE Exhausted
  <2>1. exec' \in Records
    BY <1>14, <1>d, <1>e DEF Exhausted, SaveThrows, States
  <2> QED
    BY <1>0, <1>14, <2>1 DEF Exhausted, SaveThrows
<1>15. CASE Abort
  <2>1. exec' \in Records
    BY <1>15 DEF Abort, Records, States
  <2> QED
    BY <1>0, <1>15, <2>1 DEF Abort
<1> QED
  BY <1>0, <1>1, <1>2, <1>3, <1>4, <1>5, <1>6, <1>7, <1>8, <1>9, <1>10, <1>11, <1>12, <1>13,
     <1>14, <1>15 DEF Run

LEMMA TypeStep ==
  ASSUME TypeOK, [Next]_vars
  PROVE  TypeOK'
<1>1. CASE Run
  BY <1>1, RunTypeStep DEF TypeOK, RunTypes, setup
<1>2. CASE Crash
  BY <1>2 DEF Crash, Goto, TypeOK, Steps, setup, brokerVars
<1>3. ASSUME NEW r \in Route, Accept(r) \/ Reject(r) \/ Fill(r)
      PROVE  TypeOK'
  BY <1>3 DEF Accept, Reject, Fill, TypeOK, setup
<1>4. CASE UNCHANGED vars
  BY <1>4 DEF vars, TypeOK
<1> QED
  BY <1>1, <1>2, <1>3, <1>4 DEF Next

(* Every step and status the run writes is one the entity knows, for any   *)
(* number of routes (TypeOK).                                              *)
THEOREM TypeCorrect == Spec => []TypeOK
<1>1. Init => TypeOK
  <2> SUFFICES ASSUME Init
               PROVE  TypeOK
    OBVIOUS
  <2>1. NoAttempts \in [Route -> Statuses]
    BY DEF NoAttempts, Statuses
  <2>2. Record("none", None, NoAttempts) \in Records
    BY <2>1, RecordType DEF States
  <2>3. last \in Route /\ 1 \in 1..last
    BY FailoverAssumption DEF Init, Route
  <2> QED
    BY <2>1, <2>2, <2>3 DEF Init, TypeOK, Steps
<1> QED
  BY <1>1, TypeStep, PTL DEF Spec

-----------------------------------------------------------------------------
(* The steps of the broker, and of a crash, leave the run's data alone. *)
LEMMA BrokerSteps ==
  ASSUME TypeOK, Crash \/ \E r \in Route : Accept(r) \/ Reject(r) \/ Fill(r)
  PROVE  /\ UNCHANGED <<setup, route, attempts, exec, original, hazard>>
         /\ pc' = pc \/ (pc' = "crashed" /\ pc # "end")
         /\ Exposed' \subseteq Exposed /\ orders \subseteq orders' /\ filled \subseteq filled'
         /\ UNCHANGED foreign
BY DEF Crash, Accept, Reject, Fill, Goto, Exposed, brokerVars, TypeOK

LEMMA AttemptStep ==
  ASSUME TypeOK, AttemptInv, [Next]_vars
  PROVE  AttemptInv'
<1> USE FailoverAssumption DEF Loop, Judge, Settled, Goto, Return
<1>1. CASE Start
  BY <1>1 DEF Start, AttemptInv
<1>2. ASSUME NEW st \in Settled, attempts' = [attempts EXCEPT ![route] = st], NextRoute,
             pc \in Loop \cup Judge
      PROVE  AttemptInv'
  <2>1. route \in Route /\ last \in Route
    BY DEF TypeOK, Route
  <2>2. \A r \in Route : r < route => attempts'[r] \in Settled
    BY <1>2, <2>1 DEF AttemptInv, TypeOK
  <2>3. attempts'[route] \in Settled
    BY <1>2, <2>1 DEF TypeOK
  <2>4. CASE route' = route + 1 /\ pc' = "gate"
    <3>1. \A r \in Route : r < route + 1 => r < route \/ r = route
      BY <2>1 DEF Route
    <3> QED
      BY <2>2, <2>3, <2>4, <3>1 DEF AttemptInv
  <2>5. CASE pc' = "exhausted"
    BY <2>5 DEF AttemptInv
  <2> QED
    BY <1>2, <2>4, <2>5 DEF NextRoute
<1>3. CASE Gate
  <2>1. \/ UNCHANGED <<attempts, route>> /\ pc' \in {"queue", "end", "abort"}
        \/ pc' = "abort"
        \/ \E st \in Settled : attempts' = [attempts EXCEPT ![route] = st] /\ NextRoute
    BY <1>3 DEF Gate, SaveThrows, Mark
  <2> QED
    BY <1>2, <1>3, <2>1 DEF Gate, AttemptInv
<1>4. CASE Ready \/ Abort \/ Exhausted \/ Review \/ Found
  <2>1. pc' \in {"end", "abort"}
    BY <1>4 DEF Ready, Abort, Exhausted, Review, Found, SaveThrows
  <2> QED
    BY <2>1 DEF AttemptInv
<1>5. CASE Queue \/ Submit
  <2>1. \/ pc' = "abort"
        \/ /\ pc' \in {"submit", "call"} /\ UNCHANGED route
           /\ exec'.attempts = attempts'
           /\ \E st \in Statuses : attempts' = [attempts EXCEPT ![route] = st]
    BY <1>5 DEF Queue, Submit, SaveThrows, Mark, Save, Record, Statuses
  <2>2. pc \in Loop
    BY <1>5 DEF Queue, Submit
  <2>3. route \in Route
    BY DEF TypeOK, Route
  <2> QED
    BY <2>1, <2>2, <2>3 DEF AttemptInv, TypeOK, Route
<1>6. CASE Call \/ Answered \/ AnsweredWithoutId \/ Refused \/ NoAnswer \/ AcceptedThenThrown
  <2>1. /\ pc \in {"call", "await"} /\ pc' \in {"await", "failing", "linking"}
        /\ UNCHANGED <<route, attempts>>
    BY <1>6 DEF Call, Answered, AnsweredWithoutId, Refused, NoAnswer, AcceptedThenThrown
  <2> QED
    BY <2>1 DEF AttemptInv
<1>7. CASE Linking
  <2>1. /\ pc = "linking" /\ pc' \in {"end", "failing"} /\ UNCHANGED route
        /\ attempts' = [attempts EXCEPT ![route] = "placed"]
    BY <1>7 DEF Linking, Mark
  <2>2. route \in Route
    BY DEF TypeOK, Route
  <2> QED
    BY <2>1, <2>2 DEF AttemptInv, TypeOK, Route
<1>8. CASE Failing
  <2>1. CASE class = "confirmed_no_order"
    <3>1. \/ pc' = "abort"
          \/ attempts' = [attempts EXCEPT ![route] = "failed"] /\ NextRoute
      BY <1>8, <2>1 DEF Failing, SaveThrows, Mark
    <3> QED
      BY <1>2, <1>8, <3>1 DEF Failing, AttemptInv
  <2>2. CASE class # "confirmed_no_order"
    <3>1. /\ pc = "failing" /\ pc' \in {"abort", "reconcile"}
          /\ pc' = "reconcile" => UNCHANGED route
          /\ \E st \in Statuses : attempts' = [attempts EXCEPT ![route] = st]
      BY <1>8, <2>2 DEF Failing, SaveThrows, Mark, Statuses
    <3>2. route \in Route
      BY DEF TypeOK, Route
    <3> QED
      BY <3>1, <3>2 DEF AttemptInv, TypeOK, Route
  <2> QED
    BY <2>1, <2>2
<1>9. CASE Reconcile
  <2>1. /\ pc = "reconcile" /\ UNCHANGED route
        /\ \/ pc' \in {"found_order", "found_position"}
                /\ attempts' = [attempts EXCEPT ![route] = "placed"]
           \/ pc' = "cleared" /\ attempts' = [attempts EXCEPT ![route] = "failed"]
           \/ pc' = "review" /\ attempts' = [attempts EXCEPT ![route] = "manual_review"]
    BY <1>9 DEF Reconcile, Mark
  <2>2. route \in Route
    BY DEF TypeOK, Route
  <2> QED
    BY <2>1, <2>2 DEF AttemptInv, TypeOK, Route
<1>10. CASE Cleared
  <2>1. attempts[route] = "failed" /\ attempts' = attempts /\ pc = "cleared"
    BY <1>10 DEF Cleared, AttemptInv
  <2>2. attempts' = [attempts EXCEPT ![route] = "failed"]
    BY <2>1 DEF TypeOK
  <2>3. pc' = "abort" \/ NextRoute
    BY <1>10 DEF Cleared, SaveThrows
  <2> QED
    BY <1>2, <2>1, <2>2, <2>3 DEF AttemptInv
<1>11. CASE Crash \/ \E r \in Route : Accept(r) \/ Reject(r) \/ Fill(r)
  BY <1>11, BrokerSteps DEF AttemptInv
<1>12. CASE UNCHANGED vars
  BY <1>12 DEF vars, AttemptInv
<1> QED
  BY <1>1, <1>3, <1>4, <1>5, <1>6, <1>7, <1>8, <1>9, <1>10, <1>11, <1>12 DEF Next, Run

LEMMA AttemptInvariant == Spec => []AttemptInv
<1>1. Init => AttemptInv
  BY FailoverAssumption DEF Init, AttemptInv, Loop, Judge, Route
<1> QED
  BY <1>1, AttemptStep, TypeCorrect, PTL DEF Spec

(* A route is called only when the saved record has every earlier one       *)
(* settled (NoCallPastDoubt).                                              *)
THEOREM CallsAfterSettlement == Spec => NoCallPastDoubt
<1>1. ASSUME TypeOK, AttemptInv, [Next]_vars
      PROVE  undecided' \subseteq undecided \/
             \A r \in Route : r < route => exec.attempts[r] \in {"failed", "pre_trade_blocked"}
  <2>1. CASE Call
    BY <1>1, <2>1 DEF Call, AttemptInv, Loop, Settled
  <2>2. CASE Run /\ ~Call
    BY <2>2 DEF Run, Start, Gate, Ready, Queue, Submit, Answered, AnsweredWithoutId, Refused,
       NoAnswer, AcceptedThenThrown, Linking, Failing, Reconcile, Cleared, Found, Review,
       Exhausted, Abort, brokerVars
  <2>3. CASE ~Run
    BY <1>1, <2>3 DEF Next, Crash, Accept, Reject, Fill, brokerVars, vars
  <2> QED
    BY <2>1, <2>2, <2>3
<1>2. TypeOK /\ AttemptInv /\ [Next]_vars =>
        [undecided' \subseteq undecided \/
         \A r \in Route : r < route => exec.attempts[r] \in {"failed", "pre_trade_blocked"}]_vars
  BY <1>1
<1> QED
  BY <1>2, TypeCorrect, AttemptInvariant, PTL DEF Spec, NoCallPastDoubt

-----------------------------------------------------------------------------
(* A saved record says what was saved. *)
LEMMA SaveFields ==
  ASSUME NEW st \in States, NEW o \in Route \cup {None}, attempts' \in [Route -> Statuses],
         Save(st, o)
  PROVE  exec'.state = st /\ exec'.order = o /\ exec'.attempts = attempts'
BY RecordType DEF Save

LEMMA RecordStep ==
  ASSUME TypeOK, TypeOK', RecordInv, [Next]_vars
  PROVE  RecordInv'
<1> USE FailoverAssumption DEF Goto
<1>a. route \in Route /\ exec.state \in States /\ exec.order \in Route \cup {None}
  <2>1. route \in Route
    BY DEF TypeOK, Route
  <2>2. exec.state \in States /\ exec.order \in Route \cup {None}
    BY DEF TypeOK, Records
  <2> QED
    BY <2>1, <2>2
<1>b. attempts' \in [Route -> Statuses]
  BY DEF TypeOK
<1>c. ASSUME SaveThrows, pc # "end", UNCHANGED <<original, brokerVars>>
      PROVE  RecordInv'
  BY <1>c DEF SaveThrows, RecordInv, ClaimIsReal, Judge, Exposed, brokerVars
<1>d. ASSUME NEW st \in States \ {"none", "filled"}, Save(st, None), UNCHANGED <<original, brokerVars>>,
             pc' \notin {"linking", "found_order", "found_position"}
      PROVE  RecordInv'
  BY <1>b, <1>d, SaveFields DEF RecordInv, ClaimIsReal, Exposed, brokerVars
<1>1. CASE Start \/ Call \/ AnsweredWithoutId \/ Refused \/ NoAnswer \/ AcceptedThenThrown
  <2>1. /\ UNCHANGED <<exec, original, orders, filled, foreign>>
        /\ pc \in {"start", "call", "await"} /\ pc' \in {"gate", "end", "await", "failing"}
        /\ pc = "start" => pc' \in {"gate", "end"} /\ UNCHANGED undecided
        /\ pc = "await" => UNCHANGED undecided
    BY <1>1 DEF Start, Return, Call, AnsweredWithoutId, Refused, NoAnswer, AcceptedThenThrown,
       brokerVars
  <2> QED
    BY <2>1 DEF RecordInv, ClaimIsReal, Judge, Exposed
<1>2. CASE Gate
  <2>1. \/ UNCHANGED exec /\ pc' \in {"queue", "end"}
        \/ SaveThrows
        \/ \E st \in {"rejected", "failed"} :
             Save(st, None) /\ pc' \in {"gate", "exhausted"}
    BY <1>2 DEF Gate, Return, NextRoute
  <2>2. UNCHANGED <<original, brokerVars>> /\ pc = "gate"
    BY <1>2 DEF Gate
  <2>3. CASE UNCHANGED exec /\ pc' \in {"queue", "end"}
    BY <2>2, <2>3 DEF RecordInv, ClaimIsReal, Judge, Exposed, brokerVars
  <2> QED
    BY <1>c, <1>d, <2>1, <2>2, <2>3 DEF States
<1>3. CASE Ready
  <2>1. SaveThrows \/ (Save(exec.state, None) /\ pc' = "end" /\ exec.state # "filled")
    BY <1>3 DEF Ready, Return, RecordInv
  <2>2. UNCHANGED <<original, brokerVars>> /\ pc = "queue"
    BY <1>3 DEF Ready
  <2>3. CASE Save(exec.state, None) /\ pc' = "end" /\ exec.state # "filled"
    <3>1. exec'.state = exec.state /\ exec'.order = None
      BY <1>a, <1>b, <2>3, SaveFields
    <3> QED
      BY <2>2, <2>3, <3>1 DEF RecordInv, ClaimIsReal, Judge, Exposed, brokerVars
  <2> QED
    BY <1>c, <2>1, <2>2, <2>3
<1>4. CASE Queue
  <2>1. CASE SaveThrows /\ UNCHANGED original
    BY <1>4, <1>c, <2>1 DEF Queue
  <2>2. CASE Save("queued", None) /\ pc' = "submit"
             /\ original' = IF original = None THEN exec' ELSE original
    <3>1. exec'.state = "queued" /\ exec'.order = None
      BY <1>b, <2>2, SaveFields DEF States
    <3> QED
      BY <1>4, <2>2, <3>1 DEF Queue, RecordInv, ClaimIsReal, Exposed, brokerVars
  <2> QED
    BY <1>4, <2>1, <2>2 DEF Queue
<1>5. CASE Submit
  BY <1>5, <1>c, <1>d DEF Submit, States
<1>6. CASE Answered
  <2>1. \/ UNCHANGED exec
        \/ exec'.state = "linked" /\ exec'.order = route
    BY <1>6 DEF Answered, TypeOK, Records
  <2>2. pc = "await" /\ pc' = "linking" /\ route \in orders /\ UNCHANGED <<route, original, brokerVars>>
    BY <1>6 DEF Answered
  <2> QED
    BY <2>1, <2>2 DEF RecordInv, ClaimIsReal, Judge, Exposed, brokerVars
<1>7. CASE Linking
  <2>1. CASE Save("linked", route) /\ pc' = "end"
    <3>1. exec'.state = "linked" /\ exec'.order = route
      BY <1>a, <1>b, <2>1, SaveFields DEF States
    <3> QED
      BY <1>7, <2>1, <3>1 DEF Linking, RecordInv, ClaimIsReal, Judge, Exposed, brokerVars
  <2>2. CASE UNCHANGED exec /\ pc' = "failing"
    BY <1>7, <2>2 DEF Linking, RecordInv, ClaimIsReal, Judge, Exposed, brokerVars
  <2> QED
    BY <1>7, <2>1, <2>2 DEF Linking, Return
<1>8. CASE Failing \/ Cleared \/ Review
  <2>1. SaveThrows \/ Save("failed", None)
    BY <1>8 DEF Failing, Cleared, Review
  <2>2. pc' \notin {"linking", "found_order", "found_position"}
    BY <1>8 DEF Failing, Cleared, Review, NextRoute, Return, SaveThrows
  <2>3. UNCHANGED <<original, brokerVars>> /\ pc # "end"
    BY <1>8 DEF Failing, Cleared, Review
  <2> QED
    BY <1>c, <1>d, <2>1, <2>2, <2>3 DEF States
<1>9. CASE Reconcile
  <2>1. /\ pc = "reconcile" /\ pc' \in {"found_order", "found_position", "cleared", "review"}
        /\ pc' = "found_order" => CanFindOrder
        /\ pc' = "found_position" => CanFindPosition
        /\ UNCHANGED <<route, exec, original, brokerVars>>
    BY <1>9 DEF Reconcile
  <2> QED
    BY <2>1 DEF RecordInv, ClaimIsReal, Judge, Exposed, brokerVars, CanFindOrder, CanFindPosition
<1>10. CASE Found
  <2>1. UNCHANGED <<original, brokerVars>> /\ pc # "end"
    BY <1>10 DEF Found
  <2>2. CASE pc = "found_order" /\ pc' = "end" /\ \E st \in {"linked", "filled"} : Save(st, route)
    <3>1. exec'.state \in {"linked", "filled"} /\ exec'.order = route
      BY <1>a, <1>b, <2>2, SaveFields DEF States
    <3> QED
      BY <1>a, <2>1, <2>2, <3>1, FailoverAssumption
      DEF RecordInv, ClaimIsReal, Judge, Exposed, brokerVars, Route
  <2>3. CASE pc = "found_position" /\ pc' = "end" /\ Save("filled", None)
    <3>1. exec'.state = "filled" /\ exec'.order = None
      BY <1>b, <2>3, SaveFields DEF States
    <3> QED
      BY <2>1, <2>3, <3>1 DEF RecordInv, ClaimIsReal, Judge, Exposed, brokerVars
  <2> QED
    BY <1>10, <1>c, <2>1, <2>2, <2>3 DEF Found, Return
<1>11. CASE Exhausted
  <2>1. UNCHANGED <<original, brokerVars>> /\ pc = "exhausted"
    BY <1>11 DEF Exhausted
  <2>2. CASE Save("failed", exec.order) /\ pc' = "end"
    <3>1. exec'.state = "failed" /\ exec'.order = exec.order
      BY <1>a, <1>b, <2>2, SaveFields DEF States
    <3> QED
      BY <2>1, <2>2, <3>1 DEF RecordInv, ClaimIsReal, Judge, Exposed, brokerVars
  <2>3. CASE UNCHANGED exec /\ pc' = "end"
    BY <2>1, <2>3 DEF RecordInv, ClaimIsReal, Judge, Exposed, brokerVars
  <2> QED
    BY <1>11, <1>c, <2>1, <2>2, <2>3 DEF Exhausted, Return
<1>12. CASE Abort
  <2>1. /\ pc = "abort" /\ pc' = "end"
        /\ UNCHANGED <<original, brokerVars>>
    BY <1>12 DEF Abort, Return
  <2>2. \/ UNCHANGED exec
        \/ exec'.state = "failed" /\ exec'.order \in {None, exec.order}
    BY <1>12 DEF Abort, TypeOK, Records, RecordInv
  <2> QED
    BY <2>1, <2>2 DEF RecordInv, ClaimIsReal, Judge, Exposed, brokerVars
<1>13. CASE Crash \/ \E r \in Route : Accept(r) \/ Reject(r) \/ Fill(r)
  BY <1>13, BrokerSteps DEF RecordInv, ClaimIsReal, Judge
<1>14. CASE UNCHANGED vars
  BY <1>14 DEF vars, RecordInv, ClaimIsReal, Exposed
<1> QED
  BY <1>1, <1>2, <1>3, <1>4, <1>5, <1>6, <1>7, <1>8, <1>9, <1>10, <1>11, <1>12, <1>13, <1>14
  DEF Next, Run

LEMMA RecordInvariant == Spec => []RecordInv
<1>1. Init => RecordInv
  <2> SUFFICES ASSUME Init
               PROVE  RecordInv
    OBVIOUS
  <2>1. NoAttempts \in [Route -> Statuses]
    BY DEF NoAttempts, Statuses
  <2>2. exec.state = "none" /\ exec.order = None
    BY DEF Init, Record
  <2> QED
    BY <2>2 DEF Init, RecordInv, ClaimIsReal, Exposed, Judge
<1>2. TypeOK /\ TypeOK' /\ RecordInv /\ [Next]_vars => RecordInv'
  BY RecordStep
<1> QED
  BY <1>1, <1>2, TypeCorrect, PTL DEF Spec

(* A linked order exists at its broker, and a record that says "filled" has *)
(* a position behind it (ClaimIsReal).                                     *)
THEOREM ClaimsAreReal == Spec => []ClaimIsReal
BY RecordInvariant, PTL DEF RecordInv

(* The execution state is on record before any broker may hold an order,   *)
(* whatever fails afterwards (TrackedBeforeExposure).                      *)
THEOREM ExposureIsTracked == Spec => []TrackedBeforeExposure
<1>1. RecordInv => TrackedBeforeExposure
  BY DEF RecordInv, TrackedBeforeExposure, Tracked
<1> QED
  BY <1>1, RecordInvariant, PTL

-----------------------------------------------------------------------------
LEMMA ExposureStep ==
  ASSUME TypeOK, ExposureInv, [Next]_vars
  PROVE  ExposureInv'
<1> USE DEF Goto, Loop, Judge
<1>0. Misjudged => Misjudged'
  BY DEF Next, vars, Run, Start, Gate, Ready, Queue, Submit, Call, Answered, AnsweredWithoutId,
     Refused, NoAnswer, AcceptedThenThrown, Linking, Failing, Reconcile, Cleared, Found, Review,
     Exhausted, Abort, Crash, Accept, Reject, Fill, SaveThrows, Misjudged
<1> SUFFICES ASSUME ~Misjudged, ~Misjudged'
             PROVE  ExposureInv'
  BY <1>0 DEF ExposureInv
<1>a. ASSUME UNCHANGED <<orders, undecided>>, Exposed = {}
      PROVE  ExposureInv'
  BY <1>a DEF ExposureInv, Exposed
<1>b. ASSUME UNCHANGED <<orders, undecided>>, pc' \in {"abort", "end"}
      PROVE  ExposureInv'
  BY <1>b DEF ExposureInv, Exposed
<1>1. CASE Start \/ Gate \/ Ready \/ Queue \/ Submit \/ Cleared \/ Exhausted
  <2>1. Exposed = {}
    BY <1>1 DEF Start, Gate, Ready, Queue, Submit, Cleared, Exhausted, ExposureInv
  <2>2. UNCHANGED brokerVars
    BY <1>1 DEF Start, Gate, Ready, Queue, Submit, Cleared, Exhausted
  <2> QED
    BY <1>a, <2>1, <2>2 DEF brokerVars
<1>2. CASE Call
  <2>1. Exposed = {} /\ Exposed' \subseteq {route} /\ UNCHANGED route
        /\ pc' \in {"await", "failing"}
    BY <1>2 DEF Call, ExposureInv, Exposed
  <2> QED
    BY <2>1 DEF ExposureInv
<1>3. CASE Answered \/ AnsweredWithoutId \/ Refused \/ NoAnswer \/ AcceptedThenThrown
  <2>1. /\ pc = "await" /\ pc' \in {"linking", "failing"}
        /\ UNCHANGED <<route, orders, undecided>>
    BY <1>3 DEF Answered, AnsweredWithoutId, Refused, NoAnswer, AcceptedThenThrown, brokerVars
  <2> QED
    BY <2>1 DEF ExposureInv, Exposed
<1>4. CASE Linking
  <2>1. /\ pc = "linking" /\ pc' \in {"end", "failing"}
        /\ UNCHANGED <<route, orders, undecided>>
    BY <1>4 DEF Linking, Return, brokerVars
  <2> QED
    BY <2>1 DEF ExposureInv, Exposed
<1>5. CASE Failing
  <2>1. pc = "failing" /\ UNCHANGED <<orders, undecided>> /\ Exposed \subseteq {route}
    BY <1>5 DEF Failing, brokerVars, ExposureInv
  <2>2. CASE class = "confirmed_no_order" /\ NextRoute
    <3>1. route \notin Exposed
      BY <1>5, <2>2 DEF Failing, SaveThrows, NextRoute, Misjudged
    <3> QED
      BY <1>a, <2>1, <3>1
  <2>3. CASE pc' = "reconcile" /\ UNCHANGED route
    BY <2>1, <2>3 DEF ExposureInv, Exposed
  <2>4. CASE pc' = "abort"
    BY <1>b, <2>1, <2>4
  <2> QED
    BY <1>5, <2>2, <2>3, <2>4 DEF Failing, SaveThrows
<1>6. CASE Reconcile
  <2>1. /\ pc = "reconcile" /\ UNCHANGED <<route, orders, undecided>>
        /\ pc' \in {"found_order", "found_position", "cleared", "review"}
        /\ Exposed \subseteq {route}
    BY <1>6 DEF Reconcile, brokerVars, ExposureInv
  <2>2. pc' = "cleared" => route \notin Exposed
    BY <1>6 DEF Reconcile, Misjudged
  <2> QED
    BY <2>1, <2>2 DEF ExposureInv, Exposed
<1>7. CASE Found \/ Review \/ Abort
  <2>1. UNCHANGED <<orders, undecided>> /\ pc' \in {"abort", "end"}
    BY <1>7 DEF Found, Review, Abort, Return, SaveThrows, brokerVars
  <2> QED
    BY <1>b, <2>1
<1>8. CASE Crash \/ \E r \in Route : Accept(r) \/ Reject(r) \/ Fill(r)
  BY <1>8, BrokerSteps DEF ExposureInv
<1>9. CASE UNCHANGED vars
  BY <1>9 DEF vars, ExposureInv, Exposed
<1> QED
  BY <1>1, <1>2, <1>3, <1>4, <1>5, <1>6, <1>7, <1>8, <1>9 DEF Next, Run

LEMMA ExposureInvariant == Spec => []ExposureInv
<1>1. Init => ExposureInv
  BY DEF Init, ExposureInv, Exposed, Judge
<1> QED
  BY <1>1, ExposureStep, TypeCorrect, PTL DEF Spec

(* One order at most over all routes, however many there are, unless a      *)
(* route was misjudged (OneOrderUnlessMisjudged).                          *)
THEOREM OneOrder == Spec => []OneOrderUnlessMisjudged
<1>1. ExposureInv => OneOrderUnlessMisjudged
  BY DEF ExposureInv, OneOrderUnlessMisjudged
<1> QED
  BY <1>1, ExposureInvariant, PTL

-----------------------------------------------------------------------------
LEMMA FlagStep ==
  ASSUME TypeOK, TypeOK', AttemptInv, RecordInv, ExposureInv, FlagInv, [Next]_vars
  PROVE  FlagInv'
<1> USE FailoverAssumption DEF Goto
<1>a. ASSUME SaveThrows
      PROVE  FlagInv'
  BY <1>a DEF SaveThrows, FlagInv, ExposureIsFlagged
<1>b. ASSUME pc' \notin {"abort", "end"}
      PROVE  FlagInv'
  BY <1>b DEF FlagInv, ExposureIsFlagged
<1>c. ASSUME pc' = "end", UNCHANGED hazard, UNCHANGED brokerVars, pc \in {"start", "exhausted"} \cup Loop
      PROVE  FlagInv'
  BY <1>c DEF FlagInv, ExposureIsFlagged, ExposureInv, Misjudged, Exposed, brokerVars
<1>d. route \in Route /\ attempts' \in [Route -> Statuses]
  BY DEF TypeOK, Route
<1>e. ASSUME pc' = "end", UNCHANGED <<hazard, route, brokerVars>>, pc \in Judge, NEW st \in States,
             NEW o \in Route \cup {None}, Save(st, o),
             \/ attempts'[route] = "manual_review"
             \/ attempts'[route] = "placed" /\ st \in {"linked", "filled"}
      PROVE  FlagInv'
  <2>1. exec'.state = st /\ exec'.attempts = attempts'
    BY <1>d, <1>e, SaveFields
  <2>2. hazard = {} => Exposed' \subseteq {route}
    BY <1>e DEF ExposureInv, Misjudged, Exposed, brokerVars
  <2> QED
    BY <1>e, <2>1, <2>2 DEF FlagInv, ExposureIsFlagged
<1>1. CASE Start \/ Gate \/ Ready \/ Exhausted
  <2>1. SaveThrows \/ pc' \notin {"abort", "end"} \/ (pc' = "end" /\ UNCHANGED hazard)
    BY <1>1 DEF Start, Gate, Ready, Exhausted, Return, NextRoute
  <2>2. UNCHANGED brokerVars /\ pc \in {"start", "exhausted"} \cup Loop
    BY <1>1 DEF Start, Gate, Ready, Exhausted, Loop
  <2> QED
    BY <1>a, <1>b, <1>c, <2>1, <2>2
<1>2. CASE Queue \/ Submit \/ Call \/ Answered \/ AnsweredWithoutId \/ Refused \/ NoAnswer
           \/ AcceptedThenThrown \/ Failing \/ Reconcile \/ Cleared
  <2>1. SaveThrows \/ pc' \notin {"abort", "end"}
    BY <1>2 DEF Queue, Submit, Call, Answered, AnsweredWithoutId, Refused, NoAnswer,
       AcceptedThenThrown, Failing, Reconcile, Cleared, NextRoute
  <2> QED
    BY <1>a, <1>b, <2>1
<1>3. CASE Linking
  <2>1. /\ pc = "linking" /\ attempts'[route] = "placed" /\ UNCHANGED <<route, brokerVars>>
    BY <1>3, <1>d DEF Linking, Mark, TypeOK
  <2>2. CASE Save("linked", route) /\ pc' = "end" /\ UNCHANGED hazard
    BY <1>d, <1>e, <2>1, <2>2 DEF States, Judge
  <2>3. CASE pc' = "failing"
    BY <1>b, <2>3
  <2> QED
    BY <1>3, <2>2, <2>3 DEF Linking, Return
<1>4. CASE Found
  <2>1. UNCHANGED <<route, brokerVars>> /\ pc \in Judge /\ attempts'[route] = "placed"
    BY <1>4 DEF Found, AttemptInv, Judge
  <2>2. SaveThrows \/ (/\ pc' = "end" /\ UNCHANGED hazard
                       /\ \E st \in {"linked", "filled"}, o \in {route, None} : Save(st, o))
    BY <1>4 DEF Found, Return
  <2> QED
    BY <1>a, <1>d, <1>e, <2>1, <2>2 DEF States
<1>5. CASE Review
  <2>1. UNCHANGED <<route, brokerVars>> /\ pc \in Judge /\ attempts'[route] = "manual_review"
    BY <1>5 DEF Review, AttemptInv, Judge
  <2>2. SaveThrows \/ (pc' = "end" /\ UNCHANGED hazard /\ Save("failed", None))
    BY <1>5 DEF Review, Return
  <2> QED
    BY <1>a, <1>e, <2>1, <2>2 DEF States
<1>6. CASE Abort
  BY <1>6 DEF Abort, Return, FlagInv, ExposureIsFlagged
<1>7. CASE Crash \/ \E r \in Route : Accept(r) \/ Reject(r) \/ Fill(r)
  <2>1. CASE Crash
    BY <1>b, <2>1 DEF Crash
  <2>2. CASE \E r \in Route : Accept(r) \/ Reject(r) \/ Fill(r)
    <3>1. /\ UNCHANGED <<exec, hazard>> /\ Exposed' \subseteq Exposed
          /\ UNCHANGED pc
      BY <2>2, BrokerSteps DEF Accept, Reject, Fill
    <3> QED
      BY <3>1 DEF FlagInv, ExposureIsFlagged
  <2> QED
    BY <1>7, <2>1, <2>2
<1>8. CASE UNCHANGED vars
  BY <1>8 DEF vars, FlagInv, ExposureIsFlagged, Exposed
<1> QED
  BY <1>1, <1>2, <1>3, <1>4, <1>5, <1>6, <1>7, <1>8 DEF Next, Run

(* A run that returns with no failed save and no misjudgement has flagged    *)
(* every route that holds or may get an order (ExposureIsFlagged).         *)
THEOREM EndsFlagged == Spec => []ExposureIsFlagged
<1>1. Init => FlagInv
  BY DEF Init, FlagInv, ExposureIsFlagged
<1>2. TypeOK /\ TypeOK' /\ AttemptInv /\ RecordInv /\ ExposureInv /\ FlagInv /\ [Next]_vars
      => FlagInv'
  BY FlagStep
<1>3. Spec => []FlagInv
  BY <1>1, <1>2, TypeCorrect, AttemptInvariant, RecordInvariant, ExposureInvariant, PTL DEF Spec
<1> QED
  BY <1>3, PTL DEF FlagInv
=============================================================================
