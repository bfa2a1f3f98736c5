-------------------------- MODULE MCTradeExecution --------------------------
(***************************************************************************)
(* A trade that the automation, a user with a live order and a user with a *)
(* paper order may all work on, one user who reviews it and one refresh at *)
(* a time.                                                                 *)
(***************************************************************************)
EXTENDS TradeExecution, FiniteSets

CONSTANTS autoOrder, liveOrder, paperOrder

MCOrders == {autoOrder, liveOrder, paperOrder}
MCPaper == {paperOrder}
MCAuto == {autoOrder}

(* Bounds.  The automation's order, or a paper order, is followed to its    *)
(* end when it is the only one; orders side by side, at most two at a time, *)
(* while they are not known to be more than open.  The user rests once more *)
(* is known, or two are placed.  No state is explored past a second kind of *)
(* hazard.                                                                 *)
Placed == {o \in Orders : truth[o] # "none"}
Resting == \A u \in Users : upc[u] = "idle"

Quiet(o) ==
  /\ truth[o] \in {"none", "open"}
  /\ IF o \in PaperOrders THEN pcopy[o] = None
     ELSE snap[o] \in {"none", "open"} /\ position[o] = "none"

OneStory ==
  \/ Placed \subseteq MCAuto \/ Placed \subseteq MCPaper
  \/ Cardinality(Placed) = 1 /\ \A o \in Orders : Quiet(o)
  \/ hazard = {} /\ Cardinality(Placed) = 2 /\ Resting /\ \A o \in Orders : Quiet(o)

Bound ==
  /\ Cardinality(hazard) <= 1 /\ OneStory
  /\ (\A o \in Orders : Quiet(o)) \/ Resting
=============================================================================
