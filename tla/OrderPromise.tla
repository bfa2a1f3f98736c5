---------------------------- MODULE OrderPromise ----------------------------
(***************************************************************************)
(* What an idempotency key promises the callers that send it, without the  *)
(* row, the copies of it, the stale window or the reconciler: calls go to  *)
(* the place where orders are kept, it accepts or refuses them one by one, *)
(* and callers are told of orders.  While the promise stands there is      *)
(* never a second order, nor a call that could still make one.             *)
(***************************************************************************)
CONSTANTS Attempts, None

VARIABLES
  open,   \* calls not decided yet
  made,   \* orders that exist
  told,   \* the order each caller was told of
  void    \* the promise is off

vars == <<open, made, told, void>>

Init ==
  /\ open = {} /\ made = {}
  /\ told = [a \in Attempts |-> None]
  /\ void = FALSE

MayCall(a) ==
  /\ a \notin open \cup made
  /\ void \/ open \cup made = {}

Call(a) ==
  /\ MayCall(a)
  /\ open' = open \cup {a}
  /\ UNCHANGED <<made, told, void>>

(* An order kept by the API itself is called for and made in one step. *)
Make(a) ==
  /\ a \in open \/ MayCall(a)
  /\ open' = open \ {a}
  /\ made' = made \cup {a}
  /\ UNCHANGED <<told, void>>

Refuse(a) ==
  /\ a \in open
  /\ open' = open \ {a}
  /\ UNCHANGED <<made, told, void>>

(* A caller is told once, and of an order that is there. *)
Tell(a, o) ==
  /\ told[a] = None /\ o \in made
  /\ told' = [told EXCEPT ![a] = o]
  /\ UNCHANGED <<open, made, void>>

Void ==
  /\ ~void /\ void' = TRUE
  /\ UNCHANGED <<open, made, told>>

Next ==
  \/ \E a \in Attempts : Call(a) \/ Make(a) \/ Refuse(a)
  \/ \E a, o \in Attempts : Tell(a, o)
  \/ Void

Spec == Init /\ [][Next]_vars
=============================================================================
