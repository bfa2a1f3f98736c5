----------------------------- MODULE Schedulers -----------------------------
(***************************************************************************)
(* The two ways in which this repository runs its schedulers, side by      *)
(* side: background loops in the server processes, and commands to the     *)
(* worker.  RuntimeDiagnosticsService works on the rows of both.           *)
(***************************************************************************)
EXTENDS SchedulerLoop, SchedulerCommands

vars == <<loopVars, commandVars>>

Init == LoopInit /\ CommandInit

Next ==
  \/ LoopNext /\ UNCHANGED commandVars
  \/ CommandNext /\ UNCHANGED loopVars

Spec == Init /\ [][Next]_vars

(* The rows of both, the copies of them and the steps are well formed. *)
TypeOK == LoopTypeOK /\ CommandTypeOK
=============================================================================
