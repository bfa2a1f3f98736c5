---------------------------- MODULE MCSchedulers ----------------------------
(***************************************************************************)
(* Two processes with up to three batches under way, and three requests    *)
(* about one scheduler.                                                    *)
(***************************************************************************)
EXTENDS Schedulers, TLC

Symmetry == Permutations(Procs) \cup Permutations(Requests)

(* Bounds.  No state is explored past a second kind of mishap or slip. *)
Busy == {b \in Batches : bpc[b] # "idle"}

Bound ==
  /\ Cardinality(mishaps) <= 1 /\ Cardinality(slips) <= 1
  /\ Cardinality(Busy) <= 3
  /\ Cardinality({p \in Procs : stopping[p]}) <= 1

(* The two parts have no variable in common, so that one rests in its       *)
(* initial state while the other moves.                                    *)
MCNext ==
  \/ CommandInit /\ LoopNext /\ UNCHANGED commandVars
  \/ LoopInit /\ CommandNext /\ UNCHANGED loopVars

MCSpec == Init /\ [][MCNext]_vars
=============================================================================
