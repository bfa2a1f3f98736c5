-------------------------- MODULE MCAutomationRuns --------------------------
(***************************************************************************)
(* Two runs of one automation, with the writers of its row or with the      *)
(* orders of three suggestions.                                            *)
(***************************************************************************)
EXTENDS AutomationRuns, TLC

CONSTANTS MaxTime, MaxHazards   \* bounds of the exploration

Symmetry == Permutations(Runs) \cup Permutations(Trades)

(* Bounds.  No state is explored past MaxTime, or past MaxHazards kinds of  *)
(* things gone wrong.                                                      *)
Bound ==
  /\ now <= MaxTime
  /\ Cardinality(hazard) + Cardinality(cleared) <= MaxHazards

(* Either the row of the automation is worked on, by an edit or a repair at *)
(* a time, and its runs have nothing to place, ...                         *)
Scheduling ==
  /\ \A t \in Trades : owner[t] = None
  /\ today = 0
  /\ \A e \in Edits, p \in Repairs : wpc[e] = "idle" \/ wpc[p] = "idle"

(* ... or its runs place orders, of which none is lost, and nobody works on *)
(* the row.                                                                *)
Trading ==
  /\ now <= 1 /\ hazard \subseteq {"misread", "swept"}
  /\ status = "Running" /\ said = "Running"
  /\ \A w \in Writers : wpc[w] = "idle"

MCBound == Bound /\ (Scheduling \/ Trading)
=============================================================================
