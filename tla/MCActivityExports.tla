------------------------- MODULE MCActivityExports -------------------------
(***************************************************************************)
(* Two processors and two downloads about one export.                      *)
(***************************************************************************)
EXTENDS ActivityExports, FiniteSets

CONSTANTS w1, w2, d1, d2

MCWorkers == {w1, w2}
MCDownloads == {d1, d2}

(* Bound.  No state is explored past a second kind of hazard, and two       *)
(* downloads meet while nothing has gone wrong.                            *)
Bound ==
  /\ Cardinality(hazard) <= 1
  /\ hazard # {} => \E d \in Downloads : pc[d] = "idle"
=============================================================================
