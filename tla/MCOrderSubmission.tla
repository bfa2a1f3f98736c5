------------------------- MODULE MCOrderSubmission -------------------------
(***************************************************************************)
(* Small instances of OrderSubmission for TLC.  Attempts are symmetric:    *)
(* nothing in the module orders them.                                      *)
(***************************************************************************)
EXTENDS OrderSubmission, TLC

CONSTANTS a1, a2, a3, d1, paper, r1

MCAttempts == {a1, a2, a3}
MCDrafts == {d1, paper}
MCPaperDrafts == {paper}
MCReconcilers == {r1}
MCSymmetry == Permutations(MCAttempts)
=============================================================================
