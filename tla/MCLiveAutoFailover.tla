------------------------- MODULE MCLiveAutoFailover -------------------------
(* Instance of LiveAutoFailover for TLC: a Delta route and unkeyed routes. *)
EXTENDS LiveAutoFailover

MCKeyed == {2}
=============================================================================
