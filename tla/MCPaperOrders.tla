---------------------------- MODULE MCPaperOrders ---------------------------
(***************************************************************************)
(* One process with its background batch and a request at a time, and a    *)
(* user who cancels or links one of three orders.  Nothing is known of the *)
(* symbol of the third, so that two moving orders compete for the place in *)
(* the batch that it leaves.                                               *)
(***************************************************************************)
EXTENDS PaperOrders

CONSTANTS poll, request, server, touched, other, still

MCOrders == {touched, other, still}
MCStill == {still}
MCTouched == {touched}
MCCallers == {poll, request}
MCPolls == {poll}
MCProcs == {server}
MCProcOf == [c \in MCCallers |-> server]
=============================================================================
