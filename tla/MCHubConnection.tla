--------------------------- MODULE MCHubConnection ---------------------------
(***************************************************************************)
(* The pub's process with two sockets to the hub, a second one being what  *)
(* LinkOrTimer rules out; two sockets of one agent, whose entries replace  *)
(* each other; and two spectators for one place.                           *)
(***************************************************************************)
EXTENDS PubProcess, TLC

CONSTANTS h1, h2, a1, a2, w1, w2, ann

MCAgentOf == [x \in Direct |-> ann]
=============================================================================
