------------------------------- MODULE MCTrust -------------------------------
(***************************************************************************)
(* Trust in both modes: overlapping validations and two key ids, so that a *)
(* rotation replaces one by the other; two agents, so that one registers   *)
(* while the other is edited in or out, with a crash before and after; bob *)
(* has a record that the roster's schema rejects.                          *)
(***************************************************************************)
EXTENDS Trust, TLC

CONSTANTS v1, v2, k1, k2, ann, bob
=============================================================================
