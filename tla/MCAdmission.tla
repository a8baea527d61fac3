----------------------------- MODULE MCAdmission -----------------------------
(***************************************************************************)
(* Admission and PubServer on one slot: ann comes over a WebSocket, bob    *)
(* and the banned cy through the hub.                                      *)
(***************************************************************************)
EXTENDS Admission, TLC

CONSTANTS ann, bob, cy, a1, b1, c1

Owner == (a1 :> ann) @@ (b1 :> bob) @@ (c1 :> cy)

MCAgentOf == [s \in Sessions |-> Owner[s]]
=============================================================================
