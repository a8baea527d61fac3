----------------------------- MODULE MCPubServer -----------------------------
(***************************************************************************)
(* Small instances of PubServer.  Each cfg picks one mix of transports: it *)
(* gives Direct and Relay their sessions, and Owner says whose they are.   *)
(***************************************************************************)
EXTENDS PubServer, TLC

CONSTANTS ann, bob, cy,        \* agents
          a1, a2, a3, b1, c1   \* sessions of ann, bob and cy

Owner == (a1 :> ann) @@ (a2 :> ann) @@ (a3 :> ann) @@ (b1 :> bob) @@ (c1 :> cy)

MCAgentOf == [s \in Sessions |-> Owner[s]]

\* Which of ann's sockets is the first makes no difference
SameSockets == Permutations({a1, a2})
=============================================================================
