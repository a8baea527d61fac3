----------------------------- MODULE VisitLedger -----------------------------
(***************************************************************************)
(* What the pub promises about visits, whatever transport, handler and     *)
(* interleaving carry them: a session enters at most once, never over      *)
(* capacity and never for a banned agent, displaces its agent's previous   *)
(* session, and only a session that did enter is ever reported to the hub. *)
(* PubServer implements it.                                                *)
(***************************************************************************)
EXTENDS Naturals, FiniteSets

CONSTANTS
    Sessions, \* session ids
    AgentOf,  \* the agent each session belongs to
    Banned,   \* agents that may not enter
    Capacity  \* agents that may be inside at once

VARIABLES
    inside,   \* the sessions in the room, one per agent
    begun,    \* the sessions that ever entered
    reported  \* the sessions the hub was told the end of

ledger == <<inside, begun, reported>>

Init == inside = {} /\ begun = {} /\ reported = {}

SameAgent(s) == {t \in Sessions : AgentOf[t] = AgentOf[s]}

Enter(s) ==
    /\ s \notin begun
    /\ AgentOf[s] \notin Banned
    /\ Cardinality(inside) < Capacity
    /\ inside' = (inside \ SameAgent(s)) \cup {s}
    /\ begun' = begun \cup {s}
    /\ UNCHANGED reported

\* A session loses its place without a report: a kick, a recall, a checkout
\* whose report was sent before
Depart(s) ==
    /\ inside' = inside \ {s}
    /\ UNCHANGED <<begun, reported>>

Report(s) ==
    /\ s \in begun
    /\ reported' = reported \cup {s}
    /\ UNCHANGED <<inside, begun>>

\* A report that frees the agent's place in the same step, whichever session of
\* the agent holds it
CheckOut(s) ==
    /\ s \in begun
    /\ reported' = reported \cup {s}
    /\ inside' = inside \ SameAgent(s)
    /\ UNCHANGED begun

Next == \E s \in Sessions : Enter(s) \/ Depart(s) \/ Report(s) \/ CheckOut(s)

Spec == Init /\ [][Next]_ledger
=============================================================================
