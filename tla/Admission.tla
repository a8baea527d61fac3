------------------------------ MODULE Admission ------------------------------
(***************************************************************************)
(* The hub asks before it sends an agent: agent_incoming names a session,  *)
(* and the pub's acknowledgement accepts or refuses it                     *)
(* (hub/agent-incoming-handler.ts).  The acknowledgement reserves nothing; *)
(* the session connects later, or never, to the room as it is then         *)
(* (PubServer).                                                            *)
(***************************************************************************)
EXTENDS PubServer

CONSTANT Unwelcome  \* agents below frontmatter.entry.min_reputation

VARIABLES
    ack,       \* the answer to the session's agent_incoming
    overtaken  \* history: sessions accepted since whose acceptance another entered

offers == <<ack, overtaken>>
admissionVars == <<vars, offers>>

\* Only sessions whose acceptance stands are overtaken.
AdmissionTypeOK ==
    /\ ack \in [Relay -> {"none", "accepted", "refused"}]
    /\ overtaken \subseteq {s \in Relay : ack[s] = "accepted"}

AdmissionInit ==
    /\ Init
    /\ ack = [s \in Relay |-> "none"]
    /\ overtaken = {}

-----------------------------------------------------------------------------

\* Accepted, and no session of its own yet
Expected == {s \in Relay : ack[s] = "accepted" /\ hub[s] = "none"}

\* Mutant: the comparison of the capacity check lets one too many be accepted
DeclinesOffByOne(s) ==
    \/ Cardinality(Present) > Capacity
    \/ AgentOf[s] \in Banned \cup Unwelcome

\* The three checks; a failure of the handler refuses as well
Declines(s) == AtCapacity \/ AgentOf[s] \in Banned \cup Unwelcome

\* agent_incoming: the handler answers in one go
AgentIncoming(s) ==
    /\ hub[s] = "none" /\ ack[s] = "none"
    /\ ack' = [ack EXCEPT ![s] = IF Declines(s) THEN "refused" ELSE "accepted"]
    /\ UNCHANGED <<vars, overtaken>>

\* A step of the visit life cycle; one that lets an agent in overtakes those that
\* are expected
PubStep ==
    /\ Next
    /\ overtaken' = IF visited' = visited THEN overtaken ELSE overtaken \cup Expected
    /\ UNCHANGED ack

AdmissionNext == PubStep \/ \E s \in Relay : AgentIncoming(s)

AdmissionSpec == AdmissionInit /\ [][AdmissionNext]_admissionVars

FairAdmissionSpec == AdmissionSpec /\ Fairness

-----------------------------------------------------------------------------
(* Properties *)

\* Nothing reserves the slot of an accepted agent, and a full pub drops its
\* connection without a word (server.ts:1346-1349).  It does so only if somebody
\* else entered since: the acceptance was right when it was given
\* (agent-incoming-handler.ts:48-61, 107-114), and nothing but an entry spoils it.
TurnedAwayOnlyIfOvertaken ==
    [][\A s \in Expected :
        hub'[s] = "open" /\ s \notin visited' => s \in overtaken]_admissionVars
=============================================================================
