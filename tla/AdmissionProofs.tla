--------------------------- MODULE AdmissionProofs ---------------------------
(***************************************************************************)
(* An acceptance holds until somebody else enters, for any agents, any     *)
(* number of sessions and any capacity: while nobody enters the room only  *)
(* shrinks, so who was accepted still finds a slot.  That no session       *)
(* enters twice (VisitInv) is what makes an entry visible in visited.      *)
(* The answers move no visit, so with them every visit still keeps what it *)
(* keeps without (VisitsRefined): the runs check the life cycle this way.  *)
(***************************************************************************)
EXTENDS Admission, VisitReportsProofs

\* Whoever is expected and not overtaken has a slot, and may have it
SlotsKept ==
    \A s \in Expected \ overtaken :
        ~AtCapacity /\ AgentOf[s] \notin Banned \cup Unwelcome

IInv == TypeOK /\ VisitInv /\ AdmissionTypeOK /\ SlotsKept

\* The initial state satisfies the invariant.
LEMMA InitIInv == AdmissionInit => IInv
<1> SUFFICES ASSUME AdmissionInit PROVE IInv
  OBVIOUS
<1>1. VisitInv
  BY SessionsAssumption DEF AdmissionInit, Init, VisitInv, EntryVisited, Sessions
<1>2. AdmissionTypeOK /\ SlotsKept
  BY DEF AdmissionInit, AdmissionTypeOK, SlotsKept, Expected
<1> QED  BY <1>1, <1>2, InitTypeOK DEF AdmissionInit, IInv

\* The hub opens a relayed session by a connect that the pub takes or refuses, and
\* a session is never unopened again.
LEMMA HubOpens ==
    ASSUME TypeOK, Next, NEW s \in Relay
    PROVE  \/ hub'[s] = hub[s]
           \/ hub[s] = "none" /\ (RelayConnect(s) \/ RelayRefuse(s))
           \/ hub[s] = "open" /\ hub'[s] = "closed"
<1> DEFINE Turns == \/ hub'[s] = hub[s]
                    \/ hub[s] = "none" /\ (RelayConnect(s) \/ RelayRefuse(s))
                    \/ hub[s] = "open" /\ hub'[s] = "closed"
<1> USE DEF TypeOK, conns
<1>1. ASSUME NEW t \in Direct, DirectStep(t) PROVE Turns
  BY <1>1 DEF DirectStep, RefuseHeaders, Connect, Reject, Admit, PeerCloses, Terminate,
              CloseUnheard, OnCloseAutoCheckout, OnCloseRemove, FinishClose,
              FragmentReady, NotifySettles, FragmentSent
<1>2. ASSUME NEW t \in Relay, RelayStep(t) PROVE Turns
  <2>1. CASE OnAgentConnected(t)
    BY <2>1 DEF OnAgentConnected, RelayConnect, RelayRefuse
  <2>2. CASE RelayDisconnectUnknown(t) \/ RelayDisconnectLost(t) \/ RelayDisconnect(t)
    <3>1. hub[t] = "open" /\ hub' = [hub EXCEPT ![t] = "closed"]
      BY <2>2 DEF RelayDisconnectUnknown, RelayDisconnectLost, RelayDisconnect
    <3> QED  BY <3>1
  <2>3. CASE FinishDisconnect(t) \/ \E k \in Tries :
                 RelayFragmentReady(t, k) \/ RelayNotifySettles(t, k)
    BY <2>3 DEF FinishDisconnect, RelayFragmentReady, RelayNotifySettles
  <2> QED  BY <1>2, <2>1, <2>2, <2>3 DEF RelayStep
<1>3. ASSUME NEW t \in Sessions, SessionStep(t) PROVE Turns
  BY <1>3 DEF SessionStep, Checkout, Act, Say, ModeratorAllows, ModeratorDrops, ModeratorKicks
<1>4. ASSUME NEW a \in Agents, Recall(a) \/ FinishRecall(a) PROVE Turns
  BY <1>4 DEF Recall, FinishRecall
<1> QED  BY <1>1, <1>2, <1>3, <1>4 DEF Next

\* A step that lets nobody in leaves the room as it is or takes agents out.
LEMMA RoomShrinks ==
    ASSUME TypeOK, VisitStep, visited' = visited, ~AtCapacity
    PROVE  ~AtCapacity'
<1> USE SessionsAssumption, PubAssumption
<1>1. Present' \subseteq Present
  <2>1. CASE TellStep
    BY <2>1 DEF TellStep, Present
  <2>2. CASE EnterStep
    BY <2>2 DEF EnterStep
  <2>3. CASE LeaveStep
    BY <2>3 DEF LeaveStep, Present, TypeOK
  <2> QED  BY <2>1, <2>2, <2>3 DEF VisitStep
<1>2. IsFiniteSet(Present)
  BY FS_Subset DEF Present
<1>3. /\ Cardinality(Present) \in Nat /\ Cardinality(Present') \in Nat
      /\ Cardinality(Present') <= Cardinality(Present)
  BY <1>1, <1>2, FS_Subset, FS_CardinalityType
<1> QED  BY <1>3 DEF AtCapacity

\* Every step keeps the invariant.
LEMMA NextIInv == IInv /\ [AdmissionNext]_admissionVars => IInv'
<1> SUFFICES ASSUME IInv, [AdmissionNext]_admissionVars PROVE IInv'
  OBVIOUS
<1> USE DEF IInv
<1>1. CASE UNCHANGED vars /\ UNCHANGED overtaken
  <2>1. TypeOK' /\ VisitInv'
    BY <1>1, NextTypeOK, NextVisitStep
  <2>2. UNCHANGED <<hub, room>>
    BY <1>1 DEF vars, conns, maps
  <2>3. CASE UNCHANGED ack
    BY <1>1, <2>1, <2>2, <2>3
    DEF AdmissionTypeOK, SlotsKept, Expected, AtCapacity, Present
  <2>4. ASSUME NEW s \in Relay, AgentIncoming(s) PROVE IInv'
    <3>1. AtCapacity' <=> AtCapacity
      BY <2>2 DEF AtCapacity, Present
    <3>2. Expected' \subseteq Expected \cup {t \in {s} : ~Declines(t)}
      BY <2>2, <2>4 DEF AgentIncoming, Expected, AdmissionTypeOK
    <3>3. SlotsKept'
      BY <1>1, <3>1, <3>2 DEF SlotsKept, Declines
    <3>4. AdmissionTypeOK'
      BY <1>1, <2>4 DEF AgentIncoming, AdmissionTypeOK
    <3> QED  BY <2>1, <3>3, <3>4
  <2>5. CASE PubStep
    BY <2>3, <2>5 DEF PubStep
  <2> QED  BY <2>3, <2>4, <2>5 DEF AdmissionNext, admissionVars, offers
<1>2. CASE PubStep
  <2>1. TypeOK' /\ VisitInv' /\ VisitStep
    BY <1>2, NextTypeOK, NextVisitStep DEF PubStep
  <2>2. ack' = ack
    BY <1>2 DEF PubStep
  <2>3. Expected' \subseteq Expected
    <3>1. \A s \in Relay : hub'[s] = "none" => hub[s] = "none"
      BY <1>2, HubOpens DEF PubStep, RelayConnect, RelayRefuse
    <3> QED  BY <2>2, <3>1 DEF Expected
  <2>4. AdmissionTypeOK'
    BY <1>2, <2>2 DEF PubStep, AdmissionTypeOK, Expected
  <2>5. SlotsKept'
    <3>1. CASE visited' = visited
      BY <1>2, <2>1, <2>3, <3>1, RoomShrinks DEF PubStep, SlotsKept
    <3>2. CASE visited' # visited
      BY <1>2, <2>3, <3>2 DEF PubStep, SlotsKept
    <3> QED  BY <3>1, <3>2
  <2> QED  BY <2>1, <2>4, <2>5
<1> QED  BY <1>1, <1>2 DEF AdmissionNext, AgentIncoming, admissionVars, offers

\* An accepted session that finds no slot was overtaken by another's entry, in every
\* reachable step.
THEOREM OvertakenTheorem == AdmissionSpec => TurnedAwayOnlyIfOvertaken
<1> DEFINE Honest == \A s \in Expected :
                        hub'[s] = "open" /\ s \notin visited' => s \in overtaken
<1>1. IInv /\ [AdmissionNext]_admissionVars => [Honest]_admissionVars
  <2> SUFFICES ASSUME IInv, AdmissionNext, NEW s \in Expected,
                      hub'[s] = "open", s \notin visited'
               PROVE  s \in overtaken
    OBVIOUS
  <2>1. s \in Relay /\ hub[s] = "none"
    BY DEF Expected
  <2>2. PubStep
    BY <2>1 DEF AdmissionNext, AgentIncoming, vars, conns
  <2>3. RelayConnect(s) \/ RelayRefuse(s)
    BY <2>1, <2>2, HubOpens DEF PubStep, IInv
  <2>4. ~RelayConnect(s)
    BY DEF RelayConnect, AddAgent
  <2>5. AtCapacity \/ AgentOf[s] \in Banned
    BY <2>3, <2>4 DEF RelayRefuse
  <2> QED  BY <2>5 DEF IInv, SlotsKept
<1> QED  BY <1>1, InitIInv, NextIInv, PTL DEF AdmissionSpec, TurnedAwayOnlyIfOvertaken

\* Only sessions whose acceptance stands are counted as overtaken.
THEOREM OfferTheorem == AdmissionSpec => []AdmissionTypeOK
<1>1. IInv => AdmissionTypeOK
  BY DEF IInv
<1> QED  BY <1>1, InitIInv, NextIInv, PTL DEF AdmissionSpec

-----------------------------------------------------------------------------
(* The life cycle of a visit, with the admission beside it *)

\* With the answers left out of sight, every behaviour is one of the visit life
\* cycle: agent_incoming moves no visit (agent-incoming-handler.ts).
THEOREM VisitsRefined == AdmissionSpec => Spec
<1>1. AdmissionInit => Init
  BY DEF AdmissionInit
<1>2. [AdmissionNext]_admissionVars => [Next]_vars
  BY DEF AdmissionNext, PubStep, AgentIncoming, admissionVars
<1> QED  BY <1>1, <1>2, PTL DEF AdmissionSpec, Spec

\* Sessions that the hub announced beforehand are let in within the capacity, never
\* for a banned agent, and no session that never entered is reported.  The visit of
\* an agent that never reconnects ends for a cause of its own and is accounted for as
\* DirectVisitAccounted, RelayVisitAccounted and RelayReportedAtMostOnce say.
THEOREM AdmittedVisitsTheorem ==
    AdmissionSpec => /\ KeepsLedger
                     /\ EvictionHasCause
                     /\ [](TypeOK /\ CapacityRespected /\ BannedStayOut)
                     /\ [](DirectVisitAccounted /\ RelayVisitAccounted)
                     /\ []RelayReportedAtMostOnce
<1>1. AdmissionSpec => /\ []TypeOK /\ []CapacityRespected /\ []BannedStayOut
                       /\ []DirectVisitAccounted /\ []RelayVisitAccounted
                       /\ []RelayReportedAtMostOnce
  BY VisitsRefined, TypeCorrect, CapacityTheorem, BanTheorem, DirectVisitTheorem, RelayVisitTheorem,
     RelayOnceTheorem
<1>2. AdmissionSpec => KeepsLedger /\ EvictionHasCause
  BY VisitsRefined, LedgerTheorem, EvictionTheorem
<1> QED  BY <1>1, <1>2, PTL
=============================================================================
