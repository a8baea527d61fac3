-------------------------- MODULE VisitLedgerProofs --------------------------
(***************************************************************************)
(* PubServer implements VisitLedger, for any agents, sessions, bans and    *)
(* capacity.  The maps are keyed by agent and read after awaits, so a      *)
(* report must be shown to name a session that entered: VisitInv says that *)
(* every session id a handler holds or can look up did.                    *)
(***************************************************************************)
EXTENDS PubServerProofs

\* A map entry of agent a, if there is one, is a session of a that entered
EntryVisited(id, a) == id # NoSession => id \in visited /\ AgentOf[id] = a

VisitInv ==
    /\ \A a \in Agents : EntryVisited(room[a], a) /\ EntryVisited(relayed[a], a)
    /\ \A s \in Sessions : EntryVisited(cleanup[s], AgentOf[s])
    /\ \A s \in Direct : s \in visited <=> handler[s] \in {"admitted", "left"}
    /\ \A s \in Direct : socket[s] = "none" => handler[s] = "none"
    /\ \A s \in Direct, k \in Tries : explicit[s][k] # "idle" => s \in visited
    /\ \A s \in Relay : hub[s] = "none" => s \notin visited

Told(id) == reports' = [reports EXCEPT ![id] = @ + 1]

\* Nobody moves; at most one report, of a session that entered or of none
TellStep ==
    /\ UNCHANGED <<room, visited>>
    /\ \/ UNCHANGED reports
       \/ Told(NoSession)
       \/ \E s \in visited : Told(s)

\* A session enters for the first time
EnterStep ==
    \E s \in Sessions :
        /\ s \notin visited
        /\ ~AtCapacity
        /\ AgentOf[s] \notin Banned
        /\ room' = [room EXCEPT ![AgentOf[s]] = s]
        /\ visited' = visited \cup {s}
        /\ UNCHANGED reports

\* An agent leaves, with a report of one of its sessions or without
LeaveStep ==
    \E a \in Agents :
        /\ room' = [room EXCEPT ![a] = NoSession]
        /\ UNCHANGED visited
        /\ \/ UNCHANGED reports
           \/ \E s \in visited : AgentOf[s] = a /\ Told(s)

VisitStep == TellStep \/ EnterStep \/ LeaveStep

-----------------------------------------------------------------------------
(* Every step is of one of these kinds and keeps VisitInv *)

\* A direct session's steps.
LEMMA DirectVisitStep ==
    ASSUME TypeOK, VisitInv, NEW s \in Direct, DirectStep(s)
    PROVE  VisitInv' /\ VisitStep
<1> USE SessionsAssumption
    DEF TypeOK, Sessions, VisitInv, EntryVisited, conns, maps, jobs, past
<1>1. CASE Admit(s)
  <2>1. s \notin visited
    BY <1>1 DEF Admit
  <2>2. VisitStep
    BY <1>1, <2>1 DEF Admit, AddAgent, VisitStep, EnterStep
  <2> QED BY <1>1, <2>2 DEF Admit, AddAgent
<1>2. CASE OnCloseAutoCheckout(s)
  <2>1. VisitStep
    BY <1>2 DEF OnCloseAutoCheckout, VisitStep, TellStep
  <2>2. /\ UNCHANGED <<room, relayed, visited, explicit, hub>>
        /\ s \in visited
        /\ handler' = [handler EXCEPT ![s] = "left"]
        /\ socket' = [socket EXCEPT ![s] = "closed"]
        /\ cleanup' = [cleanup EXCEPT ![s] = s]
    BY <1>2 DEF OnCloseAutoCheckout
  <2> QED BY <2>1, <2>2
<1>3. CASE OnCloseRemove(s)
  <2>1. VisitStep
    BY <1>3 DEF OnCloseRemove, RemoveAgent, VisitStep, LeaveStep
  <2>2. /\ UNCHANGED <<relayed, visited, explicit, hub, cleanup>>
        /\ s \in visited
        /\ handler' = [handler EXCEPT ![s] = "left"]
        /\ socket' = [socket EXCEPT ![s] = "closed"]
        /\ room' = [room EXCEPT ![AgentOf[s]] = NoSession]
    BY <1>3 DEF OnCloseRemove, RemoveAgent
  <2> QED BY <2>1, <2>2
<1>4. CASE FinishClose(s)
  <2>1. cleanup[s] \in visited /\ AgentOf[cleanup[s]] = AgentOf[s]
    BY <1>4 DEF FinishClose
  <2>2. VisitStep
    BY <1>4, <2>1 DEF FinishClose, RemoveAgent, NotifyHubCheckout, VisitStep, LeaveStep, Told
  <2>3. /\ UNCHANGED <<socket, handler, hub, relayed, visited, explicit>>
        /\ cleanup' = [cleanup EXCEPT ![s] = NoSession]
        /\ room' = [room EXCEPT ![AgentOf[s]] = NoSession]
    BY <1>4 DEF FinishClose, RemoveAgent
  <2> QED BY <2>2, <2>3
<1>5. CASE \/ RefuseHeaders(s) \/ Connect(s) \/ Reject(s)
           \/ PeerCloses(s) \/ Terminate(s) \/ CloseUnheard(s)
  <2>1. VisitStep
    BY <1>5 DEF RefuseHeaders, Connect, Reject, PeerCloses, Terminate, CloseUnheard,
                VisitStep, TellStep
  <2>2. /\ UNCHANGED <<hub, maps, jobs, past>>
        /\ \/ handler' = handler
           \/ socket[s] = "none" /\ handler' = [handler EXCEPT ![s] = "rejected"]
           \/ socket[s] = "none" /\ handler' = [handler EXCEPT ![s] = "validating"]
           \/ handler[s] = "validating" /\ handler' = [handler EXCEPT ![s] = "rejected"]
    BY <1>5 DEF RefuseHeaders, Connect, Reject, PeerCloses, Terminate, CloseUnheard
  <2>3. \A t \in Direct : socket'[t] = "none" => handler'[t] = "none"
    BY <1>5 DEF RefuseHeaders, Connect, Reject, PeerCloses, Terminate, CloseUnheard, Closing
  <2>4. \A t \in Direct : t \in visited <=> handler'[t] \in {"admitted", "left"}
    <3>1. CASE socket[s] = "none" \/ handler[s] = "validating"
      <4>1. s \notin visited
        BY <3>1
      <4> QED BY <2>2, <4>1
    <3> QED BY <2>2, <3>1
  <2> QED BY <2>1, <2>2, <2>3, <2>4
<1>6. ASSUME NEW k \in Tries, FragmentReady(s, k) PROVE VisitInv' /\ VisitStep
  <2>1. s \in visited
    BY <1>6 DEF FragmentReady
  <2>2. VisitStep
    BY <1>6, <2>1 DEF FragmentReady, NotifyHubCheckout, VisitStep, TellStep, Told
  <2> QED BY <1>6, <2>1, <2>2 DEF FragmentReady, SetStage
<1>7. ASSUME NEW k \in Tries, NotifySettles(s, k) \/ FragmentSent(s, k)
      PROVE  VisitInv' /\ VisitStep
  <2>1. VisitStep
    BY <1>7 DEF NotifySettles, FragmentSent, VisitStep, TellStep
  <2>2. /\ UNCHANGED <<room, relayed, visited, handler, hub, cleanup>>
        /\ explicit[s][k] # "idle"
        /\ \E stage \in Stages : explicit' = [explicit EXCEPT ![s][k] = stage]
        /\ socket' = socket \/ socket' = Closing(s)
    BY <1>7 DEF NotifySettles, FragmentSent, SetStage, Stages
  <2> QED BY <2>1, <2>2 DEF Closing
<1> QED BY <1>1, <1>2, <1>3, <1>4, <1>5, <1>6, <1>7 DEF DirectStep

\* What the end of a relayed session changes of the maps, the reports and itself
RelayDisconnectMoves(s) ==
    /\ UNCHANGED <<socket, handler, explicit, visited>>
    /\ hub' = [hub EXCEPT ![s] = "closed"]
    /\ room' = [room EXCEPT ![AgentOf[s]] = NoSession]
    /\ relayed' = [relayed EXCEPT ![AgentOf[s]] = NoSession]
    /\ cleanup' = cleanup \/ cleanup' = [cleanup EXCEPT ![s] = relayed[AgentOf[s]]]
    /\ UNCHANGED reports \/ Told(relayed[AgentOf[s]])

\* A disconnect told by the hub is of this kind.
LEMMA RelayDisconnectStep ==
    ASSUME NEW s, RelayDisconnect(s)
    PROVE  RelayDisconnectMoves(s)
<1>1. /\ UNCHANGED <<socket, handler, explicit, visited>>
      /\ hub' = [hub EXCEPT ![s] = "closed"]
      /\ RemoveAgent(AgentOf[s])
      /\ relayed' = [relayed EXCEPT ![AgentOf[s]] = NoSession]
      /\ \/ cleanup' = cleanup
         \/ cleanup' = [cleanup EXCEPT ![s] = relayed[AgentOf[s]]]
  BY DEF RelayDisconnect
<1>2. UNCHANGED reports \/ NotifyHubCheckout(relayed[AgentOf[s]])
  BY Zenon DEF RelayDisconnect
<1> QED BY <1>1, <1>2 DEF RelayDisconnectMoves, RemoveAgent, NotifyHubCheckout, Told

\* A relayed session's steps: what the maps hold entered, whatever is looked up
LEMMA RelayVisitStep ==
    ASSUME TypeOK, VisitInv, NEW s \in Relay, RelayStep(s)
    PROVE  VisitInv' /\ VisitStep
<1> USE SessionsAssumption
    DEF TypeOK, Sessions, VisitInv, EntryVisited, conns, maps, jobs, past
<1>1. CASE hub[s] = "none" /\ RelayConnect(s)
  <2>1. s \notin visited
    BY <1>1 DEF RelayConnect
  <2>2. VisitStep
    BY <1>1, <2>1 DEF RelayConnect, AddAgent, VisitStep, EnterStep
  <2>3. /\ UNCHANGED <<socket, handler, cleanup, explicit>>
        /\ hub' = [hub EXCEPT ![s] = "open"]
        /\ relayed' = [relayed EXCEPT ![AgentOf[s]] = s]
        /\ room' = [room EXCEPT ![AgentOf[s]] = s]
        /\ visited' = visited \cup {s}
    BY <1>1 DEF RelayConnect, AddAgent
  <2> QED BY <2>2, <2>3
<1>2. CASE hub[s] = "none" /\ RelayRefuse(s)
  <2>1. VisitStep
    BY <1>2 DEF RelayRefuse, VisitStep, TellStep
  <2>2. /\ UNCHANGED <<socket, handler, cleanup, explicit, room, visited>>
        /\ hub' = [hub EXCEPT ![s] = "open"]
        /\ \/ relayed' = relayed
           \/ relayed' = [relayed EXCEPT ![AgentOf[s]] = NoSession]
    BY <1>2 DEF RelayRefuse
  <2> QED BY <2>1, <2>2
<1>3. CASE RelayDisconnectUnknown(s) \/ RelayDisconnectLost(s)
  BY <1>3 DEF RelayDisconnectUnknown, RelayDisconnectLost, VisitStep, TellStep
<1>4. CASE RelayDisconnect(s)
  <2>1. /\ relayed[AgentOf[s]] \in visited
        /\ AgentOf[relayed[AgentOf[s]]] = AgentOf[s]
        /\ AgentOf[s] \in Agents
    BY <1>4 DEF RelayDisconnect
  <2>2. RelayDisconnectMoves(s)
    <3> HIDE DEF TypeOK, Sessions, VisitInv, EntryVisited
    <3> QED BY <1>4, RelayDisconnectStep
  <2>4. VisitStep
    <3> HIDE DEF TypeOK, Sessions, VisitInv, EntryVisited
    <3> QED BY <2>1, <2>2 DEF RelayDisconnectMoves, VisitStep, LeaveStep
  <2>5. \A t \in Sessions : EntryVisited(cleanup[t], AgentOf[t])'
    <3> TAKE t \in Sessions
    <3>1. \/ cleanup'[t] = cleanup[t]
          \/ t = s /\ cleanup'[t] = relayed[AgentOf[s]]
      BY <2>2 DEF RelayDisconnectMoves
    <3>2. EntryVisited(cleanup[t], AgentOf[t]) /\ visited' = visited
      BY <2>2 DEF RelayDisconnectMoves
    <3> QED BY <2>1, <3>1, <3>2
  <2>6. \A b \in Agents : EntryVisited(room[b], b)' /\ EntryVisited(relayed[b], b)'
    BY <2>1, <2>2 DEF RelayDisconnectMoves
  <2>7. \A t \in Relay : hub'[t] = "none" => t \notin visited'
    BY <2>2 DEF RelayDisconnectMoves
  <2> QED BY <2>2, <2>4, <2>5, <2>6, <2>7 DEF RelayDisconnectMoves
<1>5. CASE FinishDisconnect(s)
  <2>1. VisitStep
    BY <1>5 DEF FinishDisconnect, NotifyHubCheckout, VisitStep, TellStep, Told
  <2> QED BY <1>5, <2>1 DEF FinishDisconnect
<1>6. ASSUME NEW k \in Tries, RelayFragmentReady(s, k) PROVE VisitInv' /\ VisitStep
  <2>1. VisitStep
    BY <1>6 DEF RelayFragmentReady, NotifyHubCheckout, VisitStep, TellStep, Told
  <2>2. /\ UNCHANGED <<socket, handler, hub, room, relayed, visited, cleanup>>
        /\ explicit' = [explicit EXCEPT ![s][k] = "notify"]
    BY <1>6 DEF RelayFragmentReady, SetStage
  <2> QED BY <2>1, <2>2
<1>7. ASSUME NEW k \in Tries, RelayNotifySettles(s, k) PROVE VisitInv' /\ VisitStep
  <2>1. VisitStep
    BY <1>7 DEF RelayNotifySettles, RemoveAgent, VisitStep, LeaveStep
  <2>2. /\ UNCHANGED <<socket, handler, hub, visited, cleanup>>
        /\ explicit' = [explicit EXCEPT ![s][k] = "done"]
        /\ room' = [room EXCEPT ![AgentOf[s]] = NoSession]
        /\ relayed' = [relayed EXCEPT ![AgentOf[s]] = NoSession]
    BY <1>7 DEF RelayNotifySettles, RemoveAgent, SetStage
  <2> QED BY <2>1, <2>2
<1> QED BY <1>1, <1>2, <1>3, <1>4, <1>5, <1>6, <1>7 DEF RelayStep, OnAgentConnected

\* Any session's steps, those of its messages included.
LEMMA SessionVisitStep ==
    ASSUME TypeOK, VisitInv, NEW s \in Sessions, SessionStep(s)
    PROVE  VisitInv' /\ VisitStep
<1> USE SessionsAssumption
    DEF TypeOK, Sessions, VisitInv, EntryVisited, conns, maps, jobs, past
<1>1. ASSUME NEW k \in Tries, Checkout(s, k) PROVE VisitInv' /\ VisitStep
  <2>1. VisitStep
    BY <1>1 DEF Checkout, VisitStep, TellStep
  <2>2. /\ UNCHANGED <<socket, handler, hub, room, relayed, visited, cleanup>>
        /\ explicit' = [explicit EXCEPT ![s][k] = "fragment"]
        /\ s \in Direct => s \in visited
    BY <1>1 DEF Checkout, SetStage, Heard
  <2> QED BY <2>1, <2>2
<1>2. CASE Act(s) \/ Say(s) \/ ModeratorAllows(s) \/ ModeratorDrops(s)
  <2>1. UNCHANGED <<socket, handler, hub, room, relayed, explicit, visited, cleanup, reports>>
    BY <1>2 DEF Act, Say, ModeratorAllows, ModeratorDrops
  <2> QED BY <2>1 DEF VisitStep, TellStep
<1>3. CASE ModeratorKicks(s)
  <2>1. CASE UNCHANGED maps
    <3>1. /\ UNCHANGED <<handler, hub, room, relayed, explicit, visited, cleanup, reports>>
          /\ socket' = Closing(s) \/ socket' = socket
      BY <1>3, <2>1 DEF ModeratorKicks
    <3> QED BY <3>1 DEF VisitStep, TellStep, Closing
  <2>2. CASE /\ room' = [room EXCEPT ![AgentOf[s]] = NoSession]
             /\ relayed' = [relayed EXCEPT ![AgentOf[s]] = NoSession]
    <3>1. /\ UNCHANGED <<handler, hub, explicit, visited, cleanup, reports>>
          /\ socket' = Closing(s) \/ socket' = socket
      BY <1>3, <2>2 DEF ModeratorKicks
    <3>2. VisitStep
      BY <2>2, <3>1 DEF VisitStep, LeaveStep
    <3> QED BY <2>2, <3>1, <3>2 DEF Closing
  <2> QED BY <1>3, <2>1, <2>2 DEF ModeratorKicks, RemoveAgent
<1> QED BY <1>1, <1>2, <1>3 DEF SessionStep

\* A recall's steps.
LEMMA RecallVisitStep ==
    ASSUME TypeOK, VisitInv, NEW a \in Agents, Recall(a) \/ FinishRecall(a)
    PROVE  VisitInv' /\ VisitStep
<1> USE SessionsAssumption
    DEF TypeOK, Sessions, VisitInv, EntryVisited, conns, maps, jobs, past
<1>1. CASE Recall(a)
  BY <1>1 DEF Recall, VisitStep, TellStep
<1>2. CASE FinishRecall(a)
  <2>1. VisitStep
    BY <1>2 DEF FinishRecall, RemoveAgent, VisitStep, LeaveStep
  <2>2. /\ UNCHANGED <<handler, hub, explicit, visited, cleanup>>
        /\ room' = [room EXCEPT ![a] = NoSession]
        /\ relayed' = [relayed EXCEPT ![a] = NoSession]
        /\ socket' = socket \/ socket' = Closing(wsConn[a])
    BY <1>2 DEF FinishRecall, RemoveAgent
  <2> QED BY <2>1, <2>2 DEF Closing
<1> QED BY <1>1, <1>2

\* Every step of the server.
LEMMA NextVisitStep == TypeOK /\ VisitInv /\ [Next]_vars => VisitInv' /\ VisitStep
<1>1. ASSUME TypeOK, VisitInv, UNCHANGED vars PROVE VisitInv' /\ VisitStep
  BY <1>1 DEF vars, conns, maps, jobs, past, VisitInv, EntryVisited, VisitStep, TellStep
<1> QED BY <1>1, DirectVisitStep, RelayVisitStep, SessionVisitStep, RecallVisitStep DEF Next
-----------------------------------------------------------------------------
(* What the three kinds of steps do to the ledger *)

Inside == {s \in Sessions : room[AgentOf[s]] = s}
Reported == {s \in Sessions : reports[s] > 0}

\* As many sessions are inside as agents are present: one each.
LEMMA InsideCount ==
    ASSUME TypeOK, VisitInv
    PROVE  /\ IsFiniteSet(Present) /\ IsFiniteSet(Inside)
           /\ Cardinality(Inside) <= Cardinality(Present)
<1> DEFINE f == [s \in Inside |-> AgentOf[s]]
<1>1. IsFiniteSet(Present)
  BY PubAssumption, FS_Subset DEF Present
<1>2. f \in [Inside -> Present]
  BY SessionsAssumption DEF Inside, Present
<1>3. \A s, t \in Inside : f[s] = f[t] => s = t
  BY DEF Inside
<1>4. f \in Injection(Inside, Present)
  BY <1>2, <1>3 DEF Injection, IsInjective
<1> QED BY <1>1, <1>4, FS_Injection

\* A report adds its session to the reported ones, unless it names none.
LEMMA ToldReports ==
    ASSUME TypeOK, NEW id \in Sessions \cup {NoSession}, Told(id)
    PROVE  Reported' = Reported \cup ({id} \cap Sessions)
<1>1. \A s \in Sessions : reports'[s] = IF s = id THEN reports[s] + 1 ELSE reports[s]
  BY DEF TypeOK, Told
<1>2. \A s \in Sessions : reports[s] \in Nat
  BY DEF TypeOK
<1> QED BY <1>1, <1>2 DEF Reported

\* A step that moves nobody maps to a report or to nothing.
LEMMA TellMaps ==
    ASSUME TypeOK, VisitInv, TellStep
    PROVE  [Ledger!Next]_(Ledger!ledger)
<1>1. Inside' = Inside /\ visited' = visited
  BY DEF TellStep, Inside
<1>2. CASE UNCHANGED reports \/ Told(NoSession)
  <2>1. Reported' = Reported
    BY <1>2, ToldReports, SessionsAssumption DEF Reported
  <2> QED BY <1>1, <2>1 DEF Inside, Reported, Ledger!ledger
<1>3. ASSUME NEW s \in visited, Told(s) PROVE Ledger!Next
  <2>1. s \in Sessions
    BY DEF TypeOK
  <2>2. Reported' = Reported \cup {s}
    BY <1>3, <2>1, ToldReports
  <2>3. Ledger!Report(s)
    BY <1>1, <2>2 DEF Ledger!Report, Inside, Reported
  <2> QED BY <2>1, <2>3 DEF Ledger!Next
<1> QED BY <1>2, <1>3 DEF TellStep

\* A step that lets a session in maps to its entry.
LEMMA EnterMaps ==
    ASSUME TypeOK, VisitInv, EnterStep
    PROVE  Ledger!Next
<1>1. PICK s \in Sessions :
          /\ s \notin visited
          /\ ~AtCapacity
          /\ AgentOf[s] \notin Banned
          /\ room' = [room EXCEPT ![AgentOf[s]] = s]
          /\ visited' = visited \cup {s}
          /\ UNCHANGED reports
  BY DEF EnterStep
<1>2. Cardinality(Inside) < Capacity
  <2>1. Cardinality(Present) \in Nat /\ Cardinality(Inside) \in Nat
    BY InsideCount, FS_CardinalityType
  <2> QED BY <1>1, <2>1, InsideCount, PubAssumption DEF AtCapacity
<1>3. Inside' = (Inside \ Ledger!SameAgent(s)) \cup {s}
  BY <1>1, SessionsAssumption DEF Inside, TypeOK, Ledger!SameAgent
<1>4. Reported' = Reported
  BY <1>1 DEF Reported
<1>5. Ledger!Cardinality(Inside) = Cardinality(Inside)
  BY DEF Ledger!Cardinality, Cardinality
<1>6. Ledger!Enter(s)
  BY <1>1, <1>2, <1>3, <1>4, <1>5, Zenon DEF Ledger!Enter, Inside, Reported
<1> QED BY <1>6 DEF Ledger!Next

\* A step that takes an agent out maps to a departure or, with its report, to a
\* checkout; if the agent was not in and nothing is reported, to nothing.
LEMMA LeaveMaps ==
    ASSUME TypeOK, VisitInv, LeaveStep
    PROVE  [Ledger!Next]_(Ledger!ledger)
<1>1. PICK a \in Agents :
          /\ room' = [room EXCEPT ![a] = NoSession]
          /\ UNCHANGED visited
          /\ \/ UNCHANGED reports
             \/ \E s \in visited : AgentOf[s] = a /\ Told(s)
  BY DEF LeaveStep
<1>2. Inside' = {s \in Inside : AgentOf[s] # a}
  BY <1>1, SessionsAssumption DEF Inside, TypeOK
<1>3. CASE UNCHANGED reports /\ room[a] = NoSession
  <2>1. Inside' = Inside
    BY <1>1, <1>3, SessionsAssumption DEF Inside, TypeOK
  <2> QED BY <1>1, <1>3, <2>1 DEF Inside, Ledger!ledger
<1>4. CASE UNCHANGED reports /\ room[a] # NoSession
  <2>1. PICK s \in Sessions : s = room[a]
    BY <1>4 DEF TypeOK
  <2>2. AgentOf[s] = a
    BY <1>4, <2>1 DEF VisitInv, EntryVisited
  <2>3. Inside' = Inside \ {s}
    BY <1>2, <2>1, <2>2 DEF Inside
  <2>4. Reported' = Reported
    BY <1>4 DEF Reported
  <2>5. Ledger!Depart(s)
    BY <1>1, <2>3, <2>4, Zenon DEF Ledger!Depart, Inside, Reported
  <2> QED BY <2>5 DEF Ledger!Next
<1>5. ASSUME NEW s \in visited, AgentOf[s] = a, Told(s) PROVE Ledger!Next
  <2>1. s \in Sessions
    BY DEF TypeOK
  <2>2. Reported' = Reported \cup {s}
    BY <1>5, <2>1, ToldReports
  <2>3. Inside' = Inside \ Ledger!SameAgent(s)
    BY <1>2, <1>5 DEF Inside, Ledger!SameAgent
  <2>4. Ledger!CheckOut(s)
    BY <1>1, <2>2, <2>3 DEF Ledger!CheckOut, Inside, Reported
  <2> QED BY <2>1, <2>4 DEF Ledger!Next
<1> QED BY <1>1, <1>3, <1>4, <1>5

\* The pub's handlers keep the ledger of visits.
THEOREM LedgerTheorem == Spec => KeepsLedger
<1>1. Init => VisitInv /\ Ledger!Init
  <2> SUFFICES ASSUME Init PROVE VisitInv /\ Ledger!Init
    OBVIOUS
  <2>1. VisitInv
    BY SessionsAssumption DEF Init, VisitInv, EntryVisited, Sessions
  <2>2. Ledger!Init
    BY SessionsAssumption DEF Init, Ledger!Init, Sessions
  <2> QED BY <2>1, <2>2
<1>2. TypeOK /\ VisitInv /\ [Next]_vars => VisitInv' /\ [Ledger!Next]_(Ledger!ledger)
  BY NextVisitStep, TellMaps, EnterMaps, LeaveMaps DEF VisitStep
<1> QED BY <1>1, <1>2, TypeCorrect, PTL DEF Spec, KeepsLedger, Ledger!Spec

-----------------------------------------------------------------------------
(* What a kept ledger means *)

LedgerInv ==
    /\ IsFiniteSet(Inside) /\ Cardinality(Inside) <= Capacity
    /\ Inside \subseteq visited
    /\ Reported \subseteq visited
    /\ \A s \in visited : s \in Sessions /\ AgentOf[s] \notin Banned

\* Taking sessions out of the room keeps it within the capacity.
LEMMA FewerInside ==
    ASSUME LedgerInv, Inside' \subseteq Inside
    PROVE  IsFiniteSet(Inside') /\ Cardinality(Inside') <= Capacity
<1>1. IsFiniteSet(Inside') /\ Cardinality(Inside') <= Cardinality(Inside)
  BY FS_Subset DEF LedgerInv
<1>2. Cardinality(Inside') \in Nat /\ Cardinality(Inside) \in Nat
  BY <1>1, FS_CardinalityType DEF LedgerInv
<1> QED BY <1>1, <1>2, PubAssumption DEF LedgerInv

\* Every entry of the ledger keeps it in order.
LEMMA LedgerStep == LedgerInv /\ [Ledger!Next]_(Ledger!ledger) => LedgerInv'
<1> SUFFICES ASSUME LedgerInv, [Ledger!Next]_(Ledger!ledger) PROVE LedgerInv'
  OBVIOUS
<1>1. ASSUME NEW s \in Sessions, Ledger!Enter(s) PROVE LedgerInv'
  <2> DEFINE Others == Inside \ Ledger!SameAgent(s)
  <2>1. /\ s \notin visited /\ AgentOf[s] \notin Banned
        /\ Ledger!Cardinality(Inside) < Capacity
        /\ Inside' = Others \cup {s}
        /\ visited' = visited \cup {s} /\ Reported' = Reported
    BY <1>1, Zenon DEF Ledger!Enter, Inside, Reported
  <2>2. Ledger!Cardinality(Inside) = Cardinality(Inside)
    BY DEF Ledger!Cardinality, Cardinality
  <2>3. IsFiniteSet(Others) /\ Cardinality(Others) <= Cardinality(Inside)
    BY FS_Subset DEF LedgerInv
  <2>4. s \notin Others
    BY <2>1 DEF LedgerInv
  <2>5. IsFiniteSet(Inside') /\ Cardinality(Inside') = Cardinality(Others) + 1
    BY <2>1, <2>3, <2>4, FS_AddElement
  <2>6. Cardinality(Inside) \in Nat /\ Cardinality(Others) \in Nat
    BY <2>3, FS_CardinalityType DEF LedgerInv
  <2>7. Cardinality(Inside) < Capacity
    BY <2>1, <2>2
  <2>8. Cardinality(Inside') <= Capacity
    BY <2>3, <2>5, <2>6, <2>7, PubAssumption
  <2> HIDE DEF Others
  <2>9. Others \subseteq Inside
    BY DEF Others
  <2> QED BY <2>1, <2>5, <2>8, <2>9 DEF LedgerInv
<1>2. ASSUME NEW s \in Sessions, Ledger!Depart(s) PROVE LedgerInv'
  <2>1. Inside' = Inside \ {s} /\ visited' = visited /\ Reported' = Reported
    BY <1>2, Zenon DEF Ledger!Depart, Inside, Reported
  <2> QED BY <2>1, FewerInside DEF LedgerInv
<1>3. ASSUME NEW s \in Sessions, Ledger!Report(s) PROVE LedgerInv'
  <2>1. /\ s \in visited
        /\ Inside' = Inside /\ visited' = visited /\ Reported' = Reported \cup {s}
    BY <1>3, Zenon DEF Ledger!Report, Inside, Reported
  <2> QED BY <2>1, FewerInside DEF LedgerInv
<1>4. ASSUME NEW s \in Sessions, Ledger!CheckOut(s) PROVE LedgerInv'
  <2>1. /\ s \in visited
        /\ Inside' = Inside \ Ledger!SameAgent(s)
        /\ visited' = visited /\ Reported' = Reported \cup {s}
    BY <1>4, Zenon DEF Ledger!CheckOut, Inside, Reported
  <2> QED BY <2>1, FewerInside DEF LedgerInv
<1>5. CASE UNCHANGED Ledger!ledger
  <2>1. Inside' = Inside /\ visited' = visited /\ Reported' = Reported
    BY <1>5, Zenon DEF Ledger!ledger, Inside, Reported
  <2> QED BY <2>1, FewerInside DEF LedgerInv
<1> QED BY <1>1, <1>2, <1>3, <1>4, <1>5 DEF Ledger!Next

\* Whatever the transport, the sessions inside entered and are no more than the pub
\* holds, no banned agent ever entered, and the hub is told the end of no session
\* that did not enter: all of it follows from the ledger alone.
THEOREM LedgerMeaning == Spec => []LedgerInv
<1>1. Ledger!Init => LedgerInv
  <2> SUFFICES ASSUME Ledger!Init PROVE LedgerInv
    OBVIOUS
  <2>1. Inside = {} /\ visited = {} /\ Reported = {}
    BY Zenon DEF Ledger!Init, Inside, Reported
  <2> QED BY <2>1, FS_EmptySet, PubAssumption DEF LedgerInv
<1> QED BY <1>1, LedgerStep, LedgerTheorem, PTL DEF KeepsLedger, Ledger!Spec
=============================================================================
