--------------------------- MODULE PubServerProofs ---------------------------
(***************************************************************************)
(* Proofs about PubServer, for any agents, sessions, bans and capacity.    *)
(* The argument about the room rests on one classification of the steps:   *)
(* a step leaves the three maps alone, gives one session a slot, takes one *)
(* agent out together with a channel of its own, or refuses a banned one.  *)
(***************************************************************************)
EXTENDS PubServer, FiniteSetTheorems, TLAPS

-----------------------------------------------------------------------------
(* Type correctness *)

\* The initial state is well typed.
LEMMA InitTypeOK == Init => TypeOK
  BY SessionsAssumption, PubAssumption DEF Init, TypeOK, Sessions, Stages

\* The steps of a direct connection, its close handler included, keep types.
LEMMA ConnectionTypeOK ==
    ASSUME TypeOK, NEW s \in Direct,
           \/ RefuseHeaders(s) \/ Connect(s) \/ Reject(s) \/ Admit(s)
           \/ PeerCloses(s) \/ Terminate(s)
           \/ CloseUnheard(s) \/ OnCloseAutoCheckout(s) \/ OnCloseRemove(s)
           \/ FinishClose(s)
    PROVE  TypeOK'
<1> USE SessionsAssumption DEF TypeOK, Sessions, conns, maps, jobs, past
<1>1. CASE RefuseHeaders(s) BY <1>1 DEF RefuseHeaders
<1>2. CASE Connect(s) BY <1>2 DEF Connect
<1>3. CASE Reject(s) BY <1>3 DEF Reject, Closing
<1>4. CASE Admit(s) BY <1>4 DEF Admit, AddAgent
<1>5. CASE PeerCloses(s) BY <1>5 DEF PeerCloses, Closing
<1>6. CASE Terminate(s) BY <1>6 DEF Terminate, Closing
<1>7. CASE CloseUnheard(s) BY <1>7 DEF CloseUnheard
<1>8. CASE OnCloseAutoCheckout(s) BY <1>8 DEF OnCloseAutoCheckout
<1>9. CASE OnCloseRemove(s) BY <1>9 DEF OnCloseRemove, RemoveAgent
<1>10. CASE FinishClose(s) BY <1>10 DEF FinishClose, RemoveAgent, NotifyHubCheckout
<1> QED BY <1>1, <1>2, <1>3, <1>4, <1>5, <1>6, <1>7, <1>8, <1>9, <1>10

\* The steps of an explicit checkout keep types.
LEMMA CheckoutTypeOK ==
    ASSUME TypeOK, NEW s \in Sessions, NEW k \in Tries,
           \/ Checkout(s, k)
           \/ s \in Direct /\ (FragmentReady(s, k) \/ NotifySettles(s, k) \/ FragmentSent(s, k))
           \/ s \in Relay /\ (RelayFragmentReady(s, k) \/ RelayNotifySettles(s, k))
    PROVE  TypeOK'
<1> USE SessionsAssumption DEF TypeOK, Sessions, Stages, SetStage, conns, maps, jobs, past
<1>1. CASE Checkout(s, k) BY <1>1 DEF Checkout
<1>2. CASE s \in Direct /\ FragmentReady(s, k)
  BY <1>2 DEF FragmentReady, NotifyHubCheckout
<1>3. CASE s \in Direct /\ NotifySettles(s, k) BY <1>3 DEF NotifySettles
<1>4. CASE s \in Direct /\ FragmentSent(s, k) BY <1>4 DEF FragmentSent, Closing
<1>5. CASE s \in Relay /\ RelayFragmentReady(s, k)
  BY <1>5 DEF RelayFragmentReady, NotifyHubCheckout
<1>6. CASE s \in Relay /\ RelayNotifySettles(s, k)
  BY <1>6 DEF RelayNotifySettles, RemoveAgent
<1> QED BY <1>1, <1>2, <1>3, <1>4, <1>5, <1>6

\* The callbacks of the relay keep types.
LEMMA RelayTypeOK ==
    ASSUME TypeOK, NEW s \in Relay,
           \/ RelayConnect(s) \/ RelayRefuse(s)
           \/ RelayDisconnectUnknown(s) \/ RelayDisconnectLost(s)
           \/ RelayDisconnect(s) \/ FinishDisconnect(s)
    PROVE  TypeOK'
<1> USE SessionsAssumption DEF TypeOK, Sessions, conns, maps, jobs, past
<1>1. CASE RelayConnect(s) BY <1>1 DEF RelayConnect, AddAgent
<1>2. CASE RelayRefuse(s) BY <1>2 DEF RelayRefuse
<1>3. CASE RelayDisconnectUnknown(s) \/ RelayDisconnectLost(s)
  BY <1>3 DEF RelayDisconnectUnknown, RelayDisconnectLost
<1>4. CASE RelayDisconnect(s)
  <2> DEFINE a == AgentOf[s]
  <2>1. relayed[a] \in Sessions \cup {NoSession}
    OBVIOUS
  <2>2. cleanup' \in [Sessions -> Sessions \cup {NoSession}]
    BY <1>4, <2>1 DEF RelayDisconnect
  <2>3. reports' \in [Sessions \cup {NoSession} -> Nat]
    BY <1>4, <2>1 DEF RelayDisconnect, NotifyHubCheckout
  <2> QED BY <1>4, <2>2, <2>3 DEF RelayDisconnect, RemoveAgent
<1>5. CASE FinishDisconnect(s) BY <1>5 DEF FinishDisconnect, NotifyHubCheckout
<1> QED BY <1>1, <1>2, <1>3, <1>4, <1>5

\* Messages, moderation and recalls keep types.
LEMMA MessageTypeOK ==
    ASSUME TypeOK, NEW s \in Sessions,
           \/ Act(s) \/ Say(s)
           \/ ModeratorAllows(s) \/ ModeratorDrops(s) \/ ModeratorKicks(s)
    PROVE  TypeOK'
<1> USE SessionsAssumption
    DEF TypeOK, Sessions, Present, conns, maps, jobs, past
<1>1. CASE Act(s) BY <1>1 DEF Act, AddMessage
<1>2. CASE Say(s) BY <1>2 DEF Say
<1>3. CASE ModeratorAllows(s) BY <1>3 DEF ModeratorAllows, AddMessage
<1>4. CASE ModeratorDrops(s) BY <1>4 DEF ModeratorDrops
<1>5. CASE ModeratorKicks(s)
  <2>1. CASE s \in Direct BY <1>5, <2>1 DEF ModeratorKicks, Closing
  <2>2. CASE s \in Relay
    <3>1. /\ RemoveAgent(AgentOf[s])
          /\ relayed' = [relayed EXCEPT ![AgentOf[s]] = NoSession]
          /\ expelled' = expelled \cup {AgentOf[s]}
          /\ moderating' = moderating \ {s}
          /\ UNCHANGED <<socket, wsConn, handler, hub, checkoutInProgress,
                         explicit, cleanup, recalling, reports, visited>>
      BY <1>5, <2>2 DEF ModeratorKicks
    <3> QED BY <3>1 DEF RemoveAgent
  <2> QED BY <2>1, <2>2
<1> QED BY <1>1, <1>2, <1>3, <1>4, <1>5

\* The steps of a recall keep types.
LEMMA RecallTypeOK ==
    ASSUME TypeOK, NEW a \in Agents, Recall(a) \/ FinishRecall(a)
    PROVE  TypeOK'
<1> USE SessionsAssumption DEF TypeOK, Sessions, conns, maps, jobs, past
<1>1. CASE Recall(a) BY <1>1 DEF Recall
<1>2. CASE FinishRecall(a) BY <1>2 DEF FinishRecall, RemoveAgent, Closing
<1> QED BY <1>1, <1>2

\* Every step keeps types.
LEMMA NextTypeOK == TypeOK /\ [Next]_vars => TypeOK'
<1> SUFFICES ASSUME TypeOK, [Next]_vars PROVE TypeOK'
  OBVIOUS
<1>1. ASSUME NEW s \in Direct, DirectStep(s) PROVE TypeOK'
  BY <1>1, ConnectionTypeOK, CheckoutTypeOK DEF DirectStep, Sessions
<1>2. ASSUME NEW s \in Relay, RelayStep(s) PROVE TypeOK'
  BY <1>2, RelayTypeOK, CheckoutTypeOK DEF RelayStep, OnAgentConnected, Sessions
<1>3. ASSUME NEW s \in Sessions, SessionStep(s) PROVE TypeOK'
  BY <1>3, MessageTypeOK, CheckoutTypeOK DEF SessionStep
<1>4. CASE UNCHANGED vars
  BY <1>4 DEF vars, conns, maps, jobs, past, TypeOK
<1> QED BY <1>1, <1>2, <1>3, <1>4, RecallTypeOK DEF Next

\* Every reachable state is well typed.
THEOREM TypeCorrect == Spec => []TypeOK
<1> QED BY InitTypeOK, NextTypeOK, PTL DEF Spec
-----------------------------------------------------------------------------
(* How a step can change the room and the two connection maps *)

MapsUntouched == UNCHANGED <<room, wsConn, relayed>>

\* One session of an agent that is not banned takes a slot, below capacity
Seats(s) ==
    /\ ~AtCapacity
    /\ AgentOf[s] \notin Banned
    /\ room' = [room EXCEPT ![AgentOf[s]] = s]
    /\ \/ /\ s \in Direct
          /\ wsConn' = [wsConn EXCEPT ![AgentOf[s]] = s]
          /\ relayed' = relayed
       \/ /\ s \in Relay
          /\ relayed' = [relayed EXCEPT ![AgentOf[s]] = s]
          /\ wsConn' = wsConn

\* An agent leaves the room and loses the entry of one transport or of both
Unseats(a) ==
    /\ room' = [room EXCEPT ![a] = NoSession]
    /\ wsConn' = wsConn \/ wsConn' = [wsConn EXCEPT ![a] = NoSession]
    /\ relayed' = relayed \/ relayed' = [relayed EXCEPT ![a] = NoSession]
    /\ wsConn'[a] = NoSession \/ relayed'[a] = NoSession

\* A banned agent's relay entry is deleted
Refuses(a) ==
    /\ a \in Banned
    /\ UNCHANGED <<room, wsConn>>
    /\ relayed' = [relayed EXCEPT ![a] = NoSession]

RoomStep ==
    \/ MapsUntouched
    \/ \E s \in Sessions : Seats(s)
    \/ \E a \in Agents : Unseats(a) \/ Refuses(a)

\* The classification of the steps of the two transports' own handlers.
LEMMA DirectRoomStep ==
    ASSUME TypeOK, NEW s \in Direct, DirectStep(s)
    PROVE  RoomStep
<1> USE SessionsAssumption DEF TypeOK, Sessions, maps
<1>1. CASE Admit(s) BY <1>1 DEF Admit, AddAgent, Seats, RoomStep
<1>2. CASE OnCloseRemove(s)
  BY <1>2 DEF OnCloseRemove, RemoveAgent, Unseats, RoomStep
<1>3. CASE FinishClose(s)
  BY <1>3 DEF FinishClose, RemoveAgent, Unseats, RoomStep
<1>4. CASE \/ RefuseHeaders(s) \/ Connect(s) \/ Reject(s)
           \/ PeerCloses(s) \/ Terminate(s) \/ CloseUnheard(s)
           \/ OnCloseAutoCheckout(s)
  BY <1>4 DEF RefuseHeaders, Connect, Reject, PeerCloses, Terminate,
              CloseUnheard, OnCloseAutoCheckout, MapsUntouched, RoomStep
<1>5. CASE \E k \in Tries :
              FragmentReady(s, k) \/ NotifySettles(s, k) \/ FragmentSent(s, k)
  BY <1>5 DEF FragmentReady, NotifySettles, FragmentSent, MapsUntouched, RoomStep
<1> QED BY <1>1, <1>2, <1>3, <1>4, <1>5 DEF DirectStep

\* What the steps of a relayed session do to room and maps.
LEMMA RelayRoomStep ==
    ASSUME TypeOK, NEW s \in Relay, RelayStep(s)
    PROVE  RoomStep
<1> USE SessionsAssumption DEF TypeOK, Sessions, maps
<1>1. CASE RelayConnect(s) BY <1>1 DEF RelayConnect, AddAgent, Seats, RoomStep
<1>2. CASE RelayRefuse(s)
  BY <1>2 DEF RelayRefuse, Refuses, MapsUntouched, RoomStep
<1>3. CASE RelayDisconnect(s)
  <2>1. Unseats(AgentOf[s])
    BY <1>3 DEF RelayDisconnect, RemoveAgent, Unseats
  <2> QED BY <2>1 DEF RoomStep
<1>4. CASE RelayDisconnectUnknown(s) \/ RelayDisconnectLost(s) \/ FinishDisconnect(s)
  BY <1>4 DEF RelayDisconnectUnknown, RelayDisconnectLost, FinishDisconnect, MapsUntouched, RoomStep
<1>5. ASSUME NEW k \in Tries, RelayFragmentReady(s, k) PROVE RoomStep
  BY <1>5 DEF RelayFragmentReady, MapsUntouched, RoomStep
<1>6. ASSUME NEW k \in Tries, RelayNotifySettles(s, k) PROVE RoomStep
  BY <1>6 DEF RelayNotifySettles, RemoveAgent, Unseats, RoomStep
<1> QED BY <1>1, <1>2, <1>3, <1>4, <1>5, <1>6 DEF RelayStep, OnAgentConnected

\* The classification holds of every step.
LEMMA NextRoomStep == TypeOK /\ [Next]_vars => RoomStep
<1> SUFFICES ASSUME TypeOK, [Next]_vars PROVE RoomStep
  OBVIOUS
<1>1. ASSUME NEW s \in Sessions, SessionStep(s) PROVE RoomStep
  <2>1. CASE ModeratorKicks(s) /\ s \in Relay
    <3>1. Unseats(AgentOf[s])
      BY <2>1, SessionsAssumption
      DEF ModeratorKicks, RemoveAgent, Unseats, TypeOK
    <3> QED BY <3>1, SessionsAssumption DEF RoomStep
  <2>2. CASE ModeratorKicks(s) /\ s \notin Relay
    BY <2>2 DEF ModeratorKicks, maps, MapsUntouched, RoomStep
  <2>3. CASE Act(s) \/ Say(s) \/ ModeratorAllows(s) \/ ModeratorDrops(s)
    BY <2>3 DEF Act, Say, ModeratorAllows, ModeratorDrops, maps, MapsUntouched, RoomStep
  <2>4. CASE \E k \in Tries : Checkout(s, k)
    BY <2>4 DEF Checkout, maps, MapsUntouched, RoomStep
  <2> QED BY <1>1, <2>1, <2>2, <2>3, <2>4 DEF SessionStep
<1>2. ASSUME NEW a \in Agents, Recall(a) PROVE RoomStep
  BY <1>2 DEF Recall, maps, MapsUntouched, RoomStep
<1>3. ASSUME NEW a \in Agents, FinishRecall(a) PROVE RoomStep
  BY <1>3 DEF FinishRecall, RemoveAgent, Unseats, RoomStep, TypeOK
<1>4. CASE UNCHANGED vars
  BY <1>4 DEF vars, maps, MapsUntouched, RoomStep
<1> QED BY <1>1, <1>2, <1>3, <1>4, DirectRoomStep, RelayRoomStep DEF Next

-----------------------------------------------------------------------------
(* Capacity, bans and channels *)

\* A step that seats a session adds one agent at most, and only below capacity.
LEMMA CapacityStep == TypeOK /\ CapacityRespected /\ RoomStep => CapacityRespected'
<1> SUFFICES ASSUME TypeOK, CapacityRespected, RoomStep
             PROVE  CapacityRespected'
  OBVIOUS
<1> USE SessionsAssumption, PubAssumption DEF CapacityRespected
<1>1. IsFiniteSet(Present) /\ Cardinality(Present) \in Nat
  BY FS_Subset, FS_CardinalityType DEF Present
<1>2. ASSUME Present' \subseteq Present PROVE CapacityRespected'
  <2>1. Cardinality(Present') <= Cardinality(Present) /\ Cardinality(Present') \in Nat
    BY <1>1, <1>2, FS_Subset, FS_CardinalityType
  <2> QED BY <2>1, <1>1
<1>3. ASSUME NEW s \in Sessions, Seats(s) PROVE CapacityRespected'
  <2> DEFINE T == Present \cup {AgentOf[s]}
  <2>1. Present' \subseteq T
    BY <1>3 DEF Seats, Present, TypeOK
  <2>a. /\ IsFiniteSet(T)
        /\ Cardinality(T) = IF AgentOf[s] \in Present THEN Cardinality(Present)
                                                      ELSE Cardinality(Present) + 1
    BY <1>1, FS_AddElement, Zenon
  <2>2. IsFiniteSet(T) /\ Cardinality(T) <= Cardinality(Present) + 1
    BY <1>1, <2>a
  <2>3. Cardinality(Present') <= Cardinality(T) /\ Cardinality(Present') \in Nat
    BY <2>1, <2>2, FS_Subset, FS_CardinalityType
  <2>4. Cardinality(T) \in Nat
    BY <2>2, FS_CardinalityType
  <2>5. Cardinality(Present) < Capacity
    BY <1>1, <1>3 DEF Seats, AtCapacity
  <2> QED BY <1>1, <2>2, <2>3, <2>4, <2>5
<1>4. ASSUME NEW a \in Agents, Unseats(a) PROVE CapacityRespected'
  BY <1>2, <1>4 DEF Unseats, Present, TypeOK
<1>5. CASE MapsUntouched \/ \E a \in Agents : Refuses(a)
  <2>1. room' = room
    BY <1>5 DEF MapsUntouched, Refuses
  <2> QED BY <1>2, <2>1 DEF Present
<1> QED BY <1>3, <1>4, <1>5 DEF RoomStep

\* None of these steps lets a banned agent in.
LEMMA BanStep == TypeOK /\ BannedStayOut /\ RoomStep => BannedStayOut'
<1> SUFFICES ASSUME TypeOK, BannedStayOut, RoomStep, NEW b \in Banned
             PROVE  /\ room'[b] = NoSession
                    /\ wsConn'[b] = NoSession
                    /\ relayed'[b] = NoSession
  BY DEF BannedStayOut
<1> USE SessionsAssumption, PubAssumption DEF TypeOK
<1>0. room[b] = NoSession /\ wsConn[b] = NoSession /\ relayed[b] = NoSession
  BY DEF BannedStayOut
<1>1. ASSUME NEW s \in Sessions, Seats(s)
      PROVE  room'[b] = NoSession /\ wsConn'[b] = NoSession /\ relayed'[b] = NoSession
  BY <1>0, <1>1 DEF Seats
<1>2. ASSUME NEW a \in Agents, Unseats(a) \/ Refuses(a)
      PROVE  room'[b] = NoSession /\ wsConn'[b] = NoSession /\ relayed'[b] = NoSession
  BY <1>0, <1>2 DEF Unseats, Refuses
<1> QED BY <1>0, <1>1, <1>2 DEF RoomStep, MapsUntouched

\* After each of these steps every slot still has its channel.
LEMMA ChannelStep ==
    TypeOK /\ BannedStayOut /\ RoomMatchesAChannel /\ RoomStep => RoomMatchesAChannel'
<1> SUFFICES ASSUME TypeOK, BannedStayOut, RoomMatchesAChannel, RoomStep, NEW a \in Agents
             PROVE  room'[a] = wsConn'[a] \/ room'[a] = relayed'[a]
  BY DEF RoomMatchesAChannel
<1> USE SessionsAssumption, PubAssumption DEF TypeOK
<1>0. room[a] = wsConn[a] \/ room[a] = relayed[a]
  BY DEF RoomMatchesAChannel
<1>1. ASSUME NEW s \in Sessions, Seats(s)
      PROVE  room'[a] = wsConn'[a] \/ room'[a] = relayed'[a]
  BY <1>0, <1>1 DEF Seats, Sessions
<1>2. ASSUME NEW b \in Agents, Unseats(b)
      PROVE  room'[a] = wsConn'[a] \/ room'[a] = relayed'[a]
  BY <1>0, <1>2 DEF Unseats
<1>3. ASSUME NEW b \in Agents, Refuses(b)
      PROVE  room'[a] = wsConn'[a] \/ room'[a] = relayed'[a]
  BY <1>0, <1>3 DEF Refuses, BannedStayOut
<1> QED BY <1>0, <1>1, <1>2, <1>3 DEF RoomStep, MapsUntouched

RoomInv == TypeOK /\ CapacityRespected /\ BannedStayOut /\ RoomMatchesAChannel

\* In every reachable state room and maps agree and the checks were made.
LEMMA RoomInvariant == Spec => []RoomInv
<1>1. Init => RoomInv
  <2> SUFFICES ASSUME Init PROVE RoomInv
    OBVIOUS
  <2>1. Present = {} BY DEF Init, Present
  <2>2. CapacityRespected
    BY <2>1, FS_EmptySet, PubAssumption DEF CapacityRespected
  <2>3. BannedStayOut /\ RoomMatchesAChannel
    BY PubAssumption DEF Init, BannedStayOut, RoomMatchesAChannel
  <2> QED BY <2>2, <2>3, InitTypeOK DEF RoomInv
<1>2. RoomInv /\ [Next]_vars => RoomInv'
  BY NextTypeOK, NextRoomStep, CapacityStep, BanStep, ChannelStep DEF RoomInv
<1> QED BY <1>1, <1>2, PTL DEF Spec

\* The room never holds more agents than the capacity, over both transports.
THEOREM CapacityTheorem == Spec => []CapacityRespected
<1>1. RoomInv => CapacityRespected BY DEF RoomInv
<1> QED BY <1>1, RoomInvariant, PTL

\* No banned agent ever holds a slot or a channel.
THEOREM BanTheorem == Spec => []BannedStayOut
<1>1. RoomInv => BannedStayOut BY DEF RoomInv
<1> QED BY <1>1, RoomInvariant, PTL

\* Whoever holds a slot is registered under the same session with a transport.
THEOREM ChannelTheorem == Spec => []RoomMatchesAChannel
<1>1. RoomInv => RoomMatchesAChannel BY DEF RoomInv
<1> QED BY <1>1, RoomInvariant, PTL
-----------------------------------------------------------------------------
(* The flag of explicit checkouts *)

InFlight == {"fragment", "notify", "send"}

\* A step leaves flag and stages alone, moves one checkout to a stage that is
\* still in flight, or ends one and takes its agent's flag down.
FlagStep ==
    \/ UNCHANGED <<checkoutInProgress, explicit>>
    \/ \E s \in Sessions, k \in Tries, stage \in InFlight :
        /\ explicit' = [explicit EXCEPT ![s][k] = stage]
        /\ checkoutInProgress' \subseteq checkoutInProgress \cup {AgentOf[s]}
        /\ explicit[s][k] \notin InFlight
              \/ checkoutInProgress' = checkoutInProgress
    \/ \E s \in Sessions, k \in Tries :
        /\ explicit' = [explicit EXCEPT ![s][k] = "done"]
        /\ checkoutInProgress' = checkoutInProgress \ {AgentOf[s]}

\* Every step is of one of these kinds.
LEMMA NextFlagStep == TypeOK /\ [Next]_vars => FlagStep
<1> SUFFICES ASSUME TypeOK, [Next]_vars PROVE FlagStep
  OBVIOUS
<1> USE DEF InFlight, FlagStep, SetStage, jobs
<1>1. ASSUME NEW s \in Sessions, NEW k \in Tries, Checkout(s, k) PROVE FlagStep
  BY <1>1 DEF Checkout
<1>2. ASSUME NEW s \in Sessions, NEW k \in Tries,
             FragmentReady(s, k) \/ NotifySettles(s, k) \/ RelayFragmentReady(s, k)
      PROVE  FlagStep
  BY <1>2 DEF FragmentReady, NotifySettles, RelayFragmentReady
<1>3. ASSUME NEW s \in Sessions, NEW k \in Tries,
             FragmentSent(s, k) \/ RelayNotifySettles(s, k)
      PROVE  FlagStep
  BY <1>3 DEF FragmentSent, RelayNotifySettles
<1>4. ASSUME NEW s \in Direct, DirectStep(s) PROVE FlagStep
  <2>1. CASE \/ RefuseHeaders(s) \/ Connect(s) \/ Reject(s) \/ Admit(s)
             \/ PeerCloses(s) \/ Terminate(s) \/ CloseUnheard(s)
             \/ OnCloseAutoCheckout(s) \/ OnCloseRemove(s) \/ FinishClose(s)
    BY <2>1 DEF RefuseHeaders, Connect, Reject, Admit, PeerCloses, Terminate,
                CloseUnheard, OnCloseAutoCheckout, OnCloseRemove, FinishClose
  <2> QED BY <1>2, <1>3, <1>4, <2>1 DEF DirectStep, Sessions
<1>5. ASSUME NEW s \in Relay, RelayStep(s) PROVE FlagStep
  <2>1. CASE \/ RelayConnect(s) \/ RelayRefuse(s) \/ RelayDisconnectUnknown(s)
             \/ RelayDisconnectLost(s) \/ RelayDisconnect(s) \/ FinishDisconnect(s)
    BY <2>1 DEF RelayConnect, RelayRefuse, RelayDisconnectUnknown,
                RelayDisconnectLost, RelayDisconnect, FinishDisconnect
  <2> QED BY <1>2, <1>3, <1>5, <2>1 DEF RelayStep, OnAgentConnected, Sessions
<1>6. ASSUME NEW s \in Sessions, SessionStep(s) PROVE FlagStep
  <2>1. CASE \/ Act(s) \/ Say(s)
             \/ ModeratorAllows(s) \/ ModeratorDrops(s) \/ ModeratorKicks(s)
    BY <2>1 DEF Act, Say, ModeratorAllows, ModeratorDrops, ModeratorKicks
  <2> QED BY <1>1, <1>6, <2>1 DEF SessionStep
<1>7. ASSUME NEW a \in Agents, Recall(a) \/ FinishRecall(a) PROVE FlagStep
  BY <1>7 DEF Recall, FinishRecall
<1>8. CASE UNCHANGED vars
  BY <1>8 DEF vars
<1> QED BY <1>4, <1>5, <1>6, <1>7, <1>8 DEF Next

\* None of these kinds leaves the flag up without a handler in flight.
LEMMA FlagInductive == TypeOK /\ CheckoutFlagOwned /\ FlagStep => CheckoutFlagOwned'
<1> SUFFICES ASSUME TypeOK, CheckoutFlagOwned, FlagStep,
                    NEW a \in checkoutInProgress'
             PROVE  \E t \in Sessions, j \in Tries :
                        AgentOf[t] = a /\ explicit'[t][j] \in InFlight
  BY DEF CheckoutFlagOwned, CheckoutInFlight, InFlight
<1> USE SessionsAssumption
<1>0. ASSUME a \in checkoutInProgress
      PROVE  \E t \in Sessions, j \in Tries :
                 AgentOf[t] = a /\ explicit[t][j] \in InFlight
  BY <1>0 DEF CheckoutFlagOwned, CheckoutInFlight, InFlight
<1>1. CASE UNCHANGED <<checkoutInProgress, explicit>>
  BY <1>0, <1>1
<1>2. ASSUME NEW s \in Sessions, NEW k \in Tries, NEW stage \in InFlight,
             explicit' = [explicit EXCEPT ![s][k] = stage],
             checkoutInProgress' \subseteq checkoutInProgress \cup {AgentOf[s]}
      PROVE  \E t \in Sessions, j \in Tries :
                 AgentOf[t] = a /\ explicit'[t][j] \in InFlight
  <2>1. CASE a = AgentOf[s]
    <3>1. explicit'[s][k] \in InFlight
      BY <1>2 DEF TypeOK
    <3> QED BY <2>1, <3>1
  <2>2. CASE a # AgentOf[s]
    <3>1. PICK t \in Sessions, j \in Tries :
              AgentOf[t] = a /\ explicit[t][j] \in InFlight
      BY <1>0, <1>2, <2>2
    <3>2. explicit'[t] = explicit[t]
      BY <1>2, <2>2, <3>1 DEF TypeOK
    <3> QED BY <3>1, <3>2
  <2> QED BY <2>1, <2>2
<1>3. ASSUME NEW s \in Sessions, NEW k \in Tries,
             explicit' = [explicit EXCEPT ![s][k] = "done"],
             checkoutInProgress' = checkoutInProgress \ {AgentOf[s]}
      PROVE  \E t \in Sessions, j \in Tries :
                 AgentOf[t] = a /\ explicit'[t][j] \in InFlight
  <2>1. PICK t \in Sessions, j \in Tries :
            AgentOf[t] = a /\ explicit[t][j] \in InFlight
    BY <1>0, <1>3
  <2>2. explicit'[t] = explicit[t]
    BY <1>3, <2>1 DEF TypeOK
  <2> QED BY <2>1, <2>2
<1> QED BY <1>1, <1>2, <1>3 DEF FlagStep

\* The flag that suppresses auto-checkouts is never up without a checkout
\* handler of that agent in flight.
THEOREM FlagTheorem == Spec => []CheckoutFlagOwned
<1>1. Init => TypeOK /\ CheckoutFlagOwned
  BY InitTypeOK DEF Init, CheckoutFlagOwned
<1>2. TypeOK /\ CheckoutFlagOwned /\ [Next]_vars => (TypeOK /\ CheckoutFlagOwned)'
  BY NextTypeOK, NextFlagStep, FlagInductive
<1> QED BY <1>1, <1>2, PTL DEF Spec

-----------------------------------------------------------------------------
(* The slot of a session whose close handler ran *)

\* No agent changes hands, no close handler starts, no direct cleanup changes
QuietStep ==
    /\ \A a \in Agents : room'[a] \in {room[a], NoSession} \cup Relay
    /\ \A s \in Direct : handler'[s] = "left" => handler[s] = "left"
    /\ \A s \in Direct : cleanup'[s] = cleanup[s]

\* A step of this kind lets every closed slot keep its handler.
LEMMA QuietKeepsSlot == TypeOK /\ ClosedSlotBeingFreed /\ QuietStep => ClosedSlotBeingFreed'
<1> SUFFICES ASSUME TypeOK, ClosedSlotBeingFreed, QuietStep, NEW s \in Direct,
                    room'[AgentOf[s]] = s, handler'[s] = "left"
             PROVE  cleanup'[s] = s
  BY DEF ClosedSlotBeingFreed
<1>1. room[AgentOf[s]] = s /\ handler[s] = "left"
  BY SessionsAssumption DEF QuietStep, Sessions
<1> QED BY <1>1 DEF ClosedSlotBeingFreed, QuietStep

\* The steps of a direct connection.
LEMMA DirectSlotStep ==
    ASSUME TypeOK, ClosedSlotBeingFreed, NEW s \in Direct, DirectStep(s)
    PROVE  ClosedSlotBeingFreed'
<1> USE SessionsAssumption DEF TypeOK, Sessions, conns, maps, jobs
<1>1. CASE Admit(s)
  BY <1>1 DEF Admit, AddAgent, ClosedSlotBeingFreed
<1>2. CASE OnCloseAutoCheckout(s)
  BY <1>2 DEF OnCloseAutoCheckout, ClosedSlotBeingFreed
<1>3. CASE OnCloseRemove(s)
  BY <1>3 DEF OnCloseRemove, RemoveAgent, ClosedSlotBeingFreed
<1>4. CASE FinishClose(s)
  BY <1>4 DEF FinishClose, RemoveAgent, ClosedSlotBeingFreed
<1>5. CASE \/ RefuseHeaders(s) \/ Connect(s) \/ Reject(s)
           \/ PeerCloses(s) \/ Terminate(s) \/ CloseUnheard(s)
  <2>1. QuietStep
    BY <1>5 DEF RefuseHeaders, Connect, Reject, PeerCloses, Terminate,
                CloseUnheard, QuietStep
  <2> QED BY <2>1, QuietKeepsSlot
<1>6. CASE \E k \in Tries :
              FragmentReady(s, k) \/ NotifySettles(s, k) \/ FragmentSent(s, k)
  <2>1. QuietStep
    BY <1>6 DEF FragmentReady, NotifySettles, FragmentSent, QuietStep
  <2> QED BY <2>1, QuietKeepsSlot
<1> QED BY <1>1, <1>2, <1>3, <1>4, <1>5, <1>6 DEF DirectStep

\* Every other step is quiet.
LEMMA RelayQuiet ==
    ASSUME TypeOK, NEW s \in Relay, RelayStep(s)
    PROVE  QuietStep
<1> USE SessionsAssumption DEF TypeOK, Sessions, conns, maps, jobs, QuietStep
<1>1. CASE \/ RelayConnect(s) \/ RelayRefuse(s)
           \/ RelayDisconnectUnknown(s) \/ RelayDisconnectLost(s)
  BY <1>1 DEF RelayConnect, RelayRefuse, RelayDisconnectUnknown, RelayDisconnectLost,
              AddAgent
<1>2. CASE RelayDisconnect(s)
  BY <1>2 DEF RelayDisconnect, RemoveAgent
<1>3. CASE FinishDisconnect(s)
  BY <1>3 DEF FinishDisconnect
<1>4. CASE \E k \in Tries : RelayFragmentReady(s, k) \/ RelayNotifySettles(s, k)
  BY <1>4 DEF RelayFragmentReady, RelayNotifySettles, RemoveAgent
<1> QED BY <1>1, <1>2, <1>3, <1>4 DEF RelayStep, OnAgentConnected

\* Every step of a session is of this kind.
LEMMA SessionQuiet ==
    ASSUME TypeOK, NEW s \in Sessions, SessionStep(s)
    PROVE  QuietStep
<1> USE SessionsAssumption DEF TypeOK, Sessions, conns, maps, jobs, QuietStep
<1>1. CASE \/ Act(s) \/ Say(s)
           \/ ModeratorAllows(s) \/ ModeratorDrops(s)
           \/ \E k \in Tries : Checkout(s, k)
  BY <1>1 DEF Act, Say, ModeratorAllows, ModeratorDrops, Checkout
<1>2. CASE ModeratorKicks(s)
  BY <1>2 DEF ModeratorKicks, RemoveAgent
<1> QED BY <1>1, <1>2 DEF SessionStep

\* A slot held by a session that closed is being freed by its close handler.
THEOREM SlotTheorem == Spec => []ClosedSlotBeingFreed
<1>1. Init => ClosedSlotBeingFreed
  BY DEF Init, ClosedSlotBeingFreed
<1>2. TypeOK /\ ClosedSlotBeingFreed /\ [Next]_vars => ClosedSlotBeingFreed'
  <2> SUFFICES ASSUME TypeOK, ClosedSlotBeingFreed, [Next]_vars
               PROVE  ClosedSlotBeingFreed'
    OBVIOUS
  <2>1. ASSUME NEW a \in Agents, Recall(a) \/ FinishRecall(a)
        PROVE  ClosedSlotBeingFreed'
    <3>1. QuietStep
      BY <2>1 DEF Recall, FinishRecall, RemoveAgent, QuietStep, TypeOK, conns, maps
    <3> QED BY <3>1, QuietKeepsSlot
  <2>2. CASE UNCHANGED vars
    BY <2>2 DEF vars, conns, maps, jobs, ClosedSlotBeingFreed
  <2> QED BY <2>1, <2>2, DirectSlotStep, RelayQuiet, SessionQuiet, QuietKeepsSlot
          DEF Next
<1> QED BY <1>1, <1>2, TypeCorrect, PTL DEF Spec
=============================================================================
