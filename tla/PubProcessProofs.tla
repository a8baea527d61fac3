-------------------------- MODULE PubProcessProofs --------------------------
(***************************************************************************)
(* The invariants of HubConnection for any number of sockets, of Keepalive *)
(* for any number of agents, sockets and spectators, and of the process    *)
(* that holds both.  LinkOrTimer says nothing of the shutdown; its         *)
(* strengthening adds what holds then: no timer is set, and only a         *)
(* shutdown says farewell.  What the keepalive flags mean becomes          *)
(* inductive once it is said of every socket with a listener for pongs,    *)
(* instead of those that are in the maps; the limit on spectators once the *)
(* set is shown to hold every open one.                                    *)
(***************************************************************************)
EXTENDS PubProcess, FiniteSetTheorems, TLAPS

-----------------------------------------------------------------------------
(* The link to the hub *)

Quiet == (shuttingDown => ~timer) /\ (farewell => shuttingDown)

LinkInv == TypeOK /\ LinkOrTimer /\ HeartbeatHasSocket /\ Quiet

\* The initial state satisfies the invariant.
LEMMA InitLinkInv == Init => LinkInv
<1> SUFFICES ASSUME Init PROVE LinkInv
  OBVIOUS
<1> USE HubAssumption DEF Init
<1>1. TypeOK
  <2>1. timer \in BOOLEAN /\ shuttingDown \in BOOLEAN /\ farewell \in BOOLEAN
    BY Zenon
  <2>2. ready \in [Sockets -> {"connecting", "open", "closing", "closed"}]
    OBVIOUS
  <2>3. attempts \in 0..MaxAttempts /\ heartbeat \in 0..1
    OBVIOUS
  <2> QED  BY <2>1, <2>2, <2>3, Zenon DEF TypeOK
<1>2. Live = {ws}
  BY DEF Live
<1> QED  BY <1>1, <1>2 DEF LinkInv, LinkOrTimer, HeartbeatHasSocket, Quiet

\* What connect does to the sockets: nothing, or it opens one, the current one.
LEMMA ConnectLive ==
  ASSUME TypeOK, Connect, ~shuttingDown
  PROVE  /\ ready' \in [Sockets -> {"connecting", "open", "closing", "closed"}]
         /\ ws' \in Sockets \cup {NoSocket}
         /\ IsOpen \/ (ws' \in Sockets /\ Live' = Live \cup {ws'})
         /\ IsOpen => Live' = Live /\ ws' = ws
  BY DEF TypeOK, Connect, IsOpen, Live

\* What ws.close() does: the sockets alive stay so until they have closed.
LEMMA CloseLive ==
  ASSUME TypeOK, CloseCurrent
  PROVE  /\ ready' \in [Sockets -> {"connecting", "open", "closing", "closed"}]
         /\ ws' = NoSocket
         /\ Live' = Live
<1> USE HubAssumption DEF TypeOK, CloseCurrent
<1>1. CASE ws = NoSocket \/ ready[ws] = "closed"
  BY <1>1 DEF Live
<1>2. CASE ws \in Sockets /\ ready[ws] # "closed"
  BY <1>2 DEF Live
<1> QED  BY <1>1, <1>2

\* Every handler keeps exactly one of link and timer until the shutdown.
LEMMA NextLinkInv == LinkInv /\ [Next]_vars => LinkInv'
<1> SUFFICES ASSUME LinkInv, [Next]_vars PROVE LinkInv'
  OBVIOUS
<1> USE HubAssumption DEF LinkInv, TypeOK, LinkOrTimer, HeartbeatHasSocket, Quiet,
                          StartHeartbeat, StopHeartbeat
<1>1. ASSUME NEW s \in Sockets, HandleOpen(s) PROVE LinkInv'
  <2>1. Live' = Live /\ s \in Live
    BY <1>1 DEF HandleOpen, Live
  <2> QED  BY <1>1, <2>1 DEF HandleOpen
<1>2. ASSUME NEW s \in Sockets, HandleClose(s) PROVE LinkInv'
  <2>1. Live' = Live \ {s} /\ s \in Live
    BY <1>2 DEF HandleClose, Live
  <2>2. ~shuttingDown => Live' = {}
    BY <2>1
  <2>3. TypeOK'
    <3>1. timer' \in BOOLEAN
      BY <1>2, Zenon DEF HandleClose, ScheduleReconnect
    <3> QED  BY <1>2, <3>1 DEF HandleClose
  <2>4. LinkOrTimer'
    <3>1. ~shuttingDown => timer'
      BY <1>2, Zenon DEF HandleClose, ScheduleReconnect
    <3> QED  BY <1>2, <2>2, <3>1 DEF HandleClose
  <2>5. HeartbeatHasSocket'
    BY <1>2 DEF HandleClose
  <2>6. Quiet'
    <3>1. shuttingDown => ~timer'
      BY <1>2, Zenon DEF HandleClose, ScheduleReconnect
    <3> QED  BY <1>2, <3>1 DEF HandleClose
  <2> QED  BY <2>3, <2>4, <2>5, <2>6
<1>3. ASSUME NEW s \in Sockets, HandleReady(s) PROVE LinkInv'
  <2>1. Live' = Live /\ s \in Live
    BY <1>3 DEF HandleReady, Live
  <2> QED  BY <1>3, <2>1 DEF HandleReady
<1>4. CASE TimerFires
  <2>1. ~shuttingDown /\ Live = {}
    BY <1>4 DEF TimerFires
  <2>2. ~IsOpen
    BY <2>1 DEF IsOpen, Live
  <2>3. attempts' \in 0..MaxAttempts
    BY <1>4 DEF TimerFires, CountAttempt
  <2> QED  BY <1>4, <2>1, <2>2, <2>3, ConnectLive DEF TimerFires
<1>5. CASE TimerFiresInVain
  <2>1. Live' = Live
    BY <1>5 DEF TimerFiresInVain, Live
  <2> QED  BY <1>5, <2>1 DEF TimerFiresInVain, CountAttempt
<1>6. CASE Disconnect
  <2>1. Live' = Live
    BY <1>6 DEF Disconnect, Live
  <2>2. shuttingDown' /\ ~timer' /\ timer' \in BOOLEAN /\ farewell' \in BOOLEAN
    BY <1>6, Zenon DEF Disconnect
  <2>3. TypeOK' /\ heartbeat' = 0
    BY <1>6, <2>2 DEF Disconnect
  <2> QED  BY <2>1, <2>2, <2>3
<1>7. CASE DisconnectAtOnce
  <2>1. Live' = Live /\ heartbeat' = 0 /\ farewell' = farewell /\ ws' = NoSocket
    BY <1>7, CloseLive DEF DisconnectAtOnce
  <2>2. shuttingDown' /\ ~timer' /\ timer' \in BOOLEAN /\ shuttingDown' \in BOOLEAN
    BY <1>7, Zenon DEF DisconnectAtOnce
  <2>3. TypeOK'
    BY <1>7, <2>1, <2>2, CloseLive DEF DisconnectAtOnce
  <2> QED  BY <2>1, <2>2, <2>3
<1>8. CASE FinishDisconnect
  <2>1. Live' = Live /\ ws' = NoSocket
    BY <1>8, CloseLive DEF FinishDisconnect
  <2>2. shuttingDown' /\ ~timer' /\ ~farewell' /\ farewell' \in BOOLEAN
    BY <1>8, Zenon DEF FinishDisconnect
  <2>3. TypeOK'
    BY <1>8, <2>1, <2>2, CloseLive DEF FinishDisconnect
  <2>4. heartbeat' = heartbeat
    BY <1>8 DEF FinishDisconnect
  <2> QED  BY <2>1, <2>2, <2>3, <2>4
<1>9. CASE UNCHANGED vars
  BY <1>9 DEF vars, Live
<1> QED  BY <1>1, <1>2, <1>3, <1>4, <1>5, <1>6, <1>7, <1>8, <1>9 DEF Next

\* Every reachable state satisfies the invariant.
LEMMA LinkInductive == Spec => []LinkInv
  BY InitLinkInv, NextLinkInv, PTL DEF Spec

\* The state of the connection object is always well typed; above all at most
\* one heartbeat interval runs (startHeartbeat, hub-connection.ts:347).
THEOREM LinkTypeTheorem == Spec => []TypeOK
  BY LinkInductive, PTL DEF LinkInv

\* Until the shutdown either one reconnect timer waits and no socket is alive,
\* or the current socket is the only one alive (connect, handleClose,
\* scheduleReconnect).
THEOREM LinkTheorem == Spec => []LinkOrTimer
  BY LinkInductive, PTL DEF LinkInv

\* The heartbeat interval never outlives the last socket (handleClose).
THEOREM HeartbeatTheorem == Spec => []HeartbeatHasSocket
  BY LinkInductive, PTL DEF LinkInv

\* A step of the link after disconnect has begun sets no timer and opens no socket.
LEMMA StaysDownStep ==
    ASSUME LinkInv, Next, shuttingDown
    PROVE  ~timer' /\ \A s \in Sockets :
             ready[s] = "closed" => ready'[s] = "closed"
<1> USE DEF LinkInv, TypeOK, Quiet
<1>1. ~(TimerFires \/ TimerFiresInVain \/ Disconnect \/ DisconnectAtOnce)
  BY DEF TimerFires, TimerFiresInVain, Disconnect, DisconnectAtOnce
<1>2. ASSUME NEW t \in Sockets, HandleOpen(t) \/ HandleClose(t) \/ HandleReady(t)
      PROVE  ~timer' /\ \A s \in Sockets :
               ready[s] = "closed" => ready'[s] = "closed"
  <2>1. ~timer'
    BY <1>2, Zenon DEF HandleOpen, HandleClose, HandleReady, ScheduleReconnect
  <2>2. ASSUME NEW s \in Sockets PROVE ready[s] = "closed" => ready'[s] = "closed"
    BY <1>2 DEF HandleOpen, HandleClose, HandleReady
  <2> QED  BY <2>1, <2>2, Zenon
<1>3. ASSUME FinishDisconnect
      PROVE  ~timer' /\ \A s \in Sockets :
               ready[s] = "closed" => ready'[s] = "closed"
  <2>1. ~timer'
    BY <1>3, Zenon DEF FinishDisconnect
  <2>2. ASSUME NEW s \in Sockets PROVE ready[s] = "closed" => ready'[s] = "closed"
    BY <1>3 DEF FinishDisconnect, CloseCurrent
  <2> QED  BY <2>1, <2>2, Zenon
<1> QED  BY <1>1, <1>2, <1>3, Zenon DEF Next

\* Once disconnect has begun nothing dials the hub again.
THEOREM ShutdownTheorem == Spec => StaysDown
<1> DEFINE Stays == shuttingDown => ~timer' /\ \A s \in Sockets :
                       ready[s] = "closed" => ready'[s] = "closed"
<1>1. LinkInv /\ [Next]_vars => [Stays]_vars
  BY StaysDownStep, Zenon
<1> HIDE DEF Stays
<1>2. Spec => [][Stays]_vars
  BY <1>1, LinkInductive, PTL DEF Spec
<1> QED  BY <1>2, Zenon DEF StaysDown, Stays

-----------------------------------------------------------------------------
(* The sockets of agents and spectators *)

\* A socket that was never opened has no handler
Fresh == \A x \in Conns : state[x] = "none" => stage[x] = "none"

\* A listener's flag is down while the last ping is unanswered; who is in the maps
\* and open has a listener, and nobody has one before the checks are over
FlagsMatch ==
    /\ unanswered \subseteq armed
    /\ alive = armed \ unanswered
    /\ OpenListed \subseteq armed
    /\ \A x \in armed : stage[x] # "checking"

SetHoldsOpen ==
    /\ \A w \in Watchers : state[w] = "open" => w \in spectators
    /\ Cardinality(spectators) <= MaxSpectators

SocketsInv == SocketsTypeOK /\ Fresh /\ FlagsMatch /\ SetHoldsOpen

\* The initial state satisfies the invariant.
LEMMA InitSocketsInv == ASSUME PubInit PROVE SocketsInv
<1> USE ConnsAssumption DEF PubInit, Conns
<1>1. SocketsTypeOK
  BY DEF SocketsTypeOK
<1>2. Fresh
  BY DEF Fresh
<1>3. FlagsMatch
  BY DEF FlagsMatch, OpenListed, Listed
<1>4. SetHoldsOpen
  <2>1. Cardinality(spectators) = 0
    BY FS_EmptySet
  <2> QED  BY <2>1 DEF SetHoldsOpen
<1> QED  BY <1>1, <1>2, <1>3, <1>4 DEF SocketsInv

-----------------------------------------------------------------------------
(* Types, and that unopened sockets have no handler *)

Typed == SocketsTypeOK /\ Fresh

\* The steps of an agent's socket keep types.
LEMMA DirectTyped ==
    ASSUME Typed, NEW x \in Direct,
           \/ Upgrade(x) \/ Refuse(x) \/ Admit(x) \/ FinishClose(x) \/ FarewellSent(x)
    PROVE  Typed'
<1> USE ConnsAssumption DEF Typed, SocketsTypeOK, Fresh, Conns, sockets, lists, beats, shutdown
<1>1. CASE Upgrade(x) BY <1>1 DEF Upgrade
<1>2. CASE Refuse(x) BY <1>2 DEF Refuse, Close
<1>3. CASE Admit(x) BY <1>3 DEF Admit, TakeEntry, Arm, Losing, Listening
<1>4. CASE FinishClose(x) BY <1>4 DEF FinishClose, Unregister, Losing
<1>5. CASE FarewellSent(x) BY <1>5 DEF FarewellSent, Close
<1> QED  BY <1>1, <1>2, <1>3, <1>4, <1>5

\* The steps of a spectator's socket keep types.
LEMMA WatcherTyped ==
    ASSUME Typed, NEW w \in Watchers,
           TurnAway(w) \/ Spectate(w) \/ BroadcastFails(w)
    PROVE  Typed'
<1> USE ConnsAssumption DEF Typed, SocketsTypeOK, Fresh, Conns, sockets, lists, beats, shutdown
<1>1. CASE TurnAway(w) BY <1>1 DEF TurnAway
<1>2. CASE Spectate(w) BY <1>2 DEF Spectate, Arm
<1>3. CASE BroadcastFails(w) BY <1>3 DEF BroadcastFails
<1> QED  BY <1>1, <1>2, <1>3

\* The closing of sockets and their pongs keep types.
LEMMA ConnTyped ==
    ASSUME Typed, NEW x \in Conns,
           CloseSocket(x) \/ Closes(x) \/ Pong(x)
    PROVE  Typed'
<1> USE ConnsAssumption DEF Typed, SocketsTypeOK, Fresh, Conns, sockets, lists, beats, shutdown
<1>1. CASE CloseSocket(x) BY <1>1 DEF CloseSocket, Close
<1>2. CASE CloseUnheard(x) BY <1>2 DEF CloseUnheard
<1>3. CASE CloseRefused(x) BY <1>3 DEF CloseRefused
<1>4. CASE OnClose(x) BY <1>4 DEF OnClose, Unregister, Losing
<1>5. CASE OnCloseAwaits(x) BY <1>5 DEF OnCloseAwaits
<1>6. CASE SpectatorCloses(x) BY <1>6 DEF SpectatorCloses
<1>7. CASE Pong(x) BY <1>7 DEF Pong
<1> QED  BY <1>1, <1>2, <1>3, <1>4, <1>5, <1>6, <1>7 DEF Closes

\* The interval, a recall and the shutdown keep types.
LEMMA ProcessTyped ==
    ASSUME Typed,
           \/ Tick \/ Sigterm \/ Sweep \/ Exit
           \/ \E a \in Agents : Recall(a)
    PROVE  Typed'
<1> USE ConnsAssumption DEF Typed, SocketsTypeOK, Fresh, Conns, sockets, lists, beats, shutdown
<1>1. CASE Tick BY <1>1 DEF Tick, OpenListed, Listed
<1>2. CASE Sigterm BY <1>2 DEF Sigterm
<1>3. CASE Sweep BY <1>3 DEF Sweep, Close
<1>4. CASE Exit BY <1>4 DEF Exit
<1>5. ASSUME NEW a \in Agents, Recall(a) PROVE Typed'
  BY <1>5 DEF Recall, Close, Unregister
<1> QED  BY <1>1, <1>2, <1>3, <1>4, <1>5

\* Every step keeps types.
LEMMA NextTyped == ASSUME Typed, [PubNext]_pubVars PROVE Typed'
<1>1. CASE UNCHANGED pubVars
  BY <1>1 DEF pubVars, sockets, lists, beats, shutdown, Typed, SocketsTypeOK, Fresh
<1> QED  BY <1>1, DirectTyped, WatcherTyped, ConnTyped, ProcessTyped DEF PubNext, Serve

-----------------------------------------------------------------------------
(* The flags *)

\* Closing sockets takes them out of every set of open ones.
LEMMA CloseKeepsFlags ==
    ASSUME Typed, FlagsMatch, NEW X \in SUBSET Conns, Close(X),
           UNCHANGED stage,
           \A y \in Direct : registered'[AgentOf[y]] = y => registered[AgentOf[y]] = y,
           spectators' \subseteq spectators
    PROVE  FlagsMatch'
<1> USE DEF Typed, SocketsTypeOK, FlagsMatch, Conns
<1>1. OpenListed' \subseteq OpenListed \ X
  BY DEF Close, OpenListed, Listed
<1>2. armed' = armed \ X /\ unanswered' = unanswered \ X /\ alive' = alive \ X
  BY DEF Close
<1> QED  BY <1>1, <1>2

\* A step that touches no flag, opens nothing listed and starts no checks of a
\* socket with a listener.
LEMMA QuietFlags ==
    ASSUME FlagsMatch, UNCHANGED beats, OpenListed' \subseteq OpenListed,
           \A y \in armed : stage'[y] # "checking"
    PROVE  FlagsMatch'
  BY DEF FlagsMatch, beats

\* The steps of an agent's socket keep the flags right.
LEMMA DirectFlags ==
    ASSUME Typed, FlagsMatch, NEW x \in Direct,
           \/ Upgrade(x) \/ Refuse(x) \/ Admit(x) \/ FinishClose(x) \/ FarewellSent(x)
    PROVE  FlagsMatch'
<1> USE ConnsAssumption DEF Typed, SocketsTypeOK, Fresh, Conns, sockets, lists, beats, shutdown
<1>1. CASE Upgrade(x)
  <2>1. x \notin armed /\ x \notin Listed
    BY <1>1 DEF Upgrade, Listed
  <2>2. OpenListed' \subseteq OpenListed
    BY <1>1, <2>1 DEF Upgrade, OpenListed, Listed
  <2> QED  BY <1>1, <2>1, <2>2, QuietFlags DEF Upgrade, FlagsMatch
<1>2. CASE Refuse(x)
  <2>1. x \notin armed /\ x \notin Listed
    BY <1>2 DEF Refuse, Listed, FlagsMatch
  <2>2. UNCHANGED beats
    BY <1>2, <2>1 DEF Refuse, Close, FlagsMatch
  <2>3. OpenListed' \subseteq OpenListed
    BY <1>2 DEF Refuse, Close, OpenListed, Listed
  <2> QED  BY <1>2, <2>2, <2>3, QuietFlags DEF Refuse, FlagsMatch
<1>3. CASE Admit(x)
  <2>1. x \notin armed
    BY <1>3 DEF Admit, FlagsMatch
  <2>2. OpenListed' \subseteq OpenListed \cup {y \in {x} : state[y] = "open"}
    BY <1>3 DEF Admit, TakeEntry, OpenListed, Listed
  <2>3. /\ armed' = armed \cup {y \in {x} : state[y] = "open"}
        /\ alive' = alive \cup {y \in {x} : state[y] = "open"}
        /\ unanswered' = unanswered
    BY <1>3 DEF Admit, Arm
  <2>4. \A y \in armed' : stage'[y] # "checking"
    BY <1>3, <2>3 DEF Admit, TakeEntry, FlagsMatch
  <2> QED  BY <2>1, <2>2, <2>3, <2>4 DEF FlagsMatch
<1>4. CASE FinishClose(x)
  <2>1. OpenListed' \subseteq OpenListed
    BY <1>4 DEF FinishClose, Unregister, OpenListed, Listed
  <2> QED  BY <1>4, <2>1, QuietFlags DEF FinishClose, FlagsMatch
<1>5. CASE FarewellSent(x)
  BY <1>5, CloseKeepsFlags DEF FarewellSent
<1> QED  BY <1>1, <1>2, <1>3, <1>4, <1>5

\* The steps of a spectator's socket keep the flags right.
LEMMA WatcherFlags ==
    ASSUME Typed, FlagsMatch, NEW w \in Watchers,
           TurnAway(w) \/ Spectate(w) \/ BroadcastFails(w)
    PROVE  FlagsMatch'
<1> USE ConnsAssumption DEF Typed, SocketsTypeOK, Fresh, Conns, sockets, lists, beats, shutdown
<1>1. CASE TurnAway(w)
  <2>1. OpenListed' \subseteq OpenListed
    BY <1>1 DEF TurnAway, OpenListed, Listed
  <2> QED  BY <1>1, <2>1, QuietFlags DEF TurnAway, FlagsMatch
<1>2. CASE Spectate(w)
  <2>1. w \notin armed
    BY <1>2 DEF Spectate
  <2>2. OpenListed' \subseteq OpenListed \cup {w}
    BY <1>2 DEF Spectate, OpenListed, Listed
  <2>3. armed' = armed \cup {w} /\ alive' = alive \cup {w} /\ unanswered' = unanswered
    BY <1>2 DEF Spectate, Arm
  <2>4. \A y \in armed' : stage'[y] # "checking"
    BY <1>2, <2>3 DEF Spectate, FlagsMatch
  <2> QED  BY <2>1, <2>2, <2>3, <2>4 DEF FlagsMatch
<1>3. CASE BroadcastFails(w)
  <2>1. OpenListed' \subseteq OpenListed
    BY <1>3 DEF BroadcastFails, OpenListed, Listed
  <2> QED  BY <1>3, <2>1, QuietFlags DEF BroadcastFails, FlagsMatch
<1> QED  BY <1>1, <1>2, <1>3

\* The closing of sockets and their pongs keep the flags right.
LEMMA ConnFlags ==
    ASSUME Typed, FlagsMatch, NEW x \in Conns,
           CloseSocket(x) \/ Closes(x) \/ Pong(x)
    PROVE  FlagsMatch'
<1> USE ConnsAssumption DEF Typed, SocketsTypeOK, Fresh, Conns, sockets, lists, beats, shutdown
<1>1. CASE CloseSocket(x)
  BY <1>1, CloseKeepsFlags DEF CloseSocket
<1>2. CASE Closes(x)
  <2>1. OpenListed' \subseteq OpenListed
    BY <1>2 DEF Closes, CloseUnheard, CloseRefused, OnClose, OnCloseAwaits,
                SpectatorCloses, Unregister, OpenListed, Listed
  <2>2. UNCHANGED beats
    BY <1>2 DEF Closes, CloseUnheard, CloseRefused, OnClose, OnCloseAwaits, SpectatorCloses
  <2>3. \A y \in armed : stage'[y] # "checking"
    BY <1>2 DEF Closes, CloseUnheard, CloseRefused, OnClose, OnCloseAwaits,
                SpectatorCloses, FlagsMatch
  <2> QED  BY <2>1, <2>2, <2>3, QuietFlags
<1>3. CASE Pong(x)
  <2>1. OpenListed' = OpenListed
    BY <1>3 DEF Pong, OpenListed, Listed
  <2> QED  BY <1>3, <2>1 DEF Pong, FlagsMatch
<1> QED  BY <1>1, <1>2, <1>3

\* The interval, a recall and the shutdown keep the flags right.
LEMMA ProcessFlags ==
    ASSUME Typed, FlagsMatch,
           \/ Tick \/ Sigterm \/ Sweep \/ Exit
           \/ \E a \in Agents : Recall(a)
    PROVE  FlagsMatch'
<1> USE ConnsAssumption DEF Typed, SocketsTypeOK, Fresh, Conns, sockets, lists, beats, shutdown
<1>1. CASE Tick
  <2> DEFINE dead == OpenListed \ alive
  <2>1. /\ armed' = armed \ dead
        /\ alive' = alive \ OpenListed
        /\ unanswered' = (unanswered \cup OpenListed) \ dead
        /\ stage' = stage
    BY <1>1 DEF Tick
  <2>2. OpenListed' \subseteq OpenListed \ dead
    BY <1>1 DEF Tick, OpenListed, Listed
  <2> QED  BY <2>1, <2>2 DEF FlagsMatch
<1>2. CASE Sigterm \/ Exit
  <2>1. UNCHANGED <<sockets, lists, beats>>
    BY <1>2 DEF Sigterm, Exit
  <2>2. OpenListed' = OpenListed
    BY <2>1 DEF OpenListed, Listed
  <2> QED  BY <2>1, <2>2 DEF FlagsMatch
<1>3. CASE Sweep
  <2>1. spectators \subseteq Conns /\ \A y \in Direct : registered'[AgentOf[y]] # y
    BY <1>3 DEF Sweep
  <2> QED  BY <1>3, <2>1, CloseKeepsFlags DEF Sweep
<1>4. ASSUME NEW a \in Agents, Recall(a) PROVE FlagsMatch'
  <2>1. {registered[a]} \in SUBSET Conns
    BY <1>4 DEF Recall
  <2> QED  BY <1>4, <2>1, CloseKeepsFlags DEF Recall, Unregister
<1> QED  BY <1>1, <1>2, <1>3, <1>4

\* Every step keeps the flags right.
LEMMA NextFlags ==
    ASSUME Typed, FlagsMatch, [PubNext]_pubVars PROVE FlagsMatch'
<1>1. CASE UNCHANGED pubVars
  <2>1. UNCHANGED <<sockets, lists, beats>>
    BY <1>1 DEF pubVars
  <2>2. OpenListed' = OpenListed
    BY <2>1 DEF OpenListed, Listed, sockets, lists
  <2> QED  BY <2>1, <2>2 DEF FlagsMatch, sockets, lists, beats
<1> QED  BY <1>1, DirectFlags, WatcherFlags, ConnFlags, ProcessFlags DEF PubNext, Serve

-----------------------------------------------------------------------------
(* The spectators *)

\* How a step can change the set of spectators and the open ones among them: one
\* is let in below the limit, or those that are not open afterwards go.
LEMMA SpectatorsChange ==
    ASSUME Typed, [PubNext]_pubVars
    PROVE  \/ \E w \in Watchers :
                /\ Cardinality(spectators) < MaxSpectators
                /\ spectators' = spectators \cup {w}
                /\ \A v \in Watchers : state'[v] = "open" => state[v] = "open" \/ v = w
           \/ /\ spectators' \subseteq spectators
              /\ \A v \in Watchers : state'[v] = "open" =>
                    state[v] = "open" /\ (v \in spectators => v \in spectators')
<1> DEFINE Leaves == /\ spectators' \subseteq spectators
                     /\ \A v \in Watchers : state'[v] = "open" =>
                          state[v] = "open" /\ (v \in spectators => v \in spectators')
<1> USE ConnsAssumption DEF Typed, SocketsTypeOK, Conns, sockets, lists, beats, shutdown
<1>1. ASSUME NEW x \in Direct,
             Upgrade(x) \/ Refuse(x) \/ Admit(x) \/ FinishClose(x) \/ FarewellSent(x)
      PROVE Leaves
  BY <1>1 DEF Upgrade, Refuse, Admit, TakeEntry, FinishClose, FarewellSent, Close
<1>2. ASSUME NEW w \in Watchers, TurnAway(w) \/ BroadcastFails(w)
      PROVE Leaves
  BY <1>2 DEF TurnAway, BroadcastFails
<1>3. ASSUME NEW w \in Watchers, Spectate(w)
      PROVE  /\ Cardinality(spectators) < MaxSpectators
             /\ spectators' = spectators \cup {w}
             /\ \A v \in Watchers : state'[v] = "open" => state[v] = "open" \/ v = w
  BY <1>3 DEF Spectate
<1>4. ASSUME NEW x \in Conns, CloseSocket(x) \/ Pong(x) PROVE Leaves
  BY <1>4 DEF CloseSocket, Close, Pong
<1>5. ASSUME NEW x \in Conns, Closes(x) PROVE Leaves
  BY <1>5 DEF Closes, CloseUnheard, CloseRefused, OnClose, OnCloseAwaits, SpectatorCloses
<1>6. CASE Tick BY <1>6 DEF Tick
<1>7. CASE Sigterm \/ Exit BY <1>7 DEF Sigterm, Exit
<1>8. CASE Sweep BY <1>8 DEF Sweep, Close
<1>9. ASSUME NEW a \in Agents, Recall(a) PROVE Leaves
  BY <1>9 DEF Recall, Close
<1>10. CASE UNCHANGED pubVars BY <1>10 DEF pubVars
<1> QED  BY <1>1, <1>2, <1>3, <1>4, <1>5, <1>6, <1>7, <1>8, <1>9, <1>10 DEF PubNext, Serve

\* Every step keeps the set of spectators within the limit and complete.
LEMMA NextSetHoldsOpen ==
    ASSUME Typed, SetHoldsOpen, [PubNext]_pubVars PROVE SetHoldsOpen'
<1>1. IsFiniteSet(spectators)
  BY FS_Subset, ConnsAssumption DEF Typed, SocketsTypeOK
<1>2. Cardinality(spectators) \in Nat /\ MaxSpectators \in Nat
  BY <1>1, FS_CardinalityType, ConnsAssumption
<1>3. ASSUME NEW w \in Watchers,
             Cardinality(spectators) < MaxSpectators,
             spectators' = spectators \cup {w},
             \A v \in Watchers : state'[v] = "open" => state[v] = "open" \/ v = w
      PROVE  SetHoldsOpen'
  <2>1. Cardinality(spectators') <= Cardinality(spectators) + 1
    BY <1>1, <1>2, <1>3, FS_AddElement
  <2>2. Cardinality(spectators') <= MaxSpectators
    <3>1. Cardinality(spectators') \in Nat
      BY <1>1, <1>3, FS_AddElement, FS_CardinalityType
    <3> QED  BY <1>2, <1>3, <2>1, <3>1
  <2> QED  BY <1>3, <2>2 DEF SetHoldsOpen
<1>4. ASSUME spectators' \subseteq spectators,
             \A v \in Watchers : state'[v] = "open" =>
                state[v] = "open" /\ (v \in spectators => v \in spectators')
      PROVE  SetHoldsOpen'
  <2>1. Cardinality(spectators') <= MaxSpectators
    <3>1. /\ Cardinality(spectators') \in Nat
          /\ Cardinality(spectators') <= Cardinality(spectators)
      BY <1>1, <1>4, FS_Subset, FS_CardinalityType
    <3> QED  BY <1>2, <3>1 DEF SetHoldsOpen
  <2> QED  BY <1>4, <2>1 DEF SetHoldsOpen
<1> QED  BY <1>3, <1>4, SpectatorsChange

-----------------------------------------------------------------------------

\* Every step keeps the invariant.
LEMMA NextSocketsInv == ASSUME SocketsInv, [PubNext]_pubVars PROVE SocketsInv'
  BY NextTyped, NextFlags, NextSetHoldsOpen DEF SocketsInv, Typed

\* What the invariant says of the run's properties.
LEMMA SocketsInvImplies ==
    ASSUME SocketsInv PROVE FlagTellsAnswer /\ SpectatorsBounded
<1>1. FlagTellsAnswer
  BY DEF SocketsInv, FlagsMatch, FlagTellsAnswer
<1>2. SpectatorsBounded
  <2> DEFINE open == {w \in Watchers : state[w] = "open"}
  <2>1. IsFiniteSet(spectators) /\ open \subseteq spectators
    BY FS_Subset, ConnsAssumption DEF SocketsInv, SocketsTypeOK, SetHoldsOpen
  <2>2. Cardinality(open) \in Nat /\ Cardinality(open) <= Cardinality(spectators)
    BY <2>1, FS_Subset, FS_CardinalityType
  <2>3. Cardinality(spectators) \in Nat /\ Cardinality(spectators) <= MaxSpectators
        /\ MaxSpectators \in Nat
    BY <2>1, FS_CardinalityType, ConnsAssumption DEF SocketsInv, SetHoldsOpen
  <2> QED  BY <2>2, <2>3 DEF SpectatorsBounded
<1> QED  BY <1>1, <1>2

\* The maps hold only sockets whose handlers are not through with them, in every
\* reachable state.
THEOREM SocketsTypeTheorem == PubSpec => []SocketsTypeOK
<1>1. SocketsInv => SocketsTypeOK
  BY DEF SocketsInv
<1>2. PubInit => SocketsInv
  BY InitSocketsInv
<1>3. SocketsInv /\ [PubNext]_pubVars => SocketsInv'
  BY NextSocketsInv
<1> QED  BY <1>1, <1>2, <1>3, PTL DEF PubSpec

\* The flag that decides about termination is down exactly when the last ping is
\* unanswered, for every socket the interval looks at.
THEOREM FlagTheorem == PubSpec => []FlagTellsAnswer
<1>1. SocketsInv => FlagTellsAnswer
  BY SocketsInvImplies
<1>2. PubInit => SocketsInv
  BY InitSocketsInv
<1>3. SocketsInv /\ [PubNext]_pubVars => SocketsInv'
  BY NextSocketsInv
<1> QED  BY <1>1, <1>2, <1>3, PTL DEF PubSpec

\* No more spectators are open than the limit allows, whatever the limit.
THEOREM SpectatorTheorem == PubSpec => []SpectatorsBounded
<1>1. SocketsInv => SpectatorsBounded
  BY SocketsInvImplies
<1>2. PubInit => SocketsInv
  BY InitSocketsInv
<1>3. SocketsInv /\ [PubNext]_pubVars => SocketsInv'
  BY NextSocketsInv
<1> QED  BY <1>1, <1>2, <1>3, PTL DEF PubSpec
-----------------------------------------------------------------------------
(* The process *)

\* gracefulShutdown and the link agree on when it began; the sockets' turn comes
\* when the hub's is over
Ordered ==
    /\ phase # "serving" <=> shuttingDown
    /\ phase \in {"draining", "exited"} => ~farewell

ProcessInv == LinkInv /\ SocketsInv /\ Ordered

\* The process is one behaviour of its sockets: what the link does is a stutter there.
LEMMA ProcessNextServes == [ProcessNext]_processVars => [PubNext]_pubVars
<1> SUFFICES ASSUME [ProcessNext]_processVars PROVE PubNext \/ UNCHANGED pubVars
  OBVIOUS
<1>1. CASE LinkStep BY <1>1 DEF LinkStep
<1>2. CASE Stop BY <1>2 DEF Stop, PubNext
<1>3. CASE SweepAfterHub BY <1>3 DEF SweepAfterHub, PubNext
<1>4. CASE ProcessExits BY <1>4 DEF ProcessExits, PubNext
<1>5. CASE Serve BY <1>5 DEF PubNext
<1>6. CASE UNCHANGED processVars BY <1>6 DEF processVars
<1> QED  BY <1>1, <1>2, <1>3, <1>4, <1>5, <1>6 DEF ProcessNext

\* To the link a step of the process is one of its own, a stutter or the exit.
LEMMA ProcessNextLinks ==
    [ProcessNext]_processVars => [Next]_vars \/ ProcessExits
<1> SUFFICES ASSUME [ProcessNext]_processVars PROVE [Next]_vars \/ ProcessExits
  OBVIOUS
<1>1. CASE LinkStep BY <1>1 DEF LinkStep, Next
<1>2. CASE Stop BY <1>2 DEF Stop, Next
<1>3. CASE SweepAfterHub BY <1>3 DEF SweepAfterHub
<1>4. CASE UNCHANGED processVars BY <1>4 DEF processVars
<1> QED  BY <1>1, <1>2, <1>3, <1>4 DEF ProcessNext

\* The order of the shutdown: the signal starts both halves, and the sockets are
\* swept after the farewell.
LEMMA NextOrdered ==
    ASSUME ProcessInv, [ProcessNext]_processVars PROVE Ordered'
<1> USE DEF ProcessInv, LinkInv, TypeOK, SocketsInv, SocketsTypeOK, Ordered
<1>1. CASE LinkStep
  <2>1. UNCHANGED <<phase, shuttingDown>>
    BY <1>1 DEF LinkStep, pubVars, shutdown, HandleOpen, HandleClose, HandleReady, TimerFires,
                TimerFiresInVain, FinishDisconnect
  <2>2. farewell' => farewell
    <3>1. CASE FinishDisconnect
      BY <3>1, Zenon DEF FinishDisconnect
    <3>2. CASE ~FinishDisconnect
      BY <1>1, <3>2, Zenon DEF LinkStep, HandleOpen, HandleClose, HandleReady, TimerFires,
                        TimerFiresInVain
    <3> QED  BY <3>1, <3>2
  <2> QED  BY <2>1, <2>2, Zenon
<1>2. CASE Stop
  <2>1. phase' = "parting"
    BY <1>2 DEF Stop, Sigterm
  <2>2. shuttingDown'
    BY <1>2, Zenon DEF Stop, Disconnect, DisconnectAtOnce
  <2> QED  BY <2>1, <2>2
<1>3. CASE SweepAfterHub
  <2>1. phase = "parting" /\ phase' = "draining" /\ ~farewell
    BY <1>3 DEF SweepAfterHub, Sweep
  <2>2. UNCHANGED <<shuttingDown, farewell>>
    BY <1>3 DEF SweepAfterHub, vars
  <2> QED  BY <2>1, <2>2
<1>4. CASE ProcessExits
  <2>1. phase = "draining" /\ phase' = "exited"
    BY <1>4 DEF ProcessExits, Exit
  <2>2. UNCHANGED <<shuttingDown, farewell>>
    BY <1>4 DEF ProcessExits
  <2> QED  BY <2>1, <2>2
<1>5. CASE Serve /\ UNCHANGED vars
  <2>1. phase' = phase
    BY <1>5 DEF Serve, Tick, Recall, Upgrade, Refuse, Admit, FinishClose, FarewellSent, TurnAway,
                Spectate, BroadcastFails, CloseSocket, Closes, CloseUnheard, CloseRefused,
                OnClose, OnCloseAwaits, SpectatorCloses, Pong, shutdown
  <2> QED  BY <1>5, <2>1 DEF vars
<1>6. CASE UNCHANGED processVars
  BY <1>6 DEF processVars, vars, pubVars, shutdown
<1> QED  BY <1>1, <1>2, <1>3, <1>4, <1>5, <1>6 DEF ProcessNext

\* The exit leaves no link, no timer and no interval.
LEMMA ExitLinkInv ==
    ASSUME ProcessInv, ProcessExits PROVE LinkInv'
<1> USE HubAssumption DEF ProcessInv, LinkInv, TypeOK
<1>1. phase = "draining"
  BY DEF ProcessExits, Exit
<1>2. shuttingDown /\ ~farewell
  BY <1>1 DEF Ordered
<1>3. ~timer' /\ timer' \in BOOLEAN /\ shuttingDown' /\ ~farewell'
  BY <1>2, Zenon DEF ProcessExits
<1>4. TypeOK'
  BY <1>2, <1>3 DEF ProcessExits
<1> QED  BY <1>3, <1>4 DEF ProcessExits, LinkOrTimer, HeartbeatHasSocket, Quiet

\* Every reachable state of the process satisfies its invariant.
LEMMA ProcessInvariant == ProcessSpec => []ProcessInv
<1>1. ProcessInit => ProcessInv
  <2> SUFFICES ASSUME ProcessInit PROVE ProcessInv
    OBVIOUS
  <2>1. LinkInv /\ SocketsInv
    BY InitLinkInv, InitSocketsInv DEF ProcessInit
  <2> QED  BY <2>1 DEF ProcessInit, Init, PubInit, Ordered, ProcessInv
<1>2. ProcessInv /\ [ProcessNext]_processVars => ProcessInv'
  <2> SUFFICES ASSUME ProcessInv, [ProcessNext]_processVars PROVE ProcessInv'
    OBVIOUS
  <2>1. SocketsInv'
    BY ProcessNextServes, NextSocketsInv DEF ProcessInv
  <2>2. LinkInv'
    BY ProcessNextLinks, NextLinkInv, ExitLinkInv DEF ProcessInv
  <2> QED  BY <2>1, <2>2, NextOrdered DEF ProcessInv
<1> QED  BY <1>1, <1>2, PTL DEF ProcessSpec

\* The process implements the specification of its sockets, the link left out.
THEOREM SocketsRefined == ProcessSpec => PubSpec
<1>1. ProcessInit => PubInit
  BY DEF ProcessInit
<1> QED  BY <1>1, ProcessNextServes, PTL DEF ProcessSpec, PubSpec

\* Composed with the sockets and ended by process.exit, the link keeps what it
\* promises alone: one link or one timer, and an interval only with a socket.
THEOREM ProcessLinkTheorem == ProcessSpec => [](TypeOK /\ LinkOrTimer /\ HeartbeatHasSocket)
<1>1. ProcessInv => TypeOK /\ LinkOrTimer /\ HeartbeatHasSocket
  BY DEF ProcessInv, LinkInv
<1> QED  BY <1>1, ProcessInvariant, PTL

\* From the signal to the exit and after it nothing dials the hub.
THEOREM ProcessStaysDown == ProcessSpec => StaysDown
<1> DEFINE Stays == shuttingDown => ~timer' /\ \A s \in Sockets :
                       ready[s] = "closed" => ready'[s] = "closed"
<1>1. ProcessInv /\ [ProcessNext]_processVars => [Stays]_vars
  <2> SUFFICES ASSUME ProcessInv, [ProcessNext]_processVars PROVE [Stays]_vars
    OBVIOUS
  <2>1. CASE Next
    BY <2>1, StaysDownStep, Zenon DEF ProcessInv
  <2>2. CASE ProcessExits
    <3>1. ~timer'
      BY <2>2, Zenon DEF ProcessExits
    <3>2. \A s \in Sockets : ready'[s] = "closed"
      BY <2>2 DEF ProcessExits
    <3> QED  BY <3>1, <3>2, Zenon
  <2> QED  BY <2>1, <2>2, ProcessNextLinks
<1> HIDE DEF Stays
<1>2. ProcessSpec => [][Stays]_vars
  <2>1. UNCHANGED processVars => UNCHANGED vars
    BY DEF processVars
  <2> QED  BY <1>1, <2>1, ProcessInvariant, PTL DEF ProcessSpec
<1> QED  BY <1>2, Zenon DEF StaysDown, Stays

\* No spectator beyond the limit, and a flag that tells of the last ping, also in the
\* process and until its exit.
THEOREM ProcessSocketsTheorem == ProcessSpec => [](FlagTellsAnswer /\ SpectatorsBounded)
  BY SocketsRefined, FlagTheorem, SpectatorTheorem, PTL
=============================================================================
