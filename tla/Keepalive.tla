------------------------------ MODULE Keepalive ------------------------------
(***************************************************************************)
(* The pub's own WebSockets from the upgrade to the end of the process:    *)
(* agents at /ws, spectators at /ws/spectate, the ping interval that finds *)
(* dead peers (relay/ws-keepalive.ts, server.ts:1200-1222) and the         *)
(* graceful shutdown that must close them all (server.ts:1226-1263).       *)
(*                                                                         *)
(* Which agents are let in, and what their visits are, is PubServer's      *)
(* subject: here the token's validation ends in either way.                *)
(***************************************************************************)
EXTENDS Naturals, FiniteSets

CONSTANTS
    Direct,        \* WebSockets at /ws
    Watchers,      \* WebSockets at /ws/spectate
    Agents,        \* agent ids
    AgentOf,       \* the agent each direct socket belongs to
    Unregistered,  \* no entry in wsConnections
    MaxSpectators  \* MAX_SPECTATORS, or 0 for a pub that is not open

Conns == Direct \cup Watchers

ASSUME ConnsAssumption ==
    /\ Direct \cap Watchers = {}
    /\ AgentOf \in [Direct -> Agents]
    /\ Unregistered \notin Direct
    /\ IsFiniteSet(Watchers)
    /\ MaxSpectators \in Nat

VARIABLES
    state,      \* readyState of each socket
    stage,      \* how far the handlers of each socket are
    registered, \* wsConnections
    spectators, \* spectatorConnections
    alive,      \* open sockets whose isAlive is true; terminate() and ping() do
                \* nothing to any other
    armed,      \* open sockets with a listener for pongs
    unanswered, \* history: open sockets that sent no pong since their last ping
    stray,      \* history: open sockets that lost the agent's entry, or got it
                \* only after the shutdown's sweep
    phase,      \* of the process
    told        \* agents' sockets the shutdown closes once its farewell is sent

sockets == <<state, stage>>
lists   == <<registered, spectators>>
beats   == <<alive, armed, unanswered>>
shutdown == <<phase, told>>
pubVars == <<sockets, lists, beats, stray, shutdown>>

\* The maps name sockets that came past the checks and whose close handler has not
\* run to its end; flags and listeners are those of open sockets.
SocketsTypeOK ==
    /\ state \in [Conns -> {"none", "open", "closing", "closed"}]
    /\ stage \in [Conns -> {"none", "checking", "refused", "admitted", "leaving", "left"}]
    /\ registered \in [Agents -> Direct \cup {Unregistered}]
    /\ \A a \in Agents : registered[a] # Unregistered =>
          /\ AgentOf[registered[a]] = a
          /\ stage[registered[a]] \in {"admitted", "leaving"}
    /\ spectators \subseteq {w \in Watchers : stage[w] = "admitted"}
    /\ alive \cup armed \cup unanswered \cup stray \subseteq
          {x \in Conns : state[x] = "open"}
    /\ phase \in {"serving", "parting", "draining", "exited"}
    /\ told \subseteq Direct

PubInit ==
    /\ state = [x \in Conns |-> "none"]
    /\ stage = [x \in Conns |-> "none"]
    /\ registered = [a \in Agents |-> Unregistered]
    /\ spectators = {}
    /\ alive = {} /\ armed = {} /\ unanswered = {} /\ stray = {}
    /\ phase = "serving" /\ told = {}

Running == phase # "exited"

\* The HTTP server accepts connections until the shutdown closes it
Listening == phase \in {"serving", "parting"}

\* The sockets the interval and the shutdown find
Listed == {x \in Direct : registered[AgentOf[x]] = x} \cup spectators

\* ws.close() or ws.terminate() of the sockets X: those that are open close
Close(X) ==
    /\ state' = [x \in Conns |->
                    IF x \in X /\ state[x] = "open" THEN "closing" ELSE state[x]]
    /\ alive' = alive \ X /\ armed' = armed \ X
    /\ unanswered' = unanswered \ X /\ stray' = stray \ X

\* The open socket that loses its agent's entry
Losing(a) == {x \in Direct : registered[a] = x /\ state[x] = "open"}

\* A new WebSocket object; which one makes no difference
New(x, X) == x = CHOOSE y \in X : state[y] = "none"

OfSameAgent(x) == {y \in Direct : AgentOf[y] = AgentOf[x]}

Unregister(a) == registered' = [registered EXCEPT ![a] = Unregistered]

-----------------------------------------------------------------------------
(* An agent's socket *)

Upgrade(x) ==
    /\ Listening
    /\ state[x] = "none" /\ New(x, OfSameAgent(x))
    /\ state' = [state EXCEPT ![x] = "open"]
    /\ stage' = [stage EXCEPT ![x] = "checking"]
    /\ UNCHANGED <<lists, beats, stray, shutdown>>

\* closeWithError: no valid token, a full pub, a banned agent
Refuse(x) ==
    /\ Running
    /\ stage[x] = "checking"
    /\ stage' = [stage EXCEPT ![x] = "refused"]
    /\ Close({x})
    /\ UNCHANGED <<lists, shutdown>>

\* The socket takes the agent's entry, also from an older socket that is open,
\* also after the shutdown has emptied the map
TakeEntry(x) ==
    /\ stage' = [stage EXCEPT ![x] = "admitted"]
    /\ registered' = [registered EXCEPT ![AgentOf[x]] = x]
    /\ stray' = stray \cup Losing(AgentOf[x])
                      \cup {y \in {x} : state[y] = "open" /\ ~Listening}

\* armWsKeepalive
Arm(x) ==
    /\ alive' = alive \cup {y \in {x} : state'[y] = "open"}
    /\ armed' = armed \cup {y \in {x} : state'[y] = "open"}

\* Mutant: the socket is registered and not armed
AdmitUnarmed(x) ==
    /\ Running
    /\ stage[x] = "checking"
    /\ TakeEntry(x)
    /\ alive' = alive \cup {x}
    /\ UNCHANGED <<state, spectators, armed, unanswered, shutdown>>

Admit(x) ==
    /\ Running
    /\ stage[x] = "checking"
    /\ TakeEntry(x)
    /\ UNCHANGED <<state, spectators, unanswered, shutdown>>
    /\ Arm(x)

\* The peer or the network closes the socket, or the agent's checkout or a kick
CloseSocket(x) ==
    /\ Running
    /\ state[x] = "open"
    /\ Close({x})
    /\ UNCHANGED <<stage, lists, shutdown>>

\* 'close' while the token is validated: no listener yet
CloseUnheard(x) ==
    /\ Running
    /\ state[x] = "closing"
    /\ stage[x] = "checking"
    /\ state' = [state EXCEPT ![x] = "closed"]
    /\ UNCHANGED <<stage, lists, beats, stray, shutdown>>

CloseRefused(x) ==
    /\ Running
    /\ state[x] = "closing"
    /\ stage[x] = "refused"
    /\ state' = [state EXCEPT ![x] = "closed"]
    /\ stage' = [stage EXCEPT ![x] = "left"]
    /\ UNCHANGED <<lists, beats, stray, shutdown>>

\* 'close' of an agent that owes no checkout: its entry is deleted, whichever
\* socket it names
OnClose(x) ==
    /\ Running
    /\ x \in Direct
    /\ state[x] = "closing" /\ stage[x] = "admitted"
    /\ state' = [state EXCEPT ![x] = "closed"]
    /\ stage' = [stage EXCEPT ![x] = "left"]
    /\ Unregister(AgentOf[x])
    /\ stray' = stray \cup Losing(AgentOf[x])
    /\ UNCHANGED <<spectators, beats, shutdown>>

\* 'close' with an auto-checkout, whose fragment takes its time
OnCloseAwaits(x) ==
    /\ Running
    /\ x \in Direct
    /\ state[x] = "closing" /\ stage[x] = "admitted"
    /\ state' = [state EXCEPT ![x] = "closed"]
    /\ stage' = [stage EXCEPT ![x] = "leaving"]
    /\ UNCHANGED <<lists, beats, stray, shutdown>>

FinishClose(x) ==
    /\ Running
    /\ stage[x] = "leaving"
    /\ stage' = [stage EXCEPT ![x] = "left"]
    /\ Unregister(AgentOf[x])
    /\ stray' = stray \cup Losing(AgentOf[x])
    /\ UNCHANGED <<state, spectators, beats, shutdown>>

\* The end of onAgentRecall for an agent with a socket
Recall(a) ==
    /\ Running
    /\ registered[a] # Unregistered
    /\ Close({registered[a]})
    /\ Unregister(a)
    /\ UNCHANGED <<stage, spectators, shutdown>>

-----------------------------------------------------------------------------
(* A spectator's socket *)

\* The limit, or a pub that is not open
TurnAway(w) ==
    /\ Listening
    /\ state[w] = "none" /\ New(w, Watchers)
    /\ Cardinality(spectators) >= MaxSpectators
    /\ state' = [state EXCEPT ![w] = "closing"]
    /\ stage' = [stage EXCEPT ![w] = "refused"]
    /\ UNCHANGED <<lists, beats, stray, shutdown>>

Spectate(w) ==
    /\ Listening
    /\ state[w] = "none" /\ New(w, Watchers)
    /\ Cardinality(spectators) < MaxSpectators
    /\ state' = [state EXCEPT ![w] = "open"]
    /\ stage' = [stage EXCEPT ![w] = "admitted"]
    /\ spectators' = spectators \cup {w}
    /\ Arm(w)
    /\ UNCHANGED <<registered, unanswered, stray, shutdown>>

SpectatorCloses(w) ==
    /\ Running
    /\ w \in Watchers
    /\ state[w] = "closing" /\ stage[w] = "admitted"
    /\ state' = [state EXCEPT ![w] = "closed"]
    /\ stage' = [stage EXCEPT ![w] = "left"]
    /\ spectators' = spectators \ {w}
    /\ UNCHANGED <<registered, beats, stray, shutdown>>

\* Mutant: any broadcast removes it
BroadcastFailsAlways(w) ==
    /\ Running
    /\ w \in spectators
    /\ spectators' = spectators \ {w}
    /\ UNCHANGED <<sockets, registered, beats, stray, shutdown>>

\* A broadcast to a spectator that is not open any more fails and removes it
BroadcastFails(w) ==
    /\ Running
    /\ w \in spectators
    /\ state[w] # "open"
    /\ spectators' = spectators \ {w}
    /\ UNCHANGED <<sockets, registered, beats, stray, shutdown>>

-----------------------------------------------------------------------------
(* Ping and pong *)

OpenListed == {x \in Listed : state[x] = "open"}

\* Mutant: the flag is not taken down
TickKeepsFlag ==
    /\ Running
    /\ unanswered' = unanswered \cup OpenListed
    /\ UNCHANGED <<sockets, lists, alive, armed, stray, shutdown>>

\* The interval, once over both lists: who did not answer is terminated, the
\* others are pinged
Tick ==
    /\ Running
    /\ LET dead == OpenListed \ alive IN
        /\ state' = [x \in Conns |-> IF x \in dead THEN "closing" ELSE state[x]]
        /\ armed' = armed \ dead
        /\ stray' = stray \ dead
        /\ alive' = alive \ OpenListed
        /\ unanswered' = (unanswered \cup OpenListed) \ dead
    /\ UNCHANGED <<stage, lists, shutdown>>

\* A pong, whether or not it answers the ping; one more changes nothing
Pong(x) ==
    /\ Running
    /\ x \in unanswered
    /\ unanswered' = unanswered \ {x}
    /\ alive' = alive \cup ({x} \cap armed)
    /\ UNCHANGED <<sockets, lists, armed, stray, shutdown>>

-----------------------------------------------------------------------------
(* SIGTERM *)

\* gracefulShutdown awaits the hub first
Sigterm ==
    /\ phase = "serving"
    /\ phase' = "parting"
    /\ UNCHANGED <<sockets, lists, beats, stray, told>>

\* Mutant: the maps are emptied before their sockets are closed
SweepEmptied ==
    /\ phase = "parting"
    /\ phase' = "draining"
    /\ registered' = [a \in Agents |-> Unregistered]
    /\ spectators' = {}
    /\ UNCHANGED <<sockets, beats, stray, told>>

\* Every listed agent is sent a farewell, every listed spectator's socket is closed,
\* the maps are emptied, and the server stops to listen
Sweep ==
    /\ phase = "parting"
    /\ phase' = "draining"
    /\ told' = Direct \cap OpenListed
    /\ Close(spectators)
    /\ registered' = [a \in Agents |-> Unregistered]
    /\ spectators' = {}
    /\ UNCHANGED stage

\* The farewell is handed to the network, and its callback closes the socket.  A peer
\* that does not read holds it back.
FarewellSent(x) ==
    /\ Running
    /\ x \in told
    /\ state[x] = "open"
    /\ Close({x})
    /\ UNCHANGED <<stage, lists, shutdown>>

\* fastify.close() settles when no connection is left; process.exit(0) follows
\* and ends the handlers that still await
Exit ==
    /\ phase = "draining"
    /\ \A x \in Conns : state[x] \in {"none", "closed"}
    /\ phase' = "exited"
    /\ UNCHANGED <<sockets, lists, beats, stray, told>>

-----------------------------------------------------------------------------

Closes(x) ==
    CloseUnheard(x) \/ CloseRefused(x) \/ OnClose(x) \/ OnCloseAwaits(x) \/ SpectatorCloses(x)

Serve ==
    \/ Tick
    \/ \E a \in Agents : Recall(a)
    \/ \E x \in Direct : \/ Upgrade(x) \/ Refuse(x) \/ Admit(x)
                         \/ FinishClose(x) \/ FarewellSent(x)
    \/ \E w \in Watchers : TurnAway(w) \/ Spectate(w) \/ BroadcastFails(w)
    \/ \E x \in Conns : CloseSocket(x) \/ Closes(x) \/ Pong(x)

PubNext == Serve \/ Sigterm \/ Sweep \/ Exit

PubSpec == PubInit /\ [][PubNext]_pubVars

\* What the runtime owes to handlers that wait: validations and checkouts settle,
\* and a closing socket closes (the ws library ends it after 30 s).  That a farewell
\* is sent is the peer's to decide.
Settles ==
    \/ \E x \in Direct : Refuse(x) \/ Admit(x) \/ FinishClose(x)
    \/ \E x \in Conns : Closes(x)

\* The interval runs.  Peers owe nothing, no answer to a ping either; what settles
\* does so in PubProcess, with the shutdown.
PubFairness == WF_pubVars(Tick)

-----------------------------------------------------------------------------
(* Properties *)

\* The flag that decides whom the next tick terminates says whether the peer sent
\* a pong since its last ping: no healthy agent or spectator is cut off, and no silent
\* one is kept (ws-keepalive.ts:4-13 tells of the time it was otherwise).
FlagTellsAnswer == \A x \in OpenListed : x \notin alive <=> x \in unanswered

\* Silent peers do not stay: again and again every listed socket has answered its
\* last ping (server.ts:1200-1222).
SilentPeersGo == []<>(Listed \cap unanswered = {})

\* No more spectators are open than the limit allows, whatever closes, failed
\* broadcasts and pings removed from the set before (server.ts:605-644).
SpectatorsBounded ==
    Cardinality({w \in Watchers : state[w] = "open"}) <= MaxSpectators

\* A pub that is told to stop comes to its process.exit, unless an open socket
\* keeps it: one that another socket of its agent had taken the entry from, or
\* deleted it, one that was admitted after the sweep, or one whose peer does not
\* take the farewell (server.ts:1238-1262).
StopEnds ==
    phase # "serving" ~>
        phase = "exited" \/ [](stray # {} \/ \E x \in told : state[x] = "open")
=============================================================================
