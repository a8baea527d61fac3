------------------------------ MODULE PubServer ------------------------------
(***************************************************************************)
(* The visit life cycle of the pub server (src/packages/pub-server/src/    *)
(* server.ts): agents connect over a WebSocket of their own or through the *)
(* hub's relay, occupy a slot of the room, speak, and leave by an explicit *)
(* checkout, by a disconnect, by a moderation kick or by a recall.         *)
(*                                                                         *)
(* The server is one JavaScript event loop.  A step of this module is one  *)
(* run-to-completion segment of a handler: from an event, or from an       *)
(* awaited call that settles, to the next await.  The handlers of several  *)
(* sessions and of one session interleave at their awaits.                 *)
(*                                                                         *)
(* Names of the code are kept: room is roomState.agentsPresent, wsConn is  *)
(* wsConnections, relayed is relayedAgents.  NoSession also stands for the *)
(* empty session id the code falls back to with `|| ''`.                   *)
(***************************************************************************)
EXTENDS Naturals, FiniteSets

CONSTANTS
    Agents,     \* agent ids
    Direct,     \* session ids of direct WebSockets, a fresh uuid per socket
    Relay,      \* session ids of relayed visits, chosen by the hub
    AgentOf,    \* the agent each session belongs to
    Banned,     \* frontmatter.banned_agents
    Capacity,   \* frontmatter.capacity
    Tries,      \* the checkout requests one session may send (a bound)
    NoSession   \* a map without an entry; the empty session id

Sessions == Direct \cup Relay

ASSUME SessionsAssumption ==
    /\ Direct \cap Relay = {}
    /\ NoSession \notin Sessions
    /\ AgentOf \in [Sessions -> Agents]
ASSUME PubAssumption ==
    /\ IsFiniteSet(Agents)
    /\ Banned \subseteq Agents
    /\ Capacity \in Nat \ {0}
    /\ IsFiniteSet(Tries)

VARIABLES
    socket,     \* readyState of each WebSocket
    handler,    \* how far the connection handler of each WebSocket is
    hub,        \* the hub's view of each relayed session
    room,       \* whose addAgent made the agent's presence record
    wsConn,     \* the WebSocket registered for the agent
    relayed,    \* the relayed session registered for the agent
    spoke,      \* agents whose message_count is positive
    checkoutInProgress,
    explicit,   \* stage of each checkout handler
    cleanup,    \* session id captured by a disconnect handler that awaits
    moderating, \* sessions with a message at the moderator
    recalling,  \* agents with a recall handler in flight
    reports,    \* history: calls of notifyHubCheckout per session id
    visited,    \* history: sessions that were given a slot
    expelled    \* history: agents a kick or a recall took out of the room

conns == <<socket, handler, hub>>
maps  == <<room, wsConn, relayed, spoke>>
jobs  == <<checkoutInProgress, explicit, cleanup, moderating, recalling>>
past  == <<reports, visited, expelled>>
vars  == <<conns, maps, jobs, past>>

Stages == {"idle", "fragment", "notify", "send", "done"}

TypeOK ==
    /\ socket \in [Direct -> {"none", "open", "closing", "closed"}]
    /\ handler \in [Direct -> {"none", "validating", "rejected", "admitted", "left"}]
    /\ hub \in [Relay -> {"none", "open", "closed"}]
    /\ room \in [Agents -> Sessions \cup {NoSession}]
    /\ wsConn \in [Agents -> Direct \cup {NoSession}]
    /\ relayed \in [Agents -> Relay \cup {NoSession}]
    /\ spoke \subseteq Agents
    /\ checkoutInProgress \subseteq Agents
    /\ explicit \in [Sessions -> [Tries -> Stages]]
    /\ cleanup \in [Sessions -> Sessions \cup {NoSession}]
    /\ moderating \subseteq Sessions
    /\ recalling \subseteq Agents
    /\ reports \in [Sessions \cup {NoSession} -> Nat]
    /\ visited \subseteq Sessions
    /\ expelled \subseteq Agents

Init ==
    /\ socket = [s \in Direct |-> "none"]
    /\ handler = [s \in Direct |-> "none"]
    /\ hub = [s \in Relay |-> "none"]
    /\ room = [a \in Agents |-> NoSession]
    /\ wsConn = [a \in Agents |-> NoSession]
    /\ relayed = [a \in Agents |-> NoSession]
    /\ spoke = {}
    /\ checkoutInProgress = {}
    /\ explicit = [s \in Sessions |-> [k \in Tries |-> "idle"]]
    /\ cleanup = [s \in Sessions |-> NoSession]
    /\ moderating = {}
    /\ recalling = {}
    /\ reports = [id \in Sessions \cup {NoSession} |-> 0]
    /\ visited = {}
    /\ expelled = {}

-----------------------------------------------------------------------------
(* The room and the calls the handlers share *)

Present == {a \in Agents : room[a] # NoSession}

\* Mutant: the comparison lets one agent too many in
AtCapacityOffByOne == Cardinality(Present) > Capacity

AtCapacity == Cardinality(Present) >= Capacity

\* addAgent makes a new presence record, so the message count restarts
AddAgent(s) ==
    /\ room' = [room EXCEPT ![AgentOf[s]] = s]
    /\ spoke' = spoke \ {AgentOf[s]}
    /\ visited' = visited \cup {s}

RemoveAgent(a) ==
    /\ room' = [room EXCEPT ![a] = NoSession]
    /\ spoke' = spoke \ {a}

\* addMessage counts a message only for an agent that is in the room
AddMessage(a) == spoke' = spoke \cup ({a} \cap Present)

NotifyHubCheckout(id) == reports' = [reports EXCEPT ![id] = @ + 1]

\* ws.close() and ws.terminate() do nothing on a socket that is closed
Closing(s) == [socket EXCEPT ![s] = IF @ = "open" THEN "closing" ELSE @]

\* A request of the session reaches its handler: a listened socket delivers
\* until it is closed, the relay drops what comes for an agent not in its map
Heard(s) ==
    \/ s \in Direct /\ handler[s] = "admitted" /\ socket[s] \in {"open", "closing"}
    \/ s \in Relay /\ hub[s] = "open" /\ relayed[AgentOf[s]] # NoSession

-----------------------------------------------------------------------------
(* The connection handler of a direct WebSocket *)

\* A connection without the two headers is refused before any await
RefuseHeaders(s) ==
    /\ socket[s] = "none"
    /\ socket' = [socket EXCEPT ![s] = "closing"]
    /\ handler' = [handler EXCEPT ![s] = "rejected"]
    /\ UNCHANGED <<hub, maps, jobs, past>>

Connect(s) ==
    /\ socket[s] = "none"
    /\ socket' = [socket EXCEPT ![s] = "open"]
    /\ handler' = [handler EXCEPT ![s] = "validating"]
    /\ UNCHANGED <<hub, maps, jobs, past>>

\* The token does not validate, the pub is full or the agent is banned
Reject(s) ==
    /\ handler[s] = "validating"
    /\ socket' = Closing(s)
    /\ handler' = [handler EXCEPT ![s] = "rejected"]
    /\ UNCHANGED <<hub, maps, jobs, past>>

\* All checks follow the await on the validator and precede addAgent
Admit(s) ==
    /\ handler[s] = "validating"
    /\ ~AtCapacity
    /\ AgentOf[s] \notin Banned
    /\ AddAgent(s)
    /\ wsConn' = [wsConn EXCEPT ![AgentOf[s]] = s]
    /\ handler' = [handler EXCEPT ![s] = "admitted"]
    /\ UNCHANGED <<socket, hub, relayed, jobs, reports, expelled>>

\* The peer closes or the network fails
PeerCloses(s) ==
    /\ socket[s] = "open"
    /\ socket' = Closing(s)
    /\ UNCHANGED <<handler, hub, maps, jobs, past>>

\* The keepalive interval terminates a registered socket that missed a pong;
\* on a socket that is closed already, terminate() does nothing
Terminate(s) ==
    /\ wsConn[AgentOf[s]] = s
    /\ socket[s] = "open"
    /\ socket' = Closing(s)
    /\ UNCHANGED <<handler, hub, maps, jobs, past>>

\* The socket closes while no 'close' listener is attached
CloseUnheard(s) ==
    /\ socket[s] = "closing"
    /\ handler[s] \in {"validating", "rejected"}
    /\ socket' = [socket EXCEPT ![s] = "closed"]
    /\ UNCHANGED <<handler, hub, maps, jobs, past>>

\* Mutant: only agents that spoke are checked out automatically
OwesAutoCheckoutIfSpoke(a) == a \in Present /\ a \notin checkoutInProgress /\ a \in spoke

\* Mutant: the check of checkoutInProgress is dropped
OwesAutoCheckoutAlways(a) == a \in Present

OwesAutoCheckout(a) == a \in Present /\ a \notin checkoutInProgress

\* 'close' of an agent in the room, no checkout in flight: auto-checkout
OnCloseAutoCheckout(s) ==
    /\ socket[s] = "closing"
    /\ handler[s] = "admitted"
    /\ OwesAutoCheckout(AgentOf[s])
    /\ socket' = [socket EXCEPT ![s] = "closed"]
    /\ handler' = [handler EXCEPT ![s] = "left"]
    /\ cleanup' = [cleanup EXCEPT ![s] = s]
    /\ UNCHANGED <<hub, maps, checkoutInProgress, explicit, moderating, recalling, past>>

\* Mutant: the agent's record is left in the room
OnCloseKeepsRecord(s) ==
    /\ socket[s] = "closing"
    /\ handler[s] = "admitted"
    /\ ~OwesAutoCheckout(AgentOf[s])
    /\ socket' = [socket EXCEPT ![s] = "closed"]
    /\ handler' = [handler EXCEPT ![s] = "left"]
    /\ wsConn' = [wsConn EXCEPT ![AgentOf[s]] = NoSession]
    /\ UNCHANGED <<hub, room, spoke, relayed, jobs, past>>

\* 'close' otherwise: the agent is removed at once
OnCloseRemove(s) ==
    /\ socket[s] = "closing"
    /\ handler[s] = "admitted"
    /\ ~OwesAutoCheckout(AgentOf[s])
    /\ socket' = [socket EXCEPT ![s] = "closed"]
    /\ handler' = [handler EXCEPT ![s] = "left"]
    /\ RemoveAgent(AgentOf[s])
    /\ wsConn' = [wsConn EXCEPT ![AgentOf[s]] = NoSession]
    /\ UNCHANGED <<hub, relayed, jobs, past>>

\* Mutant: the auto-checkout reports and forgets to remove the agent
FinishCloseKeepsRecord(s) ==
    /\ cleanup[s] # NoSession
    /\ cleanup' = [cleanup EXCEPT ![s] = NoSession]
    /\ NotifyHubCheckout(cleanup[s])
    /\ UNCHANGED <<conns, maps, checkoutInProgress, explicit, moderating,
                   recalling, visited, expelled>>

\* The auto-checkout's fragment settles: report, then remove the agent
FinishClose(s) ==
    /\ cleanup[s] # NoSession
    /\ cleanup' = [cleanup EXCEPT ![s] = NoSession]
    /\ NotifyHubCheckout(cleanup[s])
    /\ RemoveAgent(AgentOf[s])
    /\ wsConn' = [wsConn EXCEPT ![AgentOf[s]] = NoSession]
    /\ UNCHANGED <<conns, relayed, checkoutInProgress, explicit, moderating,
                   recalling, visited, expelled>>

-----------------------------------------------------------------------------
(* Explicit checkout: the 'checkout' event of either transport *)

SetStage(s, k, stage) == explicit' = [explicit EXCEPT ![s][k] = stage]

Checkout(s, k) ==
    /\ Heard(s)
    /\ explicit[s][k] = "idle"
    /\ SetStage(s, k, "fragment")
    /\ checkoutInProgress' = checkoutInProgress \cup {AgentOf[s]}
    /\ UNCHANGED <<conns, maps, cleanup, moderating, recalling, past>>

\* The direct handler reports the session it was created for
FragmentReady(s, k) ==
    /\ explicit[s][k] = "fragment"
    /\ SetStage(s, k, "notify")
    /\ NotifyHubCheckout(s)
    /\ UNCHANGED <<conns, maps, checkoutInProgress, cleanup, moderating,
                   recalling, visited, expelled>>

\* Mutant: the notification is sent again once it settles
NotifyRetries(s, k) ==
    /\ explicit[s][k] = "notify"
    /\ SetStage(s, k, "send")
    /\ NotifyHubCheckout(s)
    /\ UNCHANGED <<conns, maps, checkoutInProgress, cleanup, moderating,
                   recalling, visited, expelled>>

NotifySettles(s, k) ==
    /\ explicit[s][k] = "notify"
    /\ SetStage(s, k, "send")
    /\ UNCHANGED <<conns, maps, checkoutInProgress, cleanup, moderating,
                   recalling, past>>

\* Mutant: no finally, the flag stays up
FragmentSentKeepsFlag(s, k) ==
    /\ explicit[s][k] = "send"
    /\ SetStage(s, k, "done")
    /\ socket' = Closing(s)
    /\ UNCHANGED <<handler, hub, maps, checkoutInProgress, cleanup, moderating,
                   recalling, past>>

\* Mutant: the socket is not closed after the fragment is sent
FragmentSentKeepsSocket(s, k) ==
    /\ explicit[s][k] = "send"
    /\ SetStage(s, k, "done")
    /\ checkoutInProgress' = checkoutInProgress \ {AgentOf[s]}
    /\ UNCHANGED <<conns, maps, cleanup, moderating, recalling, past>>

\* ws.send calls back, ws.close(1000), finally
FragmentSent(s, k) ==
    /\ explicit[s][k] = "send"
    /\ SetStage(s, k, "done")
    /\ socket' = Closing(s)
    /\ checkoutInProgress' = checkoutInProgress \ {AgentOf[s]}
    /\ UNCHANGED <<handler, hub, maps, cleanup, moderating, recalling, past>>

\* The relay's handler looks the session id up after its await
RelayFragmentReady(s, k) ==
    /\ explicit[s][k] = "fragment"
    /\ SetStage(s, k, "notify")
    /\ NotifyHubCheckout(relayed[AgentOf[s]])
    /\ UNCHANGED <<conns, maps, checkoutInProgress, cleanup, moderating,
                   recalling, visited, expelled>>

\* Mutant: the map entry is deleted, the record stays in the room
RelayNotifyKeepsRecord(s, k) ==
    /\ explicit[s][k] = "notify"
    /\ SetStage(s, k, "done")
    /\ relayed' = [relayed EXCEPT ![AgentOf[s]] = NoSession]
    /\ checkoutInProgress' = checkoutInProgress \ {AgentOf[s]}
    /\ UNCHANGED <<conns, room, spoke, wsConn, cleanup, moderating, recalling, past>>

\* The relay's handler removes the agent itself, finally
RelayNotifySettles(s, k) ==
    /\ explicit[s][k] = "notify"
    /\ SetStage(s, k, "done")
    /\ RemoveAgent(AgentOf[s])
    /\ relayed' = [relayed EXCEPT ![AgentOf[s]] = NoSession]
    /\ checkoutInProgress' = checkoutInProgress \ {AgentOf[s]}
    /\ UNCHANGED <<conns, wsConn, cleanup, moderating, recalling, past>>

-----------------------------------------------------------------------------
(* The callbacks of the hub's relay *)

\* Mutant: the session is registered in the map of the direct sockets
RelayConnectWrongMap(s) ==
    /\ hub' = [hub EXCEPT ![s] = "open"]
    /\ AgentOf[s] \notin Banned
    /\ ~AtCapacity
    /\ wsConn' = [wsConn EXCEPT ![AgentOf[s]] = s]
    /\ AddAgent(s)
    /\ UNCHANGED <<socket, handler, relayed, jobs, reports, expelled>>

RelayConnect(s) ==
    /\ hub' = [hub EXCEPT ![s] = "open"]
    /\ AgentOf[s] \notin Banned
    /\ ~AtCapacity
    /\ relayed' = [relayed EXCEPT ![AgentOf[s]] = s]
    /\ AddAgent(s)
    /\ UNCHANGED <<socket, handler, wsConn, jobs, reports, expelled>>

\* Mutant: a banned agent's temporary entry is not deleted
RelayRefuseKeepsEntry(s) ==
    /\ hub' = [hub EXCEPT ![s] = "open"]
    /\ AgentOf[s] \in Banned \/ AtCapacity
    /\ relayed' = IF AgentOf[s] \in Banned
                  THEN [relayed EXCEPT ![AgentOf[s]] = s]
                  ELSE relayed
    /\ UNCHANGED <<socket, handler, room, wsConn, spoke, jobs, past>>

\* A banned agent's entry is set to send the error and deleted in the same
\* segment; a full pub drops the connection without a word to the hub
RelayRefuse(s) ==
    /\ AgentOf[s] \in Banned \/ AtCapacity
    /\ hub' = [hub EXCEPT ![s] = "open"]
    /\ relayed' = IF AgentOf[s] \in Banned
                  THEN [relayed EXCEPT ![AgentOf[s]] = NoSession]
                  ELSE relayed
    /\ UNCHANGED <<socket, handler, room, wsConn, spoke, jobs, past>>

\* onAgentConnected, once per session
OnAgentConnected(s) ==
    /\ hub[s] = "none"
    /\ RelayConnect(s) \/ RelayRefuse(s)

\* The hub ends a session whose agent is no longer in the map
RelayDisconnectUnknown(s) ==
    /\ hub[s] = "open"
    /\ hub' = [hub EXCEPT ![s] = "closed"]
    /\ relayed[AgentOf[s]] = NoSession
    /\ UNCHANGED <<socket, handler, maps, jobs, past>>

\* The session ends while the link to the hub is down: the frame is lost, and no
\* callback tells the server of the link, so its maps keep the visit
RelayDisconnectLost(s) ==
    /\ hub[s] = "open"
    /\ hub' = [hub EXCEPT ![s] = "closed"]
    /\ UNCHANGED <<socket, handler, maps, jobs, past>>

\* The slot is freed before any await.  The handler ignores which session the
\* hub ended and captures the one in the map; a visit without a message is
\* reported at once, one with messages after its fragment
RelayDisconnect(s) ==
    LET a == AgentOf[s] IN
    /\ hub[s] = "open"
    /\ hub' = [hub EXCEPT ![s] = "closed"]
    /\ relayed[a] # NoSession
    /\ RemoveAgent(a)
    /\ relayed' = [relayed EXCEPT ![a] = NoSession]
    /\ \/ /\ ~OwesAutoCheckout(a)
          /\ UNCHANGED <<cleanup, reports>>
       \/ /\ OwesAutoCheckout(a)
          /\ a \notin spoke
          /\ NotifyHubCheckout(relayed[a])
          /\ UNCHANGED cleanup
       \/ /\ OwesAutoCheckout(a)
          /\ a \in spoke
          /\ cleanup' = [cleanup EXCEPT ![s] = relayed[a]]
          /\ UNCHANGED reports
    /\ UNCHANGED <<socket, handler, wsConn, checkoutInProgress, explicit,
                   moderating, recalling, visited, expelled>>

\* Mutant: the session id is read again after the await
FinishDisconnectRereads(s) ==
    /\ cleanup[s] # NoSession
    /\ cleanup' = [cleanup EXCEPT ![s] = NoSession]
    /\ NotifyHubCheckout(relayed[AgentOf[s]])
    /\ UNCHANGED <<conns, maps, checkoutInProgress, explicit, moderating,
                   recalling, visited, expelled>>

FinishDisconnect(s) ==
    /\ cleanup[s] # NoSession
    /\ cleanup' = [cleanup EXCEPT ![s] = NoSession]
    /\ NotifyHubCheckout(cleanup[s])
    /\ UNCHANGED <<conns, maps, checkoutInProgress, explicit, moderating,
                   recalling, visited, expelled>>

-----------------------------------------------------------------------------
(* Messages and moderation: what they do to presence and connections.  The *)
(* rate limit, the duplicate filter and the window are Conversation's.     *)

\* An 'action' event is posted in the segment that receives it
Act(s) ==
    /\ Heard(s)
    /\ AddMessage(AgentOf[s])
    /\ UNCHANGED <<conns, room, wsConn, relayed, jobs, past>>

\* A chat message goes to the moderator; one at a time per session (a bound)
Say(s) ==
    /\ Heard(s)
    /\ s \notin moderating
    /\ moderating' = moderating \cup {s}
    /\ UNCHANGED <<conns, maps, checkoutInProgress, explicit, cleanup,
                   recalling, past>>

ModeratorAllows(s) ==
    /\ s \in moderating
    /\ moderating' = moderating \ {s}
    /\ AddMessage(AgentOf[s])
    /\ UNCHANGED <<conns, room, wsConn, relayed, checkoutInProgress, explicit,
                   cleanup, recalling, past>>

ModeratorDrops(s) ==
    /\ s \in moderating
    /\ moderating' = moderating \ {s}
    /\ UNCHANGED <<conns, maps, checkoutInProgress, explicit, cleanup,
                   recalling, past>>

\* A kick closes a direct agent's socket, and removes a relayed agent
ModeratorKicks(s) ==
    /\ s \in moderating
    /\ moderating' = moderating \ {s}
    /\ \/ /\ s \in Direct
          /\ socket' = Closing(s)
          /\ UNCHANGED <<maps, expelled>>
       \/ /\ s \in Relay
          /\ RemoveAgent(AgentOf[s])
          /\ relayed' = [relayed EXCEPT ![AgentOf[s]] = NoSession]
          /\ expelled' = expelled \cup {AgentOf[s]}
          /\ UNCHANGED <<socket, wsConn>>
    /\ UNCHANGED <<handler, hub, checkoutInProgress, explicit, cleanup,
                   recalling, reports, visited>>

-----------------------------------------------------------------------------
(* Recall by the hub: one at a time per agent (a bound) *)

Recall(a) ==
    /\ a \in Present
    /\ a \notin recalling
    /\ recalling' = recalling \cup {a}
    /\ UNCHANGED <<conns, maps, checkoutInProgress, explicit, cleanup,
                   moderating, past>>

\* Mutant: the recalled agent's socket is left open
FinishRecallKeepsSocket(a) ==
    /\ a \in recalling
    /\ recalling' = recalling \ {a}
    /\ RemoveAgent(a)
    /\ wsConn' = [wsConn EXCEPT ![a] = NoSession]
    /\ relayed' = [relayed EXCEPT ![a] = NoSession]
    /\ expelled' = expelled \cup {a}
    /\ UNCHANGED <<conns, checkoutInProgress, explicit, cleanup, moderating,
                   reports, visited>>

\* The fragment settles: whatever is registered now is closed and removed
FinishRecall(a) ==
    /\ a \in recalling
    /\ recalling' = recalling \ {a}
    /\ socket' = IF wsConn[a] = NoSession THEN socket ELSE Closing(wsConn[a])
    /\ RemoveAgent(a)
    /\ wsConn' = [wsConn EXCEPT ![a] = NoSession]
    /\ relayed' = [relayed EXCEPT ![a] = NoSession]
    /\ expelled' = expelled \cup {a}
    /\ UNCHANGED <<handler, hub, checkoutInProgress, explicit, cleanup,
                   moderating, reports, visited>>

-----------------------------------------------------------------------------

DirectStep(s) ==
    \/ RefuseHeaders(s) \/ Connect(s) \/ Reject(s) \/ Admit(s)
    \/ PeerCloses(s) \/ Terminate(s)
    \/ CloseUnheard(s) \/ OnCloseAutoCheckout(s) \/ OnCloseRemove(s)
    \/ FinishClose(s)
    \/ \E k \in Tries : FragmentReady(s, k) \/ NotifySettles(s, k) \/ FragmentSent(s, k)

RelayStep(s) ==
    \/ OnAgentConnected(s)
    \/ RelayDisconnectUnknown(s) \/ RelayDisconnectLost(s)
    \/ RelayDisconnect(s) \/ FinishDisconnect(s)
    \/ \E k \in Tries : RelayFragmentReady(s, k) \/ RelayNotifySettles(s, k)

SessionStep(s) ==
    \/ \E k \in Tries : Checkout(s, k)
    \/ Act(s) \/ Say(s)
    \/ ModeratorAllows(s) \/ ModeratorDrops(s) \/ ModeratorKicks(s)

Next ==
    \/ \E s \in Direct : DirectStep(s)
    \/ \E s \in Relay : RelayStep(s)
    \/ \E s \in Sessions : SessionStep(s)
    \/ \E a \in Agents : Recall(a) \/ FinishRecall(a)

Spec == Init /\ [][Next]_vars

\* What the runtime owes: awaited calls settle and a closing socket closes.
\* Peers and the hub owe nothing.
Fairness ==
    /\ \A s \in Direct :
        /\ WF_vars(Reject(s) \/ Admit(s))
        /\ WF_vars(CloseUnheard(s) \/ OnCloseAutoCheckout(s) \/ OnCloseRemove(s))
        /\ WF_vars(FinishClose(s))
        /\ \A k \in Tries :
            WF_vars(FragmentReady(s, k) \/ NotifySettles(s, k) \/ FragmentSent(s, k))
    /\ \A s \in Relay :
        /\ WF_vars(FinishDisconnect(s))
        /\ \A k \in Tries : WF_vars(RelayFragmentReady(s, k) \/ RelayNotifySettles(s, k))
    /\ \A s \in Sessions : WF_vars(ModeratorAllows(s) \/ ModeratorDrops(s) \/ ModeratorKicks(s))
    /\ \A a \in Agents : WF_vars(FinishRecall(a))

FairSpec == Spec /\ Fairness
-----------------------------------------------------------------------------
(* Properties *)

\* The only session of its agent: the agent never reconnects
Sole(s) == \A t \in Sessions : AgentOf[t] = AgentOf[s] => t = s

Requested(s) == {k \in Tries : explicit[s][k] # "idle"}
AwaitsFragment(s) == \E k \in Tries : explicit[s][k] = "fragment"
CheckoutInFlight(a) ==
    \E s \in Sessions, k \in Tries :
        AgentOf[s] = a /\ explicit[s][k] \in {"fragment", "notify", "send"}

\* The agent of a relayed visit left on its own and its disconnect is handled
RelayVisitOver(s) ==
    /\ Sole(s)
    /\ s \in visited
    /\ relayed[AgentOf[s]] = NoSession
    /\ cleanup[s] = NoSession
    /\ AgentOf[s] \notin expelled

\* The room never holds more agents than the pub's capacity, although every
\* admission is decided after an await (server.ts:818, 1346).
CapacityRespected == Cardinality(Present) <= Capacity

\* Neither transport ever gives a banned agent a slot or a channel.
BannedStayOut ==
    \A a \in Banned :
        room[a] = NoSession /\ wsConn[a] = NoSession /\ relayed[a] = NoSession

\* The session that holds an agent's slot is registered with one of the two
\* transports, and an agent without a slot lacks at least one of them: no
\* interleaving of the removals leaves a presence nobody can be reached at.
RoomMatchesAChannel == \A a \in Agents : room[a] \in {wsConn[a], relayed[a]}

\* The flag that suppresses auto-checkouts is up only while a checkout handler
\* of that agent is in flight, whatever fails meanwhile: it never leaks.
CheckoutFlagOwned == \A a \in checkoutInProgress : CheckoutInFlight(a)

\* A session whose close handler ran and that still holds its agent's slot has
\* an auto-checkout in flight that will free it.
ClosedSlotBeingFreed ==
    \A s \in Direct :
        room[AgentOf[s]] = s /\ handler[s] = "left" => cleanup[s] = s

\* A direct visit whose handlers are done was reported to the hub, unless the
\* agent was recalled: skipping the auto-checkout never loses the visit.
DirectVisitAccounted ==
    \A s \in Direct :
        Sole(s) /\ handler[s] = "left" /\ cleanup[s] = NoSession /\ ~AwaitsFragment(s)
            => reports[s] > 0 \/ AgentOf[s] \in expelled

\* A direct session is reported once per checkout request and once more at
\* most, so a visit that never asks to check out is reported at most once.
DirectReportsBounded ==
    \A s \in Direct : reports[s] <= Cardinality(Requested(s)) + 1

\* A relayed visit that asks to check out at most once is reported at most
\* once, however its disconnect interleaves with its checkout.
RelayReportedAtMostOnce ==
    \A s \in Relay :
        Sole(s) /\ Cardinality(Requested(s)) <= 1 => reports[s] <= 1

\* A relayed visit that never asks to check out and is not expelled is reported
\* under its own session id once it has left and its handlers are done.
RelayVisitAccounted ==
    \A s \in Relay : RelayVisitOver(s) /\ Requested(s) = {} => reports[s] = 1

\* A step takes the slot of an agent that never reconnects only for a cause of
\* its own: its socket is closing, the hub ended its session, it asked to check
\* out, or it was expelled.
EvictionHasCause ==
    [][\A s \in Sessions :
        Sole(s) /\ room[AgentOf[s]] = s /\ room'[AgentOf[s]] # s =>
            \/ s \in Direct /\ socket'[s] # "open"
            \/ s \in Relay /\ hub'[s] = "closed"
            \/ s \in Relay /\ Requested(s) # {}
            \/ s \in Relay /\ AgentOf[s] \in expelled']_vars

\* A checkout request that reached its handler ends: the flag and, for a direct
\* agent, the socket do not stay behind.
CheckoutCompletes ==
    \A s \in Sessions, k \in Tries :
        explicit[s][k] = "fragment" ~>
            explicit[s][k] = "done" /\ (s \in Direct => socket[s] # "open")

\* A direct session whose close event was handled eventually loses the slot.
ClosedSlotFreed ==
    \A s \in Direct :
        handler[s] = "left" /\ room[AgentOf[s]] = s ~> room[AgentOf[s]] # s

-----------------------------------------------------------------------------
(* The visits as a ledger *)

Ledger == INSTANCE VisitLedger WITH
    inside   <- {s \in Sessions : room[AgentOf[s]] = s},
    begun    <- visited,
    reported <- {s \in Sessions : reports[s] > 0}

\* Two transports, handlers that outlive their sessions and maps keyed by agent
\* still keep the ledger of visits: a session enters once, and no report names a
\* session that never entered (server.ts:1521 and 1555 look the id up in a map).
KeepsLedger == Ledger!Spec

-----------------------------------------------------------------------------
(* What comments and docs say of the code, which the code does not do *)

\* server.ts:170-173 and 1021-1023: an explicit checkout and the disconnect
\* that follows it do not both report the visit.
DirectReportedOnce ==
    \A s \in Direct : Cardinality(Requested(s)) <= 1 => reports[s] <= 1

\* server.ts:1543-1544: a disconnect that finds a checkout in flight may skip
\* the report because the checkout handler reports this visit.
CheckoutHandlerOwnsReport ==
    \A s \in Relay : RelayVisitOver(s) /\ ~AwaitsFragment(s) => reports[s] > 0

\* docs/protocol.md:53: an agent that reconnects gets its session back, so an
\* admitted socket that stays open keeps its agent in the room.
OpenSocketInRoom ==
    \A s \in Direct :
        handler[s] = "admitted" /\ socket[s] = "open" /\ AgentOf[s] \notin expelled
            => AgentOf[s] \in Present

\* server.ts:1206: terminating a dead socket triggers its close event, so a
\* registered socket that is closed eventually loses its slot.
ClosedSocketFreed ==
    \A s \in Direct :
        socket[s] = "closed" /\ room[AgentOf[s]] = s ~> room[AgentOf[s]] # s
=============================================================================
