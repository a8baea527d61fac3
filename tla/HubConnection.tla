---------------------------- MODULE HubConnection ----------------------------
(***************************************************************************)
(* The pub's WebSocket to the hub (src/packages/pub-server/src/hub/hub-    *)
(* connection.ts): connect, the reconnect timer with its backoff, the      *)
(* heartbeat interval, the hub's `ready` frame and the graceful disconnect.*)
(* Every socket's callbacks run on the one HubConnection object; none      *)
(* checks that it comes from the current socket.  Backoff delays are       *)
(* abstracted to the number of attempts, which the code caps by a maximal  *)
(* delay.  A WebSocket object is reused here once it is closed.            *)
(***************************************************************************)
EXTENDS Naturals

CONSTANTS
    Sockets,     \* WebSocket objects
    NoSocket,    \* this.ws === null
    MaxAttempts  \* attempts at which the delay reaches reconnectMaxDelayMs

ASSUME HubAssumption == NoSocket \notin Sockets /\ MaxAttempts \in Nat \ {0}

VARIABLES
    ready,        \* readyState of each socket
    ws,           \* the current socket
    timer,        \* a reconnect timer is set
    attempts,     \* reconnectAttempts
    heartbeat,    \* heartbeat intervals that run
    shuttingDown, \* isShuttingDown
    farewell      \* disconnect() waits for the hub to hear of it

vars == <<ready, ws, timer, attempts, heartbeat, shuttingDown, farewell>>

TypeOK ==
    /\ ready \in [Sockets -> {"connecting", "open", "closing", "closed"}]
    /\ ws \in Sockets \cup {NoSocket}
    /\ timer \in BOOLEAN
    /\ attempts \in 0..MaxAttempts
    /\ heartbeat \in 0..1
    /\ shuttingDown \in BOOLEAN
    /\ farewell \in BOOLEAN

\* start() has called connect() once
Init ==
    /\ ws \in Sockets
    /\ ready = [s \in Sockets |-> IF s = ws THEN "connecting" ELSE "closed"]
    /\ timer = FALSE
    /\ attempts = 0
    /\ heartbeat = 0
    /\ shuttingDown = FALSE
    /\ farewell = FALSE

IsOpen == ws # NoSocket /\ ready[ws] = "open"

\* Mutant: a socket that still counts as open when it closes sets no timer
ScheduleReconnectUnlessOpen == timer' = (timer \/ (~shuttingDown /\ ~IsOpen))

\* Mutant: also during the shutdown
ScheduleReconnectAlways == timer' = TRUE

\* scheduleReconnect, with the check of isShuttingDown that handleClose repeats:
\* at most one timer, none during the shutdown
ScheduleReconnect == timer' = (timer \/ ~shuttingDown)

\* Mutant: the interval that runs is not stopped first
StartHeartbeatBeside == heartbeat' = heartbeat + 1

\* startHeartbeat stops the interval that runs, if any, and starts one
StartHeartbeat == heartbeat' = 1

StopHeartbeat == heartbeat' = 0

\* The delay doubles with the attempts until it reaches its maximum
CountAttempt == attempts' = IF attempts < MaxAttempts THEN attempts + 1 ELSE attempts

\* connect: a new socket becomes the current one, unless the hub is connected;
\* the object of the last one serves again once it is closed
Connect ==
    IF shuttingDown \/ IsOpen THEN UNCHANGED <<ready, ws>>
    ELSE \E s \in Sockets :
        /\ ready[s] = "closed"
        /\ ready[ws] = "closed" => s = ws
        /\ ready' = [ready EXCEPT ![s] = "connecting"]
        /\ ws' = s

-----------------------------------------------------------------------------

\* handleOpen: the backoff starts over, init is sent, the heartbeat starts
HandleOpen(s) ==
    /\ ready[s] = "connecting"
    /\ ready' = [ready EXCEPT ![s] = "open"]
    /\ attempts' = 0
    /\ StartHeartbeat
    /\ UNCHANGED <<ws, timer, shuttingDown, farewell>>

\* Mutant: the heartbeat is left running
HandleCloseKeepsHeartbeat(s) ==
    /\ ready[s] \in {"connecting", "open", "closing"}
    /\ ready' = [ready EXCEPT ![s] = "closed"]
    /\ ScheduleReconnect
    /\ UNCHANGED <<ws, attempts, heartbeat, shuttingDown, farewell>>

\* handleClose, also of a handshake that failed
HandleClose(s) ==
    /\ ready[s] \in {"connecting", "open", "closing"}
    /\ ready' = [ready EXCEPT ![s] = "closed"]
    /\ StopHeartbeat
    /\ ScheduleReconnect
    /\ UNCHANGED <<ws, attempts, shuttingDown, farewell>>

\* The hub's `ready` frame restarts the heartbeat, whatever else goes on
HandleReady(s) ==
    /\ ready[s] \in {"open", "closing"}
    /\ StartHeartbeat
    /\ UNCHANGED <<ready, ws, timer, attempts, shuttingDown, farewell>>

\* Mutant: the fired timer's id is kept, so that none will be set again
TimerFiresKeepsId ==
    /\ timer
    /\ CountAttempt
    /\ Connect
    /\ UNCHANGED <<timer, heartbeat, shuttingDown, farewell>>

\* The timer fires and connect() runs
TimerFires ==
    /\ timer
    /\ timer' = FALSE
    /\ CountAttempt
    /\ Connect
    /\ UNCHANGED <<heartbeat, shuttingDown, farewell>>

\* connect() throws while it makes the socket and sets the timer again
TimerFiresInVain ==
    /\ timer
    /\ ~shuttingDown
    /\ ~IsOpen
    /\ CountAttempt
    /\ UNCHANGED <<ready, ws, timer, heartbeat, shuttingDown, farewell>>

\* disconnect() up to its await: an open hub is told and given time
Disconnect ==
    /\ ~shuttingDown
    /\ shuttingDown' = TRUE
    /\ timer' = FALSE
    /\ StopHeartbeat
    /\ IsOpen
    /\ farewell' = TRUE
    /\ UNCHANGED <<ready, ws, attempts>>

\* ws.close(): a closed socket stays closed, any other closes soon
CloseCurrent ==
    /\ ready' = IF ws = NoSocket \/ ready[ws] = "closed" THEN ready
                ELSE [ready EXCEPT ![ws] = "closing"]
    /\ ws' = NoSocket

\* disconnect() without an open socket does not wait
DisconnectAtOnce ==
    /\ ~shuttingDown
    /\ shuttingDown' = TRUE
    /\ timer' = FALSE
    /\ StopHeartbeat
    /\ ~IsOpen
    /\ CloseCurrent
    /\ UNCHANGED <<attempts, farewell>>

\* Mutant: the socket is forgotten and not closed
FinishDisconnectForgets ==
    /\ farewell
    /\ farewell' = FALSE
    /\ ws' = NoSocket
    /\ UNCHANGED <<ready, timer, attempts, heartbeat, shuttingDown>>

\* disconnect() after its await: half a second is over or the socket closed
FinishDisconnect ==
    /\ farewell
    /\ farewell' = FALSE
    /\ CloseCurrent
    /\ UNCHANGED <<timer, attempts, heartbeat, shuttingDown>>

Next ==
    \/ \E s \in Sockets : HandleOpen(s) \/ HandleClose(s) \/ HandleReady(s)
    \/ TimerFires \/ TimerFiresInVain
    \/ Disconnect \/ DisconnectAtOnce \/ FinishDisconnect

Spec == Init /\ [][Next]_vars

\* Timers fire, a handshake ends either way, a closing socket closes.  The hub
\* may drop an open link or keep it.
Fairness ==
    WF_vars(\/ TimerFires \/ FinishDisconnect
            \/ \E s \in Sockets : ready[s] # "open" /\ (HandleOpen(s) \/ HandleClose(s)))

-----------------------------------------------------------------------------
(* Properties *)

Live == {s \in Sockets : ready[s] # "closed"}

\* Until it shuts down the pub never gives up and never doubles its link: either
\* one timer waits and no socket is alive, or the current socket is the only one
\* alive.  The heartbeat and the frames sent on this.ws rely on it.
LinkOrTimer ==
    ~shuttingDown =>
        \/ timer /\ Live = {}
        \/ ~timer /\ Live = {ws}

\* The heartbeat runs only while a socket is there to be closed, which will stop
\* it, even when the hub's `ready` restarts it during the shutdown.
HeartbeatHasSocket == heartbeat > 0 => Live # {}

\* Once the shutdown has begun no timer is set and no socket is opened anew.
StaysDown ==
    [][shuttingDown => ~timer' /\ \A s \in Sockets :
        ready[s] = "closed" => ready'[s] = "closed"]_vars

\* A lost link is dialled again, unless the pub shuts down.
LinkRetried == Live = {} ~> Live # {} \/ shuttingDown

\* A pub that shuts down ends without a socket and without an interval.
ShutsDown == shuttingDown ~> [](Live = {} /\ heartbeat = 0)
=============================================================================
