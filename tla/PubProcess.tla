----------------------------- MODULE PubProcess -----------------------------
(***************************************************************************)
(* The process of the pub: its link to the hub (HubConnection) and its own *)
(* WebSockets (Keepalive) live side by side until a signal; then the       *)
(* shutdown ends first the one, then the other, then the process.          *)
(***************************************************************************)
EXTENDS HubConnection, Keepalive

processVars == <<vars, pubVars>>

\* Which WebSocket object is the first makes no difference
ProcessInit == Init /\ PubInit /\ ws = CHOOSE s \in Sockets : TRUE

\* The callbacks of the hub's socket and timer
LinkStep ==
    /\ \/ \E s \in Sockets : HandleOpen(s) \/ HandleClose(s) \/ HandleReady(s)
       \/ TimerFires \/ TimerFiresInVain \/ FinishDisconnect
    /\ UNCHANGED pubVars

\* gracefulShutdown up to its first await
Stop == Sigterm /\ (Disconnect \/ DisconnectAtOnce)

\* The await on the hub is over, whether it took time or not
SweepAfterHub == Sweep /\ ~farewell /\ UNCHANGED vars

\* process.exit ends the link as well, whatever state it is in
ProcessExits ==
    /\ Exit
    /\ ready' = [s \in Sockets |-> "closed"]
    /\ ws' = NoSocket
    /\ timer' = FALSE /\ heartbeat' = 0
    /\ UNCHANGED <<attempts, shuttingDown, farewell>>

ProcessNext ==
    \/ LinkStep \/ Stop \/ SweepAfterHub \/ ProcessExits
    \/ Serve /\ UNCHANGED vars

\* Promises settle: those of the sockets' handlers and those of the shutdown
Settle == SweepAfterHub \/ ProcessExits \/ (Settles /\ UNCHANGED vars)

ProcessSpec ==
    /\ ProcessInit /\ [][ProcessNext]_processVars
    /\ Fairness /\ PubFairness
    /\ WF_processVars(Settle)
=============================================================================
