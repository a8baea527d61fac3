-------------------------- MODULE VisitReportsProofs --------------------------
(***************************************************************************)
(* What PubServer owes the hub for a visit, for any agents, sessions, bans *)
(* and capacity: how often a session is reported, and that a finished one  *)
(* is.  Most of these properties speak of a session that is the only one   *)
(* of its agent, so the argument first says what a step can do to such a   *)
(* session (SoleStep): it is a step of the session's own handlers, or one  *)
(* that expels its agent, or it leaves all its records as they are.        *)
(***************************************************************************)
EXTENDS VisitLedgerProofs

\* What a step must not touch to mean nothing to session s
Unmoved(s) ==
    /\ room'[AgentOf[s]] = room[AgentOf[s]]
    /\ relayed'[AgentOf[s]] = relayed[AgentOf[s]]
    /\ AgentOf[s] \in expelled' <=> AgentOf[s] \in expelled

Unworked(s) ==
    /\ s \in visited' <=> s \in visited
    /\ explicit'[s] = explicit[s]
    /\ cleanup'[s] = cleanup[s]
    /\ reports'[s] = reports[s]
    /\ AgentOf[s] \in checkoutInProgress' <=> AgentOf[s] \in checkoutInProgress
    /\ s \in Direct => handler'[s] = handler[s]
    /\ s \in Relay => hub'[s] = hub[s]

Untouched(s) == Unmoved(s) /\ Unworked(s)

\* A kick or a recall takes the session's agent out of the room and of the relay,
\* and closes the socket it is registered with
Expels(s) ==
    /\ room'[AgentOf[s]] = NoSession
    /\ relayed'[AgentOf[s]] = NoSession
    /\ AgentOf[s] \in expelled'
    /\ s \in Direct /\ wsConn[AgentOf[s]] = s => socket'[s] # "open"
    /\ Unworked(s)

\* The handlers of another agent's direct session do not touch s.
LEMMA ForeignDirect ==
    ASSUME TypeOK, VisitInv, NEW s \in Sessions,
           NEW t \in Direct, AgentOf[t] # AgentOf[s], DirectStep(t)
    PROVE  Untouched(s)
<1> USE SessionsAssumption
    DEF TypeOK, Sessions, Untouched, Unmoved, Unworked, conns, maps, jobs, past
<1>1. CASE Admit(t) BY <1>1 DEF Admit, AddAgent
<1>2. CASE OnCloseAutoCheckout(t) BY <1>2 DEF OnCloseAutoCheckout
<1>3. CASE OnCloseRemove(t) BY <1>3 DEF OnCloseRemove, RemoveAgent
<1>4. CASE FinishClose(t)
  <2>1. cleanup[t] # s
    BY <1>4 DEF FinishClose, VisitInv, EntryVisited
  <2> QED BY <1>4, <2>1 DEF FinishClose, RemoveAgent, NotifyHubCheckout
<1>5. CASE \/ RefuseHeaders(t) \/ Connect(t) \/ Reject(t)
           \/ PeerCloses(t) \/ Terminate(t) \/ CloseUnheard(t)
  BY <1>5 DEF RefuseHeaders, Connect, Reject, PeerCloses, Terminate, CloseUnheard
<1>6. ASSUME NEW k \in Tries,
             FragmentReady(t, k) \/ NotifySettles(t, k) \/ FragmentSent(t, k)
      PROVE  Untouched(s)
  BY <1>6 DEF FragmentReady, NotifySettles, FragmentSent, SetStage, NotifyHubCheckout
<1> QED BY <1>1, <1>2, <1>3, <1>4, <1>5, <1>6 DEF DirectStep

\* Nor do those of another agent's relayed session, whatever id they look up.
LEMMA ForeignRelay ==
    ASSUME TypeOK, VisitInv, NEW s \in Sessions,
           NEW t \in Relay, AgentOf[t] # AgentOf[s], RelayStep(t)
    PROVE  Untouched(s)
<1> USE SessionsAssumption
    DEF TypeOK, Sessions, Untouched, Unmoved, Unworked, conns, maps, jobs, past
<1>0. relayed[AgentOf[t]] # s /\ cleanup[t] \in Sessions \cup {NoSession} /\ cleanup[t] # s
  BY DEF VisitInv, EntryVisited
<1>1. CASE OnAgentConnected(t)
  BY <1>1 DEF OnAgentConnected, RelayConnect, RelayRefuse, AddAgent
<1>2. CASE RelayDisconnectUnknown(t) \/ RelayDisconnectLost(t)
  BY <1>2 DEF RelayDisconnectUnknown, RelayDisconnectLost
<1>3. CASE RelayDisconnect(t)
  <2>1. RelayDisconnectMoves(t)
    BY <1>3, RelayDisconnectStep
  <2>2. UNCHANGED <<checkoutInProgress, expelled>>
    BY <1>3 DEF RelayDisconnect
  <2> QED BY <1>0, <2>1, <2>2 DEF RelayDisconnectMoves, Told
<1>4. CASE FinishDisconnect(t)
  BY <1>0, <1>4 DEF FinishDisconnect, NotifyHubCheckout
<1>5. ASSUME NEW k \in Tries, RelayFragmentReady(t, k) PROVE Untouched(s)
  BY <1>0, <1>5 DEF RelayFragmentReady, SetStage, NotifyHubCheckout
<1>6. ASSUME NEW k \in Tries, RelayNotifySettles(t, k) PROVE Untouched(s)
  BY <1>6 DEF RelayNotifySettles, SetStage, RemoveAgent
<1> QED BY <1>1, <1>2, <1>3, <1>4, <1>5, <1>6 DEF RelayStep

\* Messages and checkouts of another agent do not touch s.
LEMMA ForeignSession ==
    ASSUME TypeOK, NEW s \in Sessions,
           NEW t \in Sessions, AgentOf[t] # AgentOf[s], SessionStep(t)
    PROVE  Untouched(s)
<1> USE SessionsAssumption
    DEF TypeOK, Untouched, Unmoved, Unworked, conns, maps, jobs, past
<1>1. CASE Act(t) \/ Say(t) \/ ModeratorAllows(t) \/ ModeratorDrops(t)
  BY <1>1 DEF Act, Say, ModeratorAllows, ModeratorDrops
<1>2. CASE ModeratorKicks(t)
  BY <1>2 DEF ModeratorKicks, RemoveAgent
<1>3. ASSUME NEW k \in Tries, Checkout(t, k) PROVE Untouched(s)
  BY <1>3 DEF Checkout, SetStage
<1> QED BY <1>1, <1>2, <1>3 DEF SessionStep

\* A session's own messages leave it alone, unless they get its agent kicked.
LEMMA OwnMessage ==
    ASSUME TypeOK, NEW s \in Sessions,
           \/ Act(s) \/ Say(s)
           \/ ModeratorAllows(s) \/ ModeratorDrops(s) \/ ModeratorKicks(s)
    PROVE  Untouched(s) \/ (s \in Relay /\ Expels(s))
<1> USE SessionsAssumption
    DEF TypeOK, Sessions, Untouched, Unmoved, Expels, Unworked, conns, maps, jobs, past
<1>1. CASE Act(s) \/ Say(s) \/ ModeratorAllows(s) \/ ModeratorDrops(s)
  BY <1>1 DEF Act, Say, ModeratorAllows, ModeratorDrops
<1>2. CASE ModeratorKicks(s)
  BY <1>2 DEF ModeratorKicks, RemoveAgent
<1> QED BY <1>1, <1>2

\* A recall expels its agent; of any other it leaves the sessions alone.
LEMMA RecallExpels ==
    ASSUME TypeOK, NEW s \in Sessions, NEW a \in Agents, Recall(a) \/ FinishRecall(a)
    PROVE  Untouched(s) \/ (a = AgentOf[s] /\ FinishRecall(a) /\ Expels(s))
<1> USE SessionsAssumption
    DEF TypeOK, Untouched, Unmoved, Expels, Unworked, conns, maps, jobs, past
<1>1. CASE Recall(a)
  BY <1>1 DEF Recall
<1>2. CASE FinishRecall(a)
  BY <1>2 DEF FinishRecall, RemoveAgent, Closing
<1> QED BY <1>1, <1>2

\* What a step can be to a session that is its agent's only one
SoleStep(s) ==
    \/ Untouched(s)
    \/ Expels(s)
    \/ s \in Direct /\ DirectStep(s)
    \/ s \in Relay /\ RelayStep(s)
    \/ \E k \in Tries : Checkout(s, k)

\* Every step is one of these.
LEMMA NextSoleStep ==
    ASSUME TypeOK, VisitInv, [Next]_vars, NEW s \in Sessions, Sole(s)
    PROVE  SoleStep(s)
<1> USE DEF SoleStep
<1>1. ASSUME NEW t \in Direct, DirectStep(t) PROVE SoleStep(s)
  BY <1>1, ForeignDirect DEF Sole, Sessions
<1>2. ASSUME NEW t \in Relay, RelayStep(t) PROVE SoleStep(s)
  BY <1>2, ForeignRelay DEF Sole, Sessions
<1>3. ASSUME NEW t \in Sessions, SessionStep(t) PROVE SoleStep(s)
  <2>1. CASE t = s
    BY <1>3, <2>1, OwnMessage DEF SessionStep
  <2>2. CASE t # s
    BY <1>3, <2>2, ForeignSession DEF Sole
  <2> QED BY <2>1, <2>2
<1>4. ASSUME NEW a \in Agents, Recall(a) \/ FinishRecall(a) PROVE SoleStep(s)
  BY <1>4, RecallExpels
<1>5. CASE UNCHANGED vars
  BY <1>5 DEF vars, conns, maps, jobs, past, Untouched, Unmoved, Unworked
<1> QED BY <1>1, <1>2, <1>3, <1>4, <1>5 DEF Next

-----------------------------------------------------------------------------
(* How often a direct session is reported *)

\* What a handler that awaits holds: a close handler of a direct session its own
\* id, a disconnect handler an id of the relay's.  A socket whose close handler
\* ran is closed.
CleanupInv ==
    /\ \A s \in Direct : cleanup[s] # NoSession => cleanup[s] = s /\ handler[s] = "left"
    /\ \A s \in Direct : handler[s] = "left" => socket[s] = "closed"
    /\ \A s \in Relay : cleanup[s] \notin Direct

\* The requests that were reported, and whether the close was
Answered(s) == {k \in Tries : explicit[s][k] \in {"notify", "send", "done"}}
ClosedOnce(s) == IF handler[s] = "left" /\ cleanup[s] = NoSession THEN 1 ELSE 0

DirectCount ==
    \A s \in Direct : reports[s] <= Cardinality(Answered(s)) + ClosedOnce(s)

\* The records that only a direct session's own handlers change
Kept(s) ==
    /\ handler'[s] = handler[s]
    /\ explicit'[s] = explicit[s]
    /\ cleanup'[s] = cleanup[s]
    /\ reports'[s] = reports[s]

\* No other session, of the same agent or not, changes them.
LEMMA NextDirectRecords ==
    ASSUME TypeOK, CleanupInv, [Next]_vars, NEW s \in Direct
    PROVE  Kept(s) \/ DirectStep(s) \/ \E k \in Tries : Checkout(s, k)
<1> DEFINE Goal == Kept(s) \/ DirectStep(s) \/ \E k \in Tries : Checkout(s, k)
<1> USE SessionsAssumption DEF TypeOK, Sessions, Kept, conns, maps, jobs, past
<1>1. ASSUME NEW t \in Direct, DirectStep(t) PROVE Goal
  <2>1. CASE t = s
    BY <1>1, <2>1
  <2>2. ASSUME t # s, FinishClose(t) PROVE Kept(s)
    BY <2>2 DEF FinishClose, NotifyHubCheckout, CleanupInv
  <2>3. ASSUME t # s, NEW k \in Tries,
               FragmentReady(t, k) \/ NotifySettles(t, k) \/ FragmentSent(t, k)
        PROVE  Kept(s)
    BY <2>3 DEF FragmentReady, NotifySettles, FragmentSent, SetStage, NotifyHubCheckout
  <2>4. ASSUME t # s,
               \/ RefuseHeaders(t) \/ Connect(t) \/ Reject(t) \/ Admit(t)
               \/ PeerCloses(t) \/ Terminate(t) \/ CloseUnheard(t)
               \/ OnCloseAutoCheckout(t) \/ OnCloseRemove(t)
        PROVE  Kept(s)
    BY <2>4 DEF RefuseHeaders, Connect, Reject, Admit, PeerCloses, Terminate,
                CloseUnheard, OnCloseAutoCheckout, OnCloseRemove
  <2> QED BY <1>1, <2>1, <2>2, <2>3, <2>4 DEF DirectStep
<1>2. ASSUME NEW t \in Relay, RelayStep(t) PROVE Kept(s)
  <2>1. CASE OnAgentConnected(t) \/ RelayDisconnectUnknown(t) \/ RelayDisconnectLost(t)
    BY <2>1 DEF OnAgentConnected, RelayConnect, RelayRefuse, RelayDisconnectUnknown,
                RelayDisconnectLost
  <2>2. CASE RelayDisconnect(t)
    <3>1. RelayDisconnectMoves(t)
      BY <2>2, RelayDisconnectStep
    <3> QED BY <3>1 DEF RelayDisconnectMoves, Told
  <2>3. CASE FinishDisconnect(t)
    BY <2>3 DEF FinishDisconnect, NotifyHubCheckout, CleanupInv
  <2>4. ASSUME NEW k \in Tries, RelayFragmentReady(t, k) \/ RelayNotifySettles(t, k)
        PROVE  Kept(s)
    BY <2>4 DEF RelayFragmentReady, RelayNotifySettles, SetStage, NotifyHubCheckout
  <2> QED BY <1>2, <2>1, <2>2, <2>3, <2>4 DEF RelayStep
<1>3. ASSUME NEW t \in Sessions, SessionStep(t) PROVE Goal
  <2>1. CASE \/ Act(t) \/ Say(t)
             \/ ModeratorAllows(t) \/ ModeratorDrops(t) \/ ModeratorKicks(t)
    BY <2>1 DEF Act, Say, ModeratorAllows, ModeratorDrops, ModeratorKicks
  <2>2. ASSUME NEW k \in Tries, Checkout(t, k), t # s PROVE Kept(s)
    BY <2>2 DEF Checkout, SetStage
  <2> QED BY <1>3, <2>1, <2>2 DEF SessionStep
<1>4. ASSUME NEW a \in Agents, Recall(a) \/ FinishRecall(a) PROVE Kept(s)
  BY <1>4 DEF Recall, FinishRecall
<1>5. CASE UNCHANGED vars
  BY <1>5 DEF vars
<1> QED BY <1>1, <1>2, <1>3, <1>4, <1>5 DEF Next

\* A socket that is closed stays closed.
LEMMA SocketStaysClosed ==
    ASSUME TypeOK, [Next]_vars, NEW s \in Direct, socket[s] = "closed"
    PROVE  socket'[s] = "closed"
<1> USE SessionsAssumption DEF TypeOK, conns, Closing
<1>1. ASSUME NEW t \in Direct, DirectStep(t) PROVE socket'[s] = "closed"
  BY <1>1 DEF DirectStep, RefuseHeaders, Connect, Reject, Admit, PeerCloses, Terminate,
              CloseUnheard, OnCloseAutoCheckout, OnCloseRemove, FinishClose,
              FragmentReady, NotifySettles, FragmentSent
<1>2. ASSUME NEW t \in Relay, RelayStep(t) PROVE socket' = socket
  BY <1>2 DEF RelayStep, OnAgentConnected, RelayConnect, RelayRefuse,
              RelayDisconnectUnknown, RelayDisconnectLost, RelayDisconnect,
              FinishDisconnect, RelayFragmentReady, RelayNotifySettles
<1>3. ASSUME NEW t \in Sessions, SessionStep(t) PROVE socket'[s] = "closed"
  BY <1>3 DEF SessionStep, Act, Say, ModeratorAllows, ModeratorDrops, ModeratorKicks,
              Checkout
<1>4. ASSUME NEW a \in Agents, Recall(a) \/ FinishRecall(a) PROVE socket'[s] = "closed"
  BY <1>4 DEF Recall, FinishRecall
<1>5. CASE UNCHANGED vars
  BY <1>5 DEF vars
<1> QED BY <1>1, <1>2, <1>3, <1>4, <1>5 DEF Next

\* A disconnect handler captures ids of the relay's map only.
LEMMA RelayCleanup ==
    ASSUME TypeOK, CleanupInv, [Next]_vars, NEW s \in Relay
    PROVE  cleanup'[s] \notin Direct
<1> USE SessionsAssumption DEF TypeOK, Sessions, CleanupInv, jobs
<1>1. ASSUME NEW t \in Direct, DirectStep(t) PROVE cleanup'[s] = cleanup[s]
  BY <1>1 DEF DirectStep, RefuseHeaders, Connect, Reject, Admit, PeerCloses, Terminate,
              CloseUnheard, OnCloseAutoCheckout, OnCloseRemove, FinishClose,
              FragmentReady, NotifySettles, FragmentSent
<1>2. ASSUME NEW t \in Relay, RelayStep(t) PROVE cleanup'[s] \notin Direct
  <2>1. CASE RelayDisconnect(t)
    <3>1. RelayDisconnectMoves(t)
      BY <2>1, RelayDisconnectStep
    <3>2. relayed[AgentOf[t]] \notin Direct
      OBVIOUS
    <3> QED BY <3>1, <3>2 DEF RelayDisconnectMoves
  <2>2. CASE OnAgentConnected(t) \/ RelayDisconnectUnknown(t) \/ RelayDisconnectLost(t)
    BY <2>2 DEF OnAgentConnected, RelayConnect, RelayRefuse, RelayDisconnectUnknown,
                RelayDisconnectLost
  <2>3. CASE FinishDisconnect(t)
    BY <2>3 DEF FinishDisconnect
  <2>4. CASE \E k \in Tries : RelayFragmentReady(t, k) \/ RelayNotifySettles(t, k)
    BY <2>4 DEF RelayFragmentReady, RelayNotifySettles
  <2> QED BY <1>2, <2>1, <2>2, <2>3, <2>4 DEF RelayStep
<1>3. ASSUME NEW t \in Sessions, SessionStep(t) PROVE cleanup' = cleanup
  BY <1>3 DEF SessionStep, Act, Say, ModeratorAllows, ModeratorDrops, ModeratorKicks,
              Checkout
<1>4. ASSUME NEW a \in Agents, Recall(a) \/ FinishRecall(a) PROVE cleanup' = cleanup
  BY <1>4 DEF Recall, FinishRecall
<1>5. CASE UNCHANGED vars
  BY <1>5 DEF vars
<1> QED BY <1>1, <1>2, <1>3, <1>4, <1>5 DEF Next

\* What a direct session's own steps do to its stage, its cleanup and its reports:
\* a close starts or ends, a request moves on, and only two of these report.
Opens(s) ==
    /\ handler[s] # "left" /\ handler'[s] # "left"
    /\ UNCHANGED <<explicit, cleanup, reports>>

CloseBegins(s) ==
    /\ handler[s] = "admitted" /\ handler'[s] = "left" /\ socket'[s] = "closed"
    /\ cleanup'[s] \in {s, cleanup[s]}
    /\ UNCHANGED <<explicit, reports>>

CloseEnds(s) ==
    /\ cleanup[s] # NoSession /\ cleanup'[s] = NoSession
    /\ reports'[s] = IF cleanup[s] = s THEN reports[s] + 1 ELSE reports[s]
    /\ UNCHANGED <<handler, explicit>>

Answers(s, k) ==
    /\ explicit[s][k] = "fragment"
    /\ explicit'[s] = [explicit[s] EXCEPT ![k] = "notify"]
    /\ reports'[s] = reports[s] + 1
    /\ UNCHANGED <<handler, cleanup>>

MovesOn(s, k) ==
    /\ \/ /\ explicit[s][k] = "idle"
          /\ explicit'[s] = [explicit[s] EXCEPT ![k] = "fragment"]
       \/ /\ explicit[s][k] \in {"notify", "send"}
          /\ \E stage \in {"send", "done"} :
                explicit'[s] = [explicit[s] EXCEPT ![k] = stage]
    /\ UNCHANGED <<handler, cleanup, reports>>

OwnRecords(s) ==
    \/ Kept(s) \/ Opens(s) \/ CloseBegins(s) \/ CloseEnds(s)
    \/ \E k \in Tries : Answers(s, k) \/ MovesOn(s, k)

\* Every step is of one of these kinds to every direct session.
LEMMA NextOwnRecords ==
    ASSUME TypeOK, CleanupInv, [Next]_vars, NEW s \in Direct
    PROVE  OwnRecords(s)
<1> USE SessionsAssumption
    DEF TypeOK, Sessions, OwnRecords, Opens, CloseBegins, CloseEnds, Answers, MovesOn,
        conns, maps, jobs, past
<1>1. ASSUME NEW k \in Tries, Checkout(s, k) PROVE OwnRecords(s)
  BY <1>1 DEF Checkout, SetStage
<1>2. CASE DirectStep(s)
  <2>1. CASE Admit(s) \/ RefuseHeaders(s) \/ Connect(s) \/ Reject(s)
    BY <2>1 DEF Admit, RefuseHeaders, Connect, Reject, CleanupInv
  <2>2. CASE PeerCloses(s) \/ Terminate(s) \/ CloseUnheard(s)
    BY <2>2 DEF PeerCloses, Terminate, CloseUnheard, Kept
  <2>3. CASE OnCloseAutoCheckout(s) \/ OnCloseRemove(s)
    BY <2>3 DEF OnCloseAutoCheckout, OnCloseRemove
  <2>4. CASE FinishClose(s)
    BY <2>4 DEF FinishClose, NotifyHubCheckout
  <2>5. ASSUME NEW k \in Tries, FragmentReady(s, k) PROVE OwnRecords(s)
    BY <2>5 DEF FragmentReady, NotifyHubCheckout, SetStage
  <2>6. ASSUME NEW k \in Tries, NotifySettles(s, k) \/ FragmentSent(s, k) PROVE OwnRecords(s)
    BY <2>6 DEF NotifySettles, FragmentSent, SetStage
  <2> QED BY <1>2, <2>1, <2>2, <2>3, <2>4, <2>5, <2>6 DEF DirectStep
<1>3. CASE Kept(s)
  BY <1>3
<1> QED BY <1>1, <1>2, <1>3, NextDirectRecords

\* Every step keeps what the waiting handlers hold.
LEMMA NextCleanupInv == TypeOK /\ CleanupInv /\ [Next]_vars => CleanupInv'
<1> SUFFICES ASSUME TypeOK, CleanupInv, [Next]_vars PROVE CleanupInv'
  OBVIOUS
<1>1. ASSUME NEW s \in Direct
      PROVE  /\ cleanup'[s] # NoSession => cleanup'[s] = s /\ handler'[s] = "left"
             /\ handler'[s] = "left" => socket'[s] = "closed"
  <2>1. \/ handler'[s] = handler[s] /\ cleanup'[s] \in {cleanup[s], NoSession}
        \/ handler[s] # "left" /\ handler'[s] # "left" /\ cleanup'[s] = cleanup[s]
        \/ handler'[s] = "left" /\ socket'[s] = "closed" /\ cleanup'[s] \in {s, cleanup[s]}
    BY NextOwnRecords
    DEF OwnRecords, Kept, Opens, CloseBegins, CloseEnds, Answers, MovesOn
  <2>2. socket[s] = "closed" => socket'[s] = "closed"
    BY SocketStaysClosed
  <2> QED BY <2>1, <2>2 DEF CleanupInv
<1> QED BY <1>1, RelayCleanup DEF CleanupInv

\* Tries is finite, so the requests can be counted; one more answered is one more.
LEMMA AnsweredCount ==
    ASSUME NEW s
    PROVE  IsFiniteSet(Answered(s)) /\ Cardinality(Answered(s)) \in Nat
BY PubAssumption, FS_Subset, FS_CardinalityType DEF Answered

\* A report is paid for by a request that is answered or by a close that is over.
LEMMA NextDirectCount ==
    TypeOK /\ CleanupInv /\ DirectCount /\ [Next]_vars => DirectCount'
<1> SUFFICES ASSUME TypeOK, CleanupInv, DirectCount, [Next]_vars, NEW s \in Direct
             PROVE  reports'[s] <= Cardinality(Answered(s)') + ClosedOnce(s)'
  BY DEF DirectCount
<1> DEFINE Claim == reports'[s] <= Cardinality(Answered(s)') + ClosedOnce(s)'
<1> USE DEF CleanupInv
<1>1. /\ reports[s] \in Nat
      /\ reports[s] <= Cardinality(Answered(s)) + ClosedOnce(s)
      /\ explicit[s] \in [Tries -> Stages]
  BY SessionsAssumption DEF TypeOK, Sessions, DirectCount
<1>2. IsFiniteSet(Answered(s)) /\ Cardinality(Answered(s)) \in Nat
  BY AnsweredCount
<1>3. ASSUME explicit'[s] = explicit[s],
             \/ reports'[s] = reports[s] /\ ClosedOnce(s)' >= ClosedOnce(s)
             \/ reports'[s] = reports[s] + 1 /\ ClosedOnce(s) = 0 /\ ClosedOnce(s)' = 1
      PROVE  Claim
  <2>1. Answered(s)' = Answered(s)
    BY <1>3 DEF Answered
  <2> QED BY <1>1, <1>2, <1>3, <2>1 DEF ClosedOnce
<1>4. CASE Kept(s) \/ Opens(s) \/ CloseBegins(s) \/ CloseEnds(s)
  BY <1>3, <1>4 DEF Kept, Opens, CloseBegins, CloseEnds, ClosedOnce
<1>5. ASSUME NEW k \in Tries, Answers(s, k) PROVE Claim
  <2>1. k \notin Answered(s) /\ Answered(s)' = Answered(s) \cup {k}
    BY <1>1, <1>5 DEF Answers, Answered, Stages
  <2>2. Cardinality(Answered(s)') = Cardinality(Answered(s)) + 1
    BY <1>2, <2>1, FS_AddElement
  <2>3. ClosedOnce(s)' = ClosedOnce(s) /\ ClosedOnce(s) \in Nat
    BY <1>5 DEF Answers, ClosedOnce
  <2> HIDE DEF CleanupInv
  <2> QED BY <1>1, <1>2, <1>5, <2>2, <2>3 DEF Answers
<1>6. ASSUME NEW k \in Tries, MovesOn(s, k) PROVE Claim
  <2>1. Answered(s)' = Answered(s)
    BY <1>1, <1>6 DEF MovesOn, Answered, Stages
  <2> QED BY <1>1, <1>6, <2>1 DEF MovesOn, ClosedOnce
<1> QED BY <1>4, <1>5, <1>6, NextOwnRecords DEF OwnRecords

\* What the arguments about reports rest on.
BaseInv == TypeOK /\ VisitInv /\ CheckoutFlagOwned /\ RoomMatchesAChannel /\ CleanupInv

\* It holds in every reachable state.
LEMMA BaseInvariant == Spec => []BaseInv
<1>1. Init => VisitInv /\ CleanupInv
  BY SessionsAssumption DEF Init, VisitInv, EntryVisited, CleanupInv, Sessions
<1>2. TypeOK /\ VisitInv /\ CleanupInv /\ [Next]_vars => VisitInv' /\ CleanupInv'
  BY NextVisitStep, NextCleanupInv
<1> QED BY <1>1, <1>2, TypeCorrect, FlagTheorem, ChannelTheorem, PTL DEF Spec, BaseInv

\* A direct session is reported once for each of its requests and once for its
\* close, however these overlap and however many sessions its agent has.
THEOREM DirectReportsTheorem == Spec => []DirectReportsBounded
<1>1. Init => DirectCount
  <2> SUFFICES ASSUME Init, NEW s \in Direct
               PROVE  reports[s] <= Cardinality(Answered(s)) + ClosedOnce(s)
    BY DEF DirectCount
  <2>1. reports[s] = 0
    BY DEF Init, Sessions
  <2> QED BY <2>1, AnsweredCount DEF ClosedOnce
<1>2. BaseInv /\ DirectCount /\ [Next]_vars => DirectCount'
  BY NextDirectCount DEF BaseInv
<1>3. BaseInv /\ DirectCount => DirectReportsBounded
  <2> SUFFICES ASSUME BaseInv, DirectCount, NEW s \in Direct
               PROVE  reports[s] <= Cardinality(Requested(s)) + 1
    BY DEF DirectReportsBounded
  <2>1. /\ IsFiniteSet(Requested(s)) /\ Cardinality(Requested(s)) \in Nat
        /\ Cardinality(Answered(s)) <= Cardinality(Requested(s))
    <3>1. Answered(s) \subseteq Requested(s)
      BY DEF Answered, Requested
    <3>2. IsFiniteSet(Requested(s))
      BY PubAssumption, FS_Subset DEF Requested
    <3> QED BY <3>1, <3>2, FS_Subset, FS_CardinalityType
  <2>2. reports[s] \in Nat
    BY DEF BaseInv, TypeOK, Sessions
  <2>3. reports[s] <= Cardinality(Answered(s)) + ClosedOnce(s)
    BY DEF DirectCount
  <2> QED BY <2>1, <2>2, <2>3, AnsweredCount DEF ClosedOnce
<1> QED BY <1>1, <1>2, <1>3, BaseInvariant, PTL DEF Spec

-----------------------------------------------------------------------------
(* Why a session loses its slot *)

\* The loss of a slot by the only session of its agent, and what explains it
Evicted(s) == room[AgentOf[s]] = s /\ room'[AgentOf[s]] # s

Explained(s) ==
    \/ s \in Direct /\ socket'[s] # "open"
    \/ s \in Relay /\ hub'[s] = "closed"
    \/ s \in Relay /\ Requested(s) # {}
    \/ s \in Relay /\ AgentOf[s] \in expelled'

\* A direct session's own handlers free its slot once its close event has come.
LEMMA DirectEviction ==
    ASSUME BaseInv, NEW s \in Direct, DirectStep(s), Evicted(s)
    PROVE  Explained(s)
<1> USE SessionsAssumption
    DEF BaseInv, TypeOK, Sessions, CleanupInv, Evicted, Explained, maps
<1>1. CASE FinishClose(s)
  BY <1>1 DEF FinishClose, conns
<1>2. CASE OnCloseRemove(s)
  BY <1>2 DEF OnCloseRemove
<1>3. CASE Admit(s)
  BY <1>3 DEF Admit, AddAgent
<1>4. CASE ~FinishClose(s) /\ ~OnCloseRemove(s) /\ ~Admit(s)
  <2>1. room' = room
    BY <1>4 DEF DirectStep, RefuseHeaders, Connect, Reject, PeerCloses, Terminate,
                CloseUnheard, OnCloseAutoCheckout, FragmentReady, NotifySettles,
                FragmentSent
  <2> QED BY <2>1
<1> QED BY <1>1, <1>2, <1>3, <1>4

\* A relayed one's free it when the hub ends the session or a checkout of it is done.
LEMMA RelayEviction ==
    ASSUME BaseInv, NEW s \in Relay, RelayStep(s), Evicted(s)
    PROVE  Explained(s)
<1> USE SessionsAssumption DEF BaseInv, TypeOK, Sessions, Evicted, Explained, maps
<1>1. CASE RelayDisconnect(s)
  <2>1. hub' = [hub EXCEPT ![s] = "closed"]
    BY <1>1 DEF RelayDisconnect
  <2> QED BY <2>1
<1>2. ASSUME NEW k \in Tries, RelayNotifySettles(s, k) PROVE Explained(s)
  BY <1>2 DEF RelayNotifySettles, Requested
<1>3. CASE OnAgentConnected(s)
  BY <1>3 DEF OnAgentConnected, RelayConnect, RelayRefuse, AddAgent
<1>4. CASE RelayDisconnectUnknown(s) \/ RelayDisconnectLost(s) \/ FinishDisconnect(s)
  BY <1>4 DEF RelayDisconnectUnknown, RelayDisconnectLost, FinishDisconnect
<1>5. ASSUME NEW k \in Tries, RelayFragmentReady(s, k) PROVE Explained(s)
  BY <1>5 DEF RelayFragmentReady
<1> QED BY <1>1, <1>2, <1>3, <1>4, <1>5 DEF RelayStep

\* The slot of an agent that never reconnects is taken only for a cause of its own,
\* in every reachable step: no handler of another session ever takes it.
THEOREM EvictionTheorem == Spec => EvictionHasCause
<1> DEFINE Caused == \A s \in Sessions :
                        Sole(s) /\ room[AgentOf[s]] = s /\ room'[AgentOf[s]] # s =>
                            \/ s \in Direct /\ socket'[s] # "open"
                            \/ s \in Relay /\ hub'[s] = "closed"
                            \/ s \in Relay /\ Requested(s) # {}
                            \/ s \in Relay /\ AgentOf[s] \in expelled'
<1>1. BaseInv /\ [Next]_vars => [Caused]_vars
  <2> SUFFICES ASSUME BaseInv, [Next]_vars, NEW s \in Sessions, Sole(s), Evicted(s)
               PROVE  Explained(s)
    BY DEF Evicted, Explained
  <2>1. SoleStep(s)
    BY NextSoleStep DEF BaseInv
  <2>2. CASE Expels(s)
    <3>1. s \in Direct => wsConn[AgentOf[s]] = s
      BY SessionsAssumption
      DEF Evicted, BaseInv, TypeOK, Sessions, RoomMatchesAChannel
    <3> QED BY <2>2, <3>1 DEF Expels, Explained, Sessions
  <2>3. CASE Untouched(s) \/ \E k \in Tries : Checkout(s, k)
    BY <2>3 DEF Untouched, Unmoved, Checkout, maps, Evicted
  <2> QED BY <2>1, <2>2, <2>3, DirectEviction, RelayEviction DEF SoleStep
<1> QED BY <1>1, BaseInvariant, PTL DEF Spec, EvictionHasCause

-----------------------------------------------------------------------------
(* Direct visits are accounted for *)

\* A direct session that is its agent's only one: while it is in, it has the slot;
\* once a request is answered it is reported; after its close something accounts
\* for it, done or under way.
SoleDirect(s) ==
    /\ handler[s] = "admitted" => room[AgentOf[s]] = s \/ AgentOf[s] \in expelled
    /\ Answered(s) # {} => reports[s] > 0
    /\ handler[s] = "left" =>
        \/ cleanup[s] = s
        \/ reports[s] > 0
        \/ AgentOf[s] \in expelled
        \/ AwaitsFragment(s)

\* A checkout in flight of the agent is one of its only session's.
LEMMA SoleFlag ==
    ASSUME CheckoutFlagOwned, NEW s \in Sessions, Sole(s), AgentOf[s] \in checkoutInProgress
    PROVE  \E k \in Tries : explicit[s][k] \in {"fragment", "notify", "send"}
BY DEF CheckoutFlagOwned, CheckoutInFlight, Sole

\* The session's own handlers keep that.
LEMMA SoleDirectStep ==
    ASSUME BaseInv, NEW s \in Direct, Sole(s), SoleDirect(s), DirectStep(s)
    PROVE  SoleDirect(s)'
<1> USE SessionsAssumption
    DEF BaseInv, TypeOK, Sessions, Stages, CleanupInv, SoleDirect, Answered, AwaitsFragment,
        conns, maps, jobs, past
<1>1. CASE Admit(s)
  BY <1>1 DEF Admit, AddAgent
<1>2. CASE OnCloseAutoCheckout(s)
  BY <1>2 DEF OnCloseAutoCheckout
<1>3. CASE OnCloseRemove(s)
  <2>1. /\ handler[s] = "admitted"
        /\ handler' = [handler EXCEPT ![s] = "left"]
        /\ UNCHANGED <<explicit, reports, expelled>>
        /\ AgentOf[s] \notin Present \/ AgentOf[s] \in checkoutInProgress
    BY <1>3 DEF OnCloseRemove, OwesAutoCheckout
  <2>2. AgentOf[s] \notin Present => AgentOf[s] \in expelled
    BY <2>1 DEF Present
  <2>3. AgentOf[s] \in checkoutInProgress => AwaitsFragment(s) \/ Answered(s) # {}
    BY SoleFlag
  <2> QED BY <2>1, <2>2, <2>3
<1>4. CASE FinishClose(s)
  BY <1>4 DEF FinishClose, RemoveAgent, NotifyHubCheckout
<1>5. CASE \/ RefuseHeaders(s) \/ Connect(s) \/ Reject(s)
           \/ PeerCloses(s) \/ Terminate(s) \/ CloseUnheard(s)
  BY <1>5 DEF RefuseHeaders, Connect, Reject, PeerCloses, Terminate, CloseUnheard
<1>6. ASSUME NEW k \in Tries, FragmentReady(s, k) PROVE SoleDirect(s)'
  <2>1. reports'[s] > 0
    BY <1>6 DEF FragmentReady, NotifyHubCheckout
  <2> QED BY <1>6, <2>1 DEF FragmentReady
<1>7. ASSUME NEW k \in Tries, NotifySettles(s, k) \/ FragmentSent(s, k)
      PROVE  SoleDirect(s)'
  <2>1. /\ k \in Answered(s)
        /\ UNCHANGED <<handler, room, cleanup, reports, expelled>>
    BY <1>7 DEF NotifySettles, FragmentSent
  <2> QED BY <2>1
<1> QED BY <1>1, <1>2, <1>3, <1>4, <1>5, <1>6, <1>7 DEF DirectStep

\* Every step keeps that.
LEMMA NextSoleDirect ==
    ASSUME BaseInv, [Next]_vars, NEW s \in Direct, Sole(s), SoleDirect(s)
    PROVE  SoleDirect(s)'
<1> USE DEF SoleDirect, Answered, AwaitsFragment
<1>1. CASE Untouched(s)
  BY <1>1 DEF Untouched, Unmoved, Unworked
<1>2. CASE Expels(s)
  BY <1>2 DEF Expels, Unworked
<1>3. ASSUME NEW k \in Tries, Checkout(s, k) PROVE SoleDirect(s)'
  <2>1. /\ explicit' = [explicit EXCEPT ![s][k] = "fragment"]
        /\ UNCHANGED <<handler, room, cleanup, reports, expelled>>
        /\ explicit[s][k] = "idle"
    BY <1>3 DEF Checkout, SetStage, conns, maps, past
  <2>2. Answered(s)' = Answered(s)
    BY <2>1 DEF BaseInv, TypeOK, Sessions
  <2>3. AwaitsFragment(s) => AwaitsFragment(s)'
    BY <2>1 DEF BaseInv, TypeOK, Sessions
  <2> QED BY <2>1, <2>2, <2>3
<1>4. s \notin Relay
  BY SessionsAssumption
<1> QED BY <1>1, <1>2, <1>3, <1>4, NextSoleStep, SoleDirectStep DEF SoleStep, BaseInv, Sessions

\* A direct visit whose handlers are done was reported, unless its agent was expelled:
\* the close handler that skips its report leaves it to a checkout that makes one.
THEOREM DirectVisitTheorem == Spec => []DirectVisitAccounted
<1> DEFINE DirectInv == \A s \in Direct : Sole(s) => SoleDirect(s)
<1>1. Init => DirectInv
  BY DEF Init, SoleDirect, Answered, Sessions
<1>2. BaseInv /\ DirectInv /\ [Next]_vars => DirectInv'
  BY NextSoleDirect DEF Sole
<1>3. BaseInv /\ DirectInv => DirectVisitAccounted
  BY SessionsAssumption
  DEF DirectVisitAccounted, SoleDirect, BaseInv, CleanupInv, Sessions
<1> QED BY <1>1, <1>2, <1>3, BaseInvariant, PTL DEF Spec

-----------------------------------------------------------------------------
(* Relayed visits are reported at most once *)

OneRequest(s) == \A j, k \in Requested(s) : j = k

\* A relayed session that is its agent's only one and asks to check out at most
\* once.  Whoever takes the entry out of the map holds the only right to report:
\* a disconnect that captured it (cleanup) or the checkout in flight, whose flag
\* keeps a disconnect from reporting.
RelayOnce(s) ==
    /\ reports[s] <= 1
    /\ hub[s] = "none" => Requested(s) = {} /\ reports[s] = 0 /\ cleanup[s] = NoSession
    /\ relayed[AgentOf[s]] # NoSession /\ Requested(s) = {} => reports[s] = 0
    /\ cleanup[s] # NoSession =>
         Requested(s) = {} /\ reports[s] = 0 /\ relayed[AgentOf[s]] = NoSession
    /\ \A k \in Tries :
        /\ explicit[s][k] \in {"fragment", "notify"} => AgentOf[s] \in checkoutInProgress
        /\ explicit[s][k] = "fragment" => reports[s] = 0
        /\ explicit[s][k] \in {"send", "done"} => relayed[AgentOf[s]] = NoSession

\* The id a handler finds for the agent is that of its only session.
LEMMA SoleEntry ==
    ASSUME BaseInv, NEW s \in Sessions, Sole(s)
    PROVE  relayed[AgentOf[s]] \in {s, NoSession} /\ cleanup[s] \in {s, NoSession}
BY SessionsAssumption DEF BaseInv, TypeOK, VisitInv, EntryVisited, Sole, Sessions

\* The end of the session reports it, or leaves that to one handler.
LEMMA RelayOnceDisconnect ==
    ASSUME BaseInv, NEW s \in Relay, Sole(s), RelayOnce(s), RelayDisconnect(s)
    PROVE  RelayOnce(s)'
<1> DEFINE a == AgentOf[s]
<1> USE SessionsAssumption DEF BaseInv, TypeOK, Sessions, Stages
<1>1. relayed[a] = s
  BY SoleEntry DEF RelayDisconnect
<1>2. /\ hub'[s] = "closed" /\ relayed'[a] = NoSession
      /\ UNCHANGED <<explicit, checkoutInProgress>>
  BY DEF RelayDisconnect
<1>3. CASE ~OwesAutoCheckout(a)
  <2>1. UNCHANGED <<cleanup, reports>>
    BY <1>3 DEF RelayDisconnect
  <2> QED BY <1>1, <1>2, <2>1 DEF RelayOnce, Requested
<1>4. CASE OwesAutoCheckout(a)
  <2>1. Requested(s) = {}
    BY <1>1, <1>4 DEF OwesAutoCheckout, RelayOnce, Requested
  <2>2. reports[s] = 0 /\ cleanup[s] = NoSession
    BY <1>1, <2>1 DEF RelayOnce
  <2>3. \/ cleanup' = cleanup /\ NotifyHubCheckout(relayed[a])
        \/ cleanup' = [cleanup EXCEPT ![s] = relayed[a]] /\ reports' = reports
    BY <1>4 DEF RelayDisconnect
  <2>4. \/ cleanup'[s] = NoSession /\ reports'[s] = 1
        \/ cleanup'[s] = s /\ reports'[s] = 0
    BY <1>1, <2>2, <2>3 DEF NotifyHubCheckout
  <2>5. Requested(s)' = {}
    BY <1>2, <2>1 DEF Requested
  <2>6. \A k \in Tries : explicit'[s][k] = "idle"
    BY <2>5 DEF Requested
  <2> QED BY <1>2, <2>4, <2>5, <2>6 DEF RelayOnce
<1> QED BY <1>3, <1>4

\* The session's own handlers report it once between them.
LEMMA RelayOnceStep ==
    ASSUME BaseInv, NEW s \in Relay, Sole(s), OneRequest(s), RelayOnce(s), RelayStep(s)
    PROVE  RelayOnce(s)'
<1> DEFINE a == AgentOf[s]
<1> USE SessionsAssumption DEF BaseInv, TypeOK, Sessions, Stages, conns, maps, jobs, past
<1>0. relayed[a] \in {s, NoSession} /\ cleanup[s] \in {s, NoSession}
  BY SoleEntry
<1>1. CASE OnAgentConnected(s)
  <2>1. /\ hub[s] = "none" /\ hub'[s] = "open"
        /\ UNCHANGED <<explicit, cleanup, reports, checkoutInProgress>>
    BY <1>1 DEF OnAgentConnected, RelayConnect, RelayRefuse
  <2> QED BY <2>1 DEF RelayOnce, Requested
<1>2. CASE RelayDisconnectUnknown(s) \/ RelayDisconnectLost(s)
  BY <1>2 DEF RelayDisconnectUnknown, RelayDisconnectLost, RelayOnce, Requested
<1>3. CASE FinishDisconnect(s)
  <2>1. /\ reports[s] = 0 /\ Requested(s) = {} /\ relayed[a] = NoSession
        /\ reports'[s] = 1 /\ cleanup'[s] = NoSession
        /\ UNCHANGED <<hub, explicit, relayed, checkoutInProgress>>
    BY <1>0, <1>3 DEF FinishDisconnect, NotifyHubCheckout, RelayOnce
  <2>2. hub'[s] # "none"
    BY <1>3, <2>1 DEF FinishDisconnect, RelayOnce
  <2> QED BY <2>1, <2>2 DEF RelayOnce, Requested
<1>4. ASSUME NEW k \in Tries, RelayFragmentReady(s, k) PROVE RelayOnce(s)'
  <2>1. /\ explicit[s][k] = "fragment" /\ explicit' = [explicit EXCEPT ![s][k] = "notify"]
        /\ reports[s] = 0 /\ reports'[s] \in {0, 1}
        /\ UNCHANGED <<hub, relayed, cleanup, checkoutInProgress>>
    BY <1>0, <1>4 DEF RelayFragmentReady, SetStage, NotifyHubCheckout, RelayOnce
  <2>2. Requested(s)' = Requested(s) /\ k \in Requested(s)
    BY <2>1 DEF Requested
  <2>3. \A j \in Tries : j # k => explicit'[s][j] = "idle"
    BY <2>1, <2>2 DEF OneRequest, Requested
  <2>4. explicit'[s][k] = "notify" /\ a \in checkoutInProgress
    BY <2>1 DEF RelayOnce
  <2>5. hub'[s] # "none" /\ cleanup'[s] = NoSession
    BY <2>1, <2>2 DEF RelayOnce
  <2> QED BY <2>1, <2>2, <2>3, <2>4, <2>5 DEF RelayOnce
<1>5. ASSUME NEW k \in Tries, RelayNotifySettles(s, k) PROVE RelayOnce(s)'
  <2>1. /\ explicit[s][k] = "notify" /\ explicit' = [explicit EXCEPT ![s][k] = "done"]
        /\ relayed'[a] = NoSession
        /\ UNCHANGED <<hub, cleanup, reports>>
    BY <1>5 DEF RelayNotifySettles, SetStage
  <2>2. Requested(s)' = Requested(s) /\ k \in Requested(s)
    BY <2>1 DEF Requested
  <2>3. \A j \in Tries : explicit'[s][j] = IF j = k THEN "done" ELSE "idle"
    BY <2>1, <2>2 DEF OneRequest, Requested
  <2> QED BY <2>1, <2>2, <2>3 DEF RelayOnce
<1> QED BY <1>1, <1>2, <1>3, <1>4, <1>5, RelayOnceDisconnect DEF RelayStep

\* Every step keeps that.
LEMMA NextRelayOnce ==
    ASSUME BaseInv, [Next]_vars, NEW s \in Relay, Sole(s), OneRequest(s)',
           OneRequest(s) => RelayOnce(s)
    PROVE  RelayOnce(s)'
<1> USE SessionsAssumption DEF Sessions
<1>1. ASSUME NEW k \in Tries, Checkout(s, k) PROVE RelayOnce(s)'
  <2>1. /\ explicit[s][k] = "idle" /\ explicit' = [explicit EXCEPT ![s][k] = "fragment"]
        /\ AgentOf[s] \in checkoutInProgress'
        /\ hub[s] = "open" /\ relayed[AgentOf[s]] # NoSession
        /\ UNCHANGED <<hub, relayed, cleanup, reports>>
    BY <1>1 DEF Checkout, SetStage, Heard, conns, maps, past
  <2>2. Requested(s)' = Requested(s) \cup {k} /\ k \notin Requested(s)
    BY <2>1 DEF Requested, BaseInv, TypeOK, Stages
  <2>3. Requested(s) = {}
    BY <2>2 DEF OneRequest
  <2>4. reports[s] = 0 /\ cleanup[s] = NoSession
    BY <2>1, <2>3 DEF OneRequest, RelayOnce
  <2>5. \A j \in Tries : explicit'[s][j] = IF j = k THEN "fragment" ELSE "idle"
    BY <2>1, <2>3 DEF Requested, BaseInv, TypeOK
  <2> QED BY <2>1, <2>4, <2>5 DEF RelayOnce
<1>2. CASE Untouched(s) \/ Expels(s)
  <2>1. explicit'[s] = explicit[s]
    BY <1>2 DEF Untouched, Expels, Unworked
  <2>2. RelayOnce(s)
    BY <2>1 DEF OneRequest, Requested
  <2> QED BY <1>2, <2>2 DEF Untouched, Unmoved, Expels, Unworked, RelayOnce, Requested
<1>3. CASE RelayStep(s)
  <2>1. Requested(s) \subseteq Requested(s)'
    BY <1>3
    DEF RelayStep, OnAgentConnected, RelayConnect, RelayRefuse, RelayDisconnectUnknown,
        RelayDisconnectLost, RelayDisconnect, FinishDisconnect, RelayFragmentReady,
        RelayNotifySettles, SetStage, Requested, jobs, BaseInv, TypeOK
  <2>2. OneRequest(s)
    BY <2>1 DEF OneRequest
  <2> QED BY <1>3, <2>2, RelayOnceStep
<1> QED BY <1>1, <1>2, <1>3, NextSoleStep DEF SoleStep, BaseInv

RelayInv == \A s \in Relay : Sole(s) /\ OneRequest(s) => RelayOnce(s)

\* It holds in every reachable state.
LEMMA RelayInvariant == Spec => []RelayInv
<1>1. Init => RelayInv
  BY SessionsAssumption DEF Init, RelayInv, RelayOnce, Requested, Sessions
<1>2. BaseInv /\ RelayInv /\ [Next]_vars => RelayInv'
  BY NextRelayOnce DEF RelayInv, Sole
<1> QED BY <1>1, <1>2, BaseInvariant, PTL DEF Spec

\* One request or none is what counting the requests says.
LEMMA RequestsCounted ==
    ASSUME NEW s, Cardinality(Requested(s)) <= 1
    PROVE  OneRequest(s)
<1>1. IsFiniteSet(Requested(s))
  BY PubAssumption, FS_Subset DEF Requested
<1> SUFFICES ASSUME NEW j \in Requested(s), NEW k \in Requested(s), j # k PROVE FALSE
  BY DEF OneRequest
<1>2. Cardinality({j, k}) = 2
  <2>1. {j, k} = {j} \cup {k}
    OBVIOUS
  <2>2. Cardinality({j} \cup {k}) = Cardinality({j}) + 1
    BY FS_Singleton, FS_AddElement
  <2> QED BY <2>1, <2>2, FS_Singleton
<1>3. Cardinality({j, k}) <= Cardinality(Requested(s))
  <2>1. {j, k} \subseteq Requested(s)
    OBVIOUS
  <2> QED BY <1>1, <2>1, FS_Subset
<1> QED BY <1>1, <1>2, <1>3, FS_CardinalityType

\* A relayed visit that asks to check out at most once is reported at most once,
\* whichever of its disconnect and its checkout comes first and ends first.
THEOREM RelayOnceTheorem == Spec => []RelayReportedAtMostOnce
<1>1. RelayInv => RelayReportedAtMostOnce
  BY RequestsCounted DEF RelayInv, RelayReportedAtMostOnce, RelayOnce
<1> QED BY <1>1, RelayInvariant, PTL

-----------------------------------------------------------------------------
(* Relayed visits are accounted for *)

\* A relayed session that is its agent's only one: the map entry stands for a slot,
\* and until a request is sent the entry, a waiting disconnect, an expulsion or the
\* report accounts for the visit.
RelayHeld(s) ==
    /\ relayed[AgentOf[s]] # NoSession => room[AgentOf[s]] = s
    /\ s \in visited /\ Requested(s) = {} =>
        \/ relayed[AgentOf[s]] = s
        \/ cleanup[s] = s
        \/ AgentOf[s] \in expelled
        \/ reports[s] = 1

\* The session's own handlers keep that.
LEMMA RelayHeldStep ==
    ASSUME BaseInv, NEW s \in Relay, Sole(s), OneRequest(s) => RelayOnce(s),
           RelayHeld(s), RelayStep(s)
    PROVE  RelayHeld(s)'
<1> DEFINE a == AgentOf[s]
<1> USE SessionsAssumption DEF BaseInv, TypeOK, Sessions, Stages, conns, maps, jobs, past
<1>0. relayed[a] \in {s, NoSession} /\ cleanup[s] \in {s, NoSession}
  BY SoleEntry
<1>1. CASE RelayConnect(s)
  BY <1>1 DEF RelayConnect, AddAgent, RelayHeld
<1>2. CASE hub[s] = "none" /\ RelayRefuse(s)
  BY <1>2 DEF RelayRefuse, RelayHeld, VisitInv
<1>3. CASE RelayDisconnectUnknown(s) \/ RelayDisconnectLost(s)
  BY <1>3 DEF RelayDisconnectUnknown, RelayDisconnectLost, RelayHeld, Requested
<1>4. CASE RelayDisconnect(s)
  <2>1. relayed'[a] = NoSession /\ UNCHANGED <<explicit, visited, expelled>>
    BY <1>4 DEF RelayDisconnect
  <2>2. ASSUME Requested(s) = {} PROVE cleanup'[s] = s \/ reports'[s] = 1
    <3>1. relayed[a] = s /\ reports[s] = 0
      BY <1>0, <1>4, <2>2 DEF RelayDisconnect, OneRequest, RelayOnce
    <3>2. OwesAutoCheckout(a)
      <4>1. a \in Present
        BY <3>1 DEF RelayHeld, Present
      <4>2. a \notin checkoutInProgress
        BY <2>2, SoleFlag DEF Requested
      <4> QED BY <4>1, <4>2 DEF OwesAutoCheckout
    <3>3. \/ NotifyHubCheckout(relayed[a])
          \/ cleanup' = [cleanup EXCEPT ![s] = relayed[a]]
      BY <1>4, <3>2 DEF RelayDisconnect
    <3> QED BY <3>1, <3>3 DEF NotifyHubCheckout
  <2>3. Requested(s)' = Requested(s)
    BY <2>1 DEF Requested
  <2> QED BY <2>1, <2>2, <2>3 DEF RelayHeld
<1>5. CASE FinishDisconnect(s)
  <2>1. UNCHANGED <<room, relayed, visited, explicit, expelled>>
    BY <1>5 DEF FinishDisconnect
  <2>2. ASSUME Requested(s) = {} PROVE reports'[s] = 1
    BY <1>0, <1>5, <2>2 DEF FinishDisconnect, NotifyHubCheckout, OneRequest, RelayOnce
  <2> QED BY <2>1, <2>2 DEF RelayHeld, Requested
<1>6. ASSUME NEW k \in Tries, RelayFragmentReady(s, k) \/ RelayNotifySettles(s, k)
      PROVE  RelayHeld(s)'
  <2>1. k \in Requested(s)'
    BY <1>6 DEF RelayFragmentReady, RelayNotifySettles, SetStage, Requested
  <2>2. \/ UNCHANGED <<room, relayed>>
        \/ relayed'[a] = NoSession
    BY <1>6 DEF RelayFragmentReady, RelayNotifySettles
  <2> QED BY <2>1, <2>2 DEF RelayHeld
<1> QED BY <1>1, <1>2, <1>3, <1>4, <1>5, <1>6 DEF RelayStep, OnAgentConnected

\* Every step keeps that.
LEMMA NextRelayHeld ==
    ASSUME BaseInv, RelayInv, [Next]_vars, NEW s \in Relay, Sole(s), RelayHeld(s)
    PROVE  RelayHeld(s)'
<1> USE SessionsAssumption DEF Sessions
<1>1. CASE Untouched(s)
  BY <1>1 DEF Untouched, Unmoved, Unworked, RelayHeld, Requested
<1>2. CASE Expels(s)
  BY <1>2 DEF Expels, Unworked, RelayHeld, Requested
<1>3. ASSUME NEW k \in Tries, Checkout(s, k) PROVE RelayHeld(s)'
  <2>1. k \in Requested(s)' /\ UNCHANGED <<room, relayed>>
    BY <1>3 DEF Checkout, SetStage, Requested, maps, BaseInv, TypeOK
  <2> QED BY <2>1 DEF RelayHeld
<1> QED BY <1>1, <1>2, <1>3, NextSoleStep, RelayHeldStep DEF SoleStep, BaseInv, RelayInv

\* A relayed visit that left on its own, without asking to check out, was reported
\* under its own id, exactly once.
THEOREM RelayVisitTheorem == Spec => []RelayVisitAccounted
<1> DEFINE Held == \A s \in Relay : Sole(s) => RelayHeld(s)
<1>1. Init => Held
  BY SessionsAssumption DEF Init, RelayHeld, Sessions
<1>2. BaseInv /\ RelayInv /\ Held /\ [Next]_vars => Held'
  BY NextRelayHeld DEF Sole
<1>3. Held => RelayVisitAccounted
  BY SessionsAssumption DEF RelayVisitAccounted, RelayVisitOver, RelayHeld, Sessions
<1> QED BY <1>1, <1>2, <1>3, BaseInvariant, RelayInvariant, PTL DEF Spec
=============================================================================
