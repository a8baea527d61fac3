-------------------------- MODULE ConversationProofs --------------------------
(***************************************************************************)
(* Proofs about Conversation, for any agents, texts, gap, window and       *)
(* bounds.  Few steps touch what a property speaks of, so each argument    *)
(* first says how a step can change that part of the state.                *)
(***************************************************************************)
EXTENDS Conversation, SequenceTheorems, FunctionTheorems, FiniteSetTheorems, TLAPS

-----------------------------------------------------------------------------
(* The window *)

\* LastWindow keeps a sequence in its type and within the window's size.
LEMMA LastWindowBounds ==
    ASSUME NEW S, NEW s \in Seq(S)
    PROVE  LastWindow(s) \in Seq(S) /\ Len(LastWindow(s)) <= Limit
<1> USE ConversationAssumption
<1>1. CASE Len(s) > Limit
  <2> DEFINE m == Len(s) - Limit + 1
  <2>1. m \in 1..Len(s) /\ Len(s) \in Nat
    BY <1>1
  <2>2. /\ SubSeq(s, m, Len(s)) \in Seq(S)
        /\ Len(SubSeq(s, m, Len(s))) = Limit
    BY <2>1, SubSeqProperties
  <2> QED  BY <1>1, <2>2 DEF LastWindow
<1>2. CASE ~(Len(s) > Limit)
  BY <1>2 DEF LastWindow
<1> QED  BY <1>1, <1>2

\* A step leaves the window alone or posts one message to it
Posts ==
    \E a \in Speakers, c \in Texts, type \in {"chat", "action"} :
        posted < MaxPosts /\ posted' = posted + 1 /\ conversation' = Posting(a, c, type)

\* Every step is of one of these two kinds.
LEMMA WindowStep == TypeOK /\ [Next]_vars => UNCHANGED window \/ Posts
<1> SUFFICES ASSUME TypeOK, [Next]_vars PROVE UNCHANGED window \/ Posts
  OBVIOUS
<1> USE DEF window, Speakers
<1>1. CASE Tick \/ Wake \/ StaySilent \/ IdlePrompt \/ UNCHANGED vars
  BY <1>1 DEF Tick, Wake, StaySilent, IdlePrompt, vars
<1>2. ASSUME NEW a \in Agents, Join(a) \/ Leave(a) \/ Unlink(a) PROVE UNCHANGED window
  BY <1>2 DEF Join, Leave, Unlink
<1>3. ASSUME NEW a \in Agents, NEW c \in Texts, Drop(a, c) \/ Submit(a, c)
      PROVE  UNCHANGED window
  BY <1>3 DEF Drop, Submit
<1>4. ASSUME NEW a \in Agents, NEW c \in Texts, Act(a, c) PROVE Posts
  BY <1>4 DEF Act, AddMessage, Posts
<1>5. ASSUME NEW m \in checking, Moderated(m) PROVE UNCHANGED window \/ Posts
  <2>1. m.agent \in Speakers /\ m.text \in Texts
    BY DEF TypeOK
  <2>2. CASE Allow(m)
    BY <2>1, <2>2 DEF Allow, AddMessage, Posts
  <2>3. CASE Refuse(m) \/ Kick(m)
    BY <2>3 DEF Refuse, Kick
  <2> QED  BY <1>5, <2>2, <2>3 DEF Moderated
<1>6. ASSUME NEW c \in Texts, Speak(c) PROVE Posts
  BY <1>6 DEF Speak, AddMessage, Posts
<1>7. ASSUME NEW a \in Agents, NEW id, NEW emoji, React(a, id, emoji) PROVE UNCHANGED window
  BY <1>7 DEF React
<1> QED  BY <1>1, <1>2, <1>3, <1>4, <1>5, <1>6, <1>7 DEF Next

-----------------------------------------------------------------------------
(* Type correctness *)

\* What posting does to the records is well typed.
LEMMA AddMessageTyped ==
    ASSUME TypeOK, NEW a \in Speakers, NEW c \in Texts, NEW type \in {"chat", "action"},
           AddMessage(a, c, type)
    PROVE  /\ posted' \in 0..MaxPosts /\ posted + 1 \in 1..MaxPosts
           /\ conversation' \in Seq(Post)
           /\ count' \in [Agents -> Nat]
           /\ lastTime' \in [Agents -> 0..MaxTime]
           /\ lastContent' \in [Agents -> Texts \cup {Nobody}]
<1> USE ConversationAssumption DEF TypeOK, AddMessage
<1>1. posted' \in 0..MaxPosts /\ posted + 1 \in 1..MaxPosts
  OBVIOUS
<1>2. conversation' \in Seq(Post)
  <2> DEFINE p == [id |-> posted + 1, agent |-> a, text |-> c, type |-> type, time |-> now]
  <2>1. p \in Post
    BY <1>1 DEF Post
  <2>2. Append(conversation, p) \in Seq(Post)
    BY <2>1, AppendProperties
  <2>3. conversation' = LastWindow(Append(conversation, p))
    BY DEF Posting
  <2>4. LastWindow(Append(conversation, p)) \in Seq(Post)
    BY ONLY <2>2, LastWindowBounds
  <2> QED  BY <2>3, <2>4
<1>3. CASE a = House
  BY <1>1, <1>2, <1>3 DEF limits
<1>4. CASE a # House
  <2>1. /\ count' = count \/ count' = [count EXCEPT ![a] = @ + 1]
        /\ lastTime' = [lastTime EXCEPT ![a] = now]
        /\ lastContent' = [lastContent EXCEPT ![a] = c]
        /\ a \in Agents
    BY <1>4 DEF Speakers
  <2>2. count' \in [Agents -> Nat]
    BY <2>1
  <2>3. lastTime' \in [Agents -> 0..MaxTime]
    BY <2>1
  <2>4. lastContent' \in [Agents -> Texts \cup {Nobody}]
    BY <2>1
  <2> QED  BY <1>1, <1>2, <2>2, <2>3, <2>4
<1> QED  BY <1>3, <1>4

\* The answer's stages stay countable, whoever triggers it.
LEMMA TriggerTyped ==
    ASSUME TypeOK, Trigger
    PROVE  responding' \in BOOLEAN /\ delaying' \in Nat /\ thinking' \in Nat
<1>1. CASE responding
  BY <1>1 DEF Trigger, TypeOK, bartender
<1>2. CASE ~responding
  BY <1>2 DEF Trigger, TypeOK
<1> QED  BY <1>1, <1>2

\* The house's decision keeps types.
LEMMA DecideTyped ==
    ASSUME TypeOK, NEW a, NEW c, NEW s, Decide(a, c, s), posted + 1 \in 1..MaxPosts
    PROVE  /\ responding' \in BOOLEAN /\ delaying' \in Nat /\ thinking' \in Nat
           /\ reactions' \subseteq
                [id : 1..MaxPosts, agent : Speakers, emoji : Emojis \cup {House}]
<1>1. CASE Answers(a, c, s)
  BY <1>1, TriggerTyped DEF Decide, TypeOK
<1>2. CASE ~Answers(a, c, s)
  BY <1>2 DEF Decide, TypeOK, bartender, AddReaction, Speakers
<1> QED  BY <1>1, <1>2

\* Removal keeps the types of what it changes.
LEMMA RemoveAgentTyped ==
    ASSUME TypeOK, NEW a \in Agents, RemoveAgent(a)
    PROVE  /\ present' \subseteq Agents
           /\ joinedAt' \in [Agents -> 0..MaxPosts]
           /\ count' \in [Agents -> Nat]
           /\ lastTime' \in [Agents -> 0..MaxTime]
           /\ lastContent' \in [Agents -> Texts \cup {Nobody}]
           /\ lastPass' \in [Agents -> 0..MaxTime]
<1> USE ConversationAssumption
<1>1. CASE a \notin present
  BY <1>1 DEF RemoveAgent, TypeOK, limits
<1>2. CASE a \in present
  <2>1. /\ present' = present \ {a}
        /\ count' = [count EXCEPT ![a] = 0]
        /\ lastTime' = [lastTime EXCEPT ![a] = 0]
        /\ lastContent' = [lastContent EXCEPT ![a] = Nobody]
        /\ lastPass' = [lastPass EXCEPT ![a] = 0]
        /\ joinedAt' = joinedAt
    BY <1>2 DEF RemoveAgent
  <2> QED  BY <2>1 DEF TypeOK
<1> QED  BY <1>1, <1>2

\* Arrivals and departures keep types.
LEMMA PeopleTyped ==
    ASSUME TypeOK, NEW a \in Agents, Join(a) \/ Leave(a) \/ Unlink(a)
    PROVE  TypeOK'
<1> USE ConversationAssumption DEF TypeOK, people, limits, window, bartender
<1>1. CASE Join(a)
  <2>1. responding' \in BOOLEAN /\ delaying' \in Nat /\ thinking' \in Nat
    BY <1>1, TriggerTyped DEF Join
  <2> QED  BY <1>1, <2>1 DEF Join
<1>2. CASE Leave(a)
  BY <1>2, RemoveAgentTyped DEF Leave
<1>3. CASE Unlink(a)
  BY <1>3 DEF Unlink
<1> QED  BY <1>1, <1>2, <1>3

\* What agents send keeps types.
LEMMA SentTyped ==
    ASSUME TypeOK, NEW a \in Agents, NEW c \in Texts, Drop(a, c) \/ Submit(a, c) \/ Act(a, c)
    PROVE  TypeOK'
<1> USE ConversationAssumption
<1>1. CASE Drop(a, c)
  BY <1>1 DEF Drop, PassRateLimit, TypeOK, people, limits, window, bartender
<1>2. CASE Submit(a, c)
  BY <1>2 DEF Submit, PassRateLimit, TypeOK, people, limits, window, bartender
<1>3. CASE Act(a, c)
  <2>1. AddMessage(a, c, "action") /\ a \in Speakers
    BY <1>3 DEF Act, Speakers
  <2>2. /\ posted' \in 0..MaxPosts
        /\ conversation' \in Seq(Post)
        /\ count' \in [Agents -> Nat]
        /\ lastTime' \in [Agents -> 0..MaxTime]
        /\ lastContent' \in [Agents -> Texts \cup {Nobody}]
    BY <2>1, AddMessageTyped
  <2> QED  BY <1>3, <2>2 DEF Act, TypeOK, people, bartender
<1> QED  BY <1>1, <1>2, <1>3

\* The moderator's answers keep types.
LEMMA ModeratedTyped ==
    ASSUME TypeOK, NEW m \in checking, Moderated(m)
    PROVE  TypeOK'
<1> USE ConversationAssumption
<1>0. m.agent \in Agents /\ m.text \in Texts
  BY DEF TypeOK
<1>1. CASE Allow(m)
  <2>1. AddMessage(m.agent, m.text, "chat") /\ m.agent \in Speakers
    BY <1>0, <1>1 DEF Allow, Speakers
  <2>2. /\ posted' \in 0..MaxPosts /\ posted + 1 \in 1..MaxPosts
        /\ conversation' \in Seq(Post)
        /\ count' \in [Agents -> Nat]
        /\ lastTime' \in [Agents -> 0..MaxTime]
        /\ lastContent' \in [Agents -> Texts \cup {Nobody}]
    BY <1>0, <2>1, AddMessageTyped
  <2>3. /\ responding' \in BOOLEAN /\ delaying' \in Nat /\ thinking' \in Nat
        /\ reactions' \subseteq
              [id : 1..MaxPosts, agent : Speakers, emoji : Emojis \cup {House}]
    BY <1>1, <2>2, DecideTyped DEF Allow
  <2> QED  BY <1>1, <2>2, <2>3 DEF Allow, TypeOK, people
<1>2. CASE Refuse(m)
  BY <1>2 DEF Refuse, TypeOK, people, limits, window, bartender
<1>3. CASE Kick(m)
  <2>1. /\ present' \subseteq Agents
        /\ joinedAt' \in [Agents -> 0..MaxPosts]
        /\ count' \in [Agents -> Nat]
        /\ lastTime' \in [Agents -> 0..MaxTime]
        /\ lastContent' \in [Agents -> Texts \cup {Nobody}]
        /\ lastPass' \in [Agents -> 0..MaxTime]
    BY <1>0, <1>3, RemoveAgentTyped DEF Kick
  <2> QED  BY <1>3, <2>1 DEF Kick, TypeOK, window, bartender
<1> QED  BY <1>1, <1>2, <1>3 DEF Moderated

\* Every step keeps types.
LEMMA NextTypeOK == TypeOK /\ [Next]_vars => TypeOK'
<1> SUFFICES ASSUME TypeOK, [Next]_vars PROVE TypeOK'
  OBVIOUS
<1> USE ConversationAssumption
<1>1. CASE Tick
  BY <1>1 DEF Tick, TypeOK, people, limits, window, bartender
<1>2. CASE Wake
  BY <1>2 DEF Wake, TypeOK, people, limits, window
<1>3. CASE StaySilent
  <2>1. responding' \in BOOLEAN
    BY <1>3, Zenon DEF StaySilent
  <2> QED  BY <1>3, <2>1 DEF StaySilent, TypeOK, people, limits, window
<1>4. CASE IdlePrompt
  <2>1. responding' \in BOOLEAN /\ delaying' \in Nat /\ thinking' \in Nat
    BY <1>4, TriggerTyped DEF IdlePrompt
  <2> QED  BY <1>4, <2>1 DEF IdlePrompt, TypeOK, people, limits, window
<1>5. ASSUME NEW c \in Texts, Speak(c) PROVE TypeOK'
  <2>1. AddMessage(House, c, "chat") /\ House \in Speakers
    BY <1>5 DEF Speak, Speakers
  <2>2. /\ posted' \in 0..MaxPosts
        /\ conversation' \in Seq(Post)
        /\ count' \in [Agents -> Nat]
        /\ lastTime' \in [Agents -> 0..MaxTime]
        /\ lastContent' \in [Agents -> Texts \cup {Nobody}]
    BY <2>1, AddMessageTyped
  <2>3. responding' \in BOOLEAN
    BY <1>5, Zenon DEF Speak
  <2> QED  BY <1>5, <2>2, <2>3 DEF Speak, TypeOK, people
<1>6. ASSUME NEW a \in Agents, NEW id \in 1..MaxPosts, NEW emoji \in Emojis,
             React(a, id, emoji)
      PROVE  TypeOK'
  BY <1>6 DEF React, AddReaction, Speakers, TypeOK, people, limits, window, bartender
<1>7. CASE UNCHANGED vars
  BY <1>7 DEF vars, TypeOK, people, limits, window, bartender
<1> QED  BY <1>1, <1>2, <1>3, <1>4, <1>5, <1>6, <1>7, PeopleTyped, SentTyped, ModeratedTyped
         DEF Next

\* The initial state is well typed.  The clock starts a gap after the epoch.
LEMMA InitTypeOK == Init => TypeOK
<1> SUFFICES ASSUME Init PROVE TypeOK
  OBVIOUS
<1>1. responding \in BOOLEAN
  BY Zenon DEF Init
<1>2. conversation \in Seq(Post)
  BY EmptySeq DEF Init
<1> QED  BY <1>1, <1>2, ConversationAssumption DEF Init, TypeOK

\* Every reachable state is well typed.
THEOREM TypeTheorem == Spec => []TypeOK
<1> QED  BY InitTypeOK, NextTypeOK, PTL DEF Spec

\* The window never holds more messages than its size, for any size and any number
\* of agents.
THEOREM WindowTheorem == Spec => []WindowBounded
<1> USE ConversationAssumption
<1>1. Init => WindowBounded
  BY DEF Init, WindowBounded
<1>2. TypeOK /\ WindowBounded /\ [Next]_vars => WindowBounded'
  <2> SUFFICES ASSUME TypeOK, WindowBounded, [Next]_vars PROVE WindowBounded'
    OBVIOUS
  <2>1. CASE UNCHANGED window
    BY <2>1 DEF window, WindowBounded
  <2>2. ASSUME NEW a \in Speakers, NEW c \in Texts, NEW type \in {"chat", "action"},
               posted < MaxPosts, conversation' = Posting(a, c, type)
        PROVE  WindowBounded'
    <3> DEFINE p == [id |-> posted + 1, agent |-> a, text |-> c, type |-> type, time |-> now]
    <3>1. p \in Post
      BY <2>2 DEF Post, TypeOK
    <3>2. Append(conversation, p) \in Seq(Post)
      BY <3>1, AppendProperties DEF TypeOK
    <3> QED  BY <2>2, <3>2, LastWindowBounds DEF Posting, WindowBounded
  <2> QED  BY <2>1, <2>2, WindowStep DEF Posts
<1> QED  BY <1>1, <1>2, TypeTheorem, PTL DEF Spec

-----------------------------------------------------------------------------
(* The bartender *)

\* A step triggers the bartender, moves its answer on, ends it, or leaves it alone
Moves ==
    /\ delaying > 0
    /\ delaying' = delaying - 1 /\ thinking' = thinking + 1
    /\ UNCHANGED responding
Ends ==
    /\ thinking > 0
    /\ thinking' = thinking - 1
    /\ responding' = FALSE
    /\ UNCHANGED delaying

\* Every step is of one of these kinds.
LEMMA BartenderStep ==
    [Next]_vars => Trigger \/ Moves \/ Ends \/ UNCHANGED bartender
<1> SUFFICES ASSUME [Next]_vars PROVE Trigger \/ Moves \/ Ends \/ UNCHANGED bartender
  OBVIOUS
<1>1. CASE Tick \/ UNCHANGED vars
  BY <1>1 DEF Tick, vars
<1>2. CASE Wake
  BY <1>2 DEF Wake, Moves
<1>3. CASE StaySilent
  BY <1>3 DEF StaySilent, Ends
<1>4. CASE IdlePrompt
  BY <1>4 DEF IdlePrompt
<1>5. ASSUME NEW c \in Texts, Speak(c) PROVE Ends
  BY <1>5 DEF Speak, Ends
<1>6. ASSUME NEW a \in Agents, Join(a) PROVE Trigger
  BY <1>6 DEF Join
<1>7. ASSUME NEW a \in Agents, Leave(a) \/ Unlink(a) PROVE UNCHANGED bartender
  BY <1>7 DEF Leave, Unlink
<1>8. ASSUME NEW a \in Agents, NEW c \in Texts, Drop(a, c) \/ Submit(a, c) \/ Act(a, c)
      PROVE  UNCHANGED bartender
  BY <1>8 DEF Drop, Submit, Act
<1>9. ASSUME NEW m \in checking, Moderated(m) PROVE Trigger \/ UNCHANGED bartender
  BY <1>9 DEF Moderated, Allow, Decide, Refuse, Kick
<1>10. ASSUME NEW a \in Agents, NEW id, NEW emoji, React(a, id, emoji)
       PROVE  UNCHANGED bartender
  BY <1>10 DEF React
<1> QED  BY <1>1, <1>2, <1>3, <1>4, <1>5, <1>6, <1>7, <1>8, <1>9, <1>10 DEF Next

\* The bartender prepares one answer at a time and the flag says so, whoever
\* triggers it and however often.
THEOREM AnswerTheorem == Spec => []OneAnswerAtATime
<1>1. Init => OneAnswerAtATime
  BY DEF Init, OneAnswerAtATime
<1>2. TypeOK /\ OneAnswerAtATime /\ [Next]_vars => OneAnswerAtATime'
  <2> SUFFICES ASSUME TypeOK, OneAnswerAtATime, [Next]_vars PROVE OneAnswerAtATime'
    OBVIOUS
  <2>0. delaying \in Nat /\ thinking \in Nat
    BY DEF TypeOK
  <2>1. CASE Trigger
    <3>1. CASE responding
      BY <2>1, <3>1 DEF Trigger, bartender, OneAnswerAtATime
    <3>2. CASE ~responding
      <4>1. responding' /\ delaying' = delaying + 1 /\ thinking' = thinking
        BY <2>1, <3>2 DEF Trigger
      <4>2. delaying + thinking = 0
        BY <2>0, <3>2 DEF OneAnswerAtATime
      <4> QED  BY <2>0, <4>1, <4>2 DEF OneAnswerAtATime
    <3> QED  BY <3>1, <3>2
  <2>2. CASE Moves
    BY <2>0, <2>2 DEF Moves, OneAnswerAtATime
  <2>3. CASE Ends
    <3>1. ~responding' /\ delaying' = delaying /\ thinking' = thinking - 1
      BY <2>3 DEF Ends
    <3> QED  BY <2>0, <2>3, <3>1 DEF Ends, OneAnswerAtATime
  <2>4. CASE UNCHANGED bartender
    BY <2>4 DEF bartender, OneAnswerAtATime
  <2> QED  BY <2>1, <2>2, <2>3, <2>4, BartenderStep
<1> QED  BY <1>1, <1>2, TypeTheorem, PTL DEF Spec

-----------------------------------------------------------------------------
(* The rate limit *)

\* An agent's entry is at least as late as its last pass, and neither is in the future
SlotTaken ==
    \A a \in Agents :
        /\ lastPass[a] <= now /\ lastTime[a] <= now
        /\ Gap > 0 => lastPass[a] <= lastTime[a]

\* How a step changes the clock and agent a's entries: a removal or a new visit
\* clears both, a pass needs the gap, a post brings the entry up to date.
SlotStep(a) ==
    /\ now' \in {now, now + 1}
    /\ \/ lastPass'[a] = lastPass[a] /\ lastTime'[a] = lastTime[a]
       \/ now' = now /\ lastPass'[a] = 0 /\ lastTime'[a] = 0
       \/ now' = now /\ lastPass'[a] = lastPass[a] /\ lastTime'[a] = now
       \/ /\ now' = now /\ ~RateLimited(a) /\ lastPass'[a] = now
          /\ lastTime'[a] \in {lastTime[a], now}
          /\ Gap > 0 => lastTime'[a] = now

\* Every step is of one of these kinds.
LEMMA NextSlotStep ==
    ASSUME TypeOK, [Next]_vars, NEW a \in Agents PROVE SlotStep(a)
<1> USE ConversationAssumption DEF TypeOK, limits, SlotStep
<1>1. CASE Tick \/ Wake \/ StaySilent \/ IdlePrompt \/ UNCHANGED vars
  BY <1>1 DEF Tick, Wake, StaySilent, IdlePrompt, vars
<1>2. ASSUME NEW b \in Agents, Join(b) PROVE SlotStep(a)
  BY <1>2 DEF Join
<1>3. ASSUME NEW b \in Agents, RemoveAgent(b), now' = now PROVE SlotStep(a)
  BY <1>3 DEF RemoveAgent
<1>4. ASSUME NEW b \in Agents, Leave(b) \/ Unlink(b) PROVE SlotStep(a)
  <2>1. CASE Leave(b)
    BY <1>3, <2>1 DEF Leave
  <2>2. CASE Unlink(b)
    BY <2>2 DEF Unlink
  <2> QED  BY <1>4, <2>1, <2>2
<1>5. ASSUME NEW b \in Agents, NEW c \in Texts, Drop(b, c) \/ Submit(b, c) PROVE SlotStep(a)
  <2>1. PassRateLimit(b) /\ now' = now
    BY <1>5 DEF Drop, Submit
  <2> QED  BY <2>1 DEF PassRateLimit
<1>6. ASSUME NEW b \in Agents, NEW c, NEW type, AddMessage(b, c, type)
      PROVE  lastTime' = [lastTime EXCEPT ![b] = now]
  BY <1>6 DEF AddMessage
<1>7. ASSUME NEW b \in Agents, NEW c \in Texts, Act(b, c) PROVE SlotStep(a)
  <2>1. /\ lastTime' = [lastTime EXCEPT ![b] = now]
        /\ lastPass' = [lastPass EXCEPT ![b] = now]
        /\ now' = now /\ ~RateLimited(b)
    BY <1>6, <1>7 DEF Act
  <2> QED  BY <2>1
<1>8. ASSUME NEW m \in checking, Moderated(m) PROVE SlotStep(a)
  <2>1. m.agent \in Agents
    OBVIOUS
  <2>2. CASE Allow(m)
    <3>1. lastTime' = [lastTime EXCEPT ![m.agent] = now] /\ lastPass' = lastPass /\ now' = now
      BY <1>6, <2>1, <2>2 DEF Allow
    <3> QED  BY <2>1, <3>1
  <2>3. CASE Refuse(m)
    BY <2>3 DEF Refuse
  <2>4. CASE Kick(m)
    BY <1>3, <2>1, <2>4 DEF Kick
  <2> QED  BY <1>8, <2>2, <2>3, <2>4 DEF Moderated
<1>9. ASSUME NEW c \in Texts, Speak(c) PROVE SlotStep(a)
  BY <1>9 DEF Speak, AddMessage
<1>10. ASSUME NEW b \in Agents, NEW id, NEW emoji, React(b, id, emoji) PROVE SlotStep(a)
  BY <1>10 DEF React
<1> QED  BY <1>1, <1>2, <1>4, <1>5, <1>7, <1>8, <1>9, <1>10 DEF Next

\* Two checks of one visit pass at least a gap apart, for any gap: the entry that is
\* compared is stamped before the message waits for anything.
THEOREM SpacingTheorem == Spec => PassesAreSpaced
<1> USE ConversationAssumption
<1> DEFINE Spaced == \A a \in Agents :
                        lastPass[a] # 0 /\ lastPass'[a] \notin {0, lastPass[a]} =>
                            lastPass'[a] - lastPass[a] >= Gap
           SlotInv == TypeOK /\ SlotTaken
<1>1. Init => SlotInv
  <2> SUFFICES ASSUME Init PROVE SlotInv
    OBVIOUS
  <2>1. TypeOK
    BY InitTypeOK
  <2>2. SlotTaken
    BY DEF Init, SlotTaken
  <2> QED  BY <2>1, <2>2
<1>2. SlotInv /\ [Next]_vars => SlotInv' /\ Spaced
  <2> SUFFICES ASSUME TypeOK, SlotTaken, [Next]_vars PROVE SlotInv' /\ Spaced
    OBVIOUS
  <2>1. TypeOK'
    BY NextTypeOK
  <2>2. ASSUME NEW a \in Agents
        PROVE  /\ lastPass'[a] <= now' /\ lastTime'[a] <= now'
               /\ Gap > 0 => lastPass'[a] <= lastTime'[a]
               /\ lastPass[a] # 0 /\ lastPass'[a] \notin {0, lastPass[a]} =>
                    lastPass'[a] - lastPass[a] >= Gap
    <3>1. SlotStep(a)
      BY NextSlotStep
    <3>2. now \in Nat /\ lastPass[a] \in Nat /\ lastTime[a] \in Nat
      BY DEF TypeOK
    <3>3. /\ lastPass[a] <= now /\ lastTime[a] <= now
          /\ Gap > 0 => lastPass[a] <= lastTime[a]
      BY DEF SlotTaken
    <3> QED  BY <3>1, <3>2, <3>3 DEF SlotStep, RateLimited
  <2> QED  BY <2>1, <2>2 DEF SlotTaken
<1>3. SlotInv /\ [Next]_vars => [Spaced]_vars
  BY <1>2
<1>4. SlotInv /\ [Next]_vars => SlotInv'
  BY <1>2
<1> QED  BY <1>1, <1>3, <1>4, PTL DEF Spec, PassesAreSpaced
-----------------------------------------------------------------------------
(* What an agent posted in this visit *)

\* The messages in the window are the last ones posted, in order
WindowNumbered ==
    /\ Len(conversation) <= posted
    /\ \A i \in 1..Len(conversation) :
          conversation[i].id = posted - Len(conversation) + i

JoinedInPast == \A a \in Agents : joinedAt[a] <= posted

\* The message that a post pushes out of the window, as a number of messages
Pushed == IF Len(conversation) < Limit THEN 0 ELSE 1

\* A post moves the window by what it pushes out and stands at its end.
LEMMA PostingMoves ==
    ASSUME TypeOK, WindowBounded, posted < MaxPosts,
           NEW a \in Speakers, NEW c \in Texts, NEW type \in {"chat", "action"},
           conversation' = Posting(a, c, type)
    PROVE  /\ Len(conversation) \in Nat /\ Pushed \in 0..1 /\ Pushed <= Len(conversation)
           /\ Len(conversation') = Len(conversation) + 1 - Pushed
           /\ \A i \in 1..Len(conversation) - Pushed :
                 conversation'[i] = conversation[i + Pushed]
           /\ conversation'[Len(conversation')].id = posted + 1
           /\ conversation'[Len(conversation')].agent = a
           /\ conversation'[Len(conversation')].text = c
<1> USE ConversationAssumption
<1> DEFINE p == [id |-> posted + 1, agent |-> a, text |-> c, type |-> type, time |-> now]
           s == Append(conversation, p)
           n == Len(conversation)
<1>1. n \in Nat /\ n <= Limit /\ conversation \in Seq(Post)
  BY DEF TypeOK, WindowBounded
<1>2. p \in Post
  BY DEF Post, TypeOK
<1>3. /\ s \in Seq(Post) /\ Len(s) = n + 1 /\ s[n + 1] = p
      /\ \A i \in 1..n : s[i] = conversation[i]
  BY <1>1, <1>2, AppendProperties
<1>4. conversation' = LastWindow(s)
  BY DEF Posting
<1>5. p.id = posted + 1 /\ p.agent = a /\ p.text = c
  OBVIOUS
<1> HIDE DEF p, s
<1>6. CASE n < Limit
  <2>1. conversation' = s
    BY <1>1, <1>3, <1>4, <1>6 DEF LastWindow
  <2>2. Pushed = 0
    BY <1>6 DEF Pushed
  <2> QED  BY <1>1, <1>3, <1>5, <2>1, <2>2
<1>7. CASE n = Limit
  <2>1. conversation' = SubSeq(s, 2, n + 1)
    BY <1>1, <1>3, <1>4, <1>7 DEF LastWindow
  <2>2. \A i \in 2..n + 1 : s[i] \in Post
    BY <1>1, <1>3
  <2>3. /\ Len(SubSeq(s, 2, n + 1)) = n
        /\ \A i \in 1..n : SubSeq(s, 2, n + 1)[i] = s[2 + i - 1]
    BY <1>1, <1>7, <2>2, SubSeqProperties
  <2>4. /\ Len(conversation') = n
        /\ \A i \in 1..n : conversation'[i] = s[i + 1]
    BY <1>1, <2>1, <2>3
  <2>5. conversation'[n] = p
    BY <1>1, <1>3, <1>7, <2>4
  <2>6. Pushed = 1
    BY <1>1, <1>7 DEF Pushed
  <2> QED  BY <1>1, <1>3, <1>5, <1>7, <2>4, <2>5, <2>6
<1> QED  BY <1>1, <1>6, <1>7

\* What a step can do to an agent: it leaves alone what is compared and counted, or
\* the agent joins, or somebody posts.
Rests(a) ==
    /\ UNCHANGED window
    /\ joinedAt'[a] = joinedAt[a]
    /\ a \in present' => /\ a \in present
                         /\ count'[a] = count[a] /\ lastContent'[a] = lastContent[a]

Arrives(a) ==
    /\ UNCHANGED window
    /\ joinedAt'[a] = posted
    /\ count'[a] = 0

Hears(a, b, c, type) ==
    /\ posted < MaxPosts /\ posted' = posted + 1
    /\ conversation' = Posting(b, c, type)
    /\ joinedAt'[a] = joinedAt[a]
    /\ a \in present' =>
          /\ a \in present
          /\ count'[a] = IF a = b THEN count[a] + 1 ELSE count[a]
          /\ lastContent'[a] = IF a = b THEN c ELSE lastContent[a]

AgentStep(a) ==
    \/ Rests(a) \/ Arrives(a)
    \/ \E b \in Speakers, c \in Texts, type \in {"chat", "action"} : Hears(a, b, c, type)

\* Every post is heard by every agent.
LEMMA AddMessageHeard ==
    ASSUME TypeOK, NEW a \in Agents, NEW b \in Speakers, NEW c \in Texts,
           NEW type \in {"chat", "action"},
           AddMessage(b, c, type), UNCHANGED people
    PROVE  Hears(a, b, c, type)
<1> USE ConversationAssumption DEF TypeOK, people
<1>1. CASE b = House
  BY <1>1 DEF AddMessage, limits, Hears
<1>2. CASE b # House
  <2>1. b \in Agents
    BY <1>2 DEF Speakers
  <2>2. /\ count' = IF b \in present THEN [count EXCEPT ![b] = @ + 1] ELSE count
        /\ lastContent' = [lastContent EXCEPT ![b] = c]
    BY <1>2 DEF AddMessage
  <2>3. a \in present => /\ count'[a] = IF a = b THEN count[a] + 1 ELSE count[a]
                         /\ lastContent'[a] = IF a = b THEN c ELSE lastContent[a]
    BY <2>1, <2>2
  <2> QED  BY <2>3 DEF AddMessage, Hears
<1> QED  BY <1>1, <1>2

\* Every step is of one of these kinds for every agent.
LEMMA NextAgentStep ==
    ASSUME TypeOK, [Next]_vars, NEW a \in Agents PROVE AgentStep(a)
<1> USE DEF TypeOK, people, limits
<1>1. CASE Tick \/ Wake \/ StaySilent \/ IdlePrompt \/ UNCHANGED vars
  BY <1>1 DEF Tick, Wake, StaySilent, IdlePrompt, vars, AgentStep, Rests
<1>2. ASSUME NEW b \in Agents, Join(b) PROVE AgentStep(a)
  BY <1>2 DEF Join, AgentStep, Rests, Arrives
<1>3. ASSUME NEW b \in Agents, RemoveAgent(b), UNCHANGED window PROVE Rests(a)
  BY <1>3 DEF RemoveAgent, Rests
<1>4. ASSUME NEW b \in Agents, Leave(b) \/ Unlink(b) PROVE AgentStep(a)
  BY <1>3, <1>4 DEF Leave, Unlink, AgentStep, Rests
<1>5. ASSUME NEW b \in Agents, NEW c \in Texts, Drop(b, c) \/ Submit(b, c)
      PROVE  AgentStep(a)
  BY <1>5 DEF Drop, Submit, AgentStep, Rests
<1>6. ASSUME NEW b \in Agents, NEW c \in Texts, Act(b, c) PROVE AgentStep(a)
  <2>1. AddMessage(b, c, "action") /\ UNCHANGED people /\ b \in Speakers
    BY <1>6 DEF Act, Speakers
  <2> QED  BY <2>1, AddMessageHeard DEF AgentStep
<1>7. ASSUME NEW m \in checking, Moderated(m) PROVE AgentStep(a)
  <2>1. m.agent \in Agents /\ m.text \in Texts
    OBVIOUS
  <2>2. CASE Allow(m)
    <3>1. AddMessage(m.agent, m.text, "chat") /\ UNCHANGED people /\ m.agent \in Speakers
      BY <2>1, <2>2 DEF Allow, Speakers
    <3> QED  BY <2>1, <3>1, AddMessageHeard DEF AgentStep
  <2>3. CASE Refuse(m)
    BY <2>3 DEF Refuse, AgentStep, Rests
  <2>4. CASE Kick(m)
    BY <1>3, <2>1, <2>4 DEF Kick, AgentStep
  <2> QED  BY <1>7, <2>2, <2>3, <2>4 DEF Moderated
<1>8. ASSUME NEW c \in Texts, Speak(c) PROVE AgentStep(a)
  <2>1. AddMessage(House, c, "chat") /\ UNCHANGED people /\ House \in Speakers
    BY <1>8 DEF Speak, Speakers
  <2> QED  BY <2>1, AddMessageHeard DEF AgentStep
<1>9. ASSUME NEW b \in Agents, NEW id, NEW emoji, React(b, id, emoji) PROVE AgentStep(a)
  BY <1>9 DEF React, AgentStep, Rests
<1> QED  BY <1>1, <1>2, <1>4, <1>5, <1>6, <1>7, <1>8, <1>9 DEF Next
\* Every step keeps the numbering of the window.
LEMMA NextWindowNumbered ==
    ASSUME TypeOK, WindowBounded, WindowNumbered, [Next]_vars PROVE WindowNumbered'
<1>1. CASE UNCHANGED window
  BY <1>1 DEF window, WindowNumbered
<1>2. ASSUME NEW a \in Speakers, NEW c \in Texts, NEW type \in {"chat", "action"},
             posted < MaxPosts, posted' = posted + 1, conversation' = Posting(a, c, type)
      PROVE  WindowNumbered'
  <2> DEFINE n == Len(conversation)
             m == Len(conversation')
  <2>1. /\ n \in Nat /\ Pushed \in 0..1 /\ Pushed <= n
        /\ m = n + 1 - Pushed
        /\ \A i \in 1..n - Pushed : conversation'[i] = conversation[i + Pushed]
        /\ conversation'[m].id = posted + 1
    BY <1>2, PostingMoves
  <2>2. posted \in Nat /\ n <= posted
    BY ConversationAssumption DEF TypeOK, WindowNumbered
  <2>3. ASSUME NEW i \in 1..m PROVE conversation'[i].id = posted' - m + i
    <3>1. CASE i = m
      BY <1>2, <2>1, <2>2, <3>1
    <3>2. CASE i # m
      <4>1. i \in 1..n - Pushed /\ i + Pushed \in 1..n
        BY <2>1, <3>2
      <4>2. conversation'[i].id = posted - n + (i + Pushed)
        BY <2>1, <4>1 DEF WindowNumbered
      <4> QED  BY <1>2, <2>1, <2>2, <4>1, <4>2
    <3> QED  BY <3>1, <3>2
  <2> QED  BY <1>2, <2>1, <2>2, <2>3 DEF WindowNumbered
<1> QED  BY <1>1, <1>2, WindowStep DEF Posts

\* Every step keeps the joins in the past.
LEMMA NextJoinedInPast ==
    ASSUME TypeOK, JoinedInPast, [Next]_vars PROVE JoinedInPast'
<1>1. ASSUME NEW a \in Agents PROVE joinedAt'[a] <= posted'
  <2>1. posted \in Nat /\ joinedAt[a] \in Nat /\ joinedAt[a] <= posted
    BY ConversationAssumption DEF TypeOK, JoinedInPast
  <2>2. AgentStep(a)
    BY NextAgentStep
  <2> QED  BY <2>1, <2>2 DEF AgentStep, Rests, Arrives, Hears, window
<1> QED  BY <1>1 DEF JoinedInPast

VisitWindow == TypeOK /\ WindowBounded /\ WindowNumbered /\ JoinedInPast

\* Every reachable state satisfies it.
LEMMA VisitWindowInvariant == Spec => []VisitWindow
<1>1. Init => WindowNumbered /\ JoinedInPast
  BY DEF Init, WindowNumbered, JoinedInPast
<1>2. TypeOK /\ WindowBounded /\ WindowNumbered /\ JoinedInPast /\ [Next]_vars
        => WindowNumbered' /\ JoinedInPast'
  BY NextWindowNumbered, NextJoinedInPast
<1> QED  BY <1>1, <1>2, TypeTheorem, WindowTheorem, PTL DEF Spec, VisitWindow

\* An agent that joins has posted nothing in its new visit.
LEMMA ArrivesMine ==
    ASSUME VisitWindow, NEW a \in Agents, Arrives(a) PROVE Mine(a)' = {}
<1>1. posted \in Nat /\ Len(conversation) \in Nat /\ Len(conversation) <= posted
  BY ConversationAssumption DEF VisitWindow, TypeOK, WindowNumbered
<1>2. \A i \in 1..Len(conversation) : conversation[i].id <= posted
  BY <1>1 DEF VisitWindow, WindowNumbered
<1>3. Mine(a)' = {i \in 1..Len(conversation) :
                      conversation[i].agent = a /\ conversation[i].id > posted}
  BY DEF Arrives, window, Mine
<1>4. \A i \in 1..Len(conversation) : ~(conversation[i].id > posted)
  <2>1. \A i \in 1..Len(conversation) : conversation[i].id \in Nat
    BY <1>1 DEF VisitWindow, WindowNumbered
  <2> QED  BY <1>1, <1>2, <2>1
<1> QED  BY <1>3, <1>4

\* A post moves the agent's own messages with the window and adds its own.
LEMMA HearsMine ==
    ASSUME VisitWindow, NEW a \in Agents, NEW b \in Speakers, NEW c \in Texts,
           NEW type \in {"chat", "action"}, Hears(a, b, c, type),
           NEW j \in Nat
    PROVE  j \in Mine(a)' <=>
              \/ j \in 1..Len(conversation) - Pushed /\ j + Pushed \in Mine(a)
              \/ j = Len(conversation') /\ a = b
<1> DEFINE n == Len(conversation)
           m == Len(conversation')
<1>1. /\ n \in Nat /\ Pushed \in 0..1 /\ Pushed <= n
      /\ m = n + 1 - Pushed
      /\ \A i \in 1..n - Pushed : conversation'[i] = conversation[i + Pushed]
      /\ conversation'[m].id = posted + 1
      /\ conversation'[m].agent = b
  BY PostingMoves DEF VisitWindow, Hears
<1>2. posted \in Nat /\ joinedAt[a] \in Nat /\ joinedAt[a] <= posted
  BY ConversationAssumption DEF VisitWindow, TypeOK, JoinedInPast
<1>3. joinedAt'[a] = joinedAt[a]
  BY DEF Hears
<1>4. CASE j = m
  BY <1>1, <1>2, <1>3, <1>4 DEF Mine
<1>5. CASE j # m
  <2>1. j \in 1..m <=> j \in 1..n - Pushed
    BY <1>1, <1>5
  <2>2. j \in 1..n - Pushed => j + Pushed \in 1..n
    BY <1>1
  <2> QED  BY <1>1, <1>3, <1>5, <2>1, <2>2 DEF Mine
<1> QED  BY <1>4, <1>5

-----------------------------------------------------------------------------
(* The duplicate filter *)

\* The last message an agent posted in this visit is what the filter compares with
LastKnown(a) ==
    Mine(a) # {} =>
        \E i \in Mine(a) : /\ \A j \in Mine(a) : j <= i
                           /\ lastContent[a] = conversation[i].text

\* Every step keeps the filter's entry of an agent in the room.
LEMMA NextLastKnown ==
    ASSUME VisitWindow, [Next]_vars, NEW a \in Agents,
           a \in present => LastKnown(a), a \in present'
    PROVE  LastKnown(a)'
<1>1. CASE Rests(a)
  <2>1. Mine(a)' = Mine(a)
    BY <1>1 DEF Rests, window, Mine
  <2> QED  BY <1>1, <2>1 DEF Rests, window, LastKnown
<1>2. CASE Arrives(a)
  BY <1>2, ArrivesMine DEF LastKnown
<1>3. ASSUME NEW b \in Speakers, NEW c \in Texts, NEW type \in {"chat", "action"},
             Hears(a, b, c, type)
      PROVE  LastKnown(a)'
  <2> DEFINE n == Len(conversation)
             m == Len(conversation')
  <2>1. /\ n \in Nat /\ Pushed \in 0..1 /\ Pushed <= n
        /\ m = n + 1 - Pushed
        /\ \A i \in 1..n - Pushed : conversation'[i] = conversation[i + Pushed]
        /\ conversation'[m].text = c
    BY <1>3, PostingMoves DEF VisitWindow, Hears
  <2>2. \A j \in Mine(a)' : j \in Nat /\ j <= m
    BY <2>1 DEF Mine
  <2>3. CASE a = b
    <3>1. m \in Mine(a)'
      BY <1>3, <2>1, <2>3, HearsMine
    <3>2. lastContent'[a] = conversation'[m].text
      BY <1>3, <2>1, <2>3 DEF Hears
    <3> QED  BY <2>2, <3>1, <3>2 DEF LastKnown
  <2>4. CASE a # b
    <3>1. SUFFICES ASSUME NEW k \in Mine(a)' PROVE LastKnown(a)'
      BY DEF LastKnown
    <3>2. k \in 1..n - Pushed /\ k + Pushed \in Mine(a)
      BY <1>3, <2>2, <2>4, <3>1, HearsMine
    <3>3. PICK i \in Mine(a) : /\ \A j \in Mine(a) : j <= i
                               /\ lastContent[a] = conversation[i].text
      BY <1>3, <3>2 DEF LastKnown, Hears
    <3>4. i \in 1..n /\ k + Pushed <= i
      BY <3>2, <3>3 DEF Mine
    <3>5. i - Pushed \in 1..n - Pushed /\ (i - Pushed) + Pushed = i
      BY <2>1, <3>2, <3>4
    <3>6. i - Pushed \in Mine(a)'
      BY <1>3, <3>3, <3>5, HearsMine
    <3>7. ASSUME NEW j \in Mine(a)' PROVE j <= i - Pushed
      <4>1. j \in Nat /\ j + Pushed \in Mine(a)
        BY <1>3, <2>2, <2>4, <3>7, HearsMine
      <4> QED  BY <2>1, <3>3, <3>4, <4>1
    <3>8. lastContent'[a] = conversation'[i - Pushed].text
      BY <1>3, <2>1, <2>4, <3>3, <3>5 DEF Hears
    <3> QED  BY <3>6, <3>7, <3>8 DEF LastKnown
  <2> QED  BY <2>3, <2>4
<1> QED  BY <1>1, <1>2, <1>3, NextAgentStep DEF AgentStep, VisitWindow

\* The latest of the agent's messages is the one behind which none of its own comes.
LEMMA LatestMine ==
    ASSUME NEW a, NEW i \in Mine(a), \A j \in Mine(a) : j <= i
    PROVE  Latest(Mine(a)) = i
<1>1. \A j \in Mine(a) : j \in Int
  BY DEF Mine
<1>2. \A k \in Mine(a) : (\A j \in Mine(a) : j <= k) => k = i
  BY <1>1
<1> QED  BY <1>2 DEF Latest

\* The duplicate filter compares with the last message that the agent posted in this
\* visit, in whatever order the moderator answers and whatever the window has lost.
THEOREM FilterTheorem == Spec => []FilterKnowsLatest
<1> DEFINE Known == \A a \in present : LastKnown(a)
<1>1. Init => Known
  BY DEF Init
<1>2. VisitWindow /\ Known /\ [Next]_vars => Known'
  <2> SUFFICES ASSUME VisitWindow, Known, [Next]_vars, NEW a \in present'
               PROVE  LastKnown(a)'
    OBVIOUS
  <2>1. a \in Agents
    BY NextTypeOK DEF VisitWindow, TypeOK
  <2> QED  BY <2>1, NextLastKnown
<1>3. Known => FilterKnowsLatest
  <2> SUFFICES ASSUME Known, NEW a \in present, Mine(a) # {}
               PROVE  lastContent[a] = conversation[Latest(Mine(a))].text
    BY DEF FilterKnowsLatest
  <2>1. PICK i \in Mine(a) : /\ \A j \in Mine(a) : j <= i
                             /\ lastContent[a] = conversation[i].text
    BY DEF LastKnown
  <2> QED  BY <2>1, LatestMine
<1> HIDE DEF Known
<1> QED  BY <1>1, <1>2, <1>3, VisitWindowInvariant, PTL DEF Spec
-----------------------------------------------------------------------------
(* The message count *)

\* The ids of the messages in the window that agent a posted in this visit
Written(a) == {conversation[i].id : i \in Mine(a)}

\* Ids tell messages apart, so there are as many ids as messages, a finite number.
LEMMA WrittenCounts ==
    ASSUME VisitWindow, NEW a \in Agents
    PROVE  /\ Written(a) \subseteq 1..posted
           /\ IsFiniteSet(Written(a)) /\ Cardinality(Written(a)) \in Nat
           /\ Cardinality(Mine(a)) = Cardinality(Written(a))
<1> DEFINE n == Len(conversation)
           f == [i \in Mine(a) |-> conversation[i].id]
<1>1. posted \in Nat /\ n \in Nat /\ n <= posted
  BY ConversationAssumption DEF VisitWindow, TypeOK, WindowNumbered
<1>2. \A i \in Mine(a) : i \in 1..n /\ conversation[i].id = posted - n + i
  BY DEF VisitWindow, WindowNumbered, Mine
<1>3. Written(a) \subseteq 1..posted
  BY <1>1, <1>2 DEF Written
<1>4. IsFiniteSet(Mine(a))
  <2>1. IsFiniteSet(1..n) /\ Mine(a) \in SUBSET (1..n)
    BY <1>1, FS_Interval DEF Mine
  <2> QED  BY <2>1, FS_Subset
<1>5. f \in Bijection(Mine(a), Written(a))
  <2>1. f \in [Mine(a) -> Written(a)]
    BY DEF Written
  <2>2. \A i, j \in Mine(a) : f[i] = f[j] => i = j
    BY <1>1, <1>2
  <2>3. \A x \in Written(a) : \E i \in Mine(a) : f[i] = x
    BY DEF Written
  <2> QED  BY <2>1, <2>2, <2>3, Fun_IsBij
<1> HIDE DEF f
<1>6. ExistsBijection(Mine(a), Written(a))
  BY <1>5 DEF ExistsBijection
<1>7. IsFiniteSet(Written(a)) /\ Cardinality(Written(a)) = Cardinality(Mine(a))
  BY <1>4, <1>6, FS_Bijection
<1> QED  BY <1>3, <1>7, FS_CardinalityType

\* There are as many ids as messages
IdsCount ==
    \A a \in Agents :
        /\ Cardinality(Written(a)) \in Nat
        /\ Cardinality(Mine(a)) = Cardinality(Written(a))

\* This holds in every reachable state.
LEMMA IdsInvariant == Spec => []IdsCount
<1>1. VisitWindow => IdsCount
  BY WrittenCounts DEF IdsCount
<1> QED  BY <1>1, VisitWindowInvariant, PTL

\* A post adds its id if it is the agent's own.  What it pushes out of the window was
\* posted before the visit, unless the visit has outgrown the window.
LEMMA HearsWritten ==
    ASSUME VisitWindow, NEW a \in Agents, NEW b \in Speakers, NEW c \in Texts,
           NEW type \in {"chat", "action"}, Hears(a, b, c, type)
    PROVE  /\ Written(a)' \subseteq Written(a) \cup {x \in {posted + 1} : a = b}
           /\ posted' - joinedAt'[a] <= Limit =>
                Written(a)' = Written(a) \cup {x \in {posted + 1} : a = b}
<1> DEFINE n == Len(conversation)
           m == Len(conversation')
           own == {x \in {posted + 1} : a = b}
<1>1. /\ n \in Nat /\ Pushed \in 0..1 /\ Pushed <= n
      /\ m = n + 1 - Pushed
      /\ \A i \in 1..n - Pushed : conversation'[i] = conversation[i + Pushed]
      /\ conversation'[m].id = posted + 1
  BY PostingMoves DEF VisitWindow, Hears
<1>2. /\ posted \in Nat /\ posted' = posted + 1
      /\ joinedAt[a] \in Nat /\ joinedAt'[a] = joinedAt[a]
      /\ Limit \in Nat /\ n <= Limit
  BY ConversationAssumption DEF VisitWindow, TypeOK, WindowBounded, Hears
<1>3. Written(a)' = {conversation'[j].id : j \in Mine(a)'}
  BY DEF Written
<1>4. \A j \in Mine(a)' : j \in 1..m
  BY DEF Mine
<1>5. ASSUME NEW j \in Mine(a)' PROVE conversation'[j].id \in Written(a) \cup own
  <2>1. j \in Nat
    BY <1>1, <1>4
  <2>2. CASE j = m /\ a = b
    BY <1>1, <2>2
  <2>3. CASE j \in 1..n - Pushed /\ j + Pushed \in Mine(a)
    BY <1>1, <2>3 DEF Written
  <2> QED  BY <2>1, <2>2, <2>3, HearsMine
<1>6. a = b => m \in Mine(a)' /\ conversation'[m].id = posted + 1
  BY <1>1, HearsMine
<1>7. ASSUME posted' - joinedAt'[a] <= Limit, NEW i \in Mine(a)
      PROVE  conversation[i].id \in Written(a)'
  <2>1. /\ i \in 1..n /\ conversation[i].id = posted - n + i
        /\ conversation[i].id > joinedAt[a]
    BY DEF Mine, VisitWindow, WindowNumbered
  <2>2. i > Pushed
    <3>1. CASE n < Limit
      BY <1>1, <2>1, <3>1 DEF Pushed
    <3>2. CASE n = Limit
      BY <1>1, <1>2, <1>7, <2>1, <3>2
    <3> QED  BY <1>1, <1>2, <3>1, <3>2
  <2>3. i - Pushed \in 1..n - Pushed /\ (i - Pushed) + Pushed = i
    BY <1>1, <2>1, <2>2
  <2>4. i - Pushed \in Mine(a)'
    BY <2>3, HearsMine
  <2>5. conversation'[i - Pushed].id = conversation[i].id
    BY <1>1, <2>3
  <2> QED  BY <1>3, <2>4, <2>5
<1>8. Written(a)' \subseteq Written(a) \cup own
  BY <1>3, <1>5
<1>9. ASSUME posted' - joinedAt'[a] <= Limit
      PROVE  Written(a) \cup own \subseteq Written(a)'
  <2>1. Written(a) \subseteq Written(a)'
    BY <1>7, <1>9 DEF Written
  <2>2. own \subseteq Written(a)'
    BY <1>3, <1>6
  <2> QED  BY <2>1, <2>2
<1> QED  BY <1>8, <1>9

\* An agent's count covers what the window holds of its visit
Counted(a) ==
    /\ Cardinality(Mine(a)) <= count[a]
    /\ posted - joinedAt[a] <= Limit => Cardinality(Mine(a)) = count[a]

\* Every step keeps the count of an agent in the room.
LEMMA NextCounted ==
    ASSUME VisitWindow, IdsCount', [Next]_vars, NEW a \in Agents,
           a \in present => Counted(a), a \in present'
    PROVE  Counted(a)'
<1>1. CASE Rests(a)
  <2>1. Mine(a)' = Mine(a)
    BY <1>1 DEF Rests, window, Mine
  <2> QED  BY <1>1, <2>1 DEF Rests, window, Counted
<1>2. CASE Arrives(a)
  <2>1. Cardinality(Mine(a))' = 0
    BY <1>2, ArrivesMine, FS_EmptySet
  <2> QED  BY <1>2, <2>1 DEF Arrives, Counted
<1>3. ASSUME NEW b \in Speakers, NEW c \in Texts, NEW type \in {"chat", "action"},
             Hears(a, b, c, type)
      PROVE  Counted(a)'
  <2> DEFINE own == {x \in {posted + 1} : a = b}
             W == Written(a)
             V == Written(a)'
  <2>1. /\ a \in present /\ posted' = posted + 1 /\ joinedAt'[a] = joinedAt[a]
        /\ count'[a] = IF a = b THEN count[a] + 1 ELSE count[a]
    BY <1>3 DEF Hears
  <2>2. posted \in Nat /\ joinedAt[a] \in Nat /\ Limit \in Nat /\ count[a] \in Nat
    BY ConversationAssumption DEF VisitWindow, TypeOK
  <2>3. /\ IsFiniteSet(W) /\ Cardinality(W) \in Nat /\ posted + 1 \notin W
        /\ Cardinality(Mine(a)) = Cardinality(W)
    BY <2>2, WrittenCounts
  <2>4. /\ Cardinality(V) \in Nat
        /\ Cardinality(Mine(a))' = Cardinality(V)
    BY DEF IdsCount
  <2>5. /\ IsFiniteSet(W \cup own)
        /\ Cardinality(W \cup own) = IF a = b THEN Cardinality(W) + 1 ELSE Cardinality(W)
    <3>1. CASE a = b
      <4>1. W \cup own = W \cup {posted + 1}
        BY <3>1
      <4> QED  BY <2>3, <3>1, <4>1, FS_AddElement
    <3>2. CASE a # b
      <4>1. W \cup own = W
        BY <3>2
      <4> QED  BY <2>3, <3>2, <4>1
    <3> QED  BY <3>1, <3>2
  <2>6. /\ V \subseteq W \cup own
        /\ posted' - joinedAt'[a] <= Limit => V = W \cup own
    BY <1>3, HearsWritten
  <2> HIDE DEF own, W, V
  <2>7. Cardinality(V) <= Cardinality(W \cup own)
    BY <2>5, <2>6, FS_Subset
  <2>8. Cardinality(W \cup own) <= count'[a]
    BY <2>1, <2>2, <2>3, <2>5 DEF Counted
  <2>9. posted' - joinedAt'[a] <= Limit => Cardinality(V) = count'[a]
    BY <2>1, <2>2, <2>3, <2>5, <2>6 DEF Counted
  <2>10. Cardinality(W \cup own) \in Nat /\ count'[a] \in Nat
    BY <2>1, <2>2, <2>3, <2>5
  <2> QED  BY <2>4, <2>7, <2>8, <2>9, <2>10 DEF Counted
<1> QED  BY <1>1, <1>2, <1>3, NextAgentStep DEF AgentStep, VisitWindow

\* The count that a checkout reports is of this visit: as many as the window has of
\* it until the visit outgrows the window, and never fewer.
THEOREM CountTheorem == Spec => []CountIsOfThisVisit
<1>1. Init => CountIsOfThisVisit
  BY DEF Init, CountIsOfThisVisit
<1>2. VisitWindow /\ IdsCount' /\ CountIsOfThisVisit /\ [Next]_vars
        => CountIsOfThisVisit'
  <2> SUFFICES ASSUME VisitWindow, IdsCount', CountIsOfThisVisit, [Next]_vars,
                      NEW a \in present'
               PROVE  Counted(a)'
    BY DEF CountIsOfThisVisit, Counted
  <2>1. a \in Agents
    BY NextTypeOK DEF VisitWindow, TypeOK
  <2>2. a \in present => Counted(a)
    BY DEF CountIsOfThisVisit, Counted
  <2> QED  BY <2>1, <2>2, NextCounted
<1> QED  BY <1>1, <1>2, VisitWindowInvariant, IdsInvariant, PTL DEF Spec
=============================================================================
