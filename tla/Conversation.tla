----------------------------- MODULE Conversation -----------------------------
(***************************************************************************)
(* What happens to a message: the rate limit, the duplicate filter and the *)
(* message limit at its arrival, the moderator it waits for, the window it *)
(* is posted to, the bartender's reaction or answer, and the agents' own   *)
(* reactions (server.ts message handlers of both transports, relay/room-   *)
(* state.ts, relay/decision.ts, relay/mentions.ts, moderation/auto-mod.ts).*)
(*                                                                         *)
(* Presence is abstracted from PubServer: an agent joins, leaves the room, *)
(* and may keep sending for a while after it left (`linked`), as a direct  *)
(* socket does until it is closed.  A text is a value that names nobody,   *)
(* one agent or the house; time is a clock that ticks at any moment.       *)
(***************************************************************************)
EXTENDS Naturals, Sequences, FiniteSets

CONSTANTS
    Agents,      \* agent ids, the house's excluded
    House,       \* the bartender's agent id
    Nobody,      \* no agent: a text without a name, an agent without a text
    Texts,       \* message contents
    NamedIn,     \* whose name a text contains
    Gap,         \* frontmatter.min_message_gap_ms, in ticks; 0 is uncapped
    Limit,       \* frontmatter.max_messages_per_visit, also the window's size
    Emojis,      \* the reaction emojis agents use
    Allowed,     \* the pub's curated set
    MaxArrivals, \* bound on the messages that reach the moderator
    MaxPosts,    \* bound on the messages posted
    MaxTime      \* bound on the clock

ASSUME ConversationAssumption ==
    /\ House \notin Agents /\ Nobody \notin Agents \cup {House} \cup Texts
    /\ NamedIn \in [Texts -> Agents \cup {House, Nobody}]
    /\ Gap \in Nat /\ Limit \in Nat \ {0}
    /\ MaxArrivals \in Nat /\ MaxPosts \in Nat /\ MaxTime \in Nat /\ Gap <= MaxTime

VARIABLES
    now,          \* Date.now()
    linked,       \* agents whose connection still delivers
    present,      \* agents in the room
    joinedAt,     \* presence.joined_at, as the number of messages posted before
    count,        \* presence.message_count
    lastTime,     \* lastMessageTime, 0 without an entry
    lastContent,  \* lastMessageContent
    conversation, \* the window
    posted,       \* messages posted so far
    arrived,      \* messages passed to the moderator so far
    checking,     \* messages at the moderator
    reactions,
    responding,   \* bartenderResponding
    delaying,     \* triggered answers that wait out their delay
    thinking,     \* triggered answers that wait for the model
    lastPass      \* history: when the agent last passed the rate limit, 0 before

people  == <<linked, present, joinedAt>>
limits  == <<count, lastTime, lastContent>>
window  == <<conversation, posted>>
bartender == <<responding, delaying, thinking>>
vars == <<now, people, limits, window, arrived, checking, reactions, bartender, lastPass>>

Speakers == Agents \cup {House}
Post == [id : 1..MaxPosts, agent : Speakers, text : Texts,
         type : {"chat", "action"}, time : 0..MaxTime]

TypeOK ==
    /\ now \in 0..MaxTime
    /\ linked \subseteq Agents /\ present \subseteq Agents
    /\ joinedAt \in [Agents -> 0..MaxPosts]
    /\ count \in [Agents -> Nat]
    /\ lastTime \in [Agents -> 0..MaxTime]
    /\ lastContent \in [Agents -> Texts \cup {Nobody}]
    /\ conversation \in Seq(Post)
    /\ posted \in 0..MaxPosts
    /\ arrived \in 0..MaxArrivals
    /\ checking \subseteq [no : 1..MaxArrivals, agent : Agents, text : Texts]
    /\ reactions \subseteq [id : 1..MaxPosts, agent : Speakers, emoji : Emojis \cup {House}]
    /\ responding \in BOOLEAN /\ delaying \in Nat /\ thinking \in Nat
    /\ lastPass \in [Agents -> 0..MaxTime]

\* Date.now() is far from 0, so a fresh entry of 0 never limits
Init ==
    /\ now = Gap
    /\ linked = {} /\ present = {}
    /\ joinedAt = [a \in Agents |-> 0]
    /\ count = [a \in Agents |-> 0]
    /\ lastTime = [a \in Agents |-> 0]
    /\ lastContent = [a \in Agents |-> Nobody]
    /\ conversation = <<>> /\ posted = 0
    /\ arrived = 0 /\ checking = {}
    /\ reactions = {}
    /\ responding = FALSE /\ delaying = 0 /\ thinking = 0
    /\ lastPass = [a \in Agents |-> 0]

Tick ==
    /\ now < MaxTime
    /\ now' = now + 1
    /\ UNCHANGED <<people, limits, window, arrived, checking, reactions, bartender, lastPass>>

-----------------------------------------------------------------------------
(* The room's records *)

\* Mutant: the window is trimmed one message late
LastWindowLate(s) ==
    IF Len(s) > Limit + 1 THEN SubSeq(s, Len(s) - Limit + 1, Len(s)) ELSE s

LastWindow(s) ==
    IF Len(s) > Limit THEN SubSeq(s, Len(s) - Limit + 1, Len(s)) ELSE s

\* The conversation after agent a posts text c
Posting(a, c, type) ==
    LastWindow(Append(conversation,
        [id |-> posted + 1, agent |-> a, text |-> c, type |-> type, time |-> now]))

\* Mutant: the text is not recorded for the duplicate filter
AddMessageUnrecorded(a, c, type) ==
    /\ posted < MaxPosts
    /\ posted' = posted + 1
    /\ conversation' = Posting(a, c, type)
    /\ IF a = House THEN UNCHANGED limits
       ELSE /\ count' = IF a \in present THEN [count EXCEPT ![a] = @ + 1] ELSE count
            /\ lastTime' = [lastTime EXCEPT ![a] = now]
            /\ UNCHANGED lastContent

\* The house's own entries of the maps are never read
AddMessage(a, c, type) ==
    /\ posted < MaxPosts
    /\ posted' = posted + 1
    /\ conversation' = Posting(a, c, type)
    /\ IF a = House THEN UNCHANGED limits
       ELSE /\ count' = IF a \in present THEN [count EXCEPT ![a] = @ + 1] ELSE count
            /\ lastTime' = [lastTime EXCEPT ![a] = now]
            /\ lastContent' = [lastContent EXCEPT ![a] = c]

RateLimited(a) == Gap > 0 /\ now - lastTime[a] < Gap

\* Mutant: the slot is consumed when the message is posted, not when it passes
PassRateLimitLazily(a) ==
    /\ ~RateLimited(a)
    /\ UNCHANGED lastTime
    /\ lastPass' = [lastPass EXCEPT ![a] = now]

\* Mutant: the entry holds the time of the next slot
PassRateLimitNextSlot(a) ==
    /\ ~RateLimited(a)
    /\ lastTime' = IF Gap > 0 THEN [lastTime EXCEPT ![a] = now + Gap] ELSE lastTime
    /\ lastPass' = [lastPass EXCEPT ![a] = now]

\* checkRateLimit passes: the slot is consumed although the message may still
\* be dropped.  Without a gap nothing is stamped.
PassRateLimit(a) ==
    /\ ~RateLimited(a)
    /\ lastTime' = IF Gap > 0 THEN [lastTime EXCEPT ![a] = now] ELSE lastTime
    /\ lastPass' = [lastPass EXCEPT ![a] = now]

\* One reaction per agent and message: a new one replaces the old
AddReaction(a, id, emoji) ==
    reactions' = {r \in reactions : ~(r.id = id /\ r.agent = a)}
                    \cup {[id |-> id, agent |-> a, emoji |-> emoji]}

-----------------------------------------------------------------------------
(* The bartender *)

\* Mutant: a second answer is triggered while one is in flight
TriggerAlways ==
    /\ responding' = TRUE
    /\ delaying' = delaying + 1
    /\ UNCHANGED thinking

\* triggerBartenderResponse: one answer at a time
Trigger ==
    IF responding THEN UNCHANGED bartender
    ELSE responding' = TRUE /\ delaying' = delaying + 1 /\ UNCHANGED thinking

\* parseMentions looks for the names of the agents present, not the house's
Mentions(c) == {NamedIn[c]} \cap present

SpokeWithin(a, n, s) ==
    \E i \in 1..Len(s) : i > Len(s) - n /\ s[i].agent = a

\* bartenderDecide, on the window s that holds the message of text c by agent a
Answers(a, c, s) ==
    \/ House \in Mentions(c)
    \/ ~SpokeWithin(a, Len(s), s)
    \/ Mentions(c) \ {a} = {} /\ ~ \E b \in present : SpokeWithin(b, 3, s)

\* handleBartenderDecision: answer, or react if the pub allows the emoji
Decide(a, c, s) ==
    IF Answers(a, c, s)
    THEN Trigger /\ UNCHANGED reactions
    ELSE /\ UNCHANGED bartender
         /\ UNCHANGED reactions \/ AddReaction(House, posted + 1, House)

\* The delay is over; the house itself counts as present, so the room is never
\* found empty
Wake ==
    /\ delaying > 0
    /\ delaying' = delaying - 1
    /\ thinking' = thinking + 1
    /\ UNCHANGED <<now, people, limits, window, arrived, checking, reactions,
                   responding, lastPass>>

Speak(c) ==
    /\ thinking > 0
    /\ thinking' = thinking - 1
    /\ responding' = FALSE
    /\ AddMessage(House, c, "chat")
    /\ UNCHANGED <<now, people, arrived, checking, reactions, delaying, lastPass>>

\* Mutant: no finally, the flag stays up when the model fails
StaySilentKeepsFlag ==
    /\ thinking > 0
    /\ thinking' = thinking - 1
    /\ UNCHANGED <<now, people, limits, window, arrived, checking, reactions,
                   responding, delaying, lastPass>>

\* The model fails or answers nothing
StaySilent ==
    /\ thinking > 0
    /\ thinking' = thinking - 1
    /\ responding' = FALSE
    /\ UNCHANGED <<now, people, limits, window, arrived, checking, reactions,
                   delaying, lastPass>>

\* The idle timer; the silence it waits for is any moment of this clock
IdlePrompt ==
    /\ Cardinality(present) >= 2
    /\ ~responding
    /\ Trigger
    /\ UNCHANGED <<now, people, limits, window, arrived, checking, reactions, lastPass>>

-----------------------------------------------------------------------------
(* Agents come and go *)

\* Mutant: an agent that joins again keeps the count of its last visit
JoinKeepsCount(a) ==
    /\ linked' = linked \cup {a}
    /\ present' = present \cup {a}
    /\ joinedAt' = [joinedAt EXCEPT ![a] = posted]
    /\ lastTime' = [lastTime EXCEPT ![a] = 0]
    /\ lastPass' = [lastPass EXCEPT ![a] = 0]
    /\ Trigger
    /\ UNCHANGED <<now, count, lastContent, window, arrived, checking, reactions>>

\* addAgent, also of an agent that is present; the bartender greets
Join(a) ==
    /\ linked' = linked \cup {a}
    /\ present' = present \cup {a}
    /\ joinedAt' = [joinedAt EXCEPT ![a] = posted]
    /\ count' = [count EXCEPT ![a] = 0]
    /\ lastTime' = [lastTime EXCEPT ![a] = 0]
    /\ lastPass' = [lastPass EXCEPT ![a] = 0]
    /\ Trigger
    /\ UNCHANGED <<now, lastContent, window, arrived, checking, reactions>>

\* removeAgent does nothing for an agent that is not in the room
RemoveAgent(a) ==
    IF a \notin present
    THEN UNCHANGED <<present, joinedAt, limits, lastPass>>
    ELSE /\ present' = present \ {a}
         /\ count' = [count EXCEPT ![a] = 0]
         /\ lastTime' = [lastTime EXCEPT ![a] = 0]
         /\ lastContent' = [lastContent EXCEPT ![a] = Nobody]
         /\ lastPass' = [lastPass EXCEPT ![a] = 0]
         /\ UNCHANGED joinedAt

Leave(a) ==
    /\ a \in present
    /\ RemoveAgent(a)
    /\ UNCHANGED <<now, linked, window, arrived, checking, reactions, bartender>>

Unlink(a) ==
    /\ a \in linked
    /\ linked' = linked \ {a}
    /\ UNCHANGED <<now, present, joinedAt, limits, window, arrived, checking,
                   reactions, bartender, lastPass>>

-----------------------------------------------------------------------------
(* Messages *)

OverLimit(a) == a \in present /\ count[a] >= Limit

\* Passes the rate limit, and is a duplicate or exceeds the message limit
Drop(a, c) ==
    /\ a \in linked
    /\ PassRateLimit(a)
    /\ lastContent[a] = c \/ OverLimit(a)
    /\ UNCHANGED <<now, people, count, lastContent, window, arrived, checking,
                   reactions, bartender>>

\* Passes every check and goes to the moderator
Submit(a, c) ==
    /\ a \in linked
    /\ PassRateLimit(a)
    /\ lastContent[a] # c
    /\ ~OverLimit(a)
    /\ arrived < MaxArrivals
    /\ arrived' = arrived + 1
    /\ checking' = checking \cup {[no |-> arrived + 1, agent |-> a, text |-> c]}
    /\ UNCHANGED <<now, people, count, lastContent, window, reactions, bartender>>

\* Allowed by the moderator, which also allows when it fails
Allow(m) ==
    /\ m \in checking
    /\ checking' = checking \ {m}
    /\ AddMessage(m.agent, m.text, "chat")
    /\ Decide(m.agent, m.text, conversation')
    /\ UNCHANGED <<now, people, arrived, lastPass>>

Refuse(m) ==
    /\ m \in checking
    /\ checking' = checking \ {m}
    /\ UNCHANGED <<now, people, limits, window, arrived, reactions, bartender, lastPass>>

\* A relayed agent's kick; a direct agent's is Refuse, its socket then closes
Kick(m) ==
    /\ m \in checking
    /\ checking' = checking \ {m}
    /\ linked' = linked \ {m.agent}
    /\ RemoveAgent(m.agent)
    /\ UNCHANGED <<now, window, arrived, reactions, bartender>>

\* checkMessage settles: keywords, length and model decide, and a failure allows
Moderated(m) == Allow(m) \/ Refuse(m) \/ Kick(m)

\* An action is neither moderated, nor compared, nor limited in number
Act(a, c) ==
    /\ a \in linked
    /\ ~RateLimited(a)
    /\ lastPass' = [lastPass EXCEPT ![a] = now]
    /\ AddMessage(a, c, "action")
    /\ UNCHANGED <<now, people, arrived, checking, reactions, bartender>>

\* An agent in the room reacts to a message in the window
React(a, id, emoji) ==
    /\ a \in linked \cap present
    /\ emoji \in Allowed
    /\ \E i \in 1..Len(conversation) : conversation[i].id = id
    /\ AddReaction(a, id, emoji)
    /\ UNCHANGED <<now, people, limits, window, arrived, checking, bartender, lastPass>>

-----------------------------------------------------------------------------

Next ==
    \/ Tick \/ Wake \/ StaySilent \/ IdlePrompt
    \/ \E a \in Agents : Join(a) \/ Leave(a) \/ Unlink(a)
    \/ \E a \in Agents, c \in Texts : Drop(a, c) \/ Submit(a, c) \/ Act(a, c)
    \/ \E m \in checking : Moderated(m)
    \/ \E c \in Texts : Speak(c)
    \/ \E a \in Agents, id \in 1..MaxPosts, emoji \in Emojis : React(a, id, emoji)

Spec == Init /\ [][Next]_vars

\* Timers fire and the model's and the moderator's calls settle
FairSpec ==
    /\ Spec
    /\ WF_vars(Wake)
    /\ WF_vars(StaySilent \/ \E c \in Texts : Speak(c))
    /\ WF_vars(\E m \in checking : Moderated(m))
-----------------------------------------------------------------------------
(* Properties *)

\* The places in the window of what agent a posted since it joined
Mine(a) == {i \in 1..Len(conversation) :
                conversation[i].agent = a /\ conversation[i].id > joinedAt[a]}
Latest(S) == CHOOSE i \in S : \A j \in S : j <= i
InSuccession(i, j, S) == i < j /\ ~ \E k \in S : i < k /\ k < j

\* The window never holds more messages than its size, although moderation
\* answers, actions and the bartender all post to it.
WindowBounded == Len(conversation) <= Limit

\* The duplicate filter compares with the last message the agent posted in this
\* visit, in whatever order the moderator answered (room-state.ts:125, 185).
FilterKnowsLatest ==
    \A a \in present :
        Mine(a) # {} => lastContent[a] = conversation[Latest(Mine(a))].text

\* The message count that a checkout reports is the number of messages posted
\* in the visit: exactly while the window has held them all, at least after.
CountIsOfThisVisit ==
    \A a \in present :
        /\ Cardinality(Mine(a)) <= count[a]
        /\ posted - joinedAt[a] <= Limit => Cardinality(Mine(a)) = count[a]

\* Two checks of one visit pass at least a gap apart, whatever waits at the
\* moderator meanwhile: the slot is consumed eagerly (room-state.ts:106-117).
PassesAreSpaced ==
    [][\A a \in Agents :
        lastPass[a] # 0 /\ lastPass'[a] \notin {0, lastPass[a]} =>
            lastPass'[a] - lastPass[a] >= Gap]_vars

\* The bartender prepares one answer at a time, and its flag says so.
OneAnswerAtATime ==
    /\ delaying + thinking <= 1
    /\ responding <=> delaying + thinking = 1

\* The bartender becomes free again, whether the model answers or fails.
BartenderFreed == responding ~> ~responding

-----------------------------------------------------------------------------
(* What comments and docs say of the code, which the code does not do *)

\* server.ts:1418: identical consecutive messages are rejected.
NoConsecutiveDuplicates ==
    \A a \in present : \A i, j \in Mine(a) :
        /\ InSuccession(i, j, Mine(a))
        /\ conversation[i].type = "chat" /\ conversation[j].type = "chat"
        => conversation[i].text # conversation[j].text
=============================================================================
