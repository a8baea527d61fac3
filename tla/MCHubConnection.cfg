SPECIFICATION ProcessSpec
CONSTANTS
    h1 = h1
    h2 = h2
    a1 = a1
    a2 = a2
    w1 = w1
    w2 = w2
    ann = ann
    Sockets = {h1, h2}
    NoSocket = NoSocket
    MaxAttempts = 2
    Direct = {a1, a2}
    Watchers = {w1, w2}
    Agents = {ann}
    AgentOf <- MCAgentOf
    Unregistered = Unregistered
    MaxSpectators = 1
INVARIANTS
    TypeOK
    LinkOrTimer
    HeartbeatHasSocket
    SpectatorsBounded
    FlagTellsAnswer
PROPERTIES
    StaysDown
    LinkRetried
    ShutsDown
    SilentPeersGo
    StopEnds
\* a pub that shut down stops
CHECK_DEADLOCK FALSE
