SPECIFICATION FairSpec
CONSTANTS
    ann = ann
    bob = bob
    cy = cy
    a1 = a1
    a2 = a2
    a3 = a3
    b1 = b1
    c1 = c1
    Agents = {ann}
    Direct = {a1}
    Relay = {}
    AgentOf <- MCAgentOf
    Banned = {}
    Capacity = 1
    Tries = {1}
    NoSession = NoSession
PROPERTY
    ClosedSocketFreed
\* every session ends and none can be opened again
CHECK_DEADLOCK FALSE
