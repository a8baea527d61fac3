SPECIFICATION Spec
CONSTANTS
    ann = ann
    bob = bob
    cy = cy
    a1 = a1
    a2 = a2
    a3 = a3
    b1 = b1
    c1 = c1
    Agents = {ann}
    Direct = {a1, a2}
    Relay = {}
    AgentOf <- MCAgentOf
    Banned = {}
    Capacity = 2
    Tries = {1}
    NoSession = NoSession
INVARIANT
    OpenSocketInRoom
\* every session ends and none can be opened again
CHECK_DEADLOCK FALSE
