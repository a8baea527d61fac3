SPECIFICATION FairAdmissionSpec
CONSTANTS
    ann = ann
    bob = bob
    cy = cy
    a1 = a1
    b1 = b1
    c1 = c1
    Agents = {ann, bob, cy}
    Direct = {a1}
    Relay = {b1, c1}
    AgentOf <- MCAgentOf
    Banned = {cy}
    Capacity = 1
    Tries = {1}
    NoSession = NoSession
    Unwelcome = {}
INVARIANTS
    TypeOK
    CapacityRespected
    DirectVisitAccounted
    RelayReportedAtMostOnce
    RelayVisitAccounted
PROPERTIES
    KeepsLedger
    TurnedAwayOnlyIfOvertaken
    EvictionHasCause
    CheckoutCompletes
    ClosedSlotFreed
\* every session ends and none can be opened again
CHECK_DEADLOCK FALSE
