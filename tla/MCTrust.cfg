SPECIFICATION TrustSpec
CONSTANTS
    v1 = v1
    v2 = v2
    k1 = k1
    k2 = k2
    Validations = {v1, v2}
    Keys = {k1, k2}
    TTL = 2
    MaxTime = 4
    NoKid = NoKid
    ann = ann
    bob = bob
    Agents = {ann, bob}
    Malformed = {bob}
    NoAgent = NoAgent
    MaxCrashes = 2
    MaxEdits = 2
INVARIANTS
    TypeOK
    AckedKept
    MapIsRoster
    TokensOutliveRestarts
    TornKeyIsUnused
PROPERTIES
    WithdrawnKeyForgotten
    PublishedKeyFound
    ValidationEnds
    EveryoneGetsIn
\* validations end, the clock is bounded, and a torn file may stop the boot
CHECK_DEADLOCK FALSE
