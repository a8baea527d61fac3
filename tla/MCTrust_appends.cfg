SPECIFICATION TrustSpec
CONSTANTS
    v1 = v1
    v2 = v2
    k1 = k1
    k2 = k2
    Validations = {v1}
    Keys = {k1}
    TTL = 1
    MaxTime = 1
    NoKid = NoKid
    ann = ann
    bob = bob
    Agents = {ann, bob}
    Malformed = {bob}
    NoAgent = NoAgent
    MaxCrashes = 1
    MaxEdits = 0
PROPERTY
    RegistrationAppends
\* a file that cannot be read stops the boot
CHECK_DEADLOCK FALSE
