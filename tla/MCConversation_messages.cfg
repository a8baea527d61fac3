SPECIFICATION Spec
CONSTANTS
    ann = ann
    bob = bob
    hello = hello
    heyAnn = heyAnn
    heyHouse = heyHouse
    House = House
    Nobody = Nobody
    Agents = {ann}
    Texts = {hello, heyAnn}
    NamedIn <- MCNamedIn
    Gap = 2
    Limit = 2
    Emojis = {}
    Allowed = {"beer"}
    MaxArrivals = 2
    MaxPosts = 3
    MaxTime = 4
INVARIANTS
    TypeOK
    WindowBounded
    FilterKnowsLatest
    CountIsOfThisVisit
PROPERTIES
    PassesAreSpaced
\* the clock and the counters are bounded
CHECK_DEADLOCK FALSE
