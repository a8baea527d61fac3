SPECIFICATION Spec
CONSTANTS
    ann = ann
    bob = bob
    hello = hello
    heyAnn = heyAnn
    heyHouse = heyHouse
    House = House
    Nobody = Nobody
    Agents = {ann}
    Texts = {hello}
    NamedIn <- MCNamedIn
    Gap = 1
    Limit = 2
    Emojis = {}
    Allowed = {"beer"}
    MaxArrivals = 2
    MaxPosts = 2
    MaxTime = 2
INVARIANT
    NoConsecutiveDuplicates
\* the clock and the counters are bounded
CHECK_DEADLOCK FALSE
