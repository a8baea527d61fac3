SPECIFICATION FairSpec
CONSTANTS
    ann = ann
    bob = bob
    hello = hello
    heyAnn = heyAnn
    heyHouse = heyHouse
    House = House
    Nobody = Nobody
    Agents = {ann, bob}
    Texts = {heyHouse}
    NamedIn <- MCNamedIn
    Gap = 1
    Limit = 1
    Emojis = {"beer", "snail"}
    Allowed = {"beer"}
    MaxArrivals = 1
    MaxPosts = 1
    MaxTime = 2
INVARIANT
    OneAnswerAtATime
PROPERTY
    BartenderFreed
\* the clock and the counters are bounded
CHECK_DEADLOCK FALSE
