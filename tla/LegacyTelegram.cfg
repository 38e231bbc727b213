\* One provider with two items, two overlapping cycles, one fault.
CONSTANTS
    c1 = c1
    c2 = c2
    p1 = p1
    i1 = i1
    i2 = i2
    Cycles = {c1, c2}
    Singles = {c2}
    Order <- OneProvider
    Items = {i1, i2}
    Offers <- AllItems
    Unsafe = {}
    Unmapped = {i2}
    Undisplayed = {}
    Marketaux = p1
    MaxRuns = 1
    MaxRetries = 1
    MaxAttempts = 1
    FeedLimit = 2
    RetryLimit = 2
    MaxToggles = 1
    MaxFaults = 1
SPECIFICATION Spec
INVARIANTS RunShownWhole SendsAreCounted RetriesAreExclusive
PROPERTIES SentIsFinal EveryIntentSettles
CHECK_DEADLOCK FALSE
