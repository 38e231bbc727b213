\* A paged and a single-request target of one account that store the same two items, one
\* of which the legacy runner may have stored before, for this account or another.
\* The windows and pages that precede them are functions, checked in the initial states:
\* hours of two ticks, days of two hours and months of two days, and listings of up to
\* four items.
CONSTANTS
    t1 = t1
    t2 = t2
    i1 = i1
    i2 = i2
    k1 = k1
    k2 = k2
    a = a
    spaced = spaced
    b = b
    bad = bad
    acc = acc
    other = other
    Targets = {t1, t2}
    Paged = {t1}
    Account <- OneAccount
    Items = {i1, i2}
    Legacy = {i2}
    LegacyAccounts = {acc, other}
    Payloads = {a, spaced, b, bad}
    Normal <- Normalized
    Invalid = Invalid
    Keys = {k1, k2}
    Nothing = Nothing
    MaxRuns = 1
    MaxPages = 3
    PageSize = 2
    HourTicks = 2
    DayTicks = 4
    MonthTicks = 8
    HourCeiling = 6
    DayCeiling = 12
    MonthCeiling = 3
    MaxLag = 3
    Epoch = 96
    MaxListed = 4
    MaxLimit = 2
    MaxPageNumber = 3
    MaxOffset = 3
    MaxHistory = 1
    MaxFetches = 8
    LastArrival = 3
SPECIFICATION Spec
SYMMETRY KeySymmetry
INVARIANTS FirstSeenOnce EveryFactIsIntroduced CountersMatchRows WindowsAdjoin PagesCover
