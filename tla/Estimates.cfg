\* Two concurrent estimates over three keys, a cache of two entries, one
\* crash, a second release; stored rates and the memory live two ticks.
SPECIFICATION Spec
CONSTANTS
    Callers = {c1, c2}
    CACHE_TTL = 2
    MAX_DB_RATE_AGE = 2
    MaxTime = 3
    NoRate = NoRate
    Endpoints = {messages, unpriced}
    PricedEndpoint = messages
    Models = {m1}
    OtherModel = other
    Units = {u1, u2, u3}
    ESTIMATE_TTL = 2
    MAX_CACHE_ENTRIES = 2
    PRICING_TTL = 2
    MaxReleases = 2
    MaxCrashes = 1
    Open = Open
SYMMETRY CallerSymmetry
INVARIANTS
    TypeOK
    RateAgeIsBounded
    FailureMeansNoRate
    PricesFollowTheCode
    OnePriceInForce
    EstimateCacheIsOrdered
