\* Three calls on one nullifier with two signals, an exit, one restart.
SPECIFICATION Spec
CONSTANTS
    Calls = {r1, r2, r3}
    Nullifiers = {n1}
    RequestSignals = {x1, x2}
    ExitSignal = xe
    NoSignal = NoSignal
    CMax = 1
    MaxVerifications = 2
    RateLimit = 2
    RateWindow = 2
    ResponseTTL = 2
    MaxTime = 3
    MaxCrashes = 1
SYMMETRY CallSymmetry
INVARIANTS
    TypeOK
    ProviderCalledOnce
    OneAccumulatorPerNullifier
    ConflictsAreSlashed
    AnswersAreKept
    LimiterCountsVerifications
    RateLimitHolds
