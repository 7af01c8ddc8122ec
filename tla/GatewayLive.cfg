\* Two calls that may share a nullifier, a restart: every call ends.
SPECIFICATION FairSpec
CONSTANTS
    Calls = {r1, r2}
    Nullifiers = {n1, n2}
    RequestSignals = {x1, x2}
    ExitSignal = xe
    NoSignal = NoSignal
    CMax = 1
    MaxVerifications = 1
    RateLimit = 2
    RateWindow = 1
    ResponseTTL = 1
    MaxTime = 1
    MaxCrashes = 1
PROPERTY
    CallsEnd
