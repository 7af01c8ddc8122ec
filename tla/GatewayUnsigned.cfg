\* The handler's promise that a consumed nullifier moves the note on.
SPECIFICATION Spec
CONSTANTS
    Calls = {r1}
    Nullifiers = {n1}
    RequestSignals = {x1}
    ExitSignal = xe
    NoSignal = NoSignal
    CMax = 1
    MaxVerifications = 1
    RateLimit = 1
    RateWindow = 1
    ResponseTTL = 1
    MaxTime = 1
    MaxCrashes = 0
INVARIANT
    ConsumedCallsAreSigned
