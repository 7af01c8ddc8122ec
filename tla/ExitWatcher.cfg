\* One honest and one understated exit, any RPC failure, two restarts.
SPECIFICATION FairSpec
CONSTANTS
    Exits = {honest, low}
    Understated = {low}
    NoExit = NoExit
    Lookback = 2
    Window = 2
    MaxBlock = 5
    MaxRestarts = 2
INVARIANTS
    TypeOK
    OpenExitsAreReplayed
PROPERTIES
    ReplayChallengesAgain
    WatchStartsOnceConnected
CHECK_DEADLOCK FALSE
