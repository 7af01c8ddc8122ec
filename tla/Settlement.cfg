\* A note whose owner follows the client, or anything the circuits allow.
SPECIFICATION SSpec
CONSTANTS
    Commitments = {c1}
    Addresses = {server}
    Accepts = {server}
    Keys = {k1}
    CMax = 2
    SlashBounty = 1
    DepositLimit = 4
    MaxLeaves = 1
    RootHistorySize = 2
    AdminDelay = 2
    NoteTTL = 1
    ChallengeWindow = 1
    InitialServer = server
    InitialKey = k1
    EmptyLeaf = EmptyLeaf
    NoRoot = NoRoot
    NoValue = NoValue
    MaxPending = 0
    MaxTime = 3
    RequestSignals = {x1, x2}
    ExitSignal = xExit
    NoSignal = NoSignal
    MaxIndex = 3
    MaxChecked = 2
SYMMETRY SignalSymmetry
INVARIANTS
    PrefixProperty
    OperatorIsPaid
    HonestNotSlashed
    HonestCanLeave
    HonestLosesAtMostOneRequest
CHECK_DEADLOCK FALSE
