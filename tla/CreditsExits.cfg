\* One note against the owner: time-locked changes of every target, pauses at
\* any time, and a recipient that may refuse its payout.
SPECIFICATION FairSpec
CONSTANTS
    Commitments = {c1}
    Addresses = {server, refuser}
    Accepts = {server}
    Keys = {k1, k2}
    CMax = 1
    SlashBounty = 1
    DepositLimit = 2
    MaxLeaves = 1
    RootHistorySize = 2
    AdminDelay = 3
    NoteTTL = 3
    ChallengeWindow = 2
    InitialServer = server
    InitialKey = k1
    EmptyLeaf = EmptyLeaf
    NoRoot = NoRoot
    NoValue = NoValue
    MaxPending = 1
    MaxTime = 6
INVARIANTS
    ExpiryCountsUnpausedTime
PROPERTIES
    ExitsPrecedeChanges
    ExitsComplete
