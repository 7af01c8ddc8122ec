\* Two notes racing every way a note can end; no administration.
SPECIFICATION Spec
CONSTANTS
    Commitments = {c1, c2}
    Addresses = {server, user}
    Accepts = {server}
    Keys = {k1}
    CMax = 1
    SlashBounty = 2
    DepositLimit = 4
    MaxLeaves = 2
    RootHistorySize = 3
    AdminDelay = 2
    NoteTTL = 2
    ChallengeWindow = 1
    InitialServer = server
    InitialKey = k1
    EmptyLeaf = EmptyLeaf
    NoRoot = NoRoot
    NoValue = NoValue
    MaxPending = 0
    MaxTime = 3
SYMMETRY NoteSymmetry
INVARIANTS
    TypeOK
    PoolSolvency
    SettledInFull
    RootIsTheActiveNotes
    KnownRootsAreTheLatest
PROPERTY
    ImplementsEscrow
