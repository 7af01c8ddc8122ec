\* Hooks run before the readiness check. A delay of two ticks and up to four
\* transactions, or two boots: what was scheduled before a report matures
\* after it, and a session spans a restart.
SPECIFICATION Spec
CONSTANTS
    Strict = Strict
    OptOut = OptOut
    Local = Local
    Builds = {Strict, OptOut, Local}
    InitialBuild = Strict
    Publishable = {OptOut}
    Readers = {script}
    Me = script
    Salts = {Strict, OptOut, Local}
    HandMade <- MCHandMade
    InitialDelay = 2
    MaxWait = 2
    MinDelay = 2
    MaxTime = 2
    MaxTransactions = 4
    Instances = {i1}
    Compose <- MCCompose
    Deployments <- MCDeployments
    Artifacts = {Strict, OptOut}
    HostPlatforms = {"mock", "intel-tdx", "aws-nitro"}
    InitFirst = TRUE
    MaxBoots = 2
INVARIANTS
    TypeOK
    ServedKeysAreTheBoundKeys
    ReportsAreGoodForADelay
    AcceptedSessionIsOneEnclave
    AcceptedKeysAreDerived
CONSTRAINT FewEvents
