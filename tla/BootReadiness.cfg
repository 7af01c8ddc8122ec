\* The code's own order: the readiness check comes before the hooks.
SPECIFICATION Spec
CONSTANTS
    Strict = Strict
    OptOut = OptOut
    Local = Local
    Builds = {Strict, OptOut, Local}
    InitialBuild = Strict
    Publishable = {OptOut}
    Readers = {script}
    Me = script
    Salts = {Strict, OptOut, Local}
    HandMade <- MCHandMade
    InitialDelay = 2
    MaxWait = 2
    MinDelay = 2
    MaxTime = 2
    MaxTransactions = 1
    Instances = {i1}
    Compose <- MCCompose
    Deployments <- MCDeployments
    Artifacts = {Strict, OptOut}
    HostPlatforms = {"mock", "intel-tdx", "aws-nitro"}
    InitFirst = FALSE
    MaxBoots = 1
INVARIANT ReadinessFollowsTheKey
