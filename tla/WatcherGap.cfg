\* The comment on watchWithdrawals, on the code as written.
SPECIFICATION Spec
CONSTANTS
    Exits = {honest, low}
    Understated = {low}
    NoExit = NoExit
    Lookback = 2
    Window = 2
    MaxBlock = 5
    MaxRestarts = 0
INVARIANT
    EveryExitIsHandled
CHECK_DEADLOCK FALSE
