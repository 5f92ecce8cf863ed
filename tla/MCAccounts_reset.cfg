\* A password is reset while the service runs.
SPECIFICATION AccountsSpec
CONSTANTS
    l1 = l1
    l2 = l2
    k1 = k1
    k2 = k2
    Clients = {l1, l2}
    Commands = {k1, k2}
    Pids = {1, 2}
    Old = Old
    Env = Env
    Unsafe = Unsafe
    NoFile = NoFile
    Credentials <- Everyone
    Companies <- OneCommand
    Ttl = 2
    MaxFailures = 2
    Window = 2
    LockFor = 2
    MaxTime = 3
    MayRaise = TRUE
    Nothing = Nothing
    Disabled = Disabled
    Down = Down
INVARIANTS
    ResetTakesEffect
