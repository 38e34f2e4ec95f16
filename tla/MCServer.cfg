\* Two clients that say Hello or leave; the process may exit, and the bounds stop the system.
SPECIFICATION PromptSpec
CONSTANTS
    c1 = c1
    c2 = c2
    t1 = t1
    bad = bad
    Conns = {c1, c2}
    Tokens = {t1, bad}
    Genuine = {t1}
    MaxConnections = 2
    QueueDepth = 1
    StalenessLimit = 0
    ExpiresAt = 2
    ClientsLeave = TRUE
    StartsSynced = TRUE
    MaxClock = 2
    MaxRequests = 2
    MaxPushes = 2
    MaxTicks = 1
INVARIANTS
    TypeOK
    StopsDrained
PROPERTIES
    NothingServedAfterRevocation
    NeverUnrevoked
    NobodyWaitsForEver
CHECK_DEADLOCK FALSE
