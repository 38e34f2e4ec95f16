\* A client that connects and says nothing.
SPECIFICATION Spec
CONSTANTS
    c1 = c1
    c2 = c2
    t1 = t1
    bad = bad
    Conns = {c1, c2}
    Tokens = {t1, bad}
    Genuine = {t1}
    MaxConnections = 2
    QueueDepth = 1
    StalenessLimit = 0
    ExpiresAt = 2
    ClientsLeave = TRUE
    StartsSynced = TRUE
    MaxClock = 0
    MaxRequests = 0
    MaxPushes = 1
    MaxTicks = 0
PROPERTIES
    RevocationsLand
CHECK_DEADLOCK FALSE
