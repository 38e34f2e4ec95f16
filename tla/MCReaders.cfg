\* Each part on its own small instance; the bounds of every part stop it.
SPECIFICATION ComposedSpec
CONSTANTS
    Parts = {"rows", "history", "map", "sync", "sql", "scribe", "eject", "binding"}
    Exact = 4
    Tables = {"t"}
    PrimaryKeys = {1, 2}
    RowValues <- MCRowValues
    Writers = {"w"}
    Changes <- MCChanges
    FirstSchema <- MCFirst
    Plans <- MCPlans
    Bindings <- MCBindings
    Probes <- MCProbes
    MaxEntries = 4
    MaxLives = 1
    Replicas = {"hosted", "edge", "phone"}
    SyncKeys = {"k"}
    SyncWrites = 3
    ClientTasks = {"c1", "c2"}
    ClientKeys = {"k", "l"}
    ClientBranch <- MCClientBranch
    CacheSize <- MCCacheSize
    CacheTtl <- MCCacheTtl
    ClientPool = 1
    ClientRefreshes = TRUE
    ClientWrites = 2
    ClientTime = 1
    ClientCalls = 3
    SessionCallers = {"a", "b"}
    SessionMethods <- MCFirstMethods
    SessionCalls = 2
INVARIANTS
    TypesOK
    QueriesAreRight
    HistoryStands
    ReplicasConverge
    ClientsAreAnswered
    MigrationsAreHonest
PROPERTIES
    PutsAreGuarded
    DiscardRecovers
CHECK_DEADLOCK FALSE
