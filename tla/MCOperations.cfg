\* Each part on its own small instance; the bounds of every part stop it.
SPECIFICATION ComposedSpec
CONSTANTS
    Parts = {"crdt", "integrity", "queue", "signing", "regions", "gating", "trail", "spend"}
    x = x
    y = y
    Branches = {0, 1, 2}
    Elements = {x}
    Amounts <- AmountsMC
    Times = {1, 2}
    OpKinds = {"counter", "register", "set", "sequence"}
    MaxOps = 3
    MaxMerges = 2
    MaxEntries = 5
    MaxRestarts = 1
    ChainBranches = {0, 1}
    ChainMain = 0
    EntriesPerTick = 2
    MaxPass = 2
    MaxGap = 2
    RequireFirst = TRUE
    ChainEntries = 3
    ChainClock = 4
    ChainLives = 2
    MaxForgotten = 1
    SignedBranches = {0}
    Sessions = {"s"}
    Secrets = {"k1", "k2"}
    Payloads = {"p"}
    Skew = 0
    SignedEntries = 2
    SignedClock = 1
    MaxEnvelopes = 2
    MaxKeys = 2
    SignedLives = 2
    RegionNames = {"eu", "us"}
    BranchIds = {0, 1}
    Home = 0
    RowKeys = {"j", "k"}
    Callers = {"a"}
    Followers = {"f", "g"}
    MaxLag = 0
    RegionWrites = 2
    RegionClock = 1
    MaxDiscards = 1
    Exact = 4
    Floor <- GatingFloor
    MaxShadow = 2
    GatedBranches = {"main", "dev"}
    Protected = {"main"}
    Opening <- GatingOpening
    GatedWrites <- GatingWrites
    GatedChanges <- GatingChanges
    GatedClaims <- GatingClaims
    Configured <- GatingConfigured
    Pushes <- GatingPushes
    OwnProject = "p"
    ConfirmCost = 1
    ShadowCost = 3
    RecentSize = 1
    GatedEdits = 1
    MaxRecords = 2
    GatedLives = 1
    MergeSources = {"s1", "s2"}
    TargetWrites <- MergeTargetOps
    SourceWrites <- MergeSourceOps
    MaxDirect = 1
    MaxPerSource = 1
    MaxTickets = 2
    MaxFailures = 1
    Risks = {1, 2}
    SealKeys = {"k"}
    NoKey = "none"
    Projects = {"p", "q"}
    WindowSize = 2
    Tears = TRUE
    TrailLength = 3
    MaxOpens = 3
    TrailClock = 1
    Spenders = {"a", "b"}
    NoSpender = "none"
    ProjectLimit = 4
    SpenderLimit = 3
    Span = 2
    Charged = {1, 2}
    MaxCharges = 3
    LastTick = 3
INVARIANTS
    TypesOK
    CrdtsConverge
    LoggedIsShown
    IntegrityIsHonest
    QueuePromises
    SignaturesMatch
    GatesHold
    LedgersHold
PROPERTIES
    PassesAndAnchorsCover
    NothingGoesBack
CHECK_DEADLOCK FALSE
