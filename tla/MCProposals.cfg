SPECIFICATION FairSpec
CONSTANTS
    Targets = {"main"}
    Keys <- MCKeys
    Recovered <- MCRecovered
    Changes <- MCChanges
    Agents = {"a"}
    Threshold = 0
    ConfirmCost = 1
    ShadowCost = 2
    ProjectCeiling = 4
    BranchCeiling = 3
    AgentCeiling = 3
    BudgetWindow = 2
    ProposalTtl = 1
    ShadowTtl = 1
    BreakerCeiling = 2
    BreakerWindow = 1
    MaxTime = 2
    ProposeUntil = 1
    MaxReservations = 2
    MaxEntries = 3
    MaxBatch = 1
CHECK_DEADLOCK FALSE
INVARIANTS
    CeilingsHold
PROPERTIES
    OnlyWhatWasApproved
    AnsweredReviewsStaySpent
    ProposalsEnd
