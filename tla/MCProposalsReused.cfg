SPECIFICATION Spec
CONSTANTS
    Targets = {"main"}
    Keys <- MCKeys
    Recovered <- MCRecovered
    Changes <- MCChanges
    Agents = {"a"}
    Threshold = 0
    ConfirmCost = 1
    ShadowCost = 2
    ProjectCeiling = 4
    BranchCeiling = 3
    AgentCeiling = 3
    BudgetWindow = 2
    ProposalTtl = 1
    ShadowTtl = 2
    BreakerCeiling = 4
    BreakerWindow = 1
    MaxTime = 0
    ProposeUntil = 1
    MaxReservations = 0
    MaxEntries = 5
    MaxBatch = 1
CHECK_DEADLOCK FALSE
PROPERTIES
    PromotionShipsTheChange
