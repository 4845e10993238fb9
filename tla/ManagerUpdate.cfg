SPECIFICATION MCFairSpec
CONSTANTS
    MaxPolls = 2
    Profiles = {dev}
    QueryFails = "yes"
    MaxModals = 2
    MaxOrphans = 0
CHECK_DEADLOCK FALSE
INVARIANTS
    OnlyVerifiedRuns
    ManagerReplaced
    SetupSupervised
PROPERTIES
    OutcomeTrue
    FailedStep
    UpdateEnds
    StatusHeals
    OperationEnds
