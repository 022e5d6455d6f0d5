SPECIFICATION FairSpec

CONSTANTS
    None = None
    MaxCalls = 3
    ResultSizes <- MCResultSizes
    MaxResultBytes = 2
    MaxCycleBytes = 4
    Usages <- MCUsages

INVARIANTS
    ObservationIsTheRun
    TotalsCoverTheRun
    StageIsWhereItFailed
    FollowUpCarriesEveryResult

PROPERTIES
    NothingStartsLate
    TurnEnds
