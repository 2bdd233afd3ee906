SPECIFICATION FairSpec
CONSTANTS
    t1 = t1
    f1 = f1
    f2 = f2
    r1 = r1
    r2 = r2
    r3 = r3
    Teams <- MCTeams
    Filters <- TwoFilters
    Requests <- ThreeRequests
    NoJob = NoJob
    NoKey = NoKey
    NoPage = NoPage
    Faults <- AllFaults
INVARIANTS
    TypeOK
    EntriesAreFresh
    AnswersAreFresh
    FreshUnlessBumpLost
PROPERTY StaleEntriesGo
CHECK_DEADLOCK FALSE
