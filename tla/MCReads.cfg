SPECIFICATION MCSpec
CONSTANTS
    t1 = t1
    t2 = t2
    x1 = x1
    x2 = x2
    x3 = x3
    c1 = c1
    c2 = c2
    Clients <- MCClients
    Users <- MCUsers
    Teams <- MCTeams
    Tasks <- MCTasks
    None = None
    Week = 1
    MonthLength = 2
    MaxRank = 2
    DefaultSize = 2
    MaxSize = 2
    MaxInt = 3
    MaxRows = 3
    Creations <- MCCreations
    Edits <- MCEdits
    LastSecond = 2
SYMMETRY MCSymmetry
INVARIANTS
    TypeOK
    SummaryIsRight
    TopCreatorsAreRight
    PagesCover
PROPERTY FullPagesAreFinal
CHECK_DEADLOCK FALSE
