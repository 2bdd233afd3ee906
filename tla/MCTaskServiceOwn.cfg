SPECIFICATION MCSpec
CONSTANTS
    alice = alice
    bob = bob
    carol = carol
    t1 = t1
    t2 = t2
    x1 = x1
    x2 = x2
    x3 = x3
    x4 = x4
    r1 = r1
    r2 = r2
    r3 = r3
    a = a
    b = b
    text = text
    Users <- MCUsers
    Teams <- MCTeams
    Tasks <- MCTasks
    Titles <- MCTitles
    Texts <- MCTexts
    Requests <- TwoRequests
    Inputs <- MCInputs
    None = None
    Junk = Junk
    NoJob = NoJob
    MaxOpenConns = 2
INVARIANT OwnTasksOnly
CHECK_DEADLOCK FALSE
