SPECIFICATION Spec
CONSTANTS
    u1 = u1
    u2 = u2
    u3 = u3
    r1 = r1
    r2 = r2
    r3 = r3
    t1 = t1
    t2 = t2
    Users <- MCUsers
    Teams <- MCTeams
    Requests <- MCRequests
    None = None
    NoJob = NoJob
SYMMETRY MCSymmetry
INVARIANTS
    TypeOK
    OneOwner
    InvitedOnce
    AnswersHold
PROPERTY ImplementsRoster
CHECK_DEADLOCK FALSE
