SPECIFICATION Spec
CONSTANTS
    ann = ann
    Ann = Ann
    bob = bob
    p = p
    q = q
    r1 = r1
    r2 = r2
    r3 = r3
    Requests <- MCRequests
    Emails <- MCEmails
    Fold <- MCFold
    Passwords <- MCPasswords
    Short = Short
    Junk = Junk
    Jobs <- MCJobs
    NoJob = NoJob
    NoToken = NoToken
    TicksPerSecond = 2
    TTL = 2
    LastTick = 3
INVARIANTS
    TypeOK
    RegistrationHolds
    LoginIsExact
    ActorsAreRegistered
    ExpiryIsHonest
    LogIsTrue
    SeriesMatchTheLog
CHECK_DEADLOCK FALSE
