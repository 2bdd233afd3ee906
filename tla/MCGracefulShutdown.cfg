SPECIFICATION Spec
CONSTANTS
    c1 = c1
    c2 = c2
    c3 = c3
    Conns <- MCConns
    Resources = 2
INVARIANTS
    TypeOK
    NoUseAfterClose
PROPERTY SignalEndsProcess
CHECK_DEADLOCK FALSE
