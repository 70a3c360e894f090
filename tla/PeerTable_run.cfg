SPECIFICATION TableFairSpec
CONSTANTS
    Addr = {a1, a2}
    NoAddr = NoAddr
    Conn = {c1, c2, c3}
    NoConn = NoConn
INVARIANTS
    TableTypeOK
    OneAttempt
    OneLink
    ActiveIsFound
PROPERTIES
    AttemptEnds
CHECK_DEADLOCK FALSE
