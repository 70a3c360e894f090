SPECIFICATION ClientFairSpec
CONSTANTS
    NumTorrents = 3
    IntBits = 3
INVARIANTS
    ClientTypeOK
    NothingLeftBehind
    EachHasOneVerdict
    CompletedOnce
PROPERTIES
    LoopIsLeft
CHECK_DEADLOCK FALSE
