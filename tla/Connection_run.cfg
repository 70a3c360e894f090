SPECIFICATION ConnectionFairSpec
CONSTANTS
    Conn = {c1, c2}
    Stream = {s1, s2, s3, s4}
    NoStream = NoStream
    MaxWrites = 3
INVARIANTS
    NothingLost
    StreamsApart
PROPERTIES
    Flushed
CHECK_DEADLOCK FALSE
