SPECIFICATION AnsweredSpec
CONSTANTS
    Socks = {s1, s2, s3}
    NoSock = NoSock
    ReconnectMax = 3
    KeepaliveMax = 2
    Reliable = FALSE
INVARIANT TypeOK
INVARIANT KeepaliveBounded
INVARIANT NoReaderNotLinked
PROPERTY NoReaderSettles
PROPERTY StartReturns
PROPERTY ReconnectEnds
CHECK_DEADLOCK FALSE
