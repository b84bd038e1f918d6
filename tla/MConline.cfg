SPECIFICATION AnsweredSpec
CONSTANTS
    Socks = {s1, s2, s3}
    NoSock = NoSock
    ReconnectMax = 2
    KeepaliveMax = 2
    Reliable = TRUE
PROPERTY StaysOnline
CHECK_DEADLOCK FALSE
