CONSTANTS
    Conn = {c1, c2}
    LISTENER = LISTENER
    NoSock = NoSock
    Loads <- OnlyPipeline
    SNDBUF = 3
    READY_MAX = 3
    EVT_MAX = 3
SPECIFICATION FairSpec
PROPERTY Responded
CHECK_DEADLOCK FALSE
