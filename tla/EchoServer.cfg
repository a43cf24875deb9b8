CONSTANTS
    Conn = {c1, c2}
    LISTENER = LISTENER
    NoSock = NoSock
    Loads <- BothLoads
    SNDBUF = 2
    READY_MAX = 3
    EVT_MAX = 3
SPECIFICATION FairSpec
INVARIANTS TypeOK ResponsesInOrder WaitingForClient EntriesMatch KnownAborts
PROPERTIES RespondedIfRoom ConnectionsTurnOver
CHECK_DEADLOCK FALSE
