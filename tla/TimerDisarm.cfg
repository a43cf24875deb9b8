\* A timer, an eventfd, a stream and a listener, used two at a time.
CONSTANTS
    FDTABLE_MAX = 4
    READY_MAX = 1
    Watcher = {0, 1, 2, 3}
    Timer = {0}
    Eventfd = {1}
    Stream = {2}
    Listener = {3}
    Uses = {{0, 1}, {2, 3}}
    Interval = {0, 1}
    MaxPending = 2
    fdOf <- OwnDescriptor
    NULL = NULL
SPECIFICATION WcSpec
INVARIANT DisarmedIsSilent
CHECK_DEADLOCK FALSE
