CONSTANTS
    Functor = {f1, f2}
    capacity = 4
    Garbage = Garbage
    EVT_MAX = 4
    Unset = Unset
    Producer = {p1, p2}
    Consumer = {c1, c2}
    Socket = {s1, s2}
    max_size = 2
    NoSocket = NoSocket
    MaxFd = 6
    RCVBUF = 8
    MAX_NBR_THREADS = 2
    NBR_THREADS = 1
    NBR_CONNECTIONS_PER_THREAD = 1
    NBR_ROUNDTRIPS_PER_CONNECTION = 1
    Settings <- MCSettings
    Interrupts = TRUE
    FDTABLE_MAX = 4
    READY_MAX = 1
    Watcher = {0, 1, 2, 3}
    Timer = {0}
    Eventfd = {1}
    Stream = {2}
    Listener = {3}
    Uses = {{0, 1}, {2, 3}}
    Interval = {0, 1}
    MaxPending = 2
    fdOf <- OwnDescriptor
    NULL = NULL
SPECIFICATION PartsSpec
INVARIANTS InUseIsHeld NoLostWakeup RoundTripsVerified TimerCallbackDue EventfdOwed MaskMatchesKernel OnlyMisuseAborts
PROPERTIES OnlyKnownEnds ImplementsFunctorQueue ImplementsSlotPool ImplementsSocketFifo PartsProgress EventsDelivered
CHECK_DEADLOCK FALSE
