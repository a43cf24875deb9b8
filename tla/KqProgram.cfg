CONSTANTS
    EVT_MAX = 2
    READY_LIST_MAX = 2
    KqFd = {1, 2}
    KTimer = {"t1", "t2"}
    KUser = {"u", "v", "w"}
    KStream = {"s"}
    KListener = {"l"}
    Programs = {{"t1", "t2"}, {"t1", "s", "plain"}, {"u", "v", "w"}, {"t1", "u", "close"}, {"t1", "post"}, {"s"}, {"l", "close"}, {"l", "post"}, {"u", "post"}}
SPECIFICATION KqFairSpec
INVARIANTS FiltersMatchEvents KqStops
PROPERTIES SilentWhenOff EventsCalled
CHECK_DEADLOCK FALSE
