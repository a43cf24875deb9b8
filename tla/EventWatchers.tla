--------------------------- MODULE EventWatchers ----------------------------
(***************************************************************************)
(* Timers of the epoll runloop (w_timerfd.c).  r.timer[t] is the           *)
(* RunloopTimer of t with the timerfd behind it: wait is the it_value of   *)
(* the last timerfd_settime, in nanoseconds (0 disarms the timerfd), and   *)
(* expired says that it can be read.                                       *)
(***************************************************************************)
EXTENDS Runloop

CONSTANT Timer   \* the watchers that are timers

NoTimer == [repeating |-> FALSE, interval |-> 0, timer_postable |-> NULL,
            wait |-> 0, expired |-> FALSE, open |-> FALSE]

\* The kernel: settime forgets an expiry, close drops the descriptor, and the time comes.
\* No timer is one-shot for the kernel: it_interval is never 0 when it_value is not.
timerfd_settime(r, t, ns) == [r EXCEPT !.timer[t].wait = ns, !.timer[t].expired = FALSE]
timerfd_expires(r, t) == [r EXCEPT !.timer[t].expired = TRUE]
timerfd_read(r, t) == [r EXCEPT !.timer[t].expired = FALSE]

runloop_timer_init(r, t) == [r EXCEPT !.timer[t] = [NoTimer EXCEPT !.open = TRUE]]
runloop_timer_new(r, t) == runloop_timer_init(r, t)
runloop_timer_free(r, t) == [close_fd(r, fdOf[t]) EXCEPT !.timer[t] = NoTimer]

\* Milliseconds to it_value: the microseconds beyond the second are stored as nanoseconds.
WTimerFd_update_interval(interval_ms) ==
    LET ex_time == 1000 * interval_ms
    IN  (ex_time \div 1000000) * 1000000000 + (ex_time % 1000000)

\* What update_interval stores in the timer, and timerfd_settime with what it returns.
SetInterval(r, t, interval_ms, repeating) ==
    timerfd_settime([r EXCEPT !.timer[t].repeating = repeating, !.timer[t].interval = interval_ms],
                    t, WTimerFd_update_interval(interval_ms))

runloop_timer_register(r, t, cb, interval_ms, repeating) ==
    runloop_register(SetInterval([r EXCEPT !.timer[t].timer_postable = cb], t, interval_ms, repeating),
                     fdOf[t], {"IN"}, t)

\* The interest becomes 0: the runloop hears no more of this timer.
runloop_timer_update(r, t, interval_ms, repeating) ==
    runloop_reregister(SetInterval(r, t, interval_ms, repeating), fdOf[t], {}, t)

\* Starts the timer again.
runloop_timer_disarm(r, t) == SetInterval(r, t, r.timer[t].interval, r.timer[t].repeating)

runloop_timer_rearm_old(r, t, cb, interval_ms, repeating) ==
    SetInterval([r EXCEPT !.timer[t].timer_postable = cb], t, interval_ms, repeating)

runloop_timer_rearm(r, t) == SetInterval(r, t, r.timer[t].interval, r.timer[t].repeating)

runloop_timer_deregister(r, t) == runloop_deregister(r, fdOf[t])

runloop_timer_set(r, t, cb, interval_ms, repeating) ==
    runloop_timer_register(runloop_timer_new(r, t), t, cb, interval_ms, repeating)

runloop_timer_clear(r, t) ==
    LET out == runloop_timer_deregister(r, t)
    IN  IF Alive(out) THEN runloop_timer_free(out, t) ELSE out

\* Mutant: a one-shot timer stays registered.
timer_handler_stay(r, t) ==
    LET read == timerfd_read(r, t)
    IN  Asserting(read, read.timer[t].timer_postable # NULL, "timer_postable", read)

\* handler(), up to the call of timer_postable: what the read returns is not looked at.
timer_handler(r, t) ==
    LET read == timerfd_read(r, t)
        done == IF read.timer[t].repeating THEN read ELSE runloop_timer_deregister(read, t)
    IN  Asserting(done, done.timer[t].timer_postable # NULL, "timer_postable", done)

-----------------------------------------------------------------------------
(***************************************************************************)
(* Events of the epoll runloop (w_eventfd.c), built with EFD_SEMAPHORE and *)
(* EFD_NONBLOCK: a read takes one from the counter.  r.eventfd[e] is the   *)
(* RunloopEventfd of e with the counter of its eventfd.                    *)
(***************************************************************************)

CONSTANT Eventfd   \* the watchers that are eventfds

NoEventfd == [fdevent_postable |-> NULL, counter |-> 0, open |-> FALSE]

\* The kernel: read(2) of the descriptor takes one event, or fails with EAGAIN.
eventfd_read(r, e) ==
    IF r.eventfd[e].counter = 0 THEN r ELSE [r EXCEPT !.eventfd[e].counter = @ - 1]

runloop_eventfd_init(r, e) == [r EXCEPT !.eventfd[e] = [NoEventfd EXCEPT !.open = TRUE]]
runloop_eventfd_new(r, e) == runloop_eventfd_init(r, e)
runloop_eventfd_free(r, e) == [close_fd(r, fdOf[e]) EXCEPT !.eventfd[e] = NoEventfd]

runloop_eventfd_register(r, e) ==
    runloop_register([r EXCEPT !.eventfd[e].fdevent_postable = NULL], fdOf[e], {}, e)

\* A NULL postable leaves the old one.
runloop_eventfd_change_watch(r, e, postable, watch_what) ==
    runloop_reregister([r EXCEPT !.eventfd[e].fdevent_postable = IF postable = NULL THEN @ ELSE postable],
                       fdOf[e], watch_what, e)

runloop_eventfd_deregister(r, e) == runloop_deregister(r, fdOf[e])

\* Mutant: the kernel is told of no interest.
runloop_eventfd_arm_mute(r, e, postable) == runloop_eventfd_change_watch(r, e, postable, {})

runloop_eventfd_arm(r, e, postable) == runloop_eventfd_change_watch(r, e, postable, {"IN", "RDHUP"})

\* Mutant: only the postable is forgotten.
runloop_eventfd_disarm_postable(r, e) == runloop_eventfd_change_watch(r, e, NULL, {"IN"})

runloop_eventfd_disarm(r, e) == runloop_reregister(r, fdOf[e], {}, e)

runloop_eventfd_fire(r, e) == [r EXCEPT !.eventfd[e].counter = @ + 1]

runloop_eventfd_clear_one_event(r, e) == eventfd_read(r, e)

\* Reads until a read fails; on this descriptor it fails with EAGAIN only.
runloop_eventfd_clear_all_events(r, e) == [r EXCEPT !.eventfd[e].counter = 0]

\* handler(): the callback is made only when the read succeeded.
EventfdCalls(r, e) == r.eventfd[e].counter > 0
eventfd_handler(r, e) ==
    Asserting(eventfd_read(r, e), EventfdCalls(r, e) => r.eventfd[e].fdevent_postable # NULL,
              "fdevent_postable", eventfd_read(r, e))
=============================================================================
