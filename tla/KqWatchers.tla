----------------------------- MODULE KqWatchers -----------------------------
(***************************************************************************)
(* The watchers of the kqueue runloop (kqueue_helpers.c, timer.c,          *)
(* user_event.c, stream.c, listener.c).  k is the state of a program on    *)
(* one runloop: the event structures ev and the free ones (free, in the    *)
(* order EventTable hands them out), the kernel's list of filters (note)   *)
(* and the descriptors that are open.                                      *)
(*                                                                         *)
(* A filter is named <<ident, filter>>.  Streams and listeners use their   *)
(* descriptor as ident, timers and user events the address of their        *)
(* structure.  The structures are one union: a released one keeps its      *)
(* contents until it is initialised again.                                 *)
(***************************************************************************)
EXTENDS Asserts, Integers, Sequences, Functions

CONSTANTS EVT_MAX, KqFd,
          READY_LIST_MAX   \* runloop_READY_LIST_MAX: the ring holds one less

ASSUME KqWatchersAssumption ==
    EVT_MAX \in Nat /\ KqFd \subseteq 1 .. 99 /\ READY_LIST_MAX \in Nat \ {0}

EvRef == 1 .. EVT_MAX
NULL == 0
Address(e) == 100 + e

NoEvent == [type |-> "none", fd |-> NULL, postable |-> "garbage",
            read_cb |-> FALSE, write_cb |-> FALSE, repeating |-> FALSE]

\* What the ring of functor_list.c holds, in order; FunctorList is the ring itself.
functor_list_new == <<>>
functor_list_size(list) == Len(list)
functor_list_add(k, func) ==
    Asserting(k, functor_list_size(k.ready_list) + 1 < READY_LIST_MAX, "functor list is full",
              [k EXCEPT !.ready_list = Append(@, func)])
functor_list_remove(k) ==
    Asserting(k, functor_list_size(k.ready_list) > 0, "empty functor list", [k EXCEPT !.ready_list = Tail(@)])

freelist_init == [i \in EvRef |-> i]
event_table_init == freelist_init
event_table_new == event_table_init

\* sticky: whether the kernel keeps EV_DISPATCH and EV_ONESHOT of a filter that is
\* added again.
runloop_init(sticky) ==
    [ev |-> [e \in EvRef |-> NoEvent], free |-> event_table_new, got |-> NULL,
     ready_list |-> functor_list_new, note |-> <<>>, open |-> {}, sticky |-> sticky, closed |-> FALSE,
     called |-> <<"none", NULL>>, aborted |-> "no"]
runloop_new(sticky) == runloop_init(sticky)

runloop_post(k, func) == functor_list_add(k, func)

Held(k) == EvRef \ Range(k.free)

event_table_get_entry(k) ==
    Asserting(k, k.free # <<>>, "table", [k EXCEPT !.free = Tail(@), !.got = Head(k.free)])
event_table_release_entry(k, e) == [k EXCEPT !.free = Append(@, e)]

-----------------------------------------------------------------------------
(* External: kevent(2).  A change is applied unless it fails; the changes   *)
(* after one that fails are not applied.                                    *)

EV_SET(id, filter, flags, udata) == [key |-> <<id, filter>>, flags |-> flags, udata |-> udata]

Fails(k, c) ==
    \/ k.closed
    \/ "EV_DELETE" \in c.flags /\ c.key \notin DOMAIN k.note
    \/ "EV_ADD" \in c.flags /\ c.key[2] \in {"READ", "WRITE"} /\ c.key[1] \notin k.open

Added(k, c) ==
    LET had == c.key \in DOMAIN k.note
        flag(f) == IF had /\ k.sticky THEN k.note[c.key][f] ELSE f \in c.flags
    IN  [udata |-> c.udata, enabled |-> "EV_ENABLE" \in c.flags,
         EV_DISPATCH |-> flag("EV_DISPATCH"), EV_ONESHOT |-> flag("EV_ONESHOT"),
         active |-> "NOTE_TRIGGER" \in c.flags
                    \/ (c.key[2] = "USER" /\ had /\ k.note[c.key].active)]

Applied(k, c) ==
    IF "EV_DELETE" \in c.flags
    THEN [k EXCEPT !.note = Restrict(@, DOMAIN @ \ {c.key})]
    ELSE [k EXCEPT !.note = [key \in DOMAIN @ \cup {c.key} |->
                                 IF key = c.key THEN Added(k, c) ELSE @[key]]]

Changed(k, c) == IF Fails(k, c) THEN k ELSE Applied(k, c)

\* A list has one or two changes.
kevent(k, changes) ==
    IF Len(changes) = 1 \/ Fails(k, changes[1]) THEN Changed(k, changes[1])
    ELSE Changed(Applied(k, changes[1]), changes[2])

\* close(2) removes the filters on the descriptor.
CloseFd(k, fd) ==
    [k EXCEPT !.open = @ \ {fd}, !.note = Restrict(@, {key \in DOMAIN @ : key[1] # fd})]

-----------------------------------------------------------------------------
(* kqueue_helpers.c: no result of kevent is looked at.                      *)

Add == {"EV_ADD", "EV_ENABLE"}
Pause == {"EV_ADD", "EV_DISABLE"}
Delete == {"EV_DELETE"}

kqh_readerwriter_register(k, e) ==
    kevent(k, <<EV_SET(k.ev[e].fd, "READ", Add \cup {"EV_DISPATCH"}, e),
                EV_SET(k.ev[e].fd, "WRITE", Add \cup {"EV_DISPATCH"}, e)>>)
kqh_readerwriter_cancel(k, e) ==
    kevent(k, <<EV_SET(k.ev[e].fd, "READ", Delete, NULL), EV_SET(k.ev[e].fd, "WRITE", Delete, NULL)>>)
kqh_writer_register(k, e) == kevent(k, <<EV_SET(k.ev[e].fd, "WRITE", Add \cup {"EV_DISPATCH"}, e)>>)
kqh_writer_pause(k, e) == kevent(k, <<EV_SET(k.ev[e].fd, "WRITE", Pause, NULL)>>)
kqh_reader_register(k, e) == kevent(k, <<EV_SET(k.ev[e].fd, "READ", Add, e)>>)

\* Mutant: the reader is left enabled.
kqh_reader_pause_enabled(k, e) == kevent(k, <<EV_SET(k.ev[e].fd, "READ", Add, NULL)>>)

kqh_reader_pause(k, e) == kevent(k, <<EV_SET(k.ev[e].fd, "READ", Pause, NULL)>>)

kqh_timer_register(k, e, one_shot) ==
    kevent(k, <<EV_SET(Address(e), "TIMER", Add \cup IF one_shot THEN {"EV_ONESHOT"} ELSE {}, e)>>)
kqh_timer_cancel(k, e) == kevent(k, <<EV_SET(Address(e), "TIMER", Delete, NULL)>>)
kqh_timer_pause(k, e) == kevent(k, <<EV_SET(Address(e), "TIMER", Pause, NULL)>>)

kqh_user_event_register(k, e) == kevent(k, <<EV_SET(Address(e), "USER", Add, e)>>)

\* Mutant: the trigger is not passed to the kernel.
kqh_user_event_trigger_not(k, e) == kevent(k, <<EV_SET(Address(e), "USER", Add, e)>>)

kqh_user_event_trigger(k, e) == kevent(k, <<EV_SET(Address(e), "USER", Add \cup {"NOTE_TRIGGER"}, e)>>)
kqh_user_event_pause(k, e) == kevent(k, <<EV_SET(Address(e), "TIMER", Pause, NULL)>>)

kqh_listener_register(k, e) == kevent(k, <<EV_SET(k.ev[e].fd, "READ", Add \cup {"EV_DISPATCH"}, e)>>)
kqh_listener_cancel(k, e) == kevent(k, <<EV_SET(k.ev[e].fd, "TIMER", Delete, NULL)>>)
kqh_listener_pause(k, e) == kevent(k, <<EV_SET(k.ev[e].fd, "READ", Pause, NULL)>>)

-----------------------------------------------------------------------------
(* timer.c *)

runloop_timer_init(k, e) ==
    [k EXCEPT !.ev[e].type = "timer", !.ev[e].postable = "null", !.ev[e].repeating = FALSE]
runloop_timer_new(k) ==
    LET t == event_table_get_entry(k) IN IF Alive(t) THEN runloop_timer_init(t, t.got) ELSE t
runloop_timer_free(k, e) == event_table_release_entry(k, e)
runloop_timer_register(k, e, repeating) ==
    kqh_timer_register([k EXCEPT !.ev[e].repeating = repeating, !.ev[e].postable = "cb"],
                       e, ~repeating)
runloop_timer_update(k, e, repeating) == kqh_timer_register(k, e, ~repeating)
runloop_timer_disarm(k, e) == kqh_timer_pause(k, e)
runloop_timer_rearm(k, e) == kqh_timer_register(k, e, ~k.ev[e].repeating)
runloop_timer_deregister(k, e) == kqh_timer_cancel(k, e)
runloop_timer_set(k, repeating) ==
    LET t == runloop_timer_new(k) IN IF Alive(t) THEN runloop_timer_register(t, t.got, repeating) ELSE t

\* Mutant: the structure is released and the kernel still has the timer.
runloop_timer_clear_armed(k, e) == runloop_timer_free(k, e)

runloop_timer_clear(k, e) == runloop_timer_free(runloop_timer_deregister(k, e), e)

Calling(k, cb, e, arg) ==
    IF arg = "garbage" THEN Abort(k, "wild call") ELSE [k EXCEPT !.called = <<cb, e>>]

kq_timer_handler(k, e) ==
    LET t == IF k.ev[e].repeating THEN k ELSE runloop_timer_deregister(k, e)
    IN  Asserting(t, t.ev[e].postable # "null", "no postable", Calling(t, "timer", e, t.ev[e].postable))

-----------------------------------------------------------------------------
(* user_event.c.  The callback and its argument are not initialised.        *)

runloop_user_event_init(k, e) == [k EXCEPT !.ev[e].type = "user", !.ev[e].postable = "garbage"]
runloop_user_event_new(k) ==
    LET t == event_table_get_entry(k) IN IF Alive(t) THEN runloop_user_event_init(t, t.got) ELSE t
runloop_user_event_register(k, e) == kqh_user_event_register(k, e)
runloop_user_event_arm(k, e) ==
    kqh_user_event_register([k EXCEPT !.ev[e].postable = "cb"], e)
runloop_user_event_disarm(k, e) == kqh_user_event_pause(k, e)
runloop_user_event_fire(k, e) == kqh_user_event_trigger(k, e)
runloop_user_event_deregister(k, e) == k

\* free() of a part of the event table.
runloop_user_event_free(k, e) == Abort(k, "free of an entry")

\* The callback is given the structure and not the argument it was armed with.
user_event_handler(k, e) == Calling(k, "user", e, k.ev[e].postable)

-----------------------------------------------------------------------------
(* stream.c.  event_mask is never set, so the second half of the handler    *)
(* does nothing.                                                            *)

runloop_stream_init(k, e, fd) ==
    [k EXCEPT !.ev[e].type = "stream", !.ev[e].fd = fd, !.ev[e].read_cb = FALSE, !.ev[e].write_cb = FALSE]
runloop_stream_new(k, fd) ==
    LET t == event_table_get_entry(k) IN IF Alive(t) THEN runloop_stream_init(t, t.got, fd) ELSE t
runloop_stream_register(k, e) == kqh_readerwriter_register(k, e)
runloop_stream_deregister(k, e) == kqh_readerwriter_cancel(k, e)
runloop_stream_get_fd(k, e) == k.ev[e].fd
runloop_stream_free(k, e) ==
    event_table_release_entry(CloseFd(runloop_stream_deregister(k, e), runloop_stream_get_fd(k, e)), e)
runloop_stream_arm_read(k, e) == kqh_reader_register([k EXCEPT !.ev[e].read_cb = TRUE], e)
runloop_stream_arm_write(k, e) == kqh_writer_register([k EXCEPT !.ev[e].write_cb = TRUE], e)
runloop_stream_arm_both(k, e) ==
    kqh_readerwriter_register([k EXCEPT !.ev[e].read_cb = TRUE, !.ev[e].write_cb = TRUE], e)

\* Mutant: the callback is kept for when the reader is armed again.
runloop_stream_disarm_read_keep(k, e) == kqh_reader_pause(k, e)

runloop_stream_disarm_read(k, e) == kqh_reader_pause([k EXCEPT !.ev[e].read_cb = FALSE], e)
runloop_stream_disarm_write(k, e) == kqh_writer_pause([k EXCEPT !.ev[e].write_cb = FALSE], e)

stream_handler(k, e, filter) ==
    CASE filter = "READ" -> IF k.ev[e].read_cb THEN Calling(k, "read", e, "ctx") ELSE k
      [] filter = "WRITE" -> IF k.ev[e].write_cb THEN Calling(k, "write", e, "ctx") ELSE k
      [] OTHER -> Abort(k, "unknown event")

-----------------------------------------------------------------------------
(* listener.c *)

runloop_listener_init(k, e, fd) ==
    [k EXCEPT !.ev[e].type = "listener", !.ev[e].fd = fd, !.ev[e].postable = "null"]
runloop_listener_new(k, fd) ==
    LET t == event_table_get_entry(k) IN IF Alive(t) THEN runloop_listener_init(t, t.got, fd) ELSE t
runloop_listener_get_fd(k, e) == k.ev[e].fd
runloop_listener_free(k, e) == event_table_release_entry(CloseFd(k, runloop_listener_get_fd(k, e)), e)
runloop_listener_register(k, e) ==
    kqh_listener_register([k EXCEPT !.ev[e].postable = "cb"], e)
runloop_listener_deregister(k, e) == kqh_listener_cancel(k, e)
runloop_listener_arm(k, e) ==
    kqh_listener_register([k EXCEPT !.ev[e].postable = "cb"], e)
runloop_listener_rearm(k, e) == kqh_listener_register(k, e)
runloop_listener_disarm(k, e) == kqh_listener_pause(k, e)

listener_handler(k, e) ==
    IF k.ev[e].postable = "null" THEN k ELSE Calling(k, "listen", e, k.ev[e].postable)

-----------------------------------------------------------------------------
(* runloop.c *)

runloop_close(k) == [k EXCEPT !.closed = TRUE, !.note = <<>>]

runloop_free(k) == [(IF k.closed THEN k ELSE runloop_close(k)) EXCEPT !.ready_list = functor_list_new]

\* An event of the batch: the structure it names is called through its handler.
handler(k, e, filter) ==
    IF e = NULL THEN Abort(k, "null event")
    ELSE CASE k.ev[e].type = "timer" -> kq_timer_handler(k, e)
           [] k.ev[e].type = "user" -> user_event_handler(k, e)
           [] k.ev[e].type = "stream" -> stream_handler(k, e, filter)
           [] k.ev[e].type = "listener" -> listener_handler(k, e)
=============================================================================
