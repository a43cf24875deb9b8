--------------------------- MODULE SocketWatchers ---------------------------
(***************************************************************************)
(* Sockets on the epoll runloop (w_stream.c).                              *)
(* r.stream[s] is the RunloopStream of s: the mask of events it waits for  *)
(* and the postables for reading and writing.                              *)
(***************************************************************************)
EXTENDS Runloop

CONSTANT Stream   \* the watchers that are streams

NoStream == [event_mask |-> {}, read_postable_cb |-> NULL, write_postable_cb |-> NULL,
             open |-> FALSE]

Given(cb, old) == IF cb = NULL THEN old ELSE cb

runloop_stream_init(r, s) == [r EXCEPT !.stream[s] = [NoStream EXCEPT !.open = TRUE]]
runloop_stream_new(r, s) == runloop_stream_init(r, s)
runloop_stream_free(r, s) == [close_fd(r, fdOf[s]) EXCEPT !.stream[s] = NoStream]
runloop_stream_register(r, s) == runloop_register(r, fdOf[s], {}, s)
runloop_stream_deregister(r, s) == runloop_deregister(r, fdOf[s])

\* The kernel is told the mask the stream now has.
WithMask(r, s) == runloop_reregister(r, fdOf[s], r.stream[s].event_mask, s)

runloop_stream_arm_read(r, s, cb) ==
    WithMask([r EXCEPT !.stream[s].event_mask = @ \cup {"IN", "RDHUP"},
                       !.stream[s].read_postable_cb = Given(cb, @)], s)

runloop_stream_arm_write(r, s, cb) ==
    WithMask([r EXCEPT !.stream[s].event_mask = @ \cup {"OUT", "RDHUP"},
                       !.stream[s].write_postable_cb = Given(cb, @)], s)

\* Asks for edge triggered events, and for good: no disarm takes ET out of the mask.
runloop_stream_arm_both(r, s, read_cb, write_cb) ==
    WithMask([r EXCEPT !.stream[s].event_mask = @ \cup {"ET", "OUT", "IN", "RDHUP"},
                       !.stream[s].read_postable_cb = Given(read_cb, @),
                       !.stream[s].write_postable_cb = Given(write_cb, @)], s)

\* Mutant: the kernel is not told.
runloop_stream_disarm_read_local(r, s) ==
    [r EXCEPT !.stream[s].event_mask = @ \ {"IN"}, !.stream[s].read_postable_cb = NULL]

\* RDHUP stays in the mask.
runloop_stream_disarm_read(r, s) ==
    WithMask([r EXCEPT !.stream[s].event_mask = @ \ {"IN"}, !.stream[s].read_postable_cb = NULL], s)

runloop_stream_disarm_write(r, s) ==
    WithMask([r EXCEPT !.stream[s].event_mask = @ \ {"OUT"}, !.stream[s].write_postable_cb = NULL], s)

\* handler(): the read postable, then the write postable, each by what the mask and the
\* pointer are at its turn.  The event itself is not looked at.
CallsReader(r, s) == "IN" \in r.stream[s].event_mask /\ r.stream[s].read_postable_cb # NULL
CallsWriter(r, s) == "OUT" \in r.stream[s].event_mask /\ r.stream[s].write_postable_cb # NULL

-----------------------------------------------------------------------------
(***************************************************************************)
(* Listeners of the epoll runloop (w_listener.c), both halves: the         *)
(* RunloopListener r.listener[l].listen_postable and the AsioListener on   *)
(* top of it, r.listener[l].on_accept_callback.  The descriptor is bound   *)
(* and listening when it is handed over.                                   *)
(***************************************************************************)

CONSTANT Listener   \* the watchers that are listeners

NoListener == [listen_postable |-> NULL, on_accept_callback |-> NULL, open |-> FALSE]

runloop_listener_init(r, l) == [r EXCEPT !.listener[l].listen_postable = NULL, !.listener[l].open = TRUE]
runloop_listener_new(r, l) == runloop_listener_init(r, l)
runloop_listener_free(r, l) == [close_fd(r, fdOf[l]) EXCEPT !.listener[l] = NoListener]

runloop_listener_register(r, l, postable) ==
    runloop_register([r EXCEPT !.listener[l].listen_postable = IF postable = NULL THEN @ ELSE postable],
                     fdOf[l], {"IN", "EXCLUSIVE"}, l)

\* Mutant: the listener is left registered.
runloop_listener_deregister_not(r, l) == r

runloop_listener_deregister(r, l) == runloop_deregister(r, fdOf[l])

runloop_listener_arm(r, l, postable) ==
    runloop_reregister([r EXCEPT !.listener[l].listen_postable = IF postable = NULL THEN @ ELSE postable],
                       fdOf[l], {"IN"}, l)

runloop_listener_disarm(r, l) == runloop_reregister(r, fdOf[l], {}, l)

asio_listener_init(r, l) == runloop_listener_new([r EXCEPT !.listener[l].on_accept_callback = NULL], l)
asio_listener_new(r, l) == asio_listener_init(r, l)
asio_listener_deinit(r, l) == runloop_listener_free([r EXCEPT !.listener[l].on_accept_callback = NULL], l)
asio_listener_free(r, l) == asio_listener_deinit(r, l)

asio_accept(r, l, cb) ==
    runloop_listener_register([r EXCEPT !.listener[l].on_accept_callback = cb], l, "on_listening_postable")

\* on_listening_postable, up to the call of the callback: accept succeeded or it did not.
on_listening_postable(r, l, accepted) ==
    LET taken == [r EXCEPT !.listener[l].on_accept_callback = NULL]
        ended == IF accepted THEN runloop_listener_deregister(taken, l) ELSE runloop_listener_disarm(taken, l)
    IN  Asserting(ended, r.listener[l].on_accept_callback # NULL, "on_accept_callback", ended)

listener_handler(r, l, accepted) ==
    IF r.listener[l].listen_postable = NULL THEN r ELSE on_listening_postable(r, l, accepted)
=============================================================================
