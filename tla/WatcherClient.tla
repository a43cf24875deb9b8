---------------------------- MODULE WatcherClient ---------------------------
(***************************************************************************)
(* The watchers of the epoll runloop under an arbitrary program: main and  *)
(* the callbacks make any calls on a timer, an eventfd, a stream and a     *)
(* listener, while other threads fire the eventfd and take connections.    *)
(* A program uses the watchers of one member of Uses.  It registers a      *)
(* watcher that is not registered, arms and disarms one that is, and       *)
(* releases one only when no event of it is still to be delivered; it may  *)
(* deregister one that is not registered, which stops it.                  *)
(***************************************************************************)
EXTENDS EventWatchers, SocketWatchers

CONSTANTS Uses,        \* sets of watchers a program may use together
          Interval,    \* milliseconds a program asks for
          MaxPending   \* bound on events and connections that wait

\* Every watcher is of one kind and has a descriptor of its own, and NULL is no callback.
ASSUME WatcherAssumption ==
    /\ Watcher = Timer \cup Eventfd \cup Stream \cup Listener
    /\ Timer \cap (Eventfd \cup Stream \cup Listener) = {}
    /\ Eventfd \cap (Stream \cup Listener) = {} /\ Stream \cap Listener = {}
    /\ \A v, w \in Watcher : fdOf[v] = fdOf[w] => v = w
    /\ NULL \notin {"cb", "on_listening_postable"} \cup (Watcher \X {"call", "read", "write"})
    /\ Uses \subseteq SUBSET Watcher
    /\ Interval \subseteq Nat /\ MaxPending \in Nat

\* An instance in which the watchers are named by their descriptors.
OwnDescriptor == [w \in Watcher |-> w]

VARIABLES used,      \* the member of Uses
          running,   \* the watcher whose callback runs, and which of its callbacks
          conns,     \* connections that wait on the listening socket
          sock,      \* what the kernel has for the streams' sockets
          note       \* history, below

clientVars == <<rl, ready, batch, loop, result, used, running, conns, sock, note>>

\* elapsed: timers that expired since they were set or called; reset: timers set since
\* the last epoll_wait; early: the callback that runs was called though its timer had
\* not expired; once: one-shot timers called back since they were
\* registered; repeated: such a timer was called back again; updated: timers the program
\* has updated; off: watchers the program has disarmed; wasOff: off at the last epoll_wait;
\* owed: events fired, and neither called back nor cleared; misuse: the assertion that a
\* call or a failed accept runs into, or "no"; told: streams armed or disarmed since they
\* were registered.
NoNote == [elapsed |-> {}, reset |-> {}, early |-> FALSE, once |-> {}, repeated |-> FALSE,
           updated |-> {}, off |-> {}, wasOff |-> {}, owed |-> [e \in Eventfd |-> 0], misuse |-> "no", told |-> {}]

\* What the kernel reports.
ReadyOf(r, n, evs) ==
    {<<fdOf[t], "IN">> : t \in {t \in Timer : r.timer[t].expired}}
    \cup {<<fdOf[e], "IN">> : e \in {e \in Eventfd : r.eventfd[e].counter > 0}}
    \cup {<<fdOf[l], "IN">> : l \in IF n = 0 THEN {} ELSE Listener}
    \cup {<<fdOf[s], e>> : s \in Stream, e \in evs}

\* The structures of the watchers, which are not open.
NoWatchers == [timer |-> [t \in Timer |-> NoTimer], eventfd |-> [e \in Eventfd |-> NoEventfd],
               stream |-> [s \in Stream |-> NoStream], listener |-> [l \in Listener |-> NoListener]]

WcInit ==
    /\ rl = [x \in DOMAIN runloop_new \cup DOMAIN NoWatchers |->
                IF x \in DOMAIN runloop_new THEN runloop_new[x] ELSE NoWatchers[x]]
    /\ ready = {} /\ batch = <<>> /\ loop = "setup" /\ result = NULL
    /\ used \in Uses /\ running = NULL /\ conns = 0 /\ sock = {} /\ note = NoNote

-----------------------------------------------------------------------------
(* The program. *)

InProgram == Alive(rl) /\ (loop = "setup" \/ running # NULL)

Call(r, n) ==
    /\ InProgram
    /\ rl' = r /\ note' = n /\ ready' = ReadyOf(r, conns, sock)
    /\ UNCHANGED <<batch, loop, result, used, running, conns, sock>>

InTable(w) == rl.entries[fdOf[w]] = w
Queued(w) == \E i \in DOMAIN batch : batch[i] = w

\* Calls that need the watcher in the table, on one that is not there: the program, or the
\* handler of a one-shot timer, has deregistered it, or nothing has registered it.
Misuse(why) == [note EXCEPT !.misuse = why]
CallAbsent(w, r) == ~InTable(w) /\ Call(r, Misuse("lookup"))

\* cb is any function; a timer must have one.
Start(t) == [note EXCEPT !.elapsed = @ \ {t}, !.reset = @ \cup {t}, !.off = @ \ {t}]
TimerCalls(t) ==
    \/ ~rl.timer[t].open /\ Call(runloop_timer_new(rl, t), note)
    \/ rl.timer[t].open /\ ~InTable(t) /\ Call(runloop_timer_free(rl, t), note)
    \/ InTable(t) /\ ~Queued(t) /\ Call(runloop_timer_deregister(rl, t), note)
    \/ InTable(t) /\ ~Queued(t) /\ Call(runloop_timer_clear(rl, t), note)
    \/ rl.timer[t].open /\ rl.timer[t].timer_postable # NULL
       /\ \/ Call(runloop_timer_rearm(rl, t), Start(t))
          \/ Call(runloop_timer_disarm(rl, t), [Start(t) EXCEPT !.off = @ \cup {t}])
    \/ rl.timer[t].open /\ CallAbsent(t, runloop_timer_deregister(rl, t))
    \/ rl.timer[t].open /\ CallAbsent(t, runloop_timer_clear(rl, t))
    \/ \E ms \in Interval, repeating \in BOOLEAN :
          LET fresh == [Start(t) EXCEPT !.once = @ \ {t}]
              heard == [fresh EXCEPT !.updated = @ \ {t}]
          IN
          \/ rl.timer[t].open /\ ~InTable(t) /\ Call(runloop_timer_register(rl, t, "cb", ms, repeating), heard)
          \/ ~rl.timer[t].open /\ Call(runloop_timer_set(rl, t, "cb", ms, repeating), heard)
          \/ rl.timer[t].open /\ Call(runloop_timer_rearm_old(rl, t, "cb", ms, repeating), fresh)
          \/ InTable(t) /\ Call(runloop_timer_update(rl, t, ms, repeating),
                                   [fresh EXCEPT !.updated = @ \cup {t}])
          \/ rl.timer[t].open /\ CallAbsent(t, runloop_timer_update(rl, t, ms, repeating))

Off(e) == [note EXCEPT !.off = @ \cup {e}]
On(e) == [note EXCEPT !.off = @ \ {e}]
EventfdCall(e) ==
    \/ ~rl.eventfd[e].open /\ Call(runloop_eventfd_new(rl, e), [note EXCEPT !.owed[e] = 0])
    \/ rl.eventfd[e].open /\ ~InTable(e) /\ Call(runloop_eventfd_free(rl, e), note)
    \/ rl.eventfd[e].open /\ ~InTable(e) /\ Call(runloop_eventfd_register(rl, e), Off(e))
    \/ InTable(e) /\ ~Queued(e) /\ Call(runloop_eventfd_deregister(rl, e), note)
    \/ rl.eventfd[e].open /\ CallAbsent(e, runloop_eventfd_deregister(rl, e))
    \/ InTable(e) /\ Call(runloop_eventfd_arm(rl, e, "cb"), On(e))
    \/ InTable(e) /\ rl.eventfd[e].fdevent_postable # NULL /\ Call(runloop_eventfd_arm(rl, e, NULL), On(e))
    \/ InTable(e) /\ Call(runloop_eventfd_disarm(rl, e), Off(e))
    \/ rl.eventfd[e].open
       /\ \/ Call(runloop_eventfd_clear_one_event(rl, e),
                  [note EXCEPT !.owed[e] = IF @ > 0 THEN @ - 1 ELSE @])
          \/ Call(runloop_eventfd_clear_all_events(rl, e), [note EXCEPT !.owed[e] = 0])

Told(s) == [note EXCEPT !.told = @ \cup {s}]
StreamCall(s) ==
    \/ ~rl.stream[s].open /\ Call(runloop_stream_new(rl, s), note)
    \/ rl.stream[s].open /\ ~InTable(s)
       /\ \/ Call(runloop_stream_register(rl, s), [note EXCEPT !.told = @ \ {s}])
          \/ running = NULL /\ Call(runloop_stream_free(rl, s), note)
    \/ InTable(s) /\ ~Queued(s) /\ Call(runloop_stream_deregister(rl, s), note)
    \/ rl.stream[s].open /\ CallAbsent(s, runloop_stream_deregister(rl, s))
    \/ InTable(s)
       /\ \/ Call(runloop_stream_arm_read(rl, s, "cb"), Told(s))
          \/ Call(runloop_stream_arm_write(rl, s, "cb"), Told(s))
          \/ Call(runloop_stream_arm_both(rl, s, "cb", "cb"), Told(s))
          \/ Call(runloop_stream_disarm_read(rl, s), Told(s))
          \/ Call(runloop_stream_disarm_write(rl, s), Told(s))

ListenerCall(l) ==
    \/ ~rl.listener[l].open /\ Call(asio_listener_new(rl, l), note)
    \/ rl.listener[l].open /\ ~InTable(l)
       /\ \/ Call(asio_accept(rl, l, "cb"), note)
          \/ Call(asio_listener_free(rl, l), note)
    \/ InTable(l) /\ ~Queued(l) /\ Call(runloop_listener_deregister(rl, l), note)
    \/ rl.listener[l].open /\ CallAbsent(l, runloop_listener_deregister(rl, l))
    \/ InTable(l) /\ Call(runloop_listener_arm(rl, l, NULL), Misuse("epoll_ctl"))
    \/ InTable(l) /\ Call(runloop_listener_disarm(rl, l), Misuse("epoll_ctl"))

ProgramCall ==
    \/ \E t \in used \cap Timer : TimerCalls(t)
    \/ \E e \in used \cap Eventfd : EventfdCall(e)
    \/ \E s \in used \cap Stream : StreamCall(s)
    \/ \E l \in used \cap Listener : ListenerCall(l)

-----------------------------------------------------------------------------
(* The runloop calls the handlers. *)

Run ==
    /\ Alive(rl) /\ loop = "setup" /\ loop' = "top"
    /\ UNCHANGED <<rl, ready, batch, result, used, running, conns, sock, note>>

Wait ==
    /\ running = NULL
    /\ runloop_run_wait
    /\ note' = [note EXCEPT !.reset = {}, !.wasOff = note.off]
    /\ UNCHANGED <<used, running, conns, sock>>

Idle ==
    /\ running = NULL
    /\ runloop_run_idle
    /\ UNCHANGED <<used, running, conns, sock, note>>

\* The handler ends in call, or without one.
Handled(r, call, n) ==
    /\ rl' = r
    /\ running' = IF Alive(r) THEN call ELSE NULL
    /\ batch' = Tail(batch)
    /\ loop' = IF running' = NULL THEN AfterEvent ELSE loop
    /\ note' = n
    /\ ready' = ReadyOf(r, conns', sock)
    /\ UNCHANGED <<result, used, sock>>

HandleTimer(t) ==
    LET r == Delivered(t) IN
    /\ UNCHANGED conns
    /\ Handled(timer_handler(r, t), <<t, "call">>,
               [note EXCEPT !.early = t \notin note.elapsed, !.elapsed = @ \ {t},
                            !.repeated = t \in note.once,
                            !.once = IF rl.timer[t].repeating THEN @ ELSE @ \cup {t}])

HandleEventfd(e) ==
    LET r == Delivered(e) IN
    /\ UNCHANGED conns
    /\ Handled(eventfd_handler(r, e), IF EventfdCalls(r, e) THEN <<e, "call">> ELSE NULL,
               IF EventfdCalls(r, e) THEN [note EXCEPT !.owed[e] = @ - 1] ELSE note)

StreamTurn(r, s) ==
    CASE CallsReader(r, s) -> <<s, "read">> [] CallsWriter(r, s) -> <<s, "write">> [] OTHER -> NULL
HandleStream(s) == UNCHANGED conns /\ Handled(Delivered(s), StreamTurn(rl, s), note)

HandleListener(l) ==
    /\ conns' = IF conns > 0 THEN conns - 1 ELSE 0
    /\ Handled(listener_handler(Delivered(l), l, conns > 0), <<l, "call">>,
               IF conns = 0 THEN Misuse("epoll_ctl") ELSE note)

Dispatch ==
    /\ Alive(rl) /\ loop = "events" /\ running = NULL
    /\ LET w == Head(batch) IN
       \/ w \in Timer /\ HandleTimer(w)
       \/ w \in Eventfd /\ HandleEventfd(w)
       \/ w \in Stream /\ HandleStream(w)
       \/ w \in Listener /\ HandleListener(w)

\* After the read callback of a stream its handler looks at the write side.
Return ==
    /\ Alive(rl) /\ running # NULL
    /\ running' = IF running[2] = "read" /\ CallsWriter(rl, running[1])
                  THEN <<running[1], "write">> ELSE NULL
    /\ loop' = IF running' = NULL /\ batch = <<>> THEN "top" ELSE loop
    /\ note' = [note EXCEPT !.early = FALSE, !.repeated = FALSE]
    /\ UNCHANGED <<rl, ready, batch, result, used, conns, sock>>

-----------------------------------------------------------------------------
(* The kernel and the other threads. *)

Outside(r, n, evs) ==
    /\ Alive(rl)
    /\ rl' = r /\ conns' = n /\ sock' = evs /\ ready' = ReadyOf(r, n, evs)
    /\ UNCHANGED <<batch, loop, result, used, running>>

Expires(t) ==
    /\ rl.timer[t].wait # 0 /\ ~rl.timer[t].expired
    /\ Outside(timerfd_expires(rl, t), conns, sock)
    /\ note' = [note EXCEPT !.elapsed = @ \cup {t}]

Fire(e) ==
    /\ rl.eventfd[e].open /\ rl.eventfd[e].counter < MaxPending
    /\ Outside(runloop_eventfd_fire(rl, e), conns, sock)
    /\ note' = [note EXCEPT !.owed[e] = @ + 1]

\* A client connects; another thread takes a connection.
Connections ==
    /\ used \cap Listener # {}
    /\ \/ conns < MaxPending /\ Outside(rl, conns + 1, sock)
       \/ conns > 0 /\ Outside(rl, conns - 1, sock)
    /\ UNCHANGED note

\* The peer sends and the socket is drained, its buffer fills and empties; the peer ends.
\* What is there can be gone again before the loop looks: that is all an edge triggered
\* stream would notice of it.
SocketChanges ==
    /\ used \cap Stream # {}
    /\ \/ \E e \in {"IN", "OUT"} : Outside(rl, conns, sock \cup {e}) \/ Outside(rl, conns, sock \ {e})
       \/ Outside(rl, conns, sock \cup {"IN", "RDHUP"})
    /\ UNCHANGED note

Kernel ==
    \/ \E t \in used \cap Timer : Expires(t)
    \/ \E e \in used \cap Eventfd : Fire(e)
    \/ Connections
    \/ SocketChanges

LoopSteps == Wait \/ Idle \/ Dispatch \/ Return

WcNext == ProgramCall \/ Run \/ LoopSteps \/ Kernel

WcSpec == WcInit /\ [][WcNext]_clientVars

\* The thread of the runloop keeps running and its callbacks return; time passes; the
\* kernel reports every descriptor that stays ready in its turn.
WcFairSpec ==
    /\ WcSpec
    /\ WF_clientVars(Run) /\ WF_clientVars(Dispatch) /\ WF_clientVars(Return)
    /\ \A w \in Timer \cup Eventfd :
        SF_clientVars(Wait /\ \E i \in DOMAIN batch' : batch'[i] = w)
    /\ \A t \in Timer : WF_clientVars(Expires(t))

-----------------------------------------------------------------------------
\* A timer's callback runs only when the timer has expired, although the handler does not
\* look at what its read returned; the one exception is a timer that an earlier callback
\* of the same batch of events has set anew.  A timer registered as not repeating is called
\* back at most once, whatever is rearmed, deregistered and cleared in between: its handler
\* deregisters it.
TimerCallbackDue == (note.early => running[1] \in note.reset) /\ ~note.repeated

\* Every event fired on an eventfd is called back once or cleared: no fire is lost and no
\* callback is made for an event that clear_all_events took out of the current batch.  An
\* eventfd disarmed before the events were collected is not called back with them.
EventfdOwed ==
    /\ Alive(rl) => \A e \in Eventfd : rl.eventfd[e].open => rl.eventfd[e].counter = note.owed[e]
    /\ running # NULL => running[1] \notin note.wasOff \cap Eventfd

\* The kernel watches a stream for exactly the events of its mask, which the handler takes
\* for the events that happened; between a registration, which does not clear the mask,
\* and the first arm or disarm it watches for none of them.
MaskMatchesKernel ==
    Alive(rl) => \A s \in Stream : InTable(s) =>
        rl.interest[fdOf[s]] = IF s \in note.told THEN rl.stream[s].event_mask ELSE {}

\* What stops a program.  A listener, which is added with EPOLLEXCLUSIVE and cannot be
\* modified, is armed or disarmed, or fails to accept, which disarms it; a watcher that is
\* not in the table is deregistered, or such a timer cleared or updated, and the handler of
\* a one-shot timer has taken it out of the table before it calls back.  Any other sequence
\* of calls and events goes on.
OnlyMisuseAborts == rl.aborted = note.misuse

\* A timer that stays registered and is not set anew is called back, unless the program
\* has updated it, which takes it out of the kernel's interest for good, or has disarmed
\* it, after which DisarmedIsSilent says what should happen; so is an eventfd that stays
\* armed while it has events.
EventsDelivered ==
    /\ \A t \in Timer :
        ~<>[](/\ Alive(rl) /\ InTable(t) /\ rl.timer[t].wait # 0
              /\ t \notin note.reset \cup note.updated \cup note.off /\ running # <<t, "call">>)
    /\ \A e \in Eventfd :
        ~<>[](/\ Alive(rl) /\ InTable(e) /\ e \notin note.off
              /\ note.owed[e] > 0 /\ running # <<e, "call">>)

\* What test_timer_disarm.c takes runloop_timer_disarm to do (a timer that has disarmed
\* itself "should be disarmed by now", until it is rearmed): a timer that was disarmed
\* before the events were collected is not called back with them.
DisarmedIsSilent == running # NULL => running[1] \notin note.wasOff \cap Timer
=============================================================================
