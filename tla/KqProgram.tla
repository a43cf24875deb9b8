------------------------------ MODULE KqProgram -----------------------------
(***************************************************************************)
(* A program on the kqueue runloop: main and then the callbacks make any   *)
(* calls on timers, a user event, a stream and a listener; runloop_run     *)
(* (kqueue_runloop/runloop.c) waits, calls the handlers of the events it   *)
(* was given one after the other, and runs posted functors first.  A       *)
(* member of Programs says which objects a program uses, and whether it    *)
(* posts functors and closes the runloop; a plain one only sets timers,    *)
(* arms streams to read, and releases them.                                *)
(***************************************************************************)
EXTENDS KqWatchers

CONSTANTS KTimer, KUser, KStream, KListener, Programs

\* Streams and listeners have a descriptor each.
Descriptors == {f \in [KStream \cup KListener -> KqFd] : \A o, p \in DOMAIN f : f[o] = f[p] => o = p}
kfd == CHOOSE f \in Descriptors : TRUE

KqObj == KTimer \cup KUser \cup KStream \cup KListener
ASSUME KqProgramAssumption ==
    /\ Programs \subseteq SUBSET (KqObj \cup {"post", "close", "plain"})
    /\ KTimer \cap (KUser \cup KStream \cup KListener) = {}
    /\ KUser \cap (KStream \cup KListener) = {} /\ KStream \cap KListener = {}
    /\ Descriptors # {}

VARIABLES kq,       \* the runloop and the kernel (KqWatchers)
          uses,     \* the member of Programs
          obj,      \* the pointers the program has: NULL once released
          phase,    \* "main", "loop", "code" (in a callback), "done", "freed"
          events,   \* the events kevent returned that are still to be dispatched
          io,       \* of the descriptors that have a filter: those readable and writable
          told      \* history

kqVars == <<kq, uses, obj, phase, events, io, told>>

\* off: callbacks of a stream that are disarmed; due: user events fired and listeners
\* armed, and not called or turned off since; single: timers registered not to repeat, and
\* not updated to; once: those called since they were set; again: one of them was called
\* again; released: an object was released while an event of it was in the batch;
\* unarmed: a user event was fired before it was armed.
NoTold == [off |-> {}, due |-> {}, single |-> {}, once |-> {}, again |-> FALSE, released |-> FALSE,
           unarmed |-> FALSE]

KqInit ==
    /\ \E sticky \in BOOLEAN : kq = runloop_new(sticky)
    /\ uses \in Programs
    /\ obj = [o \in KqObj |-> NULL] /\ phase = "main" /\ events = <<>> /\ io = {}
    /\ told = NoTold

-----------------------------------------------------------------------------
(* The program. *)

InCode == Alive(kq) /\ phase \in {"main", "code"}
Plain == "plain" \in uses

\* The contents of a released structure matter only to an event of the batch.
Forgotten(k) ==
    [k EXCEPT !.got = NULL,
              !.ev = [e \in EvRef |-> IF e \in Held(k) \cup {events[i][1] : i \in DOMAIN events} THEN @[e]
                                     ELSE NoEvent]]
Does(k, t) ==
    /\ InCode /\ kq' = Forgotten(k) /\ told' = t /\ io' = io \cap DOMAIN k.note
    /\ UNCHANGED <<uses, phase, events>>
Op(o, k, t) == obj[o] # NULL /\ Does(k, t) /\ UNCHANGED obj
New(o, k, t) ==
    /\ obj[o] = NULL /\ Does(k, [t EXCEPT !.off = @ \ {<<o, "read">>, <<o, "write">>}])
    /\ obj' = [obj EXCEPT ![o] = IF Alive(k) THEN k.got ELSE NULL]
Released(o) == [told EXCEPT !.due = @ \ {o}, !.released = @ \/ \E i \in DOMAIN events : events[i][1] = obj[o]]
Free(o, k) == obj[o] # NULL /\ Does(k, Released(o)) /\ obj' = [obj EXCEPT ![o] = NULL]

Opened(fd) == [kq EXCEPT !.open = @ \cup {fd}]

\* A watcher is rearmed and updated only after it was registered.
Registered(o) == obj[o] # NULL /\ kq.ev[obj[o]].postable = "cb"
TimerOps(o) ==
    LET e == obj[o]
        set == [told EXCEPT !.once = @ \ {o}]
        as(singles) == [set EXCEPT !.single = singles]
    IN  \/ New(o, runloop_timer_set(kq, TRUE), as(told.single \ {o}))
        \/ New(o, runloop_timer_set(kq, FALSE), as(told.single \cup {o}))
        \/ Free(o, runloop_timer_clear(kq, e))
        \/ /\ ~Plain
           /\ \/ New(o, runloop_timer_new(kq), as(told.single \ {o}))
              \/ Op(o, runloop_timer_register(kq, e, TRUE), as(told.single \ {o}))
              \/ Op(o, runloop_timer_register(kq, e, FALSE), as(told.single \cup {o}))
              \/ Registered(o) /\ Op(o, runloop_timer_update(kq, e, TRUE), as(told.single \ {o}))
              \/ Registered(o) /\ Op(o, runloop_timer_update(kq, e, FALSE), set)
              \/ Op(o, runloop_timer_disarm(kq, e), told)
              \/ Registered(o) /\ Op(o, runloop_timer_rearm(kq, e), set)
              \/ Op(o, runloop_timer_deregister(kq, e), told)

UserOps(o) ==
    LET e == obj[o]
    IN  \/ New(o, runloop_user_event_new(kq), [told EXCEPT !.due = @ \ {o}])
        \/ Op(o, runloop_user_event_register(kq, e), told)
        \/ Op(o, runloop_user_event_arm(kq, e), told)
        \/ Op(o, runloop_user_event_disarm(kq, e), [told EXCEPT !.due = @ \ {o}])
        \/ Op(o, runloop_user_event_deregister(kq, e), told)
        \/ Op(o, runloop_user_event_fire(kq, e), [told EXCEPT !.due = @ \cup {o},
                                                       !.unarmed = @ \/ kq.ev[e].postable = "garbage"])
        \/ Op(o, runloop_user_event_free(kq, e), told)

On(o, s) == [told EXCEPT !.off = @ \ ({o} \X s)]
Off(o, s) == [told EXCEPT !.off = @ \cup ({o} \X s)]
StreamOps(o) ==
    LET e == obj[o]
    IN  \/ New(o, runloop_stream_new(Opened(kfd[o]), kfd[o]), told)
        \/ Op(o, runloop_stream_arm_read(kq, e), On(o, {"read"}))
        \/ Free(o, runloop_stream_free(kq, e))
        \/ /\ ~Plain
           /\ \/ Op(o, runloop_stream_register(kq, e), told)
              \/ Op(o, runloop_stream_deregister(kq, e), told)
              \/ Op(o, runloop_stream_arm_write(kq, e), On(o, {"write"}))
              \/ Op(o, runloop_stream_arm_both(kq, e), On(o, {"read", "write"}))
              \/ Op(o, runloop_stream_disarm_read(kq, e), Off(o, {"read"}))
              \/ Op(o, runloop_stream_disarm_write(kq, e), Off(o, {"write"}))

Due(o) == [told EXCEPT !.due = @ \cup {o}]
ListenerOps(o) ==
    LET e == obj[o]
    IN  \/ New(o, runloop_listener_new(Opened(kfd[o]), kfd[o]), told)
        \/ Op(o, runloop_listener_register(kq, e), Due(o))
        \/ Op(o, runloop_listener_arm(kq, e), Due(o))
        \/ Registered(o) /\ Op(o, runloop_listener_rearm(kq, e), Due(o))
        \/ Op(o, runloop_listener_disarm(kq, e), [told EXCEPT !.due = @ \ {o}])
        \/ Op(o, runloop_listener_deregister(kq, e), [told EXCEPT !.due = @ \ {o}])
        \/ Free(o, runloop_listener_free(kq, e))

\* The functors of a program are alike: each makes any calls.
Posted == Len(kq.ready_list)
Post == "post" \in uses /\ Does(runloop_post(kq, "code"), told) /\ UNCHANGED obj

Close == "close" \in uses /\ ~kq.closed /\ Does(runloop_close(kq), told) /\ UNCHANGED obj

ProgramOps ==
    \/ \E o \in uses \cap KTimer : TimerOps(o)
    \/ \E o \in uses \cap KUser : UserOps(o)
    \/ \E o \in uses \cap KStream : StreamOps(o)
    \/ \E o \in uses \cap KListener : ListenerOps(o)
    \/ Post
    \/ Close

-----------------------------------------------------------------------------
(* runloop_run *)

Enters(p) == Alive(kq) /\ phase' = p /\ UNCHANGED <<uses, obj, io, told>>

Return ==
    /\ phase \in {"main", "code"} /\ Enters("loop") /\ UNCHANGED events
    /\ kq' = [kq EXCEPT !.called = <<"none", NULL>>]

Active(key) ==
    /\ kq.note[key].enabled
    /\ IF key[2] \in {"READ", "WRITE"} THEN key \in io ELSE kq.note[key].active
ActiveNotes == {key \in DOMAIN kq.note : Active(key)}

Idle == phase = "loop" /\ events = <<>> /\ Posted = 0
Leaves == Held(kq) = {}

\* What kevent returns, in any order and as many as there is room for (max_events is
\* EVT_MAX): a filter with EV_DISPATCH is disabled, one with EV_ONESHOT deleted, a timer
\* waits for its next expiry; a user event stays triggered.
Fetched(keys) ==
    [key \in {x \in DOMAIN kq.note : ~(x \in keys /\ kq.note[x].EV_ONESHOT)} |->
        IF key \notin keys THEN kq.note[key]
        ELSE [kq.note[key] EXCEPT !.enabled = ~kq.note[key].EV_DISPATCH, !.active = key[2] = "USER"]]
runloop_run_wait ==
    /\ Idle /\ ~Leaves
    /\ \E max \in 1 .. EVT_MAX : \E s \in Injection(1 .. max, ActiveNotes) :
          /\ max = EVT_MAX \/ Range(s) = ActiveNotes
          /\ events' = [i \in 1 .. max |-> <<kq.note[s[i]].udata, s[i][2]>>]
          /\ kq' = [kq EXCEPT !.note = Fetched(Range(s))]
    /\ Enters("loop")

\* No structure is held; the wait is interrupted, times out or the queue is closed.
runloop_run_return ==
    /\ Idle
    /\ Leaves \/ kq.closed \/ ActiveNotes = {}
    /\ kq' \in IF Leaves \/ kq.closed THEN {kq} ELSE {kq, runloop_close(kq)}
    /\ Enters("done") /\ UNCHANGED events

runloop_run_event ==
    /\ Alive(kq) /\ phase = "loop" /\ events # <<>>
    /\ LET k == handler(kq, events[1][1], events[1][2])
           callee == {o \in KqObj : obj[o] = k.called[2]}
           calls == k.called[1] # "none"
       IN  /\ kq' = k
           /\ phase' = IF calls THEN "code" ELSE phase
           /\ told' = IF k.called[1] # "timer" THEN [told EXCEPT !.due = @ \ IF calls THEN callee ELSE {}]
                      ELSE [told EXCEPT !.again = @ \/ callee \cap told.once # {},
                                        !.once = @ \cup (callee \cap told.single)]
    /\ events' = Tail(events) /\ UNCHANGED <<uses, obj, io>>

runloop_run_functor ==
    /\ Alive(kq) /\ phase = "loop" /\ events = <<>> /\ Posted > 0
    /\ kq' = functor_list_remove(kq) /\ Enters("code") /\ UNCHANGED events

FreeRunloop == phase = "done" /\ kq' = runloop_free(kq) /\ Enters("freed") /\ UNCHANGED events

-----------------------------------------------------------------------------
(* The kernel. *)

Kernel ==
    /\ Alive(kq)
    /\ \/ \E key \in DOMAIN kq.note :
             /\ key[2] = "TIMER" /\ kq.note[key].enabled /\ ~kq.note[key].active
             /\ kq' = [kq EXCEPT !.note[key].active = TRUE] /\ UNCHANGED io
       \/ /\ \E key \in DOMAIN kq.note :
                /\ key[2] \in {"READ", "WRITE"}
                /\ io' = IF key \in io THEN io \ {key} ELSE io \cup {key}
          /\ UNCHANGED kq
    /\ UNCHANGED <<uses, obj, phase, events, told>>

KqLoop == Return \/ runloop_run_wait \/ runloop_run_return \/ runloop_run_event \/ runloop_run_functor
KqNext == ProgramOps \/ KqLoop \/ FreeRunloop \/ Kernel
KqSpec == KqInit /\ [][KqNext]_kqVars

\* The thread of the runloop keeps running and its callbacks return; kevent returns
\* what is there.
CanStep == Alive(kq) /\ phase = "loop" /\ (events # <<>> \/ Posted > 0 \/ ActiveNotes # {})
Stepped == Len(events') # Len(events) \/ Posted' < Posted
KqFairSpec ==
    /\ KqSpec
    /\ []<>(phase \notin {"main", "code"} \/ ~Alive(kq))
    /\ ([]<>~CanStep \/ []<><<Stepped>>_kqVars)

-----------------------------------------------------------------------------
\* A filter that can report an event names a structure that is held and that is of the
\* filter's kind: an event is for a released or a reused structure only when it was
\* already in the batch.
FiltersMatchEvents ==
    \A key \in DOMAIN kq.note :
        LET n == kq.note[key] IN
        n.enabled => /\ n.udata \in Held(kq)
                     /\ CASE key[2] = "TIMER" -> kq.ev[n.udata].type = "timer"
                          [] key[2] = "USER" -> kq.ev[n.udata].type = "user"
                          [] OTHER -> kq.ev[n.udata].type \in {"stream", "listener"} /\ kq.ev[n.udata].fd = key[1]

\* What can stop a program, apart from a call of its own that posts more functors than the
\* list holds or that frees a user event, which is a part of the event table.  The table
\* runs out only when the program has as many objects as it has structures: none is lost.
\* A dispatched event always names a structure, though pausing a filter takes the name
\* away, and its handler finds what it needs, unless a user event was fired before it had a
\* callback or a callback released (and took again) a structure that a later event of the
\* batch is for.
KqStops ==
    /\ kq.aborted = "table" => \A e \in EvRef : \E o \in KqObj : obj[o] = e
    /\ kq.aborted # "null event"
    /\ kq.aborted = "wild call" => told.unarmed \/ told.released
    /\ kq.aborted \in {"no postable", "unknown event"} => told.released

\* A stream's callback that the program has disarmed is not called, not even for an event
\* that was already in the batch.  A timer registered not to repeat is called once, also by
\* a kernel that keeps the flags of a filter it is given again.  This is not said of a timer
\* that repeats and is updated not to: runloop_timer_update does not store what it is given,
\* so the timer is called on and on by such a kernel, and by any kernel once it is rearmed.
SilentWhenOff ==
    /\ [](told.again => told.released)
    /\ [][\A o \in KStream : events' # events /\ phase' = "code" /\ kq'.called[2] = obj[o]
            => <<o, kq'.called[1]>> \notin told.off]_kqVars

\* Unless functors post functors for ever, a user event that was fired is called back, and
\* so is a listener whose filter is enabled and that has a connection.
EventsCalled ==
    <>[](Posted = 0) => \A o \in KUser \cup KListener :
        ~<>[](/\ Alive(kq) /\ phase \notin {"done", "freed"} /\ ~kq.closed /\ o \in told.due
              /\ o \in KListener => obj[o] # NULL /\ <<kfd[o], "READ">> \in io)
=============================================================================
