-------------------------- MODULE InterthreadQueue --------------------------
(***************************************************************************)
(* The queue other threads add to (w_eventfd_queue.c): a functor list and  *)
(* an eventfd whose counter makes the descriptor readable while it is not  *)
(* zero.  Both functions hold the mutex from start to end, so each is one  *)
(* step; the list is the sequence RingProofs shows it to be.               *)
(***************************************************************************)
EXTENDS Runloop

CONSTANT LIST_MAX   \* functors the list has room for

ASSUME ListAssumption == LIST_MAX \in Nat

runloop_eventfd_queue_new == [list |-> <<>>, counter |-> 0]

\* functor_list_add asserts that the list is not full.
HasRoom(q) == Len(q.list) < LIST_MAX

runloop_eventfd_queue_add(q, item) ==
    [q EXCEPT !.list = Append(@, item), !.counter = @ + 1]

\* Mutant: the newest functor is returned.
RemovedItem_last(q) == IF q.list = <<>> THEN NULL ELSE q.list[Len(q.list)]

\* The functor returned: empty (NULL) when the list is.
RemovedItem(q) == IF q.list = <<>> THEN NULL ELSE Head(q.list)

\* Mutant: the read that clears the event is left out.
runloop_eventfd_queue_remove_no_read(q) ==
    [list |-> IF q.list = <<>> THEN <<>> ELSE Tail(q.list), counter |-> q.counter]

\* One item is taken; the read of the eventfd sets its counter to zero.
runloop_eventfd_queue_remove(q) ==
    [list |-> IF q.list = <<>> THEN <<>> ELSE Tail(q.list), counter |-> 0]

-----------------------------------------------------------------------------
(***************************************************************************)
(* Threads hand functors to the runloop of another thread through an       *)
(* InterthreadQueue (w_interthread_queue.c, w_queue_watcher.c,             *)
(* w_eventfd_queue.c): each add signals the eventfd, the queue watcher's   *)
(* handler takes one functor and posts it, and the runloop runs it.        *)
(***************************************************************************)

CONSTANTS Thread,     \* the threads that add
          MaxAdd,     \* bound: functors each of them adds
          qwatcher    \* the queue watcher of the InterthreadQueue

\* The ready list has room for two functors (runloop_READY_LIST_MAX is 2048).
ASSUME ThreadAssumption ==
    /\ MaxAdd \in Nat /\ qwatcher \in Watcher /\ NULL \notin Thread \X (1 .. MaxAdd)
    /\ READY_MAX >= 2

VARIABLES queue,      \* the EventfdQueue
          added,      \* functors in the order they were added
          ran         \* functors in the order they were run

itqVars == <<rl, ready, batch, loop, result, queue, added, ran>>

Added == Thread \X (1 .. MaxAdd)

fd == fdOf[qwatcher]

itqueue_new == runloop_register(runloop_new, fd, {"IN"}, qwatcher)

ItqInit ==
    /\ rl = itqueue_new
    /\ ready = {} /\ batch = <<>> /\ loop = "top" /\ result = NULL
    /\ queue = runloop_eventfd_queue_new
    /\ added = <<>> /\ ran = <<>>

\* The kernel reports the descriptor while the counter is not zero.
Signalled(q) == IF q.counter > 0 THEN {<<fd, "IN">>} ELSE {}

AddedBy(t) == Cardinality({i \in DOMAIN added : added[i][1] = t})

itqueue_add(t) ==
    /\ Alive(rl) /\ AddedBy(t) < MaxAdd
    /\ LET f == <<t, AddedBy(t) + 1>> IN
           IF HasRoom(queue)
           THEN /\ queue' = runloop_eventfd_queue_add(queue, f)
                /\ added' = Append(added, f)
                /\ ready' = Signalled(queue')
                /\ UNCHANGED rl
           ELSE /\ rl' = Abort(rl, "queue full")
                /\ UNCHANGED <<queue, added, ready>>
    /\ UNCHANGED <<batch, loop, result, ran>>

\* Mutant: the functor taken is not posted.
itqueue_postable_no_post ==
    /\ Alive(rl) /\ loop = "events"
    /\ queue' = runloop_eventfd_queue_remove(queue)
    /\ ready' = Signalled(queue')
    /\ rl' = Delivered(Head(batch))
    /\ batch' = Tail(batch)
    /\ loop' = AfterEvent
    /\ UNCHANGED <<result, added, ran>>

\* runloop_run calls the watcher's handler, which calls itqueue_postable.
itqueue_postable ==
    LET item == RemovedItem(queue) IN
    /\ Alive(rl) /\ loop = "events"
    /\ queue' = runloop_eventfd_queue_remove(queue)
    /\ ready' = Signalled(queue')
    /\ rl' = LET r == Delivered(Head(batch))
             IN  Asserting(r, item # NULL, "empty", runloop_post(r, item))
    /\ batch' = Tail(batch)
    /\ loop' = AfterEvent
    /\ UNCHANGED <<result, added, ran>>

\* The runloop runs the next functor.
RunAdded ==
    /\ Alive(rl) /\ loop = "top" /\ rl.ready_list # <<>>
    /\ ran' = Append(ran, Head(rl.ready_list))
    /\ rl' = [rl EXCEPT !.ready_list = Tail(@)]
    /\ UNCHANGED <<ready, batch, loop, result, queue, added>>

ItqLoopStep ==
    \/ runloop_run_wait /\ UNCHANGED <<queue, added, ran>>
    \/ itqueue_postable
    \/ RunAdded

ItqNext == ItqLoopStep \/ \E t \in Thread : itqueue_add(t)

ItqSpec == ItqInit /\ [][ItqNext]_itqVars

-----------------------------------------------------------------------------
\* Every functor added is at one place of the way to the runloop, and they run
\* in the order they were added: none is lost, duplicated or overtaken.
InOrder == added = ran \o rl.ready_list \o queue.list

\* A signal is never for an empty queue: of the assertions on the way, among
\* them "An empty entry in a func list", only the full queue's can fail.
OnlyFullQueueAborts == rl.aborted \in {"no", "queue full"}

\* A signal that is up leads to a functor being run.
SignalRuns ==
    \A n \in 0 .. MaxAdd * Cardinality(Thread) :
        (queue.counter > 0 /\ Len(ran) = n) ~> (Len(ran) > n \/ ~Alive(rl))

\* "The act of adding an element to the queue causes a file descriptor event to be
\* triggered in the receiver thread" (w_eventfd_queue.h), so each functor is run.
EveryAddRuns ==
    \A f \in Added :
        (\E i \in DOMAIN added : added[i] = f)
            ~> ((\E i \in DOMAIN ran : ran[i] = f) \/ ~Alive(rl))

-----------------------------------------------------------------------------
(***************************************************************************)
(* Asynchronous reads of an EventfdQueue (w_queue_watcher.c): a read       *)
(* registers the watcher; the event takes one functor, deregisters the     *)
(* watcher and calls the reader back.  The reader is that of test_q_asio.c *)
(* which stops after expected_count items.                                 *)
(***************************************************************************)

CONSTANTS Item,       \* the functors the writer thread adds, 1 .. N in order
          expected_count,
          read_start

ASSUME ReaderAssumption == read_start \notin Item /\ expected_count \in Nat

VARIABLES read_cb,    \* whether the watcher's read_cb is set
          written,    \* number of items the writer has added
          given       \* what the reader was called back with, in order

readerVars == <<rl, ready, batch, loop, result, queue, read_cb, written, given, ran>>

\* The watcher of queue q: its descriptor is the one the queue is read from.
runloop_queue_watcher_init == read_cb = FALSE
runloop_queue_watcher_new == runloop_queue_watcher_init

runloop_queue_watcher_deregister(r) == runloop_deregister(r, fd)
runloop_queue_watcher_register(r) == runloop_register(r, fd, {"IN"}, qwatcher)

\* reader_thread_func posts read_start and calls runloop_run.
ReaderInit ==
    /\ rl = runloop_post(runloop_new, read_start)
    /\ ready = {} /\ batch = <<>> /\ loop = "top" /\ result = NULL
    /\ queue = runloop_eventfd_queue_new
    /\ runloop_queue_watcher_new /\ written = 0 /\ given = <<>> /\ ran = <<>>

\* The writer thread.
Add ==
    /\ Alive(rl) /\ written + 1 \in Item
    /\ written' = written + 1
    /\ IF HasRoom(queue)
       THEN /\ queue' = runloop_eventfd_queue_add(queue, written')
            /\ ready' = Signalled(queue')
            /\ UNCHANGED rl
       ELSE /\ rl' = Abort(rl, "queue full")
            /\ UNCHANGED <<queue, ready>>
    /\ UNCHANGED <<batch, loop, result, read_cb, given, ran>>

\* The reader's callback: the functor, then another read_start.
on_read_callback(r, item) ==
    IF Len(given) + 1 >= expected_count THEN r
    ELSE runloop_post(runloop_post(r, item), read_start)

\* read_start runs: it calls runloop_queue_watcher_async_read.
runloop_queue_watcher_async_read ==
    /\ Alive(rl) /\ loop = "top" /\ rl.ready_list # <<>> /\ Head(rl.ready_list) = read_start
    /\ read_cb' = TRUE
    /\ rl' = runloop_queue_watcher_register([rl EXCEPT !.ready_list = Tail(@)])
    /\ UNCHANGED <<ready, batch, loop, result, queue, written, given, ran>>

\* The handler calls on_read_ready_postable, and that on_read_callback.
on_read_ready_postable ==
    LET item == RemovedItem(queue) IN
    /\ Alive(rl) /\ loop = "events"
    /\ queue' = runloop_eventfd_queue_remove(queue)
    /\ ready' = Signalled(queue')
    /\ read_cb' = FALSE
    /\ given' = Append(given, item)
    /\ rl' = LET r == runloop_queue_watcher_deregister(Delivered(Head(batch)))
             IN  Asserting(r, read_cb, "no callback", on_read_callback(r, item))
    /\ batch' = Tail(batch)
    /\ loop' = AfterEvent
    /\ UNCHANGED <<result, written, ran>>

\* An item runs on the reader's runloop.
RunItem ==
    /\ Alive(rl) /\ loop = "top" /\ rl.ready_list # <<>> /\ Head(rl.ready_list) # read_start
    /\ ran' = Append(ran, Head(rl.ready_list))
    /\ rl' = [rl EXCEPT !.ready_list = Tail(@)]
    /\ UNCHANGED <<ready, batch, loop, result, queue, read_cb, written, given>>

ReaderLoopStep ==
    \/ /\ runloop_run_idle \/ runloop_run_wait
       /\ UNCHANGED <<queue, read_cb, written, given, ran>>
    \/ runloop_queue_watcher_async_read
    \/ on_read_ready_postable
    \/ RunItem

ReaderNext == ReaderLoopStep \/ Add

ReaderSpec == ReaderInit /\ [][ReaderNext]_readerVars

-----------------------------------------------------------------------------
\* Every callback has a valid item ("If status == 0 the read is successfull and the
\* `item` 2nd argument to the callback function is valid", w_eventfd_queue.h), and the
\* callbacks get the items in the order they were written.
ItemsValid == given = [i \in 1 .. Len(given) |-> i]

\* One read at a time: the watcher is registered exactly while a callback waits, and no
\* assertion but the full queue's can fail, whatever the writer does in between.
ReadsAlternate ==
    /\ (rl.entries[fd] = qwatcher) = read_cb \/ ~Alive(rl)
    /\ rl.aborted \in {"no", "queue full"}

\* The reader always comes back to waiting for the next item, until it has the number it
\* expects; then runloop_run returns.
ReadsAgain == (~read_cb) ~> (read_cb \/ result = 0 \/ ~Alive(rl))
=============================================================================
