# A TLA+ verification of network_c_http

TLA+ models of the C networking library in `src/` and of the servers and clients built on it, the TLC
configurations that check them on small instances, and TLAPS proofs of what matters most for every
instance. `PROJECT.json` maps every definition to the lines it models and lists the runs, the
mutants that show each property can fail, the hazards, the findings and the theorems.

## The system

A reactor, the *runloop*, calls handlers of file-descriptor events and functions posted to it
(functors). It exists twice: `src/src/runloop/epoll_runloop` (Linux) and
`src/src/runloop/kqueue_runloop` (macOS, BSD). On it run watchers, asynchronous streams and
listeners, and on those the servers of `src/apps` and the HTTP code of `src/src/http_protocol`.
Blocking code shares the data structures, the parsers and the message formats with them.

| part | state | operations | what is hard |
|---|---|---|---|
| functor list | ring `list`, `head`, `tail_plus` | add, remove, size | full, empty, wrap-around, storage that malloc left unset |
| kqueue event table | free-list ring, slab, count | get entry, release entry | double release, index recovered from an address, count that ends the loop |
| socket queue (`common/queue.c`) | ring under a mutex, two condition variables | add, remove | lost and spurious wakeups, everybody asleep |
| epoll runloop | descriptor table, interest list, ready list, batch of events | register, deregister, reregister, delete, post, close, run | events of a batch that outlive their watcher, descriptor reuse, closing inside a callback |
| epoll watchers | masks, callbacks, timerfd, eventfd counter | register, arm, disarm, rearm, fire, release | events after a disarm, one-shot timers, masks of table and kernel that differ |
| inter-thread queue | functor list under a mutex, eventfd counter, watcher | add from any thread, handler, asynchronous read | several adds in one event, handlers that start the next read |
| asynchronous epoll stream, HTTP connection, handler, server | read and write states, callbacks, handler list | read, write, process, accept, close, terminate, free | pipelined and malformed requests, blocked writes, resets, closing from within a callback |
| kqueue runloop and watchers | event structures, kernel filters, ready list | register, arm, disarm, fire, cancel, free, post, run | filters left enabled, structures released and reused inside a batch |
| TCP stream, TCP listener, message stream, echo application, server context | pending read, write, accept; partial message, message list; connections | read, write, accept, their events; read-answer loop | partial reads and writes, EAGAIN, end of file, reset, errno; clients that vanish, come back, send ahead, do not read |
| socket helpers, blocking message stream | kernel sockets | listen, connect, options, read, write, close | ports shared by threads, end of file against would-block |
| start-up, verify client | options, threads, connections, response times | create, connect, round trip, join, report | servers not yet listening, interrupts, arrays that grow |
| IOBuffer, Cbuffer, BufferChain, List, header list | memory, offsets; links | fill, commit, consume; add, remove, iterate | off-by-one at a capacity, terminators, removal while iterating |
| HTTP messages, parser, synchronous socket, URLs | parser state, current message; offsets | feed, serialise; parse | items cut at the end of a buffer, several messages in one buffer, 16-bit offsets |

## Modules

A record holds the state of one C structure (or, for a server, of the whole thread), an operator of
that record is one C function, and keeps its name. A failed `assert` stops the program: it sets a
field `aborted`, which names the assertion where a property tells them apart (`Asserts`). One action is
one critical section, one callback, or one pass of a loop, with all the calls it makes. Operators whose
comment begins with "Mutant" are plausible bugs, used only to show that a property can fail.

| module | models | actions |
|---|---|---|
| `FunctorQueue` | what a functor list promises: a FIFO of capacity - 1 | Add, Remove, Abort |
| `FunctorList` | `functor_list.c` | functor_list_add, functor_list_remove |
| `SlotPool` | what an event table promises: slots, reused oldest first | Acquire, Release, Exhausted |
| `EventTable` | `event_table.c` | event_table_get_entry, event_table_release_entry |
| `SocketFifo` | what the socket queue promises: a bounded FIFO | Add, Remove |
| `SocketQueue` | `common/queue.c` under any threads | Queue_add, Queue_remove, SpuriousWakeup |
| `RingProofs`; `RunloopLemmas`, `RunloopProofs`, `RunloopUsesProofs`; `WatcherLemmas`, `WatcherProofs`; `BufferProofs`; `ListProofs` | the proofs about the rings; the epoll runloop; its watchers; the two buffers; the list | |
| `Runloop` | epoll `runloop.c`, `fdtable.c`, and the kernel's interest list (external) | the steps of runloop_run |
| `RunloopClient` | any program on it | one per call, Return, DispatchEvent, RunFunctor |
| `InterthreadQueue` | `w_eventfd_queue.c`, `w_interthread_queue.c`, threads that add; `w_queue_watcher.c` and a reader as in `test_q_asio.c` | itqueue_add, itqueue_postable, RunFunctor; Add, runloop_queue_watcher_async_read, on_read_ready_postable, RunItem |
| `EventWatchers`, `SocketWatchers` | `w_timerfd.c`, `w_eventfd.c`; `w_stream.c`, `w_listener.c`; timerfd and eventfd (external) | |
| `WatcherClient` | any program on any watchers of the four kinds, other threads, the kernel | one per call; Dispatch, Wait, Return; Expires, Fire, Connections, SocketChanges |
| `AsioStream`, `HttpConnection` | `asio_stream.c`; `http_connection.c`, `http_handler.c` | |
| `HttpServer` | `http_server.c` on the runloop, with clients | one per callback; http_server_terminate, http_server_free; Connect, Client |
| `KqWatchers` | `kqueue_helpers.c`, `timer.c`, `user_event.c`, `stream.c`, `listener.c`, and kevent (external) | |
| `KqProgram` | kqueue `runloop.c` under any program | one per call; the steps of runloop_run; Kernel |
| `TcpStream` | the kqueue runloop as the servers use it; `apps/tcp` over non-blocking sockets (external: read, write and accept give sets of outcomes); `apps/async_msg_stream`, `newline_msg_parser.c` | |
| `EchoServer` | `echo_app.c`, `server_ctx.c`, one server thread, its clients | RunFunctor, Wait, DispatchEvent; Connect, Send, Receive, Close |
| `SocketFunctions`, `SocketUse` | `common/socket_functions.c` over kernel sockets (external); two processes that call them | Listens, Connects, SetsOption, Writes, Reads, Closes |
| `MStream` | `apps/msg`, both formats; `apps/mstream` | |
| `VerifyClient`, `ClientServer` | `apps/client`; `apps/server_process`, and both programs together | one per step of main and of a thread; Interrupted |
| `IOBuffer`, `Cbuffer`, `BufferChain` | the structures of `common/`, and any calls on them | one per function |
| `Deque`, `LinkedList` | what a list promises; `common/list.c` on a heap of nodes | one per function |
| `HttpMessage` | `http/kvpair.c`, `http/header_list.c`, `http_message.c`, and any changes of headers | one per function |
| `HttpMessageParser`, `HttpSyncSocket` | `http_message_parser.c` and the states of llhttp (`vendor/src/llhttp`) its messages reach; `http_sync_socket.c` | one per call; a peer that writes, in pieces, and closes |
| `UrlParser` | `url_parser.c`, `url.c`; every URL of bounded length | UrlNextChar |
| `MCThreadsAndTables`, `MCRunloopUses`, `MCStructures` | independent parts side by side: a behaviour is about one of them, the others stay as they began | |
| `MCHttpServer` | an instance for TLC; `EchoServer` and `KqProgram` are instantiated by their `.cfg` alone | |

A module that offers a structure ends with its use: the variables, an action per call with the
arguments a caller may give, and the properties. Programs and clients are arbitrary: in
`RunloopClient`, `WatcherClient` and `KqProgram` a callback makes any sequence of the calls the
library offers before it returns, at most as its guards and the header's contract allow.

The echo server's modules are layered as the C files are: an operator returns the set of states its
function may leave. Every callback is a tail call, so a function that calls one leaves it, with its
arguments, in the field `call`, and the layer above goes on from there in the same step; between
steps `call` is empty. `EchoServer` uses the functor list as the sequence, and the event table as the
set, that the proofs show them to be; so do `Runloop`, `InterthreadQueue` and `HttpServer` with the
functor list.

Data. In the echo server a byte stream is a sequence of pieces; two pieces make a request, so a read
can end inside one, and the response is the request's pieces. In the HTTP modules it is a sequence of
the items llhttp reports (a first line, a header's name or value, a piece of a body, an end), an item
whole or cut; in `UrlParser`, where the properties are about offsets, it is characters, one for each
class the parser tells apart. malloc'ed fields that the code does not set are null or not, by choice.
`errno` is a field of the thread: only failing calls change it. Servers do not ignore SIGPIPE, and it
ends the process. Time passes between two looks at the kernel: a timer counts the looks.

## Runs

| run | instance | shows |
|---|---|---|
| `threads_and_tables` | functor ring of 4; table of 4 entries; queue of 2 with two producers and two consumers; client and server with six pairs of command lines; a timer, an eventfd, a stream and a listener of the epoll runloop, two at a time | the ring refines a bounded queue; the table refines a pool, and the count that ends the loop is right; no lost wakeup, the queue refines a FIFO, sockets keep flowing; every response is verified and every round trip reported once; the assertions the two programs can fail, those of the echo service included; the client ends; no timer's callback before the kernel's timer expired, or twice, and none for an eventfd disarmed before; no count lost; mask = what the kernel watches for; which calls stop a program on the watchers; armed watchers are called |
| `epoll_runloop` | four watchers, two of them of one descriptor; two threads with three adds each; one reader | table = interest list; only the assertions of full lists fail; functors and items in order, once; posted functors run, signals lead to a run, the reader comes back |
| `runloop_stale` | handlers that release any watcher | violated: see Findings |
| `interthread_wakeup` | two threads | violated: see Findings |
| `timer_disarm` | the same watchers | violated: see Findings |
| `http_server` | two streams, clients of all kinds, built with and without assertions | one step pending per connection; each request answered once, in order; handlers = connections; what stops the server; who is served |
| `kqueue_watchers` | nine programs on two timers, three user events, a stream, a listener; two kinds of kernel | filters name live structures of their kind; what stops a program; disarmed is silent; events are called |
| `echo_server` | two clients of one request each with room for the answers, or one that sends three ahead with a third of the room | order of the answers, entries, who waits for whom, which assertions fail; accepted, answered, released |
| `echo_response`, `echo_read_event` | one connection, three requests, room for three pieces | violated: see Findings |
| `structures` | one structure, parser or pair of processes at a time | bytes, links, messages, URL fields and streams come out as they went in; which calls fail an assertion |
| `parser_boundary` | responses cut anywhere | violated: see Findings |

Every property of a passing run has a mutant of the code that breaks it.

Bounds. A ring of four holds three, so that it fills, empties and wraps. `capacity`, `EVT_MAX`, `FDTABLE_MAX`,
`READY_MAX`, `READY_LIST_MAX` and `LIST_MAX` are the sizes of the C tables, small enough to be
reached. The ready list of the echo server has one place per connection and one for the listener: the
run shows that no more is ever needed. Two connections are the least for which one event of a batch
can free, or make room for, the other. `SNDBUF`, `RCVBUF`, `READ_BUFFER` and `RESPONSE_LEN` are
chosen so that transfers are cut, and in `echo_server` that the answers fit for one set of clients and
not for the other. `MaxPending` events of an eventfd, timer `Interval`s of 0 (which disarms) and 1, and
`MaxAccepted` connections bound what the environment does; connections of the echo server are reused
without bound. Buffers hold `IOB_CAP` = 4, `CB_MIN` = 1 to `CB_MAX` = 3 and `CHAIN_CAP` = 2 bytes and
grow: `MaxChunk`, `MaxAppend` and `MaxBody` bytes at a time pass each edge. `UF_WIDTH` = 8 stands for
the 65536 of a 16-bit offset, and `MaxUrl` = 9 passes it. `PORT_MAX` = 5 stands for 65535. A list has up to
`MaxNodes` = 4 nodes: removal in the middle has neighbours at both sides. `MaxSent` = 2 messages with
`MaxHeaders` = 1 header show what a parser keeps from one message or header to the next.
`CHECK_DEADLOCK FALSE` is in every configuration, since in each the program may stop: after an
abort, at its end, or when nobody has anything more to ask.

Fairness. Each thread runs (weak fairness of its step): these are threads of the system scheduler,
or a loop. Callbacks return; kernels report a descriptor that stays ready at some time, although not
at every look (strong fairness of reporting it: a batch is bounded and the order in it is
free). For the watchers time passes. Clients of the servers read what they are sent, except where
the run is about one that does not. In the echo server clients stop connecting at some time:
`runloop_run` drains the ready list before it asks for events, and an accept posts functors, so that
clients who connect without end do starve the others; for the same reason `EventsCalled` assumes that
functors stop posting functors. Where weak fairness is written with its ENABLED spelled out
(`ThreadRuns`, `ServerCanStep`), that is for speed.

## Findings

* `runloop_stale`: a handler that deregisters another watcher of the same batch makes the dispatch
  loop assert; if the descriptor number is in use again, a second assertion fails instead.
* `interthread_wakeup`: adds that share an event leave all but one functor in the queue.
* `parser_boundary`: a buffer that ends within a reason phrase fails an assertion of the parser; so
  does one that ends right after it, because llhttp reports the end of the phrase with no characters.
* `timer_disarm`: `runloop_timer_disarm` (`w_timerfd.c:164`) sets the timer to its interval again, so
  that a disarmed timer goes on, and calls back.
* `echo_response`: a write that would block is never resumed.
* `echo_read_event`: while it is stuck, more input or a close fails an assertion.

Invariants that list what can stop a program say what else the models show.

* `KnownAborts` (echo server): the end of file is reported with the errno of whatever call failed
  last, and while that is 0 it is taken for data (`msg_reader.c:36`); a new stream's pointers are not
  initialised and may look like a pending read or write (`tcp_reader.c:22`, `tcp_writer.c:22`); a
  failed accept passes socket 0 to a callback that asserts it has one (`server_ctx.c:81`); a write to a
  connection the client has reset raises SIGPIPE; `listen()` may fail (`tcp_listener.c:99`).
* `HttpStops` (HTTP server): the assertion on the write state at the first response, a malformed
  request, a client that ended before it was accepted, an accept that fails, a write that would
  block, SIGPIPE, and a free while the listener is closed or connections are left. A request that
  comes in two reads is not read on; `asio_stream.c:236` sets the state of the read side when a write
  would block. `ServedUnlessStalled` says that these are the only ways to stall.
  `http_connection_free` closes the descriptor and `asio_stream_free` closes it again.
* `KqStops` (kqueue): a user event may be fired before it has a callback, and its free names memory
  that malloc did not give; functors may be more than the list holds; the table may be full, but only
  when the program's own pointers name every structure; a structure may be released, and taken for
  another kind, while an event for it is still in the batch. Only a program that released one meets
  an event of no kind or one without a callback. The user event's handler passes its structure where
  the argument belongs and its postable callback is not initialised. `kqh_listener_cancel`
  (`kqueue_helpers.c:452`) and `kqh_user_event_pause` name `EVFILT_TIMER`, so that neither does
  anything: a listener's filter outlives its deregistration and a disarmed user event is still called.
  `runloop_timer_update` (`timer.c:93`) does not store whether the timer repeats: one that repeats and
  is updated to fire once goes on, where the kernel keeps the flags of a filter and after a rearm.
  `SilentWhenOff` is about timers registered to fire once, so it does not count that against the code.
* `OnlyMisuseAborts` (epoll): the kernel refuses to modify a descriptor added with EPOLLEXCLUSIVE, so
  arming or disarming a listener aborts, as does a failed accept of an `AsioListener`. A watcher that
  is not registered cannot be deregistered, and the handler of a one-shot timer deregisters it
  before the callback: clearing or updating such a timer once it has fired aborts.
* `EventsDelivered` (epoll) leaves out timers that were updated: `runloop_timer_update` registers
  the timer again without any event of interest, and it is never called back any more.
  `TimerCallbackDue` is about the kernel's timer. The time it is set to is wrong: microseconds
  are stored as nanoseconds (`w_timerfd.c:106`), so the part of an interval below a second
  passes a thousand times too fast, and callbacks really come early.
* `OnlyKnownEnds` (client and server): `-r 0` makes an array of readings with no room, and adding the
  first one fails an assertion (`rta_add` and `rta_expand`, `verify_statistics.c:50`, `:57`); more
  than ten server threads fail one at the start; SIGINT meets a context that was never set; the
  assertions of the echo service (`KnownAborts`) end the server, and the client then finds the
  connection closed. The usage text of the server speaks of port 9011, 2 processes and 3 threads
  (`async_main.c:116`); the code sets 9002, 1 and 1 (`:124`), and 9002 is what the client connects to.
* `MessagesSound` (messages): `http_message_serialize` writes two blanks before the status of a
  response (`http_message.c:115`, `:149`), and llhttp ends the code at the second: a reader of this
  library gets status 0 and the code as part of the reason. A response without a reason never
  reports its status. The property asks for the first line of a message only where that line is well
  formed, a request or a standard response with a reason, and for headers, body, order and
  completeness always. `http_message_add_header_cstring` always appends, though `http_message.h:96`
  says it replaces the value of a header that is there; `OneContentLength` is about
  `http_message_set_content_length`, which does replace.
* Also met: URLs longer than 65535 wrap their offsets; `Cbuffer` can write its terminator one byte
  behind memory it has doubled; `http_syncsocket_connect` only logs a failure and
  `http_syncsocket_close` does nothing; the synchronous reader never tells the parser of the end of the
  stream.

## Proofs

All for every value of the constants, from the named assumptions of the modules: a capacity is a
positive number, the ready list of the hand-off and of the reader has room for two functors
(`READY_MAX >= 2`), and a Cbuffer's strategy has room for one doubling (`CB_MAX >= 2 * CB_MIN`; the code's
values are far above both); the socket queue has producers and consumers, and no thread is both; a
watcher's descriptor is in the table, no watcher is NULL and neither is a functor; a watcher is of
one kind and has a descriptor of its own, and NULL is no callback (`WatcherAssumption`).

* `RingProofs`, the three rings. *Functor list*: `TypeCorrect`, `GarbageNeverQueued`,
  `RingImplementsQueue`. The contents are the function `i -> list[(tail_plus + i) % capacity]`; the
  types alone make the refinement inductive, and `AllFunctors` (every queued slot was written) is
  the strengthening for garbage. *Event table*: `TableInvariant`, `CountCorrect`, `NoDoubleUse`,
  `TableImplementsPool`. The inductive invariant `TableInv` says where the window of free indices
  ends, that its indices are distinct entries nobody holds, that an entry knows its own index, and
  that free and held together are all entries: without the distinctness a slot could be given out
  twice, without the count the ring could overflow. *Socket queue*: `Invariant`, `WakeupsNotLost`,
  `NoDeadlock`, `QueueImplementsFifo`. The invariant adds to the ring's window that a thread sleeps
  only while its condition is false (`Queue_remove` broadcasts every change and `Queue_add` only the
  one from empty: that is enough because a broadcast wakes all sleepers). The lemmas are about
  successor, distance and shift modulo n, and sequences as functions.
* `RunloopLemmas` says what each function of `runloop.c` does to the table and the interest list.
  `Sound`, which each keeps, says that an entry is at its watcher's descriptor, that the count is the
  number of entries, and that the kernel has the same pointers while the epoll instance is open.
* `RunloopProofs`: `TableAgrees`, for any program on the epoll runloop, and `OnlyCapacitiesStop`,
  which assumes `OwnOnly` (handlers release only their own watcher; `runloop_stale` shows what
  happens otherwise). It needs more (`ProgramInv`): the undelivered events of a batch are of distinct
  watchers, each still in the table, and none is the one whose handler runs, so that what the handler
  releases is not among them; and between batches there are none.
* `RunloopUsesProofs`: the hand-off between threads (`HandoffInOrder`), the asynchronous reader
  (`ReaderInOrder`), and all uses of the runloop that a run checks (`UsesTable`, `UsesAborts`,
  `UsesInOrder`). `HandoffInv` adds to the order of the functors that a signal is up only while the
  queue has something in it, and that the handler runs with the ready list empty, for one event.
  `ReaderInv` counts: the items given are 1 to n, the queue continues them, and what was written is
  the sum. The reader is in one of four phases (it starts, waits, reads, has finished), and its
  watcher is registered exactly while a callback waits. That no item is given twice needs all of these: the
  handler deregisters, and the callback it calls registers again, inside one event.
* `WatcherLemmas`, `WatcherProofs`: `TimersDue`, `EventsOwed`, `MasksMatch` and `MisuseAborts`, the
  four invariants of the watchers, for any watchers and any program that releases a watcher
  only when no event of it is still to be delivered (the same condition as `OwnOnly` is for). `WcInv`, the inductive
  invariant, has a part for each registered watcher (a timer has a callback and has not had its one
  shot, and an expiration the kernel shows did elapse; an eventfd's counter is what is owed and it is
  in the interest list only while it is armed; the kernel has a stream's mask; a listener is in
  the table with EPOLLEXCLUSIVE), and a part for each event still to be delivered: its watcher is in the
  table, a timer among them has expired or been set anew since, an eventfd was armed when the events were
  collected. That last part makes the theorems hold: what is checked when `epoll_wait` returns has to stay
  true through all the callbacks that run before the event's turn. `RStep` and `NStep`, what a call
  on one watcher leaves alone, reduce each call to the watcher it is made on.
* `BufferProofs`: `IobIntact`, for callers who do not add behind data that was partly consumed
  (`AddBehind = FALSE`, as the runs have it and the library's callers do), and `CbReadsBack`. `IobInv`
  says that the unread bytes are at `ptr` and a terminator is behind them; `CbInv` that there are terminators both behind
  the bytes and at `m_size`, which the growth relies on.
* `ListProofs`: `ListImplementsDeque`. `ListInv` says that there is a sequence of different addresses
  that the links follow both ways and whose nodes are the whole heap. A removal takes an
  address out of it. The walks of the code and of the refinement mapping are recursive functions on
  numbers; they are unfolded by an induction over sets of numbers.

Only model-checked: liveness (TLAPS does not handle fairness and ENABLED); the client and server
programs, the buffer chain, the parsers and the messages, whose definitions are folds over sequences
(the theorems on them take operators as parameters, which the provers do not instantiate); the kqueue
runloop, the echo server and the HTTP server, whose functions return sets of outcomes that pass
through several layers. What the last three run on is proved: they use the functor list and the event
table as the queue and the pool that `RingProofs` shows them to be.

## Not modelled

`PROJECT.json` lists every part of the repository, with the reason for those left out. Not in the
build, or called by nothing: the kqueue `asio_stream.c`, `asio_listener.c`, `user_event_queue.c`,
`interthread_queue.c`, `queue_watcher.c` and `signal.c` (commented out of `CMakeLists.txt`), `junk/`,
`conn_exp/`, `client_verify_apps`, `demo_make_request_response`, `server_process/main.c`, code under
`#if 0`, several `kqh_*` functions, `runloop_register_timer` and `runloop_cancel_timer`, `wrtr_cb`,
`change_watch`, `itqueue_remove`, `http_message_parser_consume_eof`. Without a state a property could
be about: logging, tags, unit-test macros, wrappers of malloc, random identifiers. Of llhttp (vendored, 18000 generated lines) only the states
that the project's messages reach, with a line end as one item. External: the kernel's epoll, kqueue, timerfd, eventfd and sockets (by what the
calls of the code return). In the modelled parts: memory and most `free` functions (a
released structure is only one that may be taken again); wording of messages; a message longer than
its buffer in the echo server (it aborts in `IOBuffer_data_add`); the listener's allocation, which is
of a pointer's size. The tests and test helpers are read as documentation, not modelled.
