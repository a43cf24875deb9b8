----------------------------- MODULE TcpStream ------------------------------
(***************************************************************************)
(* The kqueue runloop (kqueue_runloop/runloop.c, stream.c, listener.c and  *)
(* kqueue_helpers.c) as the servers use it.  The whole program is a record *)
(* s; these operators work on five of its fields: ready_list, in_use (the  *)
(* event-table entries held, the pool RingProofs shows the table to        *)
(* be), filters (the entries whose read filter is enabled), aborted, and   *)
(* call.  A stream's entry has the name of its connection.                 *)
(*                                                                         *)
(* All callbacks of the program are tail calls: a function that calls one  *)
(* leaves the callback and its arguments in call, and the layer above,     *)
(* which passed the callback down, goes on from there in the same step.    *)
(***************************************************************************)
EXTENDS Asserts, Integers, FiniteSets, SequencesExt

CONSTANTS READY_MAX,   \* functors the ready list has room for
          EVT_MAX      \* entries of the event table

ASSUME KqAssumption == READY_MAX \in Nat /\ EVT_MAX \in Nat

NoCall == <<>>
Calling(s, cb, arg, value, error) == [s EXCEPT !.call = <<cb, arg, value, error>>]
Calls(s, cb) == s.call # NoCall /\ s.call[1] = cb
Entered(s) == [s EXCEPT !.call = NoCall]

runloop_post(s, f, arg) ==
    Asserting(s, Len(s.ready_list) < READY_MAX, "full",
        [s EXCEPT !.ready_list = Append(@, <<f, arg>>)])

event_table_get_entry(s, e) ==
    Asserting(s, Cardinality(s.in_use) < EVT_MAX, "table", [s EXCEPT !.in_use = @ \cup {e}])

\* Mutant: neither the filter is deleted nor the descriptor closed.
runloop_stream_free_armed(s, e) == [s EXCEPT !.in_use = @ \ {e}]

\* EV_DELETE, close and event_table_release_entry.
runloop_stream_free(s, e) == [s EXCEPT !.filters = @ \ {e}, !.in_use = @ \ {e}]

\* EVFILT_READ is added or enabled: for a stream it stays enabled until it is
\* deleted, for the listener (EV_DISPATCH) until it reports an event.
runloop_stream_arm_read(s, e) == [s EXCEPT !.filters = @ \cup {e}]
runloop_listener_arm(s, e) == [s EXCEPT !.filters = @ \cup {e}]

\* What runloop_run does when there is no functor to run: it leaves when no entry
\* is held, and else waits, without a timeout, for some of the events there are.
MustWait(s) == Alive(s) /\ s.ready_list = <<>> /\ s.in_use # {}
Reported(s, batch, dispatch) ==
    [s EXCEPT !.filters = @ \ ({batch[i] : i \in DOMAIN batch} \cap dispatch)]

\* The handler of an event's entry is called through the entry: it must be held.
Dispatching(s, e, nexts) == Checking(s, e \in s.in_use, "released", nexts)

-----------------------------------------------------------------------------
(***************************************************************************)
(* External: the kernel's non-blocking stream sockets as the server uses   *)
(* them.  A byte stream is a sequence of pieces; piece 2n-1 and piece 2n   *)
(* are the two parts of a client's n-th request, and of the response to    *)
(* it.  A read or a write moves any non-empty prefix that fits.            *)
(*                                                                         *)
(* peer is the state of the client's end: "open"; "closed" (FIN: the data  *)
(* then the end of file); "reset" (the next call fails with ECONNRESET);   *)
(* "broken" (a read gives the end of file, a write raises SIGPIPE).        *)
(***************************************************************************)

CONSTANT SNDBUF   \* pieces of output the kernel holds for a client

ASSUME SndbufAssumption == SNDBUF \in Nat \ {0}

EndsMessage(piece) == piece % 2 = 0

NoSocket == [inq |-> <<>>, sent |-> 0, out |-> <<>>, taken |-> 0, peer |-> "none"]
NewSocket == [NoSocket EXCEPT !.peer = "open"]

Returned(n, err, sock) == [ret |-> n, err |-> err, sock |-> sock]

\* read(2): the outcomes.  ret > 0 is the number of pieces moved.
Read(k) ==
    CASE k.peer = "reset" -> {Returned(-1, "ECONNRESET", [k EXCEPT !.peer = "broken"])}
      [] k.peer # "reset" /\ k.inq # <<>> ->
             {Returned(n, "0", [k EXCEPT !.inq = SubSeq(@, n + 1, Len(@))]) : n \in 1 .. Len(k.inq)}
      [] k.peer \in {"closed", "broken"} /\ k.inq = <<>> -> {Returned(0, "0", k)}
      [] OTHER -> {Returned(-1, "EAGAIN", k)}

Room(k) == SNDBUF - (Len(k.out) - k.taken)

\* write(2): the outcomes.
Write(k, data) ==
    CASE k.peer = "open" /\ Room(k) > 0 ->
             {Returned(n, "0", [k EXCEPT !.out = @ \o SubSeq(data, 1, n)]) :
                  n \in {m \in 1 .. Len(data) : m <= Room(k)}}
      [] k.peer = "open" /\ Room(k) <= 0 -> {Returned(-1, "EAGAIN", k)}
      [] k.peer = "closed" -> {Returned(Len(data), "0", [k EXCEPT !.peer = "reset"])}
      [] k.peer = "reset" -> {Returned(-1, "ECONNRESET", [k EXCEPT !.peer = "broken"])}
      [] OTHER -> {Returned(-1, "SIGPIPE", k)}

\* Whether kqueue's read filter has an event for the socket.
Readable(k) == k.inq # <<>> \/ k.peer \in {"closed", "reset", "broken"}

-----------------------------------------------------------------------------
(***************************************************************************)
(* The asynchronous TCP stream (apps/tcp/tcp_stream.c, tcp_reader.c and    *)
(* tcp_writer.c) over the kqueue runloop.  conn[c] holds the fields of     *)
(* connection c.  An operator gives the states its function may leave,     *)
(* with the callback "tcp_read" or "tcp_write" to be called, or none.  rd  *)
(* and wr stand for the pair of buffer and callback of a pending read and  *)
(* write.                                                                  *)
(***************************************************************************)

\* tcp_stream_init sets the states and leaves the other fields of the structure
\* as malloc returned them: null or not.
Malloced == {"null", "garbage"}

NoStream == [read_state |-> "none", rd |-> "null", input |-> <<>>,
             write_state |-> "none", wr |-> "null", output |-> <<>>]

tcp_stream_new(s, c) ==
    {[event_table_get_entry(s, c) EXCEPT
        !.conn[c].read_state = "INITIAL", !.conn[c].write_state = "INITIAL",
        !.conn[c].rd = r, !.conn[c].wr = w] : r \in Malloced, w \in Malloced}

tcp_stream_free(s, c) == runloop_stream_free(s, c)

-----------------------------------------------------------------------------
(* Reading *)

\* Mutant: the buffer and the callback are left as they are.
read_done_kept(s, c) == s

read_done(s, c) == [s EXCEPT !.conn[c].rd = "null"]

\* The read is over before its callback, which may start the next, is called.
invoke_read_cb(s, c, error) == Calling(read_done(s, c), "tcp_read", c, 0, error)

\* Mutant: the stream is not armed.
read_would_block_unarmed(s, c) == [s EXCEPT !.conn[c].read_state = "EAGAIN"]

read_would_block(s, c) == runloop_stream_arm_read([s EXCEPT !.conn[c].read_state = "EAGAIN"], c)

\* The end of file is reported with errno as the last failing call left it.
try_read(s, c) ==
    Checking(s, s.conn[c].rd # "null", "no buffer",
        {LET t == [s EXCEPT !.sock[c] = o.sock, !.errno = IF o.ret < 0 THEN o.err ELSE @]
         IN  CASE o.ret > 0 ->
                    invoke_read_cb([t EXCEPT !.conn[c].read_state = "READY",
                                             !.conn[c].input = @ \o SubSeq(s.sock[c].inq, 1, o.ret)],
                                   c, "0")
               [] o.ret = 0 -> invoke_read_cb(t, c, t.errno)
               [] o.err = "EAGAIN" -> read_would_block(t, c)
               [] OTHER -> invoke_read_cb(t, c, t.errno)
         : o \in Read(s.sock[c])})

\* assert(! is_read_pending(ctx)).
tcp_read(s, c) ==
    Checking(s, s.conn[c].rd = "null", IF s.conn[c].rd = "garbage" THEN "garbage" ELSE "pending",
        try_read([s EXCEPT !.conn[c].rd = "set"], c))

\* The stream's read event: the three states that are ever assigned all try again.
read_ready_callback(s, c) ==
    try_read([s EXCEPT !.conn[c].read_state = "READY"], c)

-----------------------------------------------------------------------------
(* Writing *)

invoke_write_callback(s, c, error) ==
    Calling([s EXCEPT !.conn[c].wr = "null", !.conn[c].output = <<>>], "tcp_write", c, 0, error)

\* Mutant: a partial write is started again from the first byte.
write_rest_again(s, c, rest) ==
    runloop_post([s EXCEPT !.conn[c].write_state = "READY"], "postable_try_write", c)

write_rest(s, c, rest) ==
    runloop_post([s EXCEPT !.conn[c].write_state = "READY", !.conn[c].output = rest],
                 "postable_try_write", c)

\* A write that would block only records that; the write filter is not armed.
try_write(s, c) ==
    {LET t == [s EXCEPT !.sock[c] = o.sock, !.errno = IF o.ret < 0 THEN o.err ELSE @]
         rest == SubSeq(s.conn[c].output, o.ret + 1, Len(s.conn[c].output))
     IN  CASE o.ret > 0 /\ rest = <<>> ->
                invoke_write_callback([t EXCEPT !.conn[c].write_state = "READY"], c, "0")
           [] o.ret > 0 /\ rest # <<>> -> write_rest(t, c, rest)
           [] o.err = "EAGAIN" -> [t EXCEPT !.conn[c].write_state = "EAGAIN"]
           [] o.err = "SIGPIPE" -> Abort(t, "SIGPIPE")
           [] OTHER -> invoke_write_callback([t EXCEPT !.conn[c].write_state = "ERROR"], c, t.errno)
     : o \in Write(s.sock[c], s.conn[c].output)}

\* assert(!is_write_pending(tcp_stream_ref)).
tcp_write(s, c, data) ==
    Checking(s, s.conn[c].wr = "null", IF s.conn[c].wr = "garbage" THEN "garbage" ELSE "pending",
        try_write([s EXCEPT !.conn[c].wr = "set", !.conn[c].output = data], c))

-----------------------------------------------------------------------------
(***************************************************************************)
(* The asynchronous listener (apps/tcp/tcp_listener.c).  lsn holds its     *)
(* fields, acceptq the connections the kernel has for it.  Its callback is *)
(* "accept".                                                               *)
(***************************************************************************)

CONSTANTS LISTENER,   \* the listener's entry
          NoSock      \* the new_sock (0) a failed accept is reported with

tcp_listener_new == [l_state |-> "INITIAL", accept_cb |-> FALSE]

invoke_accept_callback(s, sock, error) ==
    Calling([s EXCEPT !.lsn.accept_cb = FALSE], "accept", sock, 0, error)

\* External: accept(2) takes the first connection, or fails.
AcceptFails == {"EMFILE"}

\* Mutant: the listener is not armed again.
accept_would_block_unarmed(s) == [s EXCEPT !.lsn.l_state = "EAGAIN", !.errno = "EAGAIN"]

accept_would_block(s) ==
    runloop_listener_arm([s EXCEPT !.lsn.l_state = "EAGAIN", !.errno = "EAGAIN"], LISTENER)

try_accept(s) ==
    IF s.acceptq = <<>> THEN {accept_would_block(s)}
    ELSE {invoke_accept_callback([s EXCEPT !.acceptq = Tail(@), !.lsn.l_state = "READY"],
                                 Head(s.acceptq), "0")}
         \cup {invoke_accept_callback([s EXCEPT !.lsn.l_state = "ERROR", !.errno = e], NoSock, e)
                   : e \in AcceptFails}

\* After a failed accept the callback is called at once with socket 0, which the
\* server's asserts against.
tcp_accept(s) ==
    Asserting(s, ~s.lsn.accept_cb, "accepting",
    Asserting(s, s.lsn.l_state # "ERROR", "accept failed",
        runloop_post([s EXCEPT !.lsn.accept_cb = TRUE], "postable_try_accept", LISTENER)))

\* The first time the socket is made to listen, which may fail.
postable_try_accept(s) ==
    LET t == runloop_listener_arm(s, LISTENER)
    IN  CASE t.lsn.l_state = "INITIAL" -> try_accept([t EXCEPT !.lsn.l_state = "READY"])
                                             \cup {Asserting(t, FALSE, "listen failed", t)}
          [] t.lsn.l_state = "READY"   -> try_accept(t)
          [] OTHER                     -> {t}

\* The listener's event.
on_accept_ready(s) ==
    Checking(s, s.lsn.l_state \in {"EAGAIN", "READY"}, "listen state",
        LET t == [s EXCEPT !.lsn.l_state = "READY"]
        IN  IF t.lsn.accept_cb THEN try_accept(t) ELSE {t})
-----------------------------------------------------------------------------
(***************************************************************************)
(* The message stream (apps/async_msg_stream/) over a TCP stream, with the *)
(* newline parser (apps/msg/newline_msg_parser.c).  A message is the       *)
(* sequence of its pieces.  Its callbacks are "msg_read" and "msg_write".  *)
(***************************************************************************)

NoMsgStream == NoStream @@ [read_cb |-> FALSE, messages |-> <<>>, partial |-> <<>>,
                            write_cb |-> FALSE]

msg_stream_new(s, c) == tcp_stream_new([s EXCEPT !.conn[c] = NoMsgStream], c)

msg_stream_free(s, c) == tcp_stream_free([s EXCEPT !.conn[c] = NoMsgStream], c)

-----------------------------------------------------------------------------
(* msg_reader.c *)

invoke_read_callback(s, c, msg, error) ==
    Calling([s EXCEPT !.conn[c].read_cb = FALSE], "msg_read", c, msg, error)

ParserStart(k) == [partial |-> k.partial, messages |-> k.messages]

\* The parser takes all of the input; each end of a message completes one.
newline_msg_parser_consume(k) ==
    FoldLeft(LAMBDA p, piece :
                 IF EndsMessage(piece)
                 THEN [partial |-> <<>>, messages |-> Append(p.messages, Append(p.partial, piece))]
                 ELSE [p EXCEPT !.partial = Append(@, piece)],
             ParserStart(k), k.input)

NextMessage(msgs) == Head(msgs)

FirstMessageRead(s, c) ==
    invoke_read_callback([s EXCEPT !.conn[c].messages = Tail(@)], c,
                         NextMessage(s.conn[c].messages), "0")

tcp_read_callback(s, c, error) ==
    LET parsed == newline_msg_parser_consume(s.conn[c])
        t == [s EXCEPT !.conn[c].input = <<>>, !.conn[c].partial = parsed.partial,
                       !.conn[c].messages = parsed.messages]
    IN  IF error # "0" THEN invoke_read_callback(s, c, <<>>, error)
        ELSE Asserting(s, s.conn[c].input # <<>>, "no data",
                 IF t.conn[c].messages = <<>> THEN runloop_post(t, "msg_postable_read", c)
                 ELSE FirstMessageRead(t, c))

\* The states after a tcp_read, with its callback.
ReadOn(S) ==
    {IF Calls(t, "tcp_read") THEN tcp_read_callback(Entered(t), t.call[2], t.call[4]) ELSE t : t \in S}

msg_postable_read(s, c) == ReadOn(tcp_read(s, c))

msg_stream_read(s, c) ==
    LET t == [s EXCEPT !.conn[c].read_cb = TRUE]
    IN  Checking(s, ~s.conn[c].read_cb, "msg read",
            IF t.conn[c].messages # <<>> THEN {FirstMessageRead(t, c)} ELSE msg_postable_read(t, c))

\* The stream's read event.
on_read_event(s, c) == ReadOn(read_ready_callback(s, c))

-----------------------------------------------------------------------------
(* msg_writer.c *)

msg_tcp_write_callback(s, c, error) ==
    Calling([s EXCEPT !.conn[c].write_cb = FALSE], "msg_write", c, 0, error)

\* The states after a tcp_write, with its callback.
WriteOn(S) ==
    {IF Calls(t, "tcp_write") THEN msg_tcp_write_callback(Entered(t), t.call[2], t.call[4]) ELSE t
         : t \in S}

msg_stream_write(s, c, msg) ==
    Checking(s, ~s.conn[c].write_cb, "msg write",
        WriteOn(tcp_write([s EXCEPT !.conn[c].write_cb = TRUE], c, msg)))

\* A posted retry.
postable_try_write(s, c) == WriteOn(try_write(s, c))
=============================================================================
