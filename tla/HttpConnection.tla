--------------------------- MODULE HttpConnection ---------------------------
(***************************************************************************)
(* The HTTP connection and its handler (http_connection.c,                 *)
(* http_handler.c): one request is read, processed and answered, then the  *)
(* next is read.                                                           *)
(*                                                                         *)
(* r.http[s] is the HttpConnection with the HttpHandler that owns it.  A   *)
(* request is two pieces, "h" and "t", and "x" is a byte the parser        *)
(* rejects: head says that the parser has an "h" without its "t".  A       *)
(* response is RESPONSE_LEN pieces.  on_read_cb is on_new_message_handler  *)
(* and on_write_cb is on_write_complete_cb.                                *)
(***************************************************************************)
EXTENDS AsioStream

CONSTANT RESPONSE_LEN

NoHttp == [alive |-> FALSE, read_state |-> "idle", write_state |-> "idle", input_messages |-> 0,
           head |-> FALSE, active_input |-> FALSE, active_output |-> 0,
           on_read_cb |-> FALSE, on_write_cb |-> FALSE, output_list |-> 0, active_response |-> FALSE]

Post(r, f, s) == runloop_post(r, <<f, s>>)

-----------------------------------------------------------------------------
(* The end of a connection: the server forgets the handler and frees it. *)

\* The descriptor is closed here, and once more by asio_stream_free: nothing can have taken
\* its number between the two, in a program with one thread.
http_connection_free(r, s) == asio_stream_free(IF r.asio[s].open THEN close_fd(r, fdOf[s]) ELSE r, s)

http_handler_free(r, s) ==
    LET freed == http_connection_free(r, s)
    IN  BuildAsserting(freed, freed.http[s].output_list = 0, "output_list", [freed EXCEPT !.http[s] = NoHttp])

\* Mutant: the handler stays in the list.
on_handler_completion_cb_keep(r, s) ==
    Asserting(r, s \in r.handler_list, "List_find", http_handler_free(r, s))

\* A handler that ends before http_handler_new returns is not in the list yet.
on_handler_completion_cb(r, s) ==
    Asserting(r, s \in r.handler_list, "List_find",
        http_handler_free([r EXCEPT !.handler_list = @ \ {s}], s))

-----------------------------------------------------------------------------
(* Reading requests. *)

\* A request: the response is made at once and its write is posted.
on_new_message_handler(r, s, error_code) ==
    IF error_code # 0 THEN on_handler_completion_cb(r, s)
    ELSE Asserting(r, r.http[s].output_list = 0, "pipelined",
             Post([r EXCEPT !.http[s].output_list = @ + 1], "postable_write_start", s))

call_on_read_cb(r, s, status) ==
    BuildAsserting(r, r.http[s].on_read_cb, "on_read_cb",
        on_new_message_handler([r EXCEPT !.http[s].on_read_cb = FALSE], s, status))

\* on_parser_new_message_complete queues every request that the pieces complete.
Parsed(h, pieces) ==
    LET step(got, p) ==
            CASE got.bad -> got
              [] p = "x" -> [got EXCEPT !.bad = TRUE]
              [] p = "h" -> [got EXCEPT !.head = TRUE]
              [] OTHER   -> [got EXCEPT !.head = FALSE, !.n = @ + 1]
        upto[i \in 0 .. Len(pieces)] ==
            IF i = 0 THEN [head |-> h.head, n |-> h.input_messages, bad |-> FALSE]
            ELSE step(upto[i - 1], pieces[i])
    IN  upto[Len(pieces)]

\* A buffer that completes no request: no callback is called and no read is started.
TakeMessage(r, s) ==
    IF r.http[s].input_messages > 0
    THEN call_on_read_cb([r EXCEPT !.http[s].input_messages = @ - 1, !.http[s].read_state = "idle"], s, 0)
    ELSE r

\* On a parse error the buffer is not consumed, and asserted to be.
read_have_data_cb(r, s, pieces) ==
    IF pieces = <<>> THEN call_on_read_cb(r, s, -1)
    ELSE LET got == Parsed(r.http[s], pieces)
             fed == [r EXCEPT !.http[s].head = got.head, !.http[s].input_messages = got.n,
                              !.http[s].active_input = FALSE]
         IN  IF got.bad
             THEN BuildAsserting(r, FALSE, "unconsumed", call_on_read_cb(fed, s, 1))
             ELSE TakeMessage(fed, s)

\* try_read called the connection back.
ReadReturned(r, s) ==
    IF Alive(r) /\ r.asio[s].calls = "read"
    THEN ReadCalled(read_have_data_cb([r EXCEPT !.asio[s].calls = "none", !.asio[s].read_buffer = <<>>],
                                      s, r.asio[s].read_buffer), s)
    ELSE r

\* A request that is already there is given to the callback at once.
http_connection_read(r, s) ==
    LET h == r.http[s]
        begun == BuildAsserting(r, h.read_state = "idle" /\ ~h.active_input /\ ~h.on_read_cb, "read_state",
                     [r EXCEPT !.http[s].on_read_cb = TRUE])
    IN  IF ~Alive(begun) THEN begun
        ELSE IF h.input_messages > 1
        THEN call_on_read_cb([begun EXCEPT !.http[s].input_messages = @ - 1], s, 0)
        ELSE IF h.input_messages = 1
        THEN call_on_read_cb([begun EXCEPT !.http[s].input_messages = 0,
                                           !.http[s].read_state = "active"], s, 0)
        ELSE ReadReturned(asio_stream_read([begun EXCEPT !.http[s].read_state = "active",
                                                         !.http[s].active_input = TRUE], s), s)

-----------------------------------------------------------------------------
(* Writing the response. *)

\* http_connection_write leaves write_state active, for good.
http_connection_write(r, s) ==
    BuildAsserting(r, r.http[s].write_state = "idle", "a write is already active",
        Post([r EXCEPT !.http[s].on_write_cb = TRUE, !.http[s].write_state = "active",
                       !.http[s].active_output = RESPONSE_LEN], "postable_writer", s))

postable_write_start(r, s) ==
    IF r.http[s].active_response THEN r
    ELSE http_connection_write([r EXCEPT !.http[s].output_list = @ - 1, !.http[s].active_response = TRUE], s)

\* Mutant: what was written is not consumed.
writer_cb_again(r, s, n) ==
    BuildAsserting(r, n > 0, "bytes_written",
        IF r.http[s].active_output > n THEN Post(r, "postable_writer", s)
        ELSE Post([r EXCEPT !.http[s].active_output = 0], "postable_write_call_cb", s))

writer_cb(r, s, n) ==
    LET left == r.http[s].active_output - n
        done == [r EXCEPT !.http[s].active_output = left]
    IN  BuildAsserting(r, n > 0, "bytes_written",
            IF left > 0 THEN Post(done, "postable_writer", s)
                        ELSE Post(done, "postable_write_call_cb", s))

\* The assertion contradicts the state http_connection_write has set.
postable_writer(r, s, n) ==
    LET out == BuildAsserting(r, r.http[s].write_state = "idle", "write_state", asio_stream_write(r, s, n))
    IN  IF Alive(out) /\ out.asio[s].calls = "write"
        THEN WriteCalled(writer_cb([out EXCEPT !.asio[s].calls = "none", !.asio[s].written = 0],
                                   s, out.asio[s].written), s)
        ELSE out

\* Mutant: the next read is not started.
on_write_complete_cb_stop(r, s) == [r EXCEPT !.http[s].active_response = FALSE]

on_write_complete_cb(r, s) ==
    Post([r EXCEPT !.http[s].active_response = FALSE],
         IF r.http[s].output_list >= 1 THEN "postable_write_start" ELSE "handler_postable_read_start", s)

call_on_write_cb(r, s) ==
    BuildAsserting(r, r.http[s].on_write_cb, "on_write_cb",
        on_write_complete_cb([r EXCEPT !.http[s].on_write_cb = FALSE], s))
postable_write_call_cb(r, s) == call_on_write_cb(r, s)

-----------------------------------------------------------------------------
http_connection_init(r, s) == asio_stream_new([r EXCEPT !.http[s] = [NoHttp EXCEPT !.alive = TRUE]], s)
http_connection_new(r, s) == http_connection_init(r, s)
\* The handler's first read is part of making it.
http_handler_init(r, s) == http_connection_read(http_connection_new(r, s), s)
http_handler_new(r, s) == http_handler_init(r, s)
=============================================================================
