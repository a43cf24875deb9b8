----------------------------- MODULE AsioStream -----------------------------
(***************************************************************************)
(* The proactor interface to a socket (asio_stream.c, built level          *)
(* triggered).  r.asio[s] is the AsioStream on the RunloopStream s and     *)
(* r.sock[s] what the kernel has for its socket: the pieces to be read,    *)
(* whether the peer has ended (fin) or reset the connection, and whether   *)
(* the send buffer is full.  A callback is modelled by whether it is set.  *)
(* Where the code calls one, the operator stops with asio[s].calls saying  *)
(* so, and the module of the callback goes on from there.                  *)
(*                                                                         *)
(* r.ndebug is a build without assertions.                                 *)
(***************************************************************************)
EXTENDS SocketWatchers

CONSTANT READ_BUFFER   \* pieces a read buffer has room for

NoSock == [in |-> <<>>, fin |-> FALSE, reset |-> FALSE, full |-> FALSE]

NoAsio == [open |-> FALSE, read_state |-> "idle", write_state |-> "idle", read_callback |-> FALSE,
           write_callback |-> FALSE, read_buffer |-> <<>>, written |-> 0, calls |-> "none"]

BuildAsserting(r, holds, why, next) ==
    IF ~Alive(r) THEN r ELSE IF holds \/ r.ndebug THEN next ELSE Abort(r, why)

asio_stream_init(r, s) ==
    runloop_stream_register(
        runloop_stream_new([r EXCEPT !.asio[s] = [NoAsio EXCEPT !.open = TRUE]], s), s)
asio_stream_new(r, s) == asio_stream_init(r, s)

\* Mutant: the table keeps the stream.
asio_stream_close_keep(r, s) ==
    BuildAsserting(r, r.asio[s].open, "asio close",
        [close_fd(r, fdOf[s]) EXCEPT !.asio[s].open = FALSE, !.sock[s] = NoSock])

\* The stream is taken from the table; it is close that takes it from the epoll instance.
asio_stream_close(r, s) ==
    BuildAsserting(r, r.asio[s].open, "asio close",
        [close_fd(FdTable_remove(r, fdOf[s]), fdOf[s]) EXCEPT !.asio[s].open = FALSE, !.sock[s] = NoSock])

asio_stream_destroy(r, s) ==
    [IF r.asio[s].open THEN asio_stream_close(r, s) ELSE r EXCEPT !.stream[s] = NoStream]
asio_stream_free(r, s) == [asio_stream_destroy(r, s) EXCEPT !.asio[s] = NoAsio]

-----------------------------------------------------------------------------
(* Reading. *)

\* read(2): the number of pieces, 0 at the end, or "EAGAIN" or another error.
Taken(k) == IF Len(k.in) < READ_BUFFER THEN Len(k.in) ELSE READ_BUFFER
ReadResult(k) ==
    CASE k.reset -> "error" [] k.in # <<>> -> "data" [] k.fin -> "end" [] OTHER -> "EAGAIN"

read_eagain(r, s) ==
    runloop_stream_arm_read([r EXCEPT !.asio[s].read_state = "eagain"], s, "epollin_postable_cb")

\* After the end of the stream and after an error the state stays as it was.
try_read(r, s) ==
    LET got == ReadResult(r.sock[s])
        n == Taken(r.sock[s])
        data == [r EXCEPT !.asio[s].read_state = IF got = "data" THEN "idle" ELSE @,
                          !.asio[s].read_buffer = SubSeq(r.sock[s].in, 1, n),
                          !.asio[s].calls = "read",
                          !.sock[s].in = SubSeq(@, n + 1, Len(@))]
    IN  IF ~Alive(r) THEN r
        ELSE IF got = "EAGAIN" THEN read_eagain(r, s)
        ELSE IF r.asio[s].read_callback THEN data
        ELSE Abort(r, "read_callback")

\* The line after the callback.
ReadCalled(r, s) == [r EXCEPT !.asio[s].read_callback = FALSE]

asio_stream_read(r, s) ==
    BuildAsserting(r, r.asio[s].read_state = "idle", "asio read",
        try_read([r EXCEPT !.asio[s].read_callback = TRUE, !.asio[s].read_state = "active"], s))

\* Mutant: an event finds nobody who waits for it.
epollin_postable_cb_idle(r, s) ==
    IF r.asio[s].read_state # "eagain" THEN r
    ELSE runloop_stream_disarm_read([r EXCEPT !.asio[s].read_state = "idle"], s)

\* The event disarms the stream and tries again, when a callback waits for it.
epollin_postable_cb(r, s) ==
    IF r.asio[s].read_state # "eagain" THEN r
    ELSE IF ~r.asio[s].read_callback THEN [r EXCEPT !.asio[s].read_state = "idle"]
    ELSE try_read(runloop_stream_disarm_read(r, s), s)

-----------------------------------------------------------------------------
(* Writing.  WRITE_STATE_EAGAIN and WRITE_STATE_ACTIVE are the same number. *)

\* write(2) of len pieces: how many were taken; 0 is an error, -1 is EAGAIN, and -2 the
\* SIGPIPE of a connection that was reset, which ends a program that does not ignore it.
WriteResults(k, len) == IF k.reset THEN {0, -2} ELSE IF k.full THEN {-1} ELSE 1 .. len

\* It is the state of the reads that is set.
write_eagain(r, s) ==
    runloop_stream_arm_write([r EXCEPT !.asio[s].read_state = "eagain"], s, "epollout_postable_cb")

try_write(r, s, n) ==
    IF ~Alive(r) THEN r
    ELSE IF n = -2 THEN Abort(r, "SIGPIPE")
    ELSE IF n = -1 THEN write_eagain(r, s)
    ELSE [r EXCEPT !.asio[s].write_state = IF n > 0 THEN "idle" ELSE @,
                   !.asio[s].written = n, !.asio[s].calls = "write"]

\* The line after the callback.
WriteCalled(r, s) == [r EXCEPT !.asio[s].write_callback = FALSE]

asio_stream_write(r, s, n) ==
    BuildAsserting(r, r.asio[s].write_state = "idle", "asio write",
        try_write([r EXCEPT !.asio[s].write_callback = TRUE, !.asio[s].write_state = "active"], s, n))

\* The event that the socket can be written again reads from it, and leaves it armed.
epollout_postable_cb(r, s) ==
    IF r.asio[s].write_state # "active" THEN r
    ELSE IF ~r.asio[s].write_callback THEN [r EXCEPT !.asio[s].write_state = "idle"]
    ELSE try_read(r, s)
=============================================================================
