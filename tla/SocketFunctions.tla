-------------------------- MODULE SocketFunctions ---------------------------
(***************************************************************************)
(* The socket helpers of common/socket_functions.c, over the sockets of    *)
(* the kernel.  A call is made by one process: its state has the sockets   *)
(* (net), the last result (ret, with data and status), and the assertion   *)
(* that ended the process (aborted).  A call that blocks has no outcome.   *)
(***************************************************************************)
EXTENDS Asserts, Integers, Sequences, FiniteSetsExt

CONSTANTS
    MaxFd,    \* descriptors 1 .. MaxFd, of listening sockets and of both ends of connections
    RCVBUF    \* bytes a connection holds in one direction

SockFd == 1 .. MaxFd

ClosedSocket == [st |-> "closed", port |-> 0, opts |-> {}, peer |-> 0, inq |-> <<>>, eof |-> FALSE]

NoNet == [fd \in SockFd |-> ClosedSocket]

Caller(net, aborted) ==
    [net |-> net, ret |-> 0, data |-> <<>>, status |-> "none", aborted |-> aborted]

-----------------------------------------------------------------------------
(* System calls. *)

Returned(s, r) == [s EXCEPT !.ret = r]

FreeFds(s) == {fd \in SockFd : s.net[fd].st = "closed"}

socket(s) ==
    IF FreeFds(s) = {} THEN Returned(s, -1)
    ELSE LET fd == Min(FreeFds(s)) IN
         [s EXCEPT !.net[fd].st = "open", !.ret = fd]

setsockopt(s, fd, opt) ==
    IF s.net[fd].st = "closed" THEN Returned(s, -1)
    ELSE [s EXCEPT !.net[fd].opts = @ \cup {opt}, !.ret = 0]

\* Sockets on a port together with fd that do not share it with fd.
InTheWay(s, fd, port, states) ==
    {o \in SockFd \ {fd} : /\ s.net[o].port = port /\ s.net[o].st \in states
                       /\ ~ "REUSEPORT" \in (s.net[o].opts \cap s.net[fd].opts)}

\* SO_REUSEADDR on both sides excuses a socket that does not listen.
bind(s, fd, port) ==
    IF \/ InTheWay(s, fd, port, {"listening"}) # {}
       \/ \E o \in InTheWay(s, fd, port, {"bound"}) :
              "REUSEADDR" \notin (s.net[o].opts \cap s.net[fd].opts)
    THEN Returned(s, -1)
    ELSE [s EXCEPT !.net[fd].st = "bound", !.net[fd].port = port, !.ret = 0]

listen(s, fd) ==
    IF InTheWay(s, fd, s.net[fd].port, {"listening"}) # {} THEN Returned(s, -1)
    ELSE [s EXCEPT !.net[fd].st = "listening", !.ret = 0]

\* The kernel chooses one of the sockets that listen on the port; the other end is open
\* from now on, and the server accepts it later.
connect(s, fd, port) ==
    LET at == {l \in SockFd : s.net[l].st = "listening" /\ s.net[l].port = port} IN
    IF at = {} \/ FreeFds(s) = {} THEN Returned(s, -1)
    ELSE LET end == Min(FreeFds(s)) IN
         [s EXCEPT !.net[fd].st = "connected", !.net[fd].peer = end,
                   !.net[end] = [ClosedSocket EXCEPT !.st = "connected", !.peer = fd, !.port = port],
                   !.ret = 0]

close(s, fd) ==
    LET peer == s.net[fd].peer
        n == [s.net EXCEPT ![fd] = ClosedSocket]
    IN  [s EXCEPT !.net = IF peer = 0 THEN n ELSE [n EXCEPT ![peer].eof = TRUE, ![peer].peer = 0]]

read(s, fd, max) ==
    LET k == s.net[fd] IN
    IF k.inq # <<>>
    THEN {[s EXCEPT !.net[fd].inq = SubSeq(@, n + 1, Len(@)), !.ret = n, !.data = SubSeq(k.inq, 1, n)]
              : n \in 1 .. Min({max, Len(k.inq)})}
    ELSE IF k.eof \/ "SHUT_RD" \in k.opts THEN {[s EXCEPT !.ret = 0, !.data = <<>>]}
    ELSE IF k.opts \cap {"NONBLOCK", "RCVTIMEO"} # {} THEN {[s EXCEPT !.ret = -1, !.data = <<>>]}
    ELSE {}

\* A blocking write takes everything; writing to a connection the peer has closed raises
\* SIGPIPE, which nothing handles.
write(s, fd, bytes) ==
    LET peer == s.net[fd].peer  space == RCVBUF - Len(s.net[peer].inq)
        Put(n) == [s EXCEPT !.net[peer].inq = @ \o SubSeq(bytes, 1, n), !.ret = n]
    IN  IF peer = 0 THEN {Abort(s, "SIGPIPE")}
        ELSE IF Len(bytes) <= space THEN {Put(Len(bytes))}
        ELSE IF "NONBLOCK" \notin s.net[fd].opts THEN {}
        ELSE IF space = 0 THEN {Returned(s, -1)} ELSE {Put(space)}

-----------------------------------------------------------------------------
(* socket_functions.c *)

socket_throw_error(s) == Abort(s, "throw")

create_bound_socket(s, port) ==
    LET a == socket(s)
        b == setsockopt(a, a.ret, "REUSEPORT")
        c == setsockopt(b, a.ret, "REUSEADDR")
        d == bind(c, a.ret, port)
    IN  Asserting(a, a.ret # -1, "socket", Asserting(d, d.ret = 0, "bind", Returned(d, a.ret)))

create_and_connect_socket(s, port) ==
    LET a == socket(s)
        b == connect(a, a.ret, port)
    IN  Asserting(a, a.ret # -1 /\ b.ret = 0, "connect", Returned(b, a.ret))

ListenerOption == "REUSEPORT"

create_listener_socket(s, port) ==
    LET a == socket(s)
        b == setsockopt(a, a.ret, ListenerOption)
        c == bind(b, a.ret, port)
        d == listen(c, a.ret)
    IN  Asserting(a, a.ret # -1, "socket", Asserting(c, c.ret = 0, "bind",
            Asserting(d, d.ret = 0, "listen", Returned(d, a.ret))))

socket_create_listener_on_port(s, port) ==
    LET a == socket(s)
        b == setsockopt(a, a.ret, "REUSEADDR")
        c == bind(b, a.ret, port)
        d == listen(c, a.ret)
    IN  IF a.ret = -1 THEN socket_throw_error(a)
        ELSE IF c.ret # 0 THEN socket_throw_error(c)
        ELSE IF d.ret # 0 THEN socket_throw_error(d)
        ELSE Returned(d, a.ret)

\* known: gethostbyname finds the host.  No failure gets as far as its status.
socket_connect_host_port(s, known, port) ==
    LET a == socket(s)
        b == connect(a, a.ret, port)
    IN  IF ~known THEN socket_throw_error(s)
        ELSE IF a.ret = -1 THEN socket_throw_error(a)
        ELSE IF b.ret = -1 THEN socket_throw_error(b)
        ELSE [b EXCEPT !.ret = a.ret, !.status = "GOOD"]

socket_is_blocking(s, fd) ==
    IF s.net[fd].st = "closed" THEN socket_throw_error(s)
    ELSE Returned(s, IF "NONBLOCK" \in s.net[fd].opts THEN 0 ELSE 1)

socket_set_blocking(s, fd) ==
    IF s.net[fd].st = "closed" THEN socket_throw_error(s)
    ELSE [s EXCEPT !.net[fd].opts = @ \ {"NONBLOCK"}, !.ret = fd]

socket_set_non_blocking(s, fd) ==
    IF s.net[fd].st = "closed" THEN socket_throw_error(s)
    ELSE [s EXCEPT !.net[fd].opts = @ \cup {"NONBLOCK"}, !.ret = fd]

socket_shutdown_read(s, fd) == [s EXCEPT !.net[fd].opts = @ \cup {"SHUT_RD"}]

\* It ends reading, too.
socket_shutdown_write(s, fd) == [s EXCEPT !.net[fd].opts = @ \cup {"SHUT_RD"}]

\* SO_LINGER takes a struct linger: with an int setsockopt fails, which is what the code
\* wants to see.
socket_set_option(s, fd) == Returned(s, -1)

socket_set_reuse_addr(s, fd) == setsockopt(s, fd, "REUSEADDR")

socket_set_recvtimeout(s, fd) ==
    LET a == setsockopt(s, fd, "RCVTIMEO") IN Asserting(a, a.ret = 0, "recvtimeout", a)

socket_write_data(s, fd, bytes) ==
    {IF ~Alive(t) THEN t
     ELSE IF t.ret = Len(bytes) THEN t
     ELSE IF t.ret > 0 THEN Abort(t, "short write")
     ELSE socket_throw_error(t) : t \in write(s, fd, bytes)}

ReadStatus(n) == IF n > 0 THEN "GOOD" ELSE "EOF"

\* Mutant: that there is nothing to read yet is taken for the end.
socket_read_data_eagain_eof(s, fd, max) ==
    {[t EXCEPT !.status = ReadStatus(t.ret)] : t \in read(s, fd, max)}

\* EAGAIN and every other error end the process before they are reported.
socket_read_data(s, fd, max) ==
    {IF t.ret >= 0 THEN [t EXCEPT !.status = ReadStatus(t.ret)] ELSE socket_throw_error(t)
        : t \in read(s, fd, max)}

socket_close(s, fd) == close(s, fd)
=============================================================================
