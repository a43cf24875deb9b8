---------------------------- MODULE ClientServer ----------------------------
(***************************************************************************)
(* The server program (server_process/async_main.c, async_process_main.c): *)
(* the options, one thread per server, each with a listening socket of its *)
(* own on the one port.  What a thread does once its run loop turns is     *)
(* EchoServer; here it is the service a client sees.                       *)
(***************************************************************************)
EXTENDS VerifyClient

CONSTANTS MAX_NBR_THREADS

\* The values main starts with are all replaced: an option, or this function's default
\* (which are not the ones the usage text prints: 9011, 2 and 3 for p, n and t).
process_args(given) == given @@ [h |-> "localhost", p |-> 9002, n |-> 1, t |-> 1, c |-> 1, r |-> 100]

NoServerThread == [pc |-> "none", fd |-> 0]

NoServer == [pc |-> "main", args |-> process_args(<<>>), created |-> 0, aborted |-> "no",
             thread |-> [i \in 0 .. MAX_NBR_THREADS - 1 |-> NoServerThread]]

process_main(v) == Asserting(v, v.args.t <= MAX_NBR_THREADS, "threads", [v EXCEPT !.pc = "create"])

\* main of async_main.c, as built with ONE_PROCESS: options, then process_main.
server_main(v, given) == process_main([v EXCEPT !.args = process_args(given)])

pthread_create_server(v) ==
    [v EXCEPT !.thread[v.created].pc = "created", !.created = @ + 1,
              !.pc = IF v.created + 1 = v.args.t THEN "join" ELSE @]

server_ctx_init(thread, fd) == [thread EXCEPT !.fd = fd]

\* postable_start is posted; it runs in the run loop.
server_ctx_run(thread) == [thread EXCEPT !.pc = "running"]

\* The process (v) and its view of the sockets (s) after a thread's start.
thread_function(v, s, i) ==
    LET a == create_listener_socket(s, v.args.p)
        b == socket_set_non_blocking(a, a.ret)
    IN  IF ~Alive(a) THEN [v |-> Abort(v, a.aborted), s |-> a]
        ELSE [v |-> [v EXCEPT !.thread[i] = server_ctx_run(server_ctx_init(@, a.ret))], s |-> b]

\* SIGINT: g_sref was never set, so that server_ctx_free meets a NULL pointer; its
\* assertion ends the process, which closes the sockets.
sig_handler(v) == Abort(v, "ASSERT_NOT_NULL")

-----------------------------------------------------------------------------
(* The service: echo_app.c over a connection of the server. *)

\* "ServerResponse:[" and "]" are one character each.
ServerResponse(content) == <<91>> \o content \o <<93>>

process_input_message(select, msg) ==
    MSG_SET_CONTENT(select, <<>>, ServerResponse(msg))

-----------------------------------------------------------------------------
(***************************************************************************)
(* The server program and the verify client, from their options to their   *)
(* end, on one machine: the server above and VerifyClient over sockets of  *)
(* SocketFunctions.  Threads interleave; a read gives any part of what has *)
(* arrived; the client may start before the server listens; the server may *)
(* be interrupted at any time, and an assertion of its service may end it  *)
(* where EchoServer shows that one can fail.  A response always fits in    *)
(* the empty buffer of a client that waits for it, so no write stops half  *)
(* way.                                                                    *)
(***************************************************************************)

CONSTANTS
    Settings,     \* the options of both programs and the message format: [select, server, client]
    Interrupts    \* the server may get SIGINT

VARIABLES
    csnet,        \* the sockets
    server,       \* the server process
    client,       \* the client process
    serving,      \* per end of a connection at the server: its parser, and wrote: its
                  \* reader and its writer have been used
    options       \* the setting of this behaviour

csVars == <<csnet, server, client, serving, options>>

Unserved(select) == [parser |-> MSG_PARSER_NEW(select), wrote |-> FALSE]

CsInit ==
    /\ csnet = NoNet
    /\ options \in Settings
    /\ server = NoServer
    /\ client = NoClient(options.select)
    /\ serving = [fd \in SockFd |-> Unserved(options.select)]

\* Sockets of the server: it listens on them, or accepted them.  The others are the
\* client's.
ServerFds(n) == {fd \in SockFd : n[fd].port # 0}

\* The kernel closes the sockets of a process that ends.
Closed(n, fds) == FoldSet(LAMBDA fd, m : close(Caller(m, "no"), fd).net, n, fds)

-----------------------------------------------------------------------------
(* The server. *)

ServerRuns == server.aborted = "no"

ServerStarts ==
    /\ server.pc = "main"
    /\ server' = server_main(server, options.server)
    /\ UNCHANGED <<csnet, client, serving, options>>

ServerCreates ==
    /\ server.pc = "create"
    /\ server' = pthread_create_server(server)
    /\ UNCHANGED <<csnet, client, serving, options>>

CanListen(i) == ServerRuns /\ server.thread[i].pc = "created"

ServerListens(i) ==
    /\ server.thread[i].pc = "created"
    /\ LET r == thread_function(server, Caller(csnet, "no"), i) IN
       server' = r.v /\ csnet' = r.s.net
    /\ UNCHANGED <<client, serving, options>>

\* A connection has bytes for the server, or has ended.
CanServe(fd) ==
    /\ ServerRuns
    /\ csnet[fd].port # 0 /\ csnet[fd].st = "connected"
    /\ csnet[fd].inq # <<>> \/ csnet[fd].eof

\* What the server makes of the bytes that are there, and its answers to their messages.
Parsed(fd) == MSG_PARSER_CONSUME(serving[fd].parser, csnet[fd].inq)
Answers(fd) ==
    FoldLeft(LAMBDA bytes, m :
                 bytes \o MSG_SERIALIZE(options.select, process_input_message(options.select, m)),
             <<>>, Parsed(fd).read)

\* The server takes what is there and answers every message; at the end it closes.
Serves(fd) ==
    LET k == csnet[fd]
        s == Caller([csnet EXCEPT ![fd].inq = <<>>], "no")
    IN  /\ CanServe(fd)
        /\ IF k.inq = <<>>
           THEN /\ csnet' = close(s, fd).net
                /\ serving' = [serving EXCEPT ![fd] = Unserved(options.select)]
           ELSE /\ csnet' = IF k.peer = 0 THEN s.net
                            ELSE [s.net EXCEPT ![k.peer].inq = @ \o Answers(fd)]
                /\ serving' = [serving EXCEPT ![fd] = [parser |-> Parsed(fd), wrote |-> @.wrote \/ Answers(fd) # <<>>]]
        /\ UNCHANGED <<server, client, options>>

\* The assertions that can fail meanwhile: on fields of the reader and the writer that
\* malloc left unset, until they are used; on a client that is gone before it is accepted;
\* on an end of file that comes with errno 0.  A write to a client that is gone may raise
\* SIGPIPE.
ServiceFailures(fd) ==
    LET k == csnet[fd] IN
    (IF serving[fd].wrote THEN {} ELSE {"garbage"})
        \cup (IF k.eof /\ ~serving[fd].wrote THEN {"accept failed"} ELSE {})
        \cup (IF k.inq = <<>> THEN {"no data"} ELSE {})
        \cup (IF k.peer = 0 /\ Answers(fd) # <<>> THEN {"SIGPIPE"} ELSE {})

ServerEnds(v) ==
    /\ server' = v
    /\ csnet' = Closed(csnet, ServerFds(csnet))
    /\ UNCHANGED <<client, serving, options>>

ServiceFails(fd) == CanServe(fd) /\ \E why \in ServiceFailures(fd) : ServerEnds(Abort(server, why))

Interrupted == Interrupts /\ ServerEnds(sig_handler(server))

ServerNext ==
    /\ ServerRuns
    /\ \/ ServerStarts \/ ServerCreates \/ Interrupted
       \/ \E i \in DOMAIN server.thread : ServerListens(i)
       \/ \E fd \in SockFd : Serves(fd) \/ ServiceFails(fd)

-----------------------------------------------------------------------------
(* The client. *)

ClientRuns == client.aborted = "no"

\* What main does next: it creates the threads, joins them in order, and reports.
MainStep(v) ==
    CASE v.pc = "main" -> verify_main(v, options.client)
      [] v.pc = "create" -> IF v.created < v.args.t THEN pthread_create_client(v) ELSE Consolidate(v)
      [] v.pc = "join" -> IF v.joined < v.args.t THEN pthread_join(v) ELSE Analyse(v)

CanMain ==
    /\ ClientRuns /\ client.pc # "done"
    /\ client.pc = "join" /\ client.joined < client.args.t =>
           client.thread[client.joined + 1].pc = "done"

ClientMain ==
    /\ CanMain
    /\ client' = MainStep(client)
    /\ UNCHANGED <<csnet, server, serving, options>>

\* The outcomes of a thread's next step.
ThreadStep(x, s, args) ==
    CASE x.pc = "start" -> {[s |-> s, x |-> Starts(x, args)]}
      [] x.pc = "connect" -> {ConnectsTo(s, x, args)}
      [] x.pc = "write" -> WritesRequest(s, x, client.select)
      [] x.pc = "read" -> ReadsResponse(s, x, args)
      [] x.pc = "close" -> {ClosesStream(s, x, args)}
      [] x.pc = "end" -> {[s |-> s, x |-> EndsThread(x)]}
      [] x.pc = "done" -> {}

CanThread(n) ==
    /\ ClientRuns
    /\ LET x == client.thread[n] IN
       /\ x.pc # "done"
       /\ x.pc = "read" => \/ csnet[x.stream.fd].inq # <<>> \/ csnet[x.stream.fd].eof

ClientThread(n) ==
    /\ ClientRuns
    /\ \E r \in ThreadStep(client.thread[n], Caller(csnet, "no"), client.args) :
        /\ csnet' = IF Alive(r.s) THEN r.s.net ELSE Closed(r.s.net, SockFd \ ServerFds(r.s.net))
        /\ client' = [client EXCEPT !.thread[n] = r.x, !.aborted = r.s.aborted]
    /\ UNCHANGED <<server, serving, options>>

ClientNext == ClientMain \/ \E n \in DOMAIN client.thread : ClientThread(n)

CsNext == ServerNext \/ ClientNext

CsSpec == CsInit /\ [][CsNext]_csVars

\* Every thread that can go on does: the scheduler runs the server's threads and the
\* client's, and what has arrived is served.
CsFairness ==
    /\ []<>~(ServerRuns /\ server.pc \in {"main", "create"})
           \/ []<><<ServerStarts \/ ServerCreates>>_csVars
    /\ \A i \in 0 .. MAX_NBR_THREADS - 1 : []<>~CanListen(i) \/ []<><<ServerListens(i)>>_csVars
    /\ \A fd \in SockFd : []<>~CanServe(fd) \/ []<><<Serves(fd)>>_csVars
    /\ []<>~CanMain \/ []<><<ClientMain>>_csVars
    /\ \A n \in 1 .. 2 : []<>~(n \in DOMAIN client.thread /\ CanThread(n))
                             \/ []<><<n \in DOMAIN client.thread /\ ClientThread(n)>>_csVars

CsFairSpec == CsSpec /\ CsFairness

-----------------------------------------------------------------------------
(* Properties *)

\* Every response the client takes is the server's answer to the request it has just
\* written (verify_response): one parser per thread serves all of its connections, and a
\* response may come in any pieces.  When the client reports, it reports every round trip
\* once, the threads in order: as its usage text says, "(-t) * (-c) * (-r)" of them, though
\* the array of all readings is sized before the options are read.
RoundTripsVerified ==
    /\ \A n \in DOMAIN client.thread : client.thread[n].verified
    /\ client.pc = "done" =>
        LET a == client.args
            Expected == [k \in 1 .. a.t * a.c * a.r |->
                RoundTrip((k - 1) \div (a.c * a.r), ((k - 1) \div a.r) % a.c, ((k - 1) % a.r) + 1)]
        IN  /\ client.all_readings.readings = Expected
            /\ client.report.total_nbr_roundtrips = a.t * a.c * a.r

\* The client ends by an assertion only when it is refused, when the server ends under it,
\* or when it is told to make no round trip (-r 0: the array of readings cannot grow).  It
\* never writes behind an array of readings.
ClientAborts ==
    client.aborted \in {"no", "connect"}
        \cup (IF ServerRuns THEN {} ELSE {"read", "SIGPIPE"})
        \cup (IF client.args.r = 0 THEN {"rta_expand"} ELSE {})

\* The client is refused only while no thread of the server listens: both programs use the
\* same port, 9002, when neither is given one, and one listening thread is enough.
RefusedUnheard ==
    [][client.aborted = "no" /\ client'.aborted = "connect" =>
           \A i \in DOMAIN server.thread : server.thread[i].pc # "running" \/ ~ServerRuns]_csVars

\* All threads of the server come to listen on the one port: none fails to make a socket,
\* to bind or to listen.  What ends the server are its limit of threads, SIGINT, and the
\* assertions of its service.
ServerAborts ==
    server.aborted \in {"no", "ASSERT_NOT_NULL", "garbage", "accept failed", "no data", "SIGPIPE"}
        \cup (IF server.args.t > MAX_NBR_THREADS THEN {"threads"} ELSE {})

\* The two programs end as they should, or by one of these assertions.
OnlyKnownEnds == [](ClientAborts /\ ServerAborts) /\ RefusedUnheard

\* The client comes to an end: it never waits for a response that does not come.
ClientEnds == <>[](client.pc = "done" \/ ~ClientRuns)
=============================================================================
