----------------------------- MODULE EchoServer -----------------------------
(***************************************************************************)
(* One thread of the echo server: server_ctx.c accepts connections, and an *)
(* echo_app.c per connection answers each request, over the message        *)
(* stream, the TCP stream, the listener and the kqueue runloop.  Clients   *)
(* connect, send, receive and close as they like.  A step of the server is *)
(* one callback, with every call it makes.                                 *)
(***************************************************************************)
EXTENDS TcpStream

CONSTANTS Conn,      \* connections, named by their descriptor and entry
          Loads      \* bound: per connection, the requests its client sends (-1: no client)

ASSUME ServerAssumption ==
    LISTENER \notin Conn /\ NoSock \notin Conn /\ Loads \subseteq [Conn -> Int]

\* Loads for TLC: every client sends one request; one client sends three ahead.
OneEach == [c \in Conn |-> 1]
Pipeline == LET ahead == CHOOSE c \in Conn : TRUE IN [c \in Conn |-> IF c = ahead THEN 3 ELSE -1]
BothLoads == {OneEach, Pipeline}
OnlyPipeline == {Pipeline}

VARIABLES s,         \* the server and the kernel's sockets
          batch,     \* entries of the events kevent returned, undelivered
          load       \* the load of this behaviour

vars == <<s, batch, load>>

-----------------------------------------------------------------------------
(* echo_app.c and server_ctx.c, callees first *)

msg_write_callback(st, c, error) == runloop_post(st, "postable_read", c)

echo_app_init(st, c) == msg_stream_new(st, c)
echo_app_new(st, c) == echo_app_init(st, c)
echo_app_free(st, c) == msg_stream_free(st, c)

app_instance_done_cb(st, c, error) ==
    Asserting(st, c \in st.connection_list, "not in list",
        echo_app_free([st EXCEPT !.connection_list = @ \ {c}], c))

read_error(st, c, error) == app_instance_done_cb(st, c, error)

\* The response carries the content of the request.
msg_read_callback(st, c, msg, error) ==
    IF error # "0" THEN {read_error(st, c, error)} ELSE msg_stream_write(st, c, msg)

postable_read(st, c) == msg_stream_read(st, c)

echo_app_run(st, c) == runloop_post(st, "postable_read", c)

postable_start(st) == tcp_accept(st)

\* Mutant: the next accept is not started.
handle_new_socket_last(st, new_sock, error) ==
    Checking(st, new_sock # NoSock, "accept failed",
        {echo_app_run([t EXCEPT !.connection_list = @ \cup {new_sock}], new_sock)
             : t \in echo_app_new(st, new_sock)})

handle_new_socket(st, new_sock, error) ==
    Checking(st, new_sock # NoSock, "accept failed",
        {runloop_post(echo_app_run([t EXCEPT !.connection_list = @ \cup {new_sock}], new_sock),
                      "postable_start", LISTENER)
             : t \in echo_app_new(st, new_sock)})

\* The context is the thread's whole state: its runloop is new, its listener holds an entry.
server_ctx_init ==
    [ready_list |-> <<>>, in_use |-> {LISTENER}, filters |-> {}, aborted |-> "no", errno |-> "0",
     call |-> NoCall, conn |-> [c \in Conn |-> NoMsgStream], connection_list |-> {},
     lsn |-> tcp_listener_new, acceptq |-> <<>>, sock |-> [c \in Conn |-> NoSocket]]
server_ctx_new == server_ctx_init

server_ctx_run(ctx) == runloop_post(ctx, "postable_start", LISTENER)

\* thread_function goes on to runloop_run.
Init == s = server_ctx_run(server_ctx_new) /\ batch = <<>> /\ load \in Loads

-----------------------------------------------------------------------------
(* The server thread: runloop_run *)

\* The server's callbacks: a message read leads to a write, a write to a post.
AfterWrite(S) ==
    {IF Calls(t, "msg_write") THEN msg_write_callback(Entered(t), t.call[2], t.call[4]) ELSE t : t \in S}
AfterRead(S) ==
    AfterWrite(UNION {IF Calls(t, "msg_read")
                      THEN msg_read_callback(Entered(t), t.call[2], t.call[3], t.call[4])
                      ELSE {t} : t \in S})
AfterAccept(S) ==
    UNION {IF Calls(t, "accept") THEN handle_new_socket(Entered(t), t.call[2], t.call[4]) ELSE {t}
               : t \in S}

Called(f, c, st) ==
    CASE f = "postable_start" -> {postable_start(st)}
      [] f = "postable_try_accept" -> AfterAccept(postable_try_accept(st))
      [] f = "postable_read" -> AfterRead(postable_read(st, c))
      [] f = "msg_postable_read" -> AfterRead(msg_postable_read(st, c))
      [] f = "postable_try_write" -> AfterWrite(postable_try_write(st, c))

RunFunctor ==
    /\ Alive(s) /\ batch = <<>> /\ s.ready_list # <<>>
    /\ LET f == Head(s.ready_list)
       IN  s' \in Called(f[1], f[2], [s EXCEPT !.ready_list = Tail(@)])
    /\ UNCHANGED <<batch, load>>

Ready == {c \in s.filters \cap Conn : Readable(s.sock[c])}
             \cup {e \in s.filters \cap {LISTENER} : s.acceptq # <<>>}

\* kevent returns the events there are, in any order: its table has room for all.
Wait ==
    /\ MustWait(s) /\ batch = <<>> /\ Ready # {}
    /\ batch' \in SetToSeqs(Ready)
    /\ s' = Reported(s, batch', {LISTENER})
    /\ UNCHANGED load

DispatchEvent ==
    /\ Alive(s) /\ batch # <<>>
    /\ LET e == Head(batch)
       IN  s' \in Dispatching(s, e,
               IF e = LISTENER THEN AfterAccept(on_accept_ready(s))
               ELSE AfterRead(on_read_event(s, e)))
    /\ batch' = Tail(batch)
    /\ UNCHANGED load

ServerStep == RunFunctor \/ Wait \/ DispatchEvent

-----------------------------------------------------------------------------
(* The clients *)

InQueue(c) == \E i \in DOMAIN s.acceptq : s.acceptq[i] = c

\* The socket listens before the thread starts its loop.  A new connection gets the
\* number of one the server has closed.
Connect(c) ==
    /\ Alive(s) /\ load[c] >= 0
    /\ s.sock[c].peer # "open" /\ c \notin s.in_use /\ ~InQueue(c)
    /\ s' = [s EXCEPT !.sock[c] = NewSocket, !.acceptq = Append(@, c)]
    /\ UNCHANGED <<batch, load>>

Send(c) ==
    /\ Alive(s) /\ s.sock[c].peer = "open" /\ s.sock[c].sent < 2 * load[c]
    /\ s' = [s EXCEPT !.sock[c].sent = @ + 1, !.sock[c].inq = Append(@, s.sock[c].sent + 1)]
    /\ UNCHANGED <<batch, load>>

Receive(c) ==
    /\ Alive(s) /\ s.sock[c].peer = "open" /\ s.sock[c].taken < Len(s.sock[c].out)
    /\ s' = [s EXCEPT !.sock[c].taken = @ + 1]
    /\ UNCHANGED <<batch, load>>

\* A connection still in the accept queue may also vanish from it.
Close(c) ==
    /\ Alive(s) /\ s.sock[c].peer = "open"
    /\ \E p \in {"closed", "reset"} : s' \in
           {[s EXCEPT !.sock[c].peer = p],
            [s EXCEPT !.sock[c].peer = p, !.acceptq = SelectSeq(@, LAMBDA d : d # c)]}
    /\ UNCHANGED <<batch, load>>

Next ==
    \/ ServerStep
    \/ \E c \in Conn : Connect(c) \/ Send(c) \/ Receive(c) \/ Close(c)

Spec == Init /\ [][Next]_vars

\* The thread has a functor to run, an event to deliver or one to wait for.
ServerCanStep == Alive(s) /\ (batch # <<>> \/ s.ready_list # <<>> \/ Ready # {})

\* The thread runs: this is WF_vars(ServerStep), with its ENABLED spelled out.
ThreadRuns == []<>~ServerCanStep \/ []<><<ServerStep>>_vars

\* runloop_run drains the ready list before it looks for events, and accepting a
\* connection posts functors: clients that never stop connecting keep it there.
ConnectingStops == <>[][\A c \in Conn : ~Connect(c)]_vars

\* Clients read what they are sent.
FairSpec == Spec /\ ThreadRuns /\ ConnectingStops /\ \A c \in Conn : WF_vars(Receive(c))

-----------------------------------------------------------------------------
\* The kernel takes all responses of the connection, whether or not its client reads.
ResponsesFit(c) == load[c] \in -1 .. SNDBUF \div 2

Functors == {"postable_start", "postable_try_accept", "postable_read", "msg_postable_read",
             "postable_try_write"}

\* The types of the fields.
TypeOK ==
    /\ s.in_use \subseteq Conn \cup {LISTENER} /\ s.filters \subseteq s.in_use
    /\ s.connection_list \subseteq Conn /\ s.call = NoCall
    /\ \A i \in DOMAIN s.ready_list : s.ready_list[i] \in Functors \X (Conn \cup {LISTENER})
    /\ \A c \in Conn : /\ s.conn[c].rd \in {"null", "set", "garbage"}
                       /\ s.conn[c].wr \in {"null", "set", "garbage"}
                       /\ Len(s.sock[c].out) <= 2 * load[c] \/ s.sock[c].out = <<>>

\* The responses on a connection are those to its requests, in order, each once and
\* whole, whatever the sizes of the reads and writes.
ResponsesInOrder ==
    \A c \in Conn : \A i \in DOMAIN s.sock[c].out : s.sock[c].out[i] = i

\* When the loop waits, each connection waits for its client in exactly one way: a read
\* is pending and armed, or a write could not go on.  So a read event always finds a
\* read pending, unless a write is stuck.
WaitingForClient ==
    MustWait(s) /\ batch = <<>> =>
        \A c \in s.in_use \cap Conn :
            \/ s.conn[c].rd = "set" /\ c \in s.filters /\ s.conn[c].wr # "set"
            \/ s.conn[c].rd # "set" /\ s.conn[c].wr = "set" /\ s.conn[c].write_state = "EAGAIN"

\* A connection is in the server's list exactly while it holds an entry, and when the
\* loop waits the listener is armed with an accept pending.
EntriesMatch ==
    Alive(s) =>
        /\ s.connection_list = s.in_use \ {LISTENER}
        /\ MustWait(s) /\ batch = <<>> => LISTENER \in s.filters /\ s.lsn.accept_cb

\* Of the assertions on the way only those of a failed listen(), before any connection,
\* of a failed accept (new_sock != 0), of fields
\* malloc left unset (a read or write pending), of an end of file reported with errno 0
\* and of a read event during a stuck write can fail: no event meets a released entry,
\* no operation starts twice, and the ready list and the event table never need more
\* than one place per connection and one for the listener.
\* With room for all responses a read event never comes without a read.
KnownAborts ==
    /\ s.aborted \in {"no", "listen failed", "accept failed", "garbage", "no data", "no buffer", "SIGPIPE"}
    /\ s.aborted = "listen failed" => s.connection_list = {}
    /\ s.aborted = "no buffer" => \E c \in Conn : ~ResponsesFit(c)

\* A read event never comes without a read: assert(iob != NULL).
ReadEventHasRead == s.aborted # "no buffer"

\* The client waits for the response to its request n; it has it, or is gone.
Asked(c, n) == s.sock[c].peer = "open" /\ s.sock[c].sent >= 2 * n
Settled(c, n) == s.sock[c].taken >= 2 * n \/ s.sock[c].peer # "open" \/ ~Alive(s)

\* "A server instance responds by sending back the request message." (async_main.c)
Responded == \A c \in Conn : \A n \in 1 .. SNDBUF : Asked(c, n) ~> Settled(c, n)

\* With room for the responses the server does respond.
RespondedIfRoom ==
    \A c \in Conn : \A n \in 1 .. SNDBUF \div 2 :
        (ResponsesFit(c) /\ Asked(c, n)) ~> Settled(c, n)

\* Every connection a client makes is accepted, or given up by the client; and, with room
\* for the responses, one that its client has closed is released.
ConnectionsTurnOver ==
    \A c \in Conn :
        /\ InQueue(c) ~> (~InQueue(c) \/ ~Alive(s))
        /\ (ResponsesFit(c) /\ c \in s.in_use /\ s.sock[c].peer # "open")
                ~> (c \notin s.in_use \/ ~Alive(s))
=============================================================================
