----------------------------- MODULE HttpServer -----------------------------
(***************************************************************************)
(* The HTTP server (http_server.c) on the epoll runloop, with clients.     *)
(* The thread runs the runloop; other servers may take connections from    *)
(* the listening socket they share.  A client sends requests in pieces,    *)
(* well formed or not, in any timing, reads the responses slowly, ends or  *)
(* resets its connection.  One action is one callback, run to its end.     *)
(***************************************************************************)
EXTENDS HttpConnection, TLC

CONSTANTS Loads,        \* bounds on what the client of each connection sends, -1 for no client
          MaxAccepted   \* bound on the connections of a behaviour

ASSUME HttpAssumption ==
    /\ Watcher = Stream \cup Listener /\ RESPONSE_LEN \in Nat \ {0}
    /\ Loads \subseteq [Stream -> Nat \cup {-1}] /\ MaxAccepted \in Nat /\ READ_BUFFER \in Nat \ {0}

VARIABLES conns,   \* the connections that wait on the listening socket
          hist     \* history, below

httpVars == <<rl, ready, batch, loop, result, conns, hist>>

\* sent: what a connection's client has sent; got: response pieces it was given; accepted:
\* connections so far; stolen: a connection was taken from the listening socket, or it was
\* closed; early: a connection had ended when it was accepted, or, in a build without
\* assertions, something malformed had been sent on it; load: the member of Loads.
NoHist == [sent |-> [s \in Stream |-> <<>>], got |-> [s \in Stream |-> 0],
           accepted |-> 0, stolen |-> FALSE, early |-> FALSE, load |-> [s \in Stream |-> -1]]

\* What the kernel reports of the sockets.
Events(k) ==
    {e \in {"IN", "OUT", "RDHUP", "HUP", "ERR"} :
        CASE e = "IN" -> k.in # <<>> \/ k.fin \/ k.reset
          [] e = "OUT" -> ~k.full \/ k.reset
          [] e = "RDHUP" -> k.fin \/ k.reset
          [] OTHER -> k.reset}
HttpReady(r, waiting) ==
    {<<fdOf[l], "IN">> : l \in IF waiting = <<>> THEN {} ELSE Listener}
    \cup UNION {{<<fdOf[s], e>> : e \in Events(r.sock[s])} : s \in {s \in Stream : r.asio[s].open}}

http_server_init ==
    LET r == runloop_new @@ [stream |-> [s \in Stream |-> NoStream],
                             listener |-> [l \in Listener |-> NoListener],
                             asio |-> [s \in Stream |-> NoAsio], http |-> [s \in Stream |-> NoHttp],
                             sock |-> [s \in Stream |-> NoSock], handler_list |-> {}, ndebug |-> FALSE]
    IN  [r EXCEPT !.listener = [l \in Listener |-> [NoListener EXCEPT !.open = TRUE]]]
http_server_new == http_server_init

HttpInit ==
    /\ \E build \in BOOLEAN : rl = [http_server_new EXCEPT !.ndebug = build]
    /\ ready = {} /\ batch = <<>> /\ loop = "setup" /\ result = NULL
    /\ conns = <<>>
    /\ \E load \in Loads : hist = [NoHist EXCEPT !.load = load]

-----------------------------------------------------------------------------
(* The server. *)

http_server_listen ==
    /\ loop = "setup"
    /\ \E l \in Listener : rl' = runloop_listener_register(rl, l, "on_event_listening")
    /\ loop' = "top"
    /\ UNCHANGED <<ready, batch, result, conns, hist>>

\* Every callback ends here.
Ran(r, waiting, h) ==
    /\ rl' = r /\ conns' = waiting /\ hist' = h
    /\ ready' = HttpReady(r, waiting)
    /\ UNCHANGED result

EventRan(r, waiting, h) == Ran(r, waiting, h) /\ batch' = Tail(batch) /\ loop' = AfterEvent

\* A failed accept goes on with descriptor -1, which no later call accepts.
on_event_listening(l) ==
    LET r == Delivered(l) IN
    IF conns = <<>> THEN EventRan(Abort(r, "accept"), conns, hist)
    ELSE \E s \in Stream :
           /\ ~r.asio[s].open /\ \A other \in Stream : fdOf[other] < fdOf[s] => r.asio[other].open
           /\ LET made == http_handler_new([r EXCEPT !.sock[s] = Head(conns)], s)
                  listed == IF Alive(made) THEN [made EXCEPT !.handler_list = @ \cup {s}] ELSE made
              IN  EventRan(listed, Tail(conns),
                           [hist EXCEPT !.accepted = @ + 1, !.sent[s] = Head(conns).in, !.got[s] = 0,
                                        !.early = @ \/ Head(conns).fin \/ Head(conns).reset
                                                    \/ (rl.ndebug /\ \E i \in DOMAIN Head(conns).in :
                                                                         Head(conns).in[i] = "x")])

\* The stream's handler: reading, then writing.
stream_handler(r, s) ==
    LET in == IF CallsReader(r, s) THEN ReadReturned(epollin_postable_cb(r, s), s) ELSE r
    IN  IF Alive(in) /\ CallsWriter(in, s) THEN ReadReturned(epollout_postable_cb(in, s), s) ELSE in

HttpDispatch ==
    /\ Alive(rl) /\ loop = "events"
    /\ LET w == Head(batch) IN
       \/ w \in Listener /\ on_event_listening(w)
       \/ w \in Stream /\ EventRan(stream_handler(Delivered(w), w), conns, hist)

\* A functor of the ready list.
HttpFunctor ==
    /\ Alive(rl) /\ loop = "top" /\ rl.ready_list # <<>>
    /\ UNCHANGED <<batch, loop>>
    /\ LET f == Head(rl.ready_list)[1]
           s == Head(rl.ready_list)[2]
           r == [rl EXCEPT !.ready_list = Tail(@)]
       IN  \/ f = "postable_write_start" /\ Ran(postable_write_start(r, s), conns, hist)
           \/ f = "postable_write_call_cb" /\ Ran(postable_write_call_cb(r, s), conns, hist)
           \/ f = "handler_postable_read_start" /\ Ran(http_connection_read(r, s), conns, hist)
           \/ f = "postable_writer"
              /\ \E n \in WriteResults(rl.sock[s], rl.http[s].active_output) :
                    LET done == postable_writer(r, s, n)
                    IN  Ran(done, conns, [hist EXCEPT !.got[s] = IF n > 0 /\ Alive(done) THEN @ + n ELSE @])

HttpWait == runloop_run_wait /\ UNCHANGED <<conns, hist>>

\* A signal ends runloop_run, and with it http_server_listen.
HttpInterrupted == runloop_run_interrupted /\ UNCHANGED <<conns, hist>>

\* The table keeps the listener.
http_server_terminate ==
    /\ Alive(rl) /\ loop \in {"top", "events"}
    /\ \E l \in Listener :
          /\ rl.epoll[fdOf[l]] # NULL
          /\ Ran(close_fd(rl, fdOf[l]), <<>>, [hist EXCEPT !.stolen = TRUE])
    /\ UNCHANGED <<batch, loop>>

\* runloop_free closes what the table still has.  A build without assertions is not followed
\* past an epoll_ctl that fails.
http_server_free ==
    /\ Alive(rl) /\ loop = "returned"
    /\ \E l \in Listener :
          (rl.ndebug => rl.epoll[fdOf[l]] # NULL) /\
          LET r == runloop_close(runloop_listener_free(runloop_listener_deregister(rl, l), l))
          IN  Ran(BuildAsserting(r, r.handler_list = {}, "handler_list", r), <<>>, hist)
    /\ loop' = "freed"
    /\ UNCHANGED batch

-----------------------------------------------------------------------------
(* Clients and the other servers. *)

\* What a client may send next.
Follows(sent) ==
    IF \E i \in DOMAIN sent : sent[i] = "x" THEN {}
    ELSE IF sent # <<>> /\ sent[Len(sent)] = "h" THEN {"t", "x"} ELSE {"h", "x"}

Changes(k, sent, most) ==
    (IF k.fin \/ k.reset \/ Len(sent) >= most THEN {}
     ELSE {[k EXCEPT !.in = Append(@, p)] : p \in Follows(sent)})
    \cup {[k EXCEPT !.fin = ~k.reset], [k EXCEPT !.full = ~@],
          [NoSock EXCEPT !.reset = TRUE]}

Client ==
    /\ Alive(rl)
    /\ \E s \in Stream : rl.asio[s].open /\
          \E k \in Changes(rl.sock[s], hist.sent[s], hist.load[s]) :
             LET r == [rl EXCEPT !.sock[s] = k] IN
             /\ k # rl.sock[s]
             /\ rl' = r /\ ready' = HttpReady(r, conns)
             /\ hist' = IF Len(k.in) > Len(rl.sock[s].in)
                        THEN [hist EXCEPT !.sent[s] = Append(@, k.in[Len(k.in)])] ELSE hist
    /\ UNCHANGED <<batch, loop, result, conns>>

\* A client connects, having sent a little or ended; or another server accepts.
Connect ==
    /\ Alive(rl) /\ loop # "freed"
    /\ \E l \in Listener : rl.epoll[fdOf[l]] # NULL
    /\ \/ /\ hist.accepted + Len(conns) < MaxAccepted
          /\ Cardinality({s \in Stream : rl.asio[s].open}) + Len(conns)
                < Cardinality({s \in Stream : hist.load[s] # -1})
          /\ \E in \in {<<>>, <<"h", "t">>, <<"x">>} : \E fin \in {FALSE, in = <<>>} :
                conns' = Append(conns, [NoSock EXCEPT !.in = in, !.fin = fin])
          /\ UNCHANGED hist
       \/ /\ conns # <<>>
          /\ conns' = Tail(conns) /\ hist' = [hist EXCEPT !.stolen = TRUE]
    /\ ready' = HttpReady(rl, conns')
    /\ UNCHANGED <<rl, batch, loop, result>>

ServerSteps == http_server_listen \/ HttpDispatch \/ HttpFunctor \/ HttpWait

HttpNext ==
    \/ ServerSteps
    \/ HttpInterrupted
    \/ http_server_terminate
    \/ http_server_free
    \/ Client
    \/ Connect

HttpSpec == HttpInit /\ [][HttpNext]_httpVars

\* The thread keeps running: weak fairness of HttpDispatch and HttpFunctor.  The actions and
\* when they are enabled are spelt out: only HttpDispatch shortens the batch, and at the top
\* of the loop only HttpFunctor changes the ready list or a connection.
CanDispatch == Alive(rl) /\ loop = "events"
Dispatched == batch # <<>> /\ batch' = Tail(batch)
CanRunFunctor == Alive(rl) /\ loop = "top" /\ rl.ready_list # <<>>
FunctorRan == loop = "top" /\ <<rl.http, rl.ready_list>>' # <<rl.http, rl.ready_list>>
ThreadRuns ==
    /\ []<>~CanDispatch \/ []<><<Dispatched>>_httpVars
    /\ []<>~CanRunFunctor \/ []<><<FunctorRan>>_httpVars

\* epoll_wait reports a stream that is ready again and again: strong fairness of HttpWait.
Reported(s) == batch = <<>> /\ \E i \in DOMAIN batch' : batch'[i] = s
EveryTurnComes ==
    \A s \in Stream : <>[]~(AtEpollWait /\ fdOf[s] \in Reportable) \/ []<><<Reported(s)>>_httpVars

HttpFairSpec == HttpSpec /\ ThreadRuns /\ EveryTurnComes

-----------------------------------------------------------------------------
(* What a connection waits for, between two callbacks. *)

Live(s) == rl.http[s].alive
WaitsToRead(s) ==
    rl.asio[s].read_state = "eagain" /\ rl.asio[s].read_callback /\ "IN" \in rl.interest[fdOf[s]]
Posts(s) == {i \in DOMAIN rl.ready_list : rl.ready_list[i][2] = s}
\* A write found the send buffer full.
BlockedWrite(s) == rl.asio[s].write_callback
\* A buffer was read that did not complete a request.
StalledRead(s) == rl.http[s].on_read_cb /\ ~rl.asio[s].read_callback /\ rl.http[s].head

Indicator(b) == IF b THEN 1 ELSE 0
Between == Alive(rl) /\ loop # "freed"

\* A connection is one chain of callbacks: between two of them exactly one thing is
\* outstanding, a read or a functor, or the chain has ended in one of two ways, a request
\* read in part and a write that found the send buffer full.
OneStepPending ==
    Between => \A s \in Stream :
        Indicator(WaitsToRead(s)) + Cardinality(Posts(s))
            + Indicator(BlockedWrite(s)) + Indicator(StalledRead(s)) = Indicator(Live(s))

\* Requests the handler of s was given.
Handled(s) ==
    Cardinality({i \in DOMAIN hist.sent[s] :
                    hist.sent[s][i] = "t" /\ i <= Len(hist.sent[s]) - Len(rl.sock[s].in)})
        - rl.http[s].input_messages

\* Every request a handler was given is answered by exactly one response, no piece of which
\* is written twice or left out, whatever short writes there are and however many requests
\* one read returns.
AnsweredOnce ==
    Between => \A s \in Stream : Live(s) /\ ~rl.sock[s].reset =>
        hist.got[s] + rl.http[s].active_output + RESPONSE_LEN * rl.http[s].output_list
            = RESPONSE_LEN * Handled(s)

\* The server's list, the runloop's table and the open sockets are the same connections:
\* asio_stream_close leaves out runloop_stream_deregister and frees the descriptor.
HandlersMatchTable ==
    Between => \A s \in Stream :
        /\ Live(s) <=> s \in rl.handler_list
        /\ Live(s) <=> rl.entries[fdOf[s]] = s
        /\ Live(s) <=> rl.asio[s].open

SomeSent(p) == \E s \in Stream : \E i \in DOMAIN hist.sent[s] : hist.sent[s][i] = p

\* What can stop the server, and nothing else does: the assertion in postable_writer at the
\* first response, a malformed request, a client that has ended before it is accepted, an
\* accept that fails, a full send buffer, a reset connection, and being freed with the
\* listener closed or with connections.
HttpStops ==
    CASE rl.aborted = "no" -> TRUE
      [] rl.aborted = "write_state" -> ~rl.ndebug /\ SomeSent("t")
      [] rl.aborted = "unconsumed" -> ~rl.ndebug /\ SomeSent("x")
      [] rl.aborted = "List_find" -> hist.early
      [] rl.aborted = "accept" -> hist.stolen
      [] rl.aborted = "read_callback" -> \E s \in Stream : BlockedWrite(s)
      [] rl.aborted = "SIGPIPE" -> \E s \in Stream : rl.sock[s].reset
      [] rl.aborted = "epoll_ctl" -> loop = "freed" /\ hist.stolen
      [] rl.aborted = "handler_list" -> loop = "freed" /\ rl.handler_list # {}
      [] OTHER -> FALSE

\* What a client sends is read and answered, unless the connection has stalled in one of
\* the two ways of OneStepPending, or some connection was reset: without assertions its
\* write is tried again for ever, and nothing else is.
ServedUnlessStalled ==
    \A s \in Stream :
        ~<>[](/\ Alive(rl) /\ loop \notin {"returned", "freed"} /\ Live(s)
              /\ ~StalledRead(s) /\ ~BlockedWrite(s) /\ \A t \in Stream : ~rl.sock[t].reset
              /\ (rl.sock[s].in # <<>> \/ rl.http[s].output_list > 0 \/ rl.http[s].active_response))
=============================================================================
