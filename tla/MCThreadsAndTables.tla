------------------------- MODULE MCThreadsAndTables -------------------------
(***************************************************************************)
(* Five parts of the project side by side: the functor ring, the event     *)
(* table, the socket queue and the watchers of the epoll runloop, about    *)
(* which the project has theorems, and the client and the server process   *)
(* with their threads.  A behaviour is about one of them; the others stay  *)
(* as they were created.                                                   *)
(***************************************************************************)
EXTENDS FunctorList, EventTable, SocketQueue, WatcherClient, ClientServer

VARIABLE subject   \* the part the behaviour is about

partsVars == <<subject, functorVars, tableVars, queueVars, clientVars, csVars>>

PartsInit ==
    /\ subject \in {"functor list", "event table", "socket queue", "watchers", "client and server"}
    /\ functor_list_new
    /\ event_table_init
    /\ QueueInit
    /\ WcInit
    /\ subject # "watchers" => used = CHOOSE u \in Uses : TRUE
    /\ CsInit
    /\ subject # "client and server" => options = CHOOSE o \in Settings : TRUE

About(name, step, others) == subject = name /\ step /\ UNCHANGED <<subject, others>>

PartsNext ==
    \/ About("functor list", FunctorNext, <<tableVars, queueVars, clientVars, csVars>>)
    \/ About("event table", TableNext, <<functorVars, queueVars, clientVars, csVars>>)
    \/ About("socket queue", QueueNext, <<functorVars, tableVars, clientVars, csVars>>)
    \/ About("watchers", WcNext, <<functorVars, tableVars, queueVars, csVars>>)
    \/ About("client and server", CsNext, <<functorVars, tableVars, queueVars, clientVars>>)

\* The fairness of FairQueueSpec, WcFairSpec and CsFairSpec, each of the behaviours about
\* its part.
OnQueue == subject = "socket queue"
OnWatchers == subject = "watchers"
OnProcesses == subject = "client and server"

QueueIsFair ==
    /\ \A t \in Producer : WF_queueVars(OnQueue /\ ProducerStep(t))
    /\ \A t \in Consumer : WF_queueVars(OnQueue /\ Queue_remove(t))

WatchersAreFair ==
    /\ WF_clientVars(OnWatchers /\ Run)
    /\ WF_clientVars(OnWatchers /\ Dispatch)
    /\ WF_clientVars(OnWatchers /\ Return)
    /\ \A w \in Timer \cup Eventfd :
        SF_clientVars(OnWatchers /\ Wait /\ \E i \in DOMAIN batch' : batch'[i] = w)
    /\ \A t \in Timer : WF_clientVars(OnWatchers /\ Expires(t))

ProcessesAreFair ==
    /\ []<>~(OnProcesses /\ ServerRuns /\ server.pc \in {"main", "create"})
           \/ []<><<OnProcesses /\ (ServerStarts \/ ServerCreates)>>_csVars
    /\ \A i \in 0 .. MAX_NBR_THREADS - 1 :
        []<>~(OnProcesses /\ CanListen(i)) \/ []<><<OnProcesses /\ ServerListens(i)>>_csVars
    /\ \A fd \in SockFd : []<>~(OnProcesses /\ CanServe(fd)) \/ []<><<OnProcesses /\ Serves(fd)>>_csVars
    /\ []<>~(OnProcesses /\ CanMain) \/ []<><<OnProcesses /\ ClientMain>>_csVars
    /\ \A n \in 1 .. 2 :
        []<>~(OnProcesses /\ n \in DOMAIN client.thread /\ CanThread(n))
           \/ []<><<OnProcesses /\ n \in DOMAIN client.thread /\ ClientThread(n)>>_csVars

\* The functor ring and the event table are used from one thread, which may stop calling.
PartsSpec ==
    /\ PartsInit /\ [][PartsNext]_partsVars
    /\ QueueIsFair /\ WatchersAreFair /\ ProcessesAreFair

\* In the socket queue sockets keep flowing as long as threads keep calling; the client
\* comes to an end, never waiting for a response that does not come.  (A behaviour is about
\* one part throughout.)
PartsProgress ==
    /\ []<>OnQueue => SocketsFlow
    /\ []<>OnProcesses => ClientEnds

-----------------------------------------------------------------------------
(* A ring of capacity 4 (three functors) over two functors; a table of four  *)
(* entries (five cells in the ring of free indices); two producers and two   *)
(* consumers on a queue of two sockets; a timer, an eventfd, a stream and a   *)
(* listener, used two at a time; and six pairs of command lines for the      *)
(* server and the client.                                                    *)

Opt(t, c, r) == [t |-> t, c |-> c, r |-> r]
MCSettings ==
    {[select |-> "demo", server |-> [t |-> 2], client |-> Opt(2, 1, 1)],
     [select |-> "newline", server |-> <<>>, client |-> Opt(1, 2, 2)],
     [select |-> "demo", server |-> <<>>, client |-> Opt(1, 1, 4)],
     [select |-> "newline", server |-> [t |-> 3], client |-> <<>>],
     [select |-> "newline", server |-> <<>>, client |-> Opt(1, 0, 1)],
     [select |-> "demo", server |-> <<>>, client |-> Opt(1, 1, 0)]}
=============================================================================
