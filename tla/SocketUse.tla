----------------------------- MODULE SocketUse ------------------------------
(***************************************************************************)
(* Two processes that use the socket helpers in any order: the one listens *)
(* on a port, the other connects to it, and both set options, write, read, *)
(* shut down and close their ends of the connection.                       *)
(***************************************************************************)
EXTENDS SocketFunctions, SequencesExt

CONSTANTS
    SockPort,   \* the port numbers
    MaxBytes    \* bytes a process writes

VARIABLES
    net,        \* the sockets
    died,       \* per process, the assertion that ended it
    ends,       \* per process, its end of the connection (0: none)
    wrote,      \* per process, the bytes of its writes that took some
    heard,        \* per process, the bytes it has read
    told,       \* per process, the status of its last read
    opened,     \* per process, the helpers that opened its sockets, with their ports
    closed,     \* processes that have closed their end
    tuning      \* the options this behaviour's processes set

sockVars == <<net, died, ends, wrote, heard, told, opened, closed, tuning>>

Peers == {"server", "client"}
Other(p) == IF p = "server" THEN "client" ELSE "server"

SockInit ==
    /\ net = NoNet
    /\ died = [p \in Peers |-> "no"]
    /\ ends = [p \in Peers |-> 0]
    /\ wrote = [p \in Peers |-> <<>>] /\ heard = [p \in Peers |-> <<>>]
    /\ told = [p \in Peers |-> "none"]
    /\ opened = [p \in Peers |-> {}]
    /\ closed = {}
    /\ tuning \in {"blocking", "timeout", "shutdown"}

Self(p) == Caller(net, died[p])

\* The result of a call of p; the kernel closes the end of a process that dies.
Call(p, t) ==
    /\ net' = IF Alive(t) \/ ends[p] = 0 THEN t.net ELSE close(t, ends[p]).net
    /\ died' = [died EXCEPT ![p] = t.aborted]

-----------------------------------------------------------------------------

Opened(p, how, port, t) ==
    /\ Call(p, t)
    /\ opened' = [opened EXCEPT ![p] = @ \cup {<<how, port>>}]
    /\ UNCHANGED <<ends, wrote, heard, told, closed>>

Listens(port) ==
    LET s == Self("server") IN
    \/ Opened("server", "bound", port, create_bound_socket(s, port))
    \/ Opened("server", "listener", port, create_listener_socket(s, port))
    \/ Opened("server", "on_port", port, socket_create_listener_on_port(s, port))

\* The server takes the other end as soon as there is one.
Connects(port) ==
    /\ ends["client"] = 0 /\ "client" \notin closed
    /\ \E t \in {create_and_connect_socket(Self("client"), port)}
                \cup {socket_connect_host_port(Self("client"), known, port) : known \in BOOLEAN} :
        /\ Call("client", t)
        /\ ends' = IF Alive(t) THEN [client |-> t.ret, server |-> t.net[t.ret].peer] ELSE ends
    /\ UNCHANGED <<wrote, heard, told, opened, closed>>

SetsOption(p) ==
    /\ LET s == Self(p)  fd == ends[p] IN
       \/ /\ tuning = "blocking"
          /\ \E t \in {socket_set_blocking(s, fd), socket_set_non_blocking(s, fd),
                       socket_is_blocking(s, fd), socket_set_option(s, fd)} : Call(p, t)
       \/ /\ tuning = "timeout"
          /\ \E t \in {socket_set_recvtimeout(s, fd), socket_set_reuse_addr(s, fd)} : Call(p, t)
       \/ /\ tuning = "shutdown"
          /\ \E t \in {socket_shutdown_read(s, fd), socket_shutdown_write(s, fd)} : Call(p, t)
    /\ UNCHANGED <<ends, wrote, heard, told, opened, closed>>

Writes(p) ==
    /\ \E n \in 1 .. 2 :
        /\ Len(wrote[p]) + n <= MaxBytes
        /\ LET bytes == [i \in 1 .. n |-> Len(wrote[p]) + i] IN
           \E t \in socket_write_data(Self(p), ends[p], bytes) :
               Call(p, t) /\ wrote' = [wrote EXCEPT ![p] = IF t.ret > 0 THEN @ \o bytes ELSE @]
    /\ UNCHANGED <<ends, heard, told, opened, closed>>

Reads(p) ==
    /\ \E t \in socket_read_data(Self(p), ends[p], RCVBUF) :
        /\ Call(p, t)
        /\ heard' = [heard EXCEPT ![p] = @ \o t.data]
        /\ told' = [told EXCEPT ![p] = t.status]
    /\ UNCHANGED <<ends, wrote, opened, closed>>

Closes(p) ==
    /\ Call(p, socket_close(Self(p), ends[p]))
    /\ ends' = [ends EXCEPT ![p] = 0]
    /\ closed' = closed \cup {p}
    /\ UNCHANGED <<wrote, heard, told, opened>>

SockNext ==
    \/ died["server"] = "no" /\ \E port \in SockPort : Listens(port)
    \/ died["client"] = "no" /\ \E port \in SockPort : Connects(port)
    \/ \E p \in Peers : /\ died[p] = "no" /\ ends[p] # 0
                        /\ SetsOption(p) \/ Writes(p) \/ Reads(p) \/ Closes(p)

SockSpec == SockInit /\ [][SockNext /\ UNCHANGED tuning]_sockVars

-----------------------------------------------------------------------------
(* Properties *)

\* A server that opens its sockets with the helpers that share the port
\* (create_bound_socket, create_listener_socket) may open as many as there are
\* descriptors: bind and listen fail only next to a socket of
\* socket_create_listener_on_port, which does not share it.
PortShared ==
    died["server"] \in {"bind", "listen"} =>
        \E port \in SockPort : <<"on_port", port>> \in opened["server"]

\* What socket_read_data has given a process is a prefix of what its peer has passed to
\* socket_write_data, whatever the two have set, however reads and writes interleave, and
\* although a write may be short: none goes on behind a gap.
BytesInOrder == \A p \in Peers : IsPrefix(heard[p], wrote[Other(p)])

\* socket_read_data reports the end of the stream only after everything the peer had
\* written was read (but for a write that came out short, which ended the peer), and only
\* when the peer has closed its end or died, or reading was shut down here: that no data
\* has arrived yet is never taken for the end.
EofIsTheEnd ==
    [][\A p \in Peers :
          told'[p] = "EOF" /\ told[p] # "EOF" =>
              /\ heard'[p] = wrote[Other(p)] \/ died[Other(p)] = "short write"
              /\ \/ Other(p) \in closed \/ died[Other(p)] # "no"
                 \/ "SHUT_RD" \in net[ends[p]].opts]_sockVars

\* The socket helpers carry a stream: listeners share their port, bytes come in order, and
\* the end is told when it is reached.
StreamCarried == [](PortShared /\ BytesInOrder) /\ EofIsTheEnd
=============================================================================
