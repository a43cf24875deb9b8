----------------------------- MODULE SocketFifo -----------------------------
(***************************************************************************)
(* What the socket queue promises its threads: a bounded FIFO buffer.  A   *)
(* producer adds when there is room, a consumer takes the oldest socket.   *)
(***************************************************************************)
EXTENDS Naturals, Sequences

CONSTANTS Consumer, Socket, Bound, NoSocket

VARIABLES q,    \* the sockets queued, oldest first
          got   \* what each consumer's last remove returned

vars == <<q, got>>

Init == q = <<>> /\ got = [c \in Consumer |-> NoSocket]

Add(s) ==
    /\ Len(q) < Bound
    /\ q' = Append(q, s)
    /\ UNCHANGED got

Remove(c) ==
    /\ q # <<>>
    /\ got' = [got EXCEPT ![c] = Head(q)]
    /\ q' = Tail(q)

Next == (\E s \in Socket : Add(s)) \/ (\E c \in Consumer : Remove(c))

Spec == Init /\ [][Next]_vars
=============================================================================
