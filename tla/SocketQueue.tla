---------------------------- MODULE SocketQueue -----------------------------
(***************************************************************************)
(* The blocking queue of socket descriptors of common/queue.c, used by     *)
(* producer and consumer threads that loop on Queue_add and Queue_remove.  *)
(*                                                                         *)
(* Every access is made under queue_mutex, so a step is what a thread does *)
(* between taking the mutex and giving it up: by returning, or by waiting  *)
(* on a condition variable.  A waiting thread runs again after a broadcast *)
(* or spuriously (POSIX allows it), takes the mutex and tests again.       *)
(***************************************************************************)
EXTENDS Integers, Sequences

CONSTANTS Producer, Consumer, Socket, max_size, NoSocket

ASSUME QueueAssumption ==
    /\ max_size \in Nat \ {0}            \* queue.h: "Cannot be 0"
    /\ Producer \cap Consumer = {}
    /\ Producer # {} /\ Consumer # {}

VARIABLES q, size, next, first, full,    \* struct Queue_s
          pc,        \* where each thread is: outside the calls, waiting, woken
          arg,       \* the socket a producer inside Queue_add is adding
          got,       \* what each consumer's last Queue_remove returned
          queue_aborted    \* an assert failed

ringVars == <<q, size, next, first, full>>
queueVars == <<q, size, next, first, full, pc, arg, got, queue_aborted>>

Thread == Producer \cup Consumer

Queue_new_with_capacity ==
    /\ q = [i \in 0 .. max_size - 1 |-> NoSocket]
    /\ size = 0 /\ first = 0 /\ next = 0 /\ full = FALSE
    /\ pc = [t \in Thread |-> "out"]
    /\ arg = [p \in Producer |-> NoSocket]
    /\ got = [c \in Consumer |-> NoSocket]
    /\ queue_aborted = FALSE

is_full == first = next /\ size > 0
is_empty == first = next /\ size = 0

\* The new slot number, and the flag computed before size is adjusted.
advance_next_pointer ==
    /\ next' = (next + 1) % max_size
    /\ full' = (first = next' /\ size > 0)
    /\ UNCHANGED first

advance_first_pointer ==
    /\ first' = (first + 1) % max_size
    /\ full' = (first' = next /\ size > 0)
    /\ UNCHANGED next

\* Mutant: the read index is advanced before the slot is read.
ReadSlotAfterAdvance == (first + 1) % max_size

ReadSlot == first

\* pthread_cond_broadcast: every thread of W that is waiting is woken.
Broadcast(W, t) ==
    [u \in Thread |-> IF u = t THEN "out"
                      ELSE IF u \in W /\ pc[u] = "wait" THEN "woken" ELSE pc[u]]

Returns(t) == [pc EXCEPT ![t] = "out"]

\* Mutant: one waiting consumer is signalled instead of all.
Queue_add_signal(t, sock) ==
    /\ ~queue_aborted
    /\ pc[t] = "out" \/ (pc[t] = "woken" /\ arg[t] = sock)
    /\ arg' = [arg EXCEPT ![t] = sock]
    /\ UNCHANGED <<got, queue_aborted>>
    /\ \/ /\ size = max_size
          /\ pc' = [pc EXCEPT ![t] = "wait"]
          /\ UNCHANGED ringVars
       \/ /\ size # max_size
          /\ q' = [q EXCEPT ![next] = sock]
          /\ advance_next_pointer
          /\ size' = size + 1
          /\ IF size' = 1 /\ \E c \in Consumer : pc[c] = "wait"
             THEN \E c \in Consumer : pc[c] = "wait" /\ pc' = Broadcast({c}, t)
             ELSE pc' = Returns(t)

Queue_add(t, sock) ==
    /\ ~queue_aborted
    /\ pc[t] = "out" \/ (pc[t] = "woken" /\ arg[t] = sock)
    /\ arg' = [arg EXCEPT ![t] = sock]
    /\ UNCHANGED got
    /\ \/ /\ size = max_size
          /\ pc' = [pc EXCEPT ![t] = "wait"]
          /\ UNCHANGED <<ringVars, queue_aborted>>
       \/ /\ size # max_size
          /\ q' = [q EXCEPT ![next] = sock]
          /\ queue_aborted' = is_full
          /\ advance_next_pointer
          /\ size' = size + 1
          /\ pc' = IF size' = 1 THEN Broadcast(Consumer, t) ELSE Returns(t)

\* Mutant: the size is compared with the full size after it was decremented.
Queue_remove_late_broadcast(t) ==
    /\ ~queue_aborted
    /\ pc[t] \in {"out", "woken"}
    /\ UNCHANGED <<arg, queue_aborted>>
    /\ \/ /\ is_empty
          /\ pc' = [pc EXCEPT ![t] = "wait"]
          /\ UNCHANGED <<ringVars, got>>
       \/ /\ ~is_empty
          /\ got' = [got EXCEPT ![t] = q[ReadSlot]]
          /\ advance_first_pointer
          /\ size' = size - 1
          /\ pc' = IF size' = max_size THEN Broadcast(Producer, t) ELSE Returns(t)
          /\ UNCHANGED q

Queue_remove(t) ==
    /\ ~queue_aborted
    /\ pc[t] \in {"out", "woken"}
    /\ UNCHANGED arg
    /\ \/ /\ is_empty
          /\ pc' = [pc EXCEPT ![t] = "wait"]
          /\ UNCHANGED <<ringVars, got, queue_aborted>>
       \/ /\ ~is_empty
          /\ got' = [got EXCEPT ![t] = q[ReadSlot]]
          /\ queue_aborted' = is_empty
          /\ advance_first_pointer
          /\ size' = size - 1
          /\ pc' = IF size' < max_size THEN Broadcast(Producer, t) ELSE Returns(t)
          /\ UNCHANGED q

\* pthread_cond_wait may return without a broadcast.
SpuriousWakeup(t) ==
    /\ ~queue_aborted
    /\ pc[t] = "wait"
    /\ pc' = [pc EXCEPT ![t] = "woken"]
    /\ UNCHANGED <<ringVars, arg, got, queue_aborted>>

ProducerStep(t) == \E s \in Socket : Queue_add(t, s)

QueueNext ==
    \/ \E t \in Producer : ProducerStep(t)
    \/ \E t \in Consumer : Queue_remove(t)
    \/ \E t \in Thread : SpuriousWakeup(t)

\* The scheduler runs every thread that is not waiting; a spurious wakeup is
\* allowed and never owed.
QueueFairness ==
    /\ \A t \in Producer : WF_queueVars(ProducerStep(t))
    /\ \A t \in Consumer : WF_queueVars(Queue_remove(t))

QueueInit == Queue_new_with_capacity
QueueSpec == QueueInit /\ [][QueueNext]_queueVars
FairQueueSpec == QueueSpec /\ QueueFairness

-----------------------------------------------------------------------------
(* The ring as the sequence of sockets it holds, oldest first. *)
QueuedSockets == [i \in 1 .. size |-> q[(first + (i - 1)) % max_size]]

\* The types of the fields of struct Queue_s and of the threads.
QueueTypeOK ==
    /\ q \in [0 .. max_size - 1 -> Socket \cup {NoSocket}]
    /\ size \in 0 .. max_size
    /\ next \in 0 .. max_size - 1
    /\ first \in 0 .. max_size - 1
    /\ full \in BOOLEAN
    /\ pc \in [Thread -> {"out", "wait", "woken"}]
    /\ arg \in [Producer -> Socket \cup {NoSocket}]
    /\ got \in [Consumer -> Socket \cup {NoSocket}]
    /\ queue_aborted \in BOOLEAN

\* No wakeup is lost although Queue_add broadcasts only when the size becomes 1:
\* no consumer sleeps while a socket is queued, no producer while there is room.
NoLostWakeup ==
    /\ \A c \in Consumer : pc[c] = "wait" => size = 0
    /\ \A p \in Producer : pc[p] = "wait" => size = max_size

\* Producers and consumers are never all asleep at once.
NotAllAsleep == \E t \in Thread : pc[t] # "wait"

SF == INSTANCE SocketFifo WITH q <- QueuedSockets, Bound <- max_size

\* The queue implements the bounded FIFO buffer: every socket added is taken
\* once, in the order the adds got the mutex, and none is overwritten.
ImplementsSocketFifo == SF!Spec

\* As long as threads keep calling, sockets keep flowing: from any state on, some
\* consumer's Queue_remove returns again.
SocketsFlow == []<><<\E t \in Consumer : Queue_remove(t) /\ size > 0>>_queueVars
=============================================================================
