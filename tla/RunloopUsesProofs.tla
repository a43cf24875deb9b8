------------------------- MODULE RunloopUsesProofs --------------------------
(***************************************************************************)
(* The three uses of the epoll runloop side by side, for every number of   *)
(* descriptors, every set of watchers, threads and items and all           *)
(* capacities.  In every use the table of watchers, its count and the      *)
(* kernel's interest list agree.  For threads that add functors to an      *)
(* InterthreadQueue: the functors are run in the order they were added,    *)
(* none is lost or run twice, and only a full queue stops the program.     *)
(* For asynchronous reads of a queue: every callback has the next item,    *)
(* and registrations and callbacks alternate.                              *)
(***************************************************************************)
EXTENDS MCRunloopUses, RunloopProofs

(* Sequences and queues. *)

\* The head of one sequence becomes the end of the one before it.
LEMMA MoveHead ==
    ASSUME NEW S, NEW a \in Seq(S), NEW b \in Seq(S), b # <<>>
    PROVE  /\ Append(a, Head(b)) \o Tail(b) = a \o b
           /\ Append(a, Head(b)) \in Seq(S) /\ Tail(b) \in Seq(S) /\ Head(b) \in S
OBVIOUS

LEMMA AddLast ==
    ASSUME NEW S
    PROVE  \A a, b, c \in Seq(S), x \in S : a \o b \o Append(c, x) = Append(a \o b \o c, x)
<1> TAKE a, b, c \in Seq(S), x \in S
<1> DEFINE d == a \o b
<1>1. d \in Seq(S)
  OBVIOUS
<1> HIDE DEF d
<1>2. d \o Append(c, x) = Append(d \o c, x)
  BY <1>1
<1> QED BY <1>2 DEF d

LEMMA EmptyMiddle ==
    ASSUME NEW S, NEW a \in Seq(S), NEW x \in S
    PROVE  a \o <<>> = a /\ a \o <<x>> = Append(a, x) /\ <<x>> \in Seq(S)
OBVIOUS

QueueOf(S) == [list : Seq(S), counter : Nat]

Holding(q, l, c) == [q EXCEPT !.list = l, !.counter = c]

LEMMA QueueFields ==
    ASSUME NEW S, NEW q \in QueueOf(S), NEW l \in Seq(S), NEW c \in Nat
    PROVE  /\ Holding(q, l, c) \in QueueOf(S)
           /\ Holding(q, l, c).list = l /\ Holding(q, l, c).counter = c
BY DEF Holding, QueueOf

LEMMA AddFields ==
    ASSUME NEW S, NEW q \in QueueOf(S), NEW x \in S
    PROVE  /\ runloop_eventfd_queue_add(q, x) \in QueueOf(S)
           /\ runloop_eventfd_queue_add(q, x).list = Append(q.list, x)
           /\ runloop_eventfd_queue_add(q, x).counter = q.counter + 1
           /\ Append(q.list, x) # <<>>
<1> DEFINE l == Append(q.list, x)
           c == q.counter + 1
<1>1. l \in Seq(S) /\ l # <<>> /\ c \in Nat
  BY DEF QueueOf
<1>2. runloop_eventfd_queue_add(q, x) = Holding(q, l, c)
  BY DEF runloop_eventfd_queue_add, Holding
<1> HIDE DEF l, c
<1>3. /\ Holding(q, l, c) \in QueueOf(S)
      /\ Holding(q, l, c).list = l /\ Holding(q, l, c).counter = c
  BY <1>1, QueueFields
<1> QED BY <1>1, <1>2, <1>3 DEF l, c

LEMMA FdInTable == fd \in Fd /\ qwatcher \in Watcher /\ qwatcher # NULL /\ fdOf[qwatcher] = fd
BY RunloopAssumption, ThreadAssumption DEF fd, Fd

\* The queue's watcher is registered for input, and released.
LEMMA QueueRegistered ==
    ASSUME NEW r, Sound(r), Alive(r), ~r.closed_flag, r.entries[fd] = NULL
    PROVE  Placed(runloop_register(r, fd, {"IN"}, qwatcher), r, fd, qwatcher, {"IN"})
<1>1. {"IN"} \in SUBSET EpollEvent
  BY DEF EpollEvent
<1> QED BY <1>1, FdInTable, RegisterFields

\* The descriptor is ready while the counter is up, and then there is a functor to take.
SignalForFunctor ==
    /\ ready = Signalled(queue)
    /\ queue.counter > 0 => queue.list # <<>>

\* No watcher but the queue's is registered.
NoOtherWatcher(r) == \A d \in Fd : r.entries[d] # NULL => d = fd /\ r.entries[d] = qwatcher

\* epoll_wait reports the queue's descriptor, and nothing else.
LEMMA WaitReports ==
    ASSUME Sound(rl), NoOtherWatcher(rl), ready = Signalled(queue), runloop_run_wait
    PROVE  /\ batch' = <<qwatcher>> /\ rl.entries[fd] = qwatcher /\ queue.counter > 0
           /\ UNCHANGED <<rl, ready>> /\ loop = "top" /\ loop' = "events" /\ rl.ready_list = <<>>
<1>1. PICK S \in SUBSET Reportable :
          /\ S # {}
          /\ \E order \in Orders(S) : batch' = [i \in DOMAIN order |-> rl.epoll[order[i]]]
  BY DEF runloop_run_wait
<1>2. PICK order \in Orders(S) : batch' = [i \in DOMAIN order |-> rl.epoll[order[i]]]
  BY <1>1
<1>3. rl.epoll = rl.entries /\ rl.entries \in [Fd -> Slot]
  BY DEF runloop_run_wait, AtEpollWait, Sound, Mirrored, IsRunloop
<1>4. S = {fd} /\ rl.entries[fd] = qwatcher
  BY <1>1, <1>3 DEF Reportable, NoOtherWatcher
<1>5. ready # {}
  BY <1>1 DEF Reportable
<1>6. queue.counter > 0
  BY <1>5 DEF Signalled
<1>7. order \in [1 .. 1 -> {fd}]
  <2>1. Cardinality(S) = 1
    BY <1>4, FS_Singleton
  <2> QED BY <1>4, <2>1 DEF Orders
<1>8. batch' = <<qwatcher>>
  BY <1>2, <1>3, <1>4, <1>7
<1> QED BY <1>4, <1>6, <1>8 DEF runloop_run_wait, AtEpollWait

-----------------------------------------------------------------------------
(* Threads that add functors to the queue of another thread's runloop. *)

HandoffType ==
    /\ Sound(rl) /\ rl.ready_list \in Seq(Added) /\ rl.aborted \in {"no", "queue full"}
    /\ queue \in QueueOf(Added)
    /\ added \in Seq(Added) /\ ran \in Seq(Added)

\* A handler runs for the one event, before anything else is posted or taken.
OneEvent ==
    \/ loop = "top" /\ batch = <<>>
    \/ loop = "events" /\ batch = <<qwatcher>> /\ queue.counter > 0 /\ rl.ready_list = <<>>

HandoffInv ==
    /\ HandoffType /\ SignalForFunctor /\ OneEvent /\ InOrder
    /\ NoOtherWatcher(rl) /\ rl.entries[fd] = qwatcher

LEMMA QueueTypes ==
    ASSUME HandoffType
    PROVE  /\ rl.ready_list \in Seq(Added) /\ queue.list \in Seq(Added)
           /\ added \in Seq(Added) /\ ran \in Seq(Added) /\ queue.counter \in Nat
BY DEF HandoffType, QueueOf

\* The fields of the runloop that the steps below leave alone.
LEMMA KeepsWatcher ==
    ASSUME NEW r, NEW n, n.entries = r.entries, NoOtherWatcher(r), r.entries[fd] = qwatcher
    PROVE  NoOtherWatcher(n) /\ n.entries[fd] = qwatcher
BY DEF NoOtherWatcher

LEMMA HandoffInit == ItqInit => HandoffInv
<1> SUFFICES ASSUME ItqInit PROVE HandoffInv
  OBVIOUS
<1> DEFINE r0 == runloop_new
           r1 == runloop_register(r0, fd, {"IN"}, qwatcher)
<1>1. /\ Sound(r0) /\ Alive(r0) /\ ~r0.closed_flag /\ r0.ready_list = <<>>
      /\ r0.entries = [d \in Fd |-> NULL] /\ {"IN"} \in SUBSET EpollEvent
  BY NewSound DEF Alive, EpollEvent
<1> HIDE DEF r0
<1>2. /\ Sound(r1) /\ Only(r1, r0, Table) /\ Alive(r1)
      /\ r1.entries = [r0.entries EXCEPT ![fd] = qwatcher]
  <2>1. r0.entries[fd] = NULL
    BY <1>1, FdInTable
  <2> QED BY <1>1, <2>1, QueueRegistered DEF Placed
<1>3. rl = r1
  BY DEF ItqInit, itqueue_new, r0
<1> HIDE DEF r1
<1>4. rl.ready_list = <<>> /\ rl.aborted = "no"
  BY <1>1, <1>2, <1>3 DEF Only, Table, Sound, IsRunloop, Alive
<1>5. NoOtherWatcher(rl) /\ rl.entries[fd] = qwatcher
  BY <1>1, <1>2, <1>3, FdInTable DEF NoOtherWatcher
<1>6. HandoffType
  BY <1>2, <1>3, <1>4 DEF HandoffType, ItqInit, runloop_eventfd_queue_new, QueueOf
<1>7. SignalForFunctor /\ OneEvent /\ InOrder
  BY <1>4 DEF SignalForFunctor, OneEvent, InOrder, ItqInit, runloop_eventfd_queue_new, Signalled
<1> QED BY <1>5, <1>6, <1>7 DEF HandoffInv

LEMMA WaitKeeps ==
    ASSUME HandoffInv, runloop_run_wait, UNCHANGED <<queue, added, ran>>
    PROVE  HandoffInv'
<1>1. /\ HandoffType /\ SignalForFunctor /\ InOrder /\ Sound(rl) /\ NoOtherWatcher(rl)
      /\ rl.entries[fd] = qwatcher
  BY DEF HandoffInv, HandoffType
<1>2. /\ batch' = <<qwatcher>> /\ queue.counter > 0
      /\ UNCHANGED <<rl, ready>> /\ loop' = "events" /\ rl.ready_list = <<>>
  BY <1>1, WaitReports DEF SignalForFunctor
<1>3. OneEvent'
  BY <1>2 DEF OneEvent
<1>4. HandoffType'
  BY <1>1, <1>2, SoundPrimed DEF HandoffType
<1>5. SignalForFunctor' /\ InOrder' /\ NoOtherWatcher(rl)' /\ (rl.entries[fd] = qwatcher)'
  BY <1>1, <1>2 DEF SignalForFunctor, Signalled, InOrder, NoOtherWatcher
<1> QED BY <1>3, <1>4, <1>5 DEF HandoffInv

\* The handler is called for its watcher and takes the functor the signal is for; a ready
\* list that is empty has room for it.
LEMMA PostKeeps ==
    ASSUME HandoffInv, itqueue_postable
    PROVE  HandoffInv'
<1> DEFINE item == Head(queue.list)
           rest == Tail(queue.list)
<1>1. HandoffType /\ InOrder /\ Sound(rl) /\ NoOtherWatcher(rl) /\ rl.entries[fd] = qwatcher
  BY DEF HandoffInv, HandoffType
<1>2. /\ Alive(rl) /\ batch = <<qwatcher>> /\ queue.counter > 0 /\ rl.ready_list = <<>>
      /\ queue.list # <<>> /\ queue.list \in Seq(Added) /\ ran \in Seq(Added)
  BY <1>1, QueueTypes DEF HandoffInv, itqueue_postable, OneEvent, SignalForFunctor
<1>3. /\ item \in Added /\ rest \in Seq(Added)
      /\ Append(ran, item) \o rest = ran \o queue.list
  BY <1>2, MoveHead
<1>4. item # NULL
  BY <1>3, ThreadAssumption DEF Added
<1>5. RemovedItem(queue) = item /\ queue' = [list |-> rest, counter |-> 0]
  BY <1>2 DEF itqueue_postable, RemovedItem, runloop_eventfd_queue_remove
<1> HIDE DEF item, rest
<1>6. Delivered(Head(batch)) = rl
  BY <1>1, <1>2, FdInTable, DeliveredFields
<1>7. rl' = runloop_post(rl, item)
  BY <1>2, <1>4, <1>5, <1>6 DEF itqueue_postable, Asserting
<1>8. /\ Sound(rl') /\ rl'.ready_list = <<item>> /\ rl'.entries = rl.entries /\ rl'.aborted = "no"
  <2>1. Len(rl.ready_list) < READY_MAX /\ Append(rl.ready_list, item) = <<item>>
    BY <1>2, RunloopAssumption, ThreadAssumption
  <2> QED BY <1>1, <1>2, <1>7, <2>1, PostFields DEF Alive
<1>9. /\ UNCHANGED <<added, ran>> /\ queue'.list = rest /\ queue'.counter = 0
      /\ ready' = Signalled(queue') /\ batch' = <<>> /\ loop' = "top"
  BY <1>2, <1>5 DEF itqueue_postable, AfterEvent
<1>10. HandoffType'
  <2>1. <<item>> \in Seq(Added)
    BY <1>2, <1>3, EmptyMiddle
  <2> QED BY <1>1, <1>3, <1>5, <1>8, <1>9, <2>1, SoundPrimed DEF HandoffType, QueueOf
<1>11. SignalForFunctor' /\ OneEvent'
  BY <1>9 DEF SignalForFunctor, OneEvent
<1>12. InOrder'
  <2>1. ran \o <<item>> = Append(ran, item) /\ ran \o <<>> = ran
    BY <1>2, <1>3, EmptyMiddle
  <2> QED BY <1>1, <1>2, <1>3, <1>8, <1>9, <2>1 DEF InOrder
<1>13. NoOtherWatcher(rl)' /\ (rl.entries[fd] = qwatcher)'
  BY <1>1, <1>8 DEF NoOtherWatcher
<1> QED BY <1>10, <1>11, <1>12, <1>13 DEF HandoffInv

\* A functor leaves the ready list and is run.
LEMMA RunKeeps ==
    ASSUME HandoffInv, RunAdded
    PROVE  HandoffInv'
<1> DEFINE l == rl.ready_list
<1>1. /\ HandoffType /\ SignalForFunctor /\ OneEvent /\ InOrder /\ Sound(rl)
      /\ NoOtherWatcher(rl) /\ rl.entries[fd] = qwatcher
  BY DEF HandoffInv, HandoffType
<1>2. /\ rl' = Popped(rl) /\ ran' = Append(ran, Head(l))
      /\ UNCHANGED <<ready, batch, loop, queue, added>> /\ loop = "top"
  BY DEF RunAdded, Popped
<1>3. ran' \o Tail(l) = ran \o l /\ ran' \in Seq(Added) /\ Tail(l) \in Seq(Added)
  <2>1. l # <<>> /\ l \in Seq(Added) /\ ran \in Seq(Added)
    BY <1>1, QueueTypes DEF RunAdded
  <2> HIDE DEF l
  <2>2. /\ Append(ran, Head(l)) \o Tail(l) = ran \o l
        /\ Append(ran, Head(l)) \in Seq(Added) /\ Tail(l) \in Seq(Added)
    BY <2>1, MoveHead
  <2> QED BY <1>2, <2>2
<1>4. Sound(rl') /\ rl'.ready_list = Tail(l) /\ rl'.entries = rl.entries /\ rl'.aborted = rl.aborted
  BY <1>1, <1>2, PoppedFields
<1>5. HandoffType'
  BY <1>1, <1>2, <1>3, <1>4, SoundPrimed DEF HandoffType
<1>6. SignalForFunctor' /\ OneEvent'
  BY <1>1, <1>2 DEF SignalForFunctor, Signalled, OneEvent
<1>7. InOrder'
  BY <1>1, <1>2, <1>3, <1>4 DEF InOrder
<1>8. NoOtherWatcher(rl)' /\ (rl.entries[fd] = qwatcher)'
  BY <1>1, <1>4 DEF NoOtherWatcher
<1> QED BY <1>5, <1>6, <1>7, <1>8 DEF HandoffInv

\* An add goes to the end of the queue, or stops the program.
LEMMA AddKeeps ==
    ASSUME HandoffInv, NEW t \in Thread, itqueue_add(t)
    PROVE  HandoffInv'
<1> DEFINE f == <<t, AddedBy(t) + 1>>
<1>1. /\ HandoffType /\ SignalForFunctor /\ OneEvent /\ InOrder /\ Sound(rl)
      /\ NoOtherWatcher(rl) /\ rl.entries[fd] = qwatcher
  BY DEF HandoffInv, HandoffType
<1>2. f \in Added
  <2>1. IsFiniteSet(DOMAIN added)
    <3>1. DOMAIN added = 1 .. Len(added) /\ Len(added) \in Nat
      BY <1>1, QueueTypes
    <3> QED BY <3>1, FS_Interval
  <2>2. IsFiniteSet({i \in DOMAIN added : added[i][1] = t})
    BY <2>1, FS_Subset
  <2>3. AddedBy(t) \in Nat /\ AddedBy(t) < MaxAdd
    BY <2>2, FS_CardinalityType DEF AddedBy, itqueue_add
  <2> QED BY <2>3, ThreadAssumption DEF Added
<1>3. CASE HasRoom(queue)
  <2>1. /\ queue' = runloop_eventfd_queue_add(queue, f)
        /\ added' = Append(added, f) /\ ready' = Signalled(queue')
        /\ UNCHANGED <<rl, batch, loop, ran>>
    BY <1>3 DEF itqueue_add
  <2> HIDE DEF f
  <2>2. /\ queue' \in QueueOf(Added)
        /\ queue'.list = Append(queue.list, f) /\ queue'.counter = queue.counter + 1
        /\ queue'.list # <<>>
    BY <1>1, <1>2, <2>1, AddFields DEF HandoffType
  <2>3. added' \in Seq(Added)
    BY <1>1, <1>2, <2>1, QueueTypes
  <2>4. HandoffType'
    BY <1>1, <2>1, <2>2, <2>3, SoundPrimed DEF HandoffType
  <2>5. OneEvent'
    BY <1>1, <2>1, <2>2, QueueTypes DEF OneEvent
  <2>6. SignalForFunctor'
    BY <2>1, <2>2 DEF SignalForFunctor
  <2>7. InOrder'
    <3>1. ran \in Seq(Added) /\ rl.ready_list \in Seq(Added) /\ queue.list \in Seq(Added)
      BY <1>1, QueueTypes
    <3>2. \A a, b, c \in Seq(Added), x \in Added : a \o b \o Append(c, x) = Append(a \o b \o c, x)
      BY AddLast
    <3>3. ran \o rl.ready_list \o Append(queue.list, f) = Append(ran \o rl.ready_list \o queue.list, f)
      BY <1>2, <3>1, <3>2
    <3> QED BY <1>1, <2>1, <2>2, <3>3 DEF InOrder
  <2>8. NoOtherWatcher(rl)' /\ (rl.entries[fd] = qwatcher)'
    BY <1>1, <2>1 DEF NoOtherWatcher
  <2> QED BY <2>4, <2>5, <2>6, <2>7, <2>8 DEF HandoffInv
<1>4. CASE ~HasRoom(queue)
  <2>1. rl' = Abort(rl, "queue full") /\ UNCHANGED <<queue, added, ready, batch, loop, ran>>
    BY <1>4 DEF itqueue_add
  <2>2. Only(rl', rl, {"aborted"}) /\ rl'.aborted = "queue full" /\ Sound(rl')
    <3>1. "aborted" \in DOMAIN rl
      BY <1>1 DEF Sound, IsRunloop
    <3> QED BY <1>1, <2>1, <3>1, AbortFields, AbortSound
  <2>3. rl'.ready_list = rl.ready_list /\ rl'.entries = rl.entries
    BY <1>1, <2>2 DEF Sound, IsRunloop, Only
  <2>4. HandoffType'
    BY <1>1, <2>1, <2>2, <2>3, SoundPrimed DEF HandoffType
  <2>5. NoOtherWatcher(rl)' /\ (rl.entries[fd] = qwatcher)'
    BY <1>1, <2>3 DEF NoOtherWatcher
  <2>6. SignalForFunctor' /\ OneEvent' /\ InOrder'
    BY <1>1, <2>1, <2>3 DEF SignalForFunctor, Signalled, OneEvent, InOrder
  <2> QED BY <2>4, <2>5, <2>6 DEF HandoffInv
<1> QED BY <1>3, <1>4

LEMMA HandoffNext ==
    ASSUME HandoffInv, [ItqNext]_itqVars
    PROVE  HandoffInv'
<1>1. CASE runloop_run_wait /\ UNCHANGED <<queue, added, ran>>
  BY <1>1, WaitKeeps
<1>2. CASE itqueue_postable
  BY <1>2, PostKeeps
<1>3. CASE RunAdded
  BY <1>3, RunKeeps
<1>4. ASSUME NEW t \in Thread, itqueue_add(t) PROVE HandoffInv'
  BY <1>4, AddKeeps
<1>5. CASE UNCHANGED itqVars
  <2>1. UNCHANGED <<rl, ready, batch, loop, queue, added, ran>>
    BY <1>5 DEF itqVars
  <2> QED BY <2>1, SoundPrimed DEF HandoffInv, HandoffType, NoOtherWatcher, SignalForFunctor, Signalled,
                                   OneEvent, InOrder
<1> QED BY <1>1, <1>2, <1>3, <1>4, <1>5 DEF ItqNext, ItqLoopStep

\* Whatever the threads do, each functor added through itqueue_add is in the queue, on the
\* ready list or run, and they keep the order in which they were added; a handler is never
\* called for an empty queue, so that only functor_list_add's assertion on a full queue
\* can stop the program.
THEOREM HandoffInOrder == ItqSpec => [](InOrder /\ OnlyFullQueueAborts)
<1>1. HandoffInv => InOrder /\ OnlyFullQueueAborts
  BY DEF HandoffInv, HandoffType, OnlyFullQueueAborts
<1> QED BY <1>1, HandoffInit, HandoffNext, PTL DEF ItqSpec

-----------------------------------------------------------------------------
(* The asynchronous reader of a queue. *)

Items == Item \cap Nat

\* The sequence n + 1, n + 2, ...
Numbered(l, n) == \A i \in 1 .. Len(l) : l[i] = n + i

LEMMA NumberedAppend ==
    ASSUME NEW l \in Seq(Nat), NEW n \in Nat, Numbered(l, n)
    PROVE  Numbered(Append(l, n + Len(l) + 1), n)
BY DEF Numbered

LEMMA NumberedTail ==
    ASSUME NEW l \in Seq(Nat), NEW n \in Nat, Numbered(l, n), l # <<>>
    PROVE  Head(l) = n + 1 /\ Numbered(Tail(l), n + 1) /\ Len(Tail(l)) = Len(l) - 1
BY DEF Numbered

LEMMA NumberedSame ==
    ASSUME NEW l \in Seq(Nat)
    PROVE  Numbered(l, 0) <=> l = [i \in 1 .. Len(l) |-> i]
BY DEF Numbered

\* Where the reader is: read_start is posted, perhaps behind an item; it waits for the
\* event; its handler is about to be called; it has all the items it expects.
Starting ==
    /\ ~read_cb /\ loop = "top" /\ batch = <<>>
    /\ rl.ready_list = <<read_start>> \/ \E x \in Items : rl.ready_list = <<x, read_start>>
Waiting == read_cb /\ loop = "top" /\ batch = <<>> /\ rl.ready_list = <<>>
Reading ==
    /\ read_cb /\ loop = "events" /\ batch = <<qwatcher>> /\ rl.ready_list = <<>>
    /\ queue.counter > 0
Finished == ~read_cb /\ loop \in {"top", "returned"} /\ batch = <<>> /\ rl.ready_list = <<>>

ReaderPhase == Starting \/ Waiting \/ Reading \/ Finished

ReaderType ==
    /\ Sound(rl) /\ rl.aborted \in {"no", "queue full"} /\ ~rl.closed_flag
    /\ queue \in QueueOf(Items) /\ read_cb \in BOOLEAN
    /\ written \in Nat /\ given \in Seq(Nat)

\* The items on their way are those the writer has added and the reader has not been given.
ItemsOnTheWay ==
    /\ Numbered(given, 0) /\ Numbered(queue.list, Len(given))
    /\ Alive(rl) => written = Len(given) + Len(queue.list)

\* The watcher is registered exactly while a callback waits.
RegisteredToRead == NoOtherWatcher(rl) /\ rl.entries[fd] = IF read_cb THEN qwatcher ELSE NULL

ReaderInv == ReaderType /\ SignalForFunctor /\ ItemsOnTheWay /\ RegisteredToRead /\ ReaderPhase

LEMMA ReaderTypes ==
    ASSUME ReaderType
    PROVE  /\ Sound(rl) /\ queue.list \in Seq(Items) /\ queue.list \in Seq(Nat) /\ queue.counter \in Nat
           /\ written \in Nat /\ given \in Seq(Nat) /\ Len(given) \in Nat
<1>1. queue.list \in Seq(Items) /\ queue.counter \in Nat
  BY DEF ReaderType, QueueOf
<1>2. queue.list \in Seq(Nat)
  BY <1>1 DEF Items
<1>3. Sound(rl) /\ written \in Nat /\ given \in Seq(Nat)
  BY DEF ReaderType
<1>4. Len(given) \in Nat
  BY <1>3
<1> QED BY <1>1, <1>2, <1>3, <1>4

TwoPosted(n, r, a, b) ==
    Sound(n) /\ Alive(n) /\ Only(n, r, {"ready_list"}) /\ n.ready_list = <<a, b>>

LEMMA TwoPosts ==
    ASSUME NEW r, Sound(r), Alive(r), r.ready_list = <<>>, NEW a, NEW b
    PROVE  TwoPosted(runloop_post(runloop_post(r, a), b), r, a, b)
<1> DEFINE m == runloop_post(r, a)
           n == runloop_post(m, b)
<1>1. Len(r.ready_list) < READY_MAX /\ Append(r.ready_list, a) = <<a>>
  BY RunloopAssumption, ThreadAssumption
<1>2. Sound(m) /\ Alive(m) /\ Only(m, r, {"ready_list"}) /\ m.ready_list = <<a>>
  BY <1>1, PostFields
<1> HIDE DEF m
<1>3. Len(m.ready_list) < READY_MAX /\ Append(m.ready_list, b) = <<a, b>>
  <2>1. Len(<<a>>) = 1 /\ Append(<<a>>, b) = <<a, b>>
    <3> DEFINE s == Append(<<a>>, b)
               t == <<a, b>>
    <3>1. <<a>> \in Seq({a, b}) /\ b \in {a, b}
      OBVIOUS
    <3>2. s \in Seq({a, b}) /\ t \in Seq({a, b})
      BY <3>1
    <3>3. Len(s) = 2 /\ s[1] = a /\ s[2] = b /\ Len(t) = 2 /\ t[1] = a /\ t[2] = b
      BY <3>1
    <3> HIDE DEF s, t
    <3>4. Len(s) = Len(t) /\ \A i \in 1 .. Len(s) : s[i] = t[i]
      BY <3>3
    <3>5. s = t
      BY <3>2, <3>4, <3>3
    <3> QED BY <3>5 DEF s, t
  <2>2. 1 < READY_MAX
    BY RunloopAssumption, ThreadAssumption
  <2> QED BY <1>2, <2>1, <2>2
<1>4. Sound(n) /\ Alive(n) /\ Only(n, m, {"ready_list"}) /\ n.ready_list = <<a, b>>
  BY <1>2, <1>3, PostFields
<1> HIDE DEF n
<1>5. Only(n, r, {"ready_list"})
  BY <1>2, <1>4 DEF Only
<1> QED BY <1>4, <1>5 DEF n, m, TwoPosted

\* The runloop with nothing registered, and with a functor less.
LEMMA ReaderInitial == ReaderInit => ReaderInv
<1> SUFFICES ASSUME ReaderInit PROVE ReaderInv
  OBVIOUS
<1> DEFINE r0 == runloop_new
           r1 == runloop_post(r0, read_start)
<1>1. /\ Sound(r0) /\ Alive(r0) /\ ~r0.closed_flag /\ r0.ready_list = <<>>
      /\ r0.entries = [d \in Fd |-> NULL]
  BY NewSound DEF Alive
<1> HIDE DEF r0
<1>2. Len(r0.ready_list) < READY_MAX /\ Append(r0.ready_list, read_start) = <<read_start>>
  BY <1>1, RunloopAssumption, ThreadAssumption
<1>3. /\ Sound(r1) /\ Alive(r1) /\ Only(r1, r0, {"ready_list"})
      /\ r1.ready_list = <<read_start>> /\ r1.entries = r0.entries
  BY <1>1, <1>2, PostFields
<1>4. rl = r1
  BY DEF ReaderInit, r0
<1> HIDE DEF r1
<1>5. ~rl.closed_flag /\ rl.aborted = "no"
  BY <1>1, <1>3, <1>4 DEF Only, Sound, IsRunloop, Alive
<1>6. read_cb = FALSE /\ loop = "top" /\ batch = <<>> /\ ready = {} /\ queue = [list |-> <<>>, counter |-> 0]
      /\ written = 0 /\ given = <<>>
  BY DEF ReaderInit, runloop_queue_watcher_new, runloop_queue_watcher_init, runloop_eventfd_queue_new
<1>7. ReaderType
  <2>1. read_cb \in BOOLEAN
    BY <1>6, Zenon
  <2> QED BY <1>3, <1>4, <1>5, <1>6, <2>1 DEF ReaderType, QueueOf
<1>8. SignalForFunctor /\ ItemsOnTheWay
  BY <1>6 DEF SignalForFunctor, Signalled, ItemsOnTheWay, Numbered
<1>9. RegisteredToRead
  BY <1>1, <1>3, <1>4, <1>6, FdInTable DEF RegisteredToRead, NoOtherWatcher
<1>10. Starting
  BY <1>3, <1>4, <1>6 DEF Starting
<1> QED BY <1>7, <1>8, <1>9, <1>10 DEF ReaderInv, ReaderPhase

\* A step that leaves the runloop, the queue and the items alone.
LEMMA ReaderSame ==
    ASSUME ReaderInv, UNCHANGED <<rl, ready, queue, read_cb, written, given>>
    PROVE  ReaderType' /\ SignalForFunctor' /\ ItemsOnTheWay' /\ RegisteredToRead'
<1>1. ReaderType /\ SignalForFunctor /\ ItemsOnTheWay /\ RegisteredToRead
  BY DEF ReaderInv
<1>2. ReaderType'
  BY <1>1, SoundPrimed DEF ReaderType
<1>3. SignalForFunctor'
  BY <1>1 DEF SignalForFunctor, Signalled
<1>4. ItemsOnTheWay'
  BY <1>1 DEF ItemsOnTheWay, Numbered, Alive
<1>5. RegisteredToRead'
  BY <1>1 DEF RegisteredToRead, NoOtherWatcher
<1> QED BY <1>2, <1>3, <1>4, <1>5

\* runloop_run does not return while a callback waits: the table is not empty.
LEMMA ReaderIdle ==
    ASSUME ReaderInv, runloop_run_idle, UNCHANGED <<queue, read_cb, written, given, ran>>
    PROVE  ReaderInv'
<1>1. /\ Sound(rl) /\ loop = "top" /\ rl.count = 0 /\ rl.ready_list = <<>> /\ loop' = "returned"
      /\ UNCHANGED <<rl, ready, batch>>
  BY DEF ReaderInv, ReaderType, runloop_run_idle, FdTable_size
<1>2. rl.entries[fd] = NULL
  <2>1. Cardinality(Used(rl)) = 0
    BY <1>1 DEF Sound, Counted
  <2>2. Used(rl) = {}
    BY <2>1, UsedFinite, FS_EmptySet
  <2> QED BY <2>2, FdInTable DEF Used
<1>3. ~read_cb
  BY <1>2, FdInTable DEF ReaderInv, RegisteredToRead
<1>4. batch = <<>>
  BY <1>1 DEF ReaderInv, ReaderPhase, Starting, Waiting, Reading, Finished
<1>5. Finished'
  BY <1>1, <1>3, <1>4 DEF Finished
<1> QED BY <1>1, <1>5, ReaderSame DEF ReaderInv, ReaderPhase

LEMMA ReaderWait ==
    ASSUME ReaderInv, runloop_run_wait, UNCHANGED <<queue, read_cb, written, given, ran>>
    PROVE  ReaderInv'
<1>1. Sound(rl) /\ NoOtherWatcher(rl) /\ ready = Signalled(queue)
  BY DEF ReaderInv, ReaderType, RegisteredToRead, SignalForFunctor
<1>2. /\ batch' = <<qwatcher>> /\ rl.entries[fd] = qwatcher /\ queue.counter > 0
      /\ UNCHANGED <<rl, ready>> /\ loop' = "events" /\ rl.ready_list = <<>>
  BY <1>1, WaitReports
<1>3. read_cb
  BY <1>2, FdInTable DEF ReaderInv, RegisteredToRead
<1>4. Reading'
  BY <1>2, <1>3 DEF Reading
<1> QED BY <1>2, <1>4, ReaderSame DEF ReaderInv, ReaderPhase

\* read_start runs and registers the watcher, which is not registered.
LEMMA ReaderStart ==
    ASSUME ReaderInv, runloop_queue_watcher_async_read
    PROVE  ReaderInv'
<1> DEFINE p == Popped(rl)
           n == runloop_register(p, fd, {"IN"}, qwatcher)
<1>1. /\ ReaderType /\ SignalForFunctor /\ ItemsOnTheWay /\ RegisteredToRead /\ ReaderPhase
      /\ Sound(rl) /\ Alive(rl) /\ ~rl.closed_flag /\ rl.ready_list # <<>> /\ Head(rl.ready_list) = read_start
      /\ read_cb' = TRUE /\ UNCHANGED <<ready, batch, loop, queue, written, given>>
      /\ rl' = n
  BY DEF ReaderInv, ReaderType, runloop_queue_watcher_async_read, runloop_queue_watcher_register, Popped
<1>2. Starting /\ rl.ready_list = <<read_start>>
  BY <1>1, ReaderAssumption DEF ReaderPhase, Starting, Waiting, Reading, Finished, Items
<1>3. rl.entries[fd] = NULL
  BY <1>1, <1>2 DEF Starting, RegisteredToRead
<1>4. /\ Sound(p) /\ p.ready_list = <<>> /\ p.entries = rl.entries /\ p.aborted = rl.aborted
      /\ p.closed_flag = rl.closed_flag
  <2>1. Tail(<<read_start>>) = <<>>
    OBVIOUS
  <2> QED BY <1>1, <1>2, <2>1, PoppedFields
<1> HIDE DEF p
<1>5. Placed(n, p, fd, qwatcher, {"IN"})
  BY <1>1, <1>3, <1>4, QueueRegistered DEF Alive
<1> HIDE DEF n
<1>6. Sound(n) /\ n.ready_list = <<>> /\ ~n.closed_flag /\ n.aborted = "no"
  BY <1>1, <1>4, <1>5 DEF Placed, Only, Table, Sound, IsRunloop, Alive
<1>7. n.entries = [rl.entries EXCEPT ![fd] = qwatcher]
  BY <1>4, <1>5 DEF Placed
<1>8. ReaderType'
  <2>1. read_cb' \in BOOLEAN
    BY <1>1, Zenon
  <2> QED BY <1>1, <1>6, <2>1, SoundPrimed DEF ReaderType
<1>9. SignalForFunctor' /\ ItemsOnTheWay'
  BY <1>1, <1>6 DEF SignalForFunctor, Signalled, ItemsOnTheWay, Numbered, Alive
<1>10. RegisteredToRead'
  BY <1>1, <1>7, FdInTable DEF RegisteredToRead, NoOtherWatcher, Sound, IsRunloop
<1>11. Waiting'
  BY <1>1, <1>2, <1>6 DEF Waiting, Starting
<1> QED BY <1>8, <1>9, <1>10, <1>11 DEF ReaderInv, ReaderPhase

\* An item runs: read_start is next.
LEMMA ReaderRun ==
    ASSUME ReaderInv, RunItem
    PROVE  ReaderInv'
<1>1. /\ ReaderType /\ SignalForFunctor /\ ItemsOnTheWay /\ RegisteredToRead /\ ReaderPhase
      /\ Sound(rl) /\ rl.ready_list # <<>> /\ Head(rl.ready_list) # read_start
      /\ UNCHANGED <<ready, batch, loop, queue, read_cb, written, given>> /\ rl' = Popped(rl)
  BY DEF ReaderInv, ReaderType, RunItem, Popped
<1>2. Starting /\ \E x \in Items : rl.ready_list = <<x, read_start>>
  BY <1>1 DEF ReaderPhase, Starting, Waiting, Reading, Finished
<1>3. /\ Sound(rl') /\ rl'.ready_list = <<read_start>> /\ rl'.entries = rl.entries
      /\ rl'.aborted = rl.aborted /\ rl'.closed_flag = rl.closed_flag
  <2>1. \A x \in Items : Tail(<<x, read_start>>) = <<read_start>>
    OBVIOUS
  <2>2. Tail(rl.ready_list) = <<read_start>>
    BY <1>2, <2>1
  <2> QED BY <1>1, <2>2, PoppedFields
<1>4. ReaderType'
  BY <1>1, <1>3, SoundPrimed DEF ReaderType
<1>5. SignalForFunctor' /\ ItemsOnTheWay'
  BY <1>1, <1>3 DEF SignalForFunctor, Signalled, ItemsOnTheWay, Numbered, Alive
<1>6. RegisteredToRead'
  BY <1>1, <1>3 DEF RegisteredToRead, NoOtherWatcher
<1>7. Starting'
  BY <1>1, <1>2, <1>3 DEF Starting
<1> QED BY <1>4, <1>5, <1>6, <1>7 DEF ReaderInv, ReaderPhase

\* The handler is called with an item in the queue and a callback that waits: it gives the
\* item, releases the watcher and posts the item and read_start, or the reader is done.
LEMMA ReaderRead ==
    ASSUME ReaderInv, on_read_ready_postable
    PROVE  ReaderInv'
<1> DEFINE item == Head(queue.list)
           rest == Tail(queue.list)
           d == runloop_deregister(rl, fd)
           posted == runloop_post(runloop_post(d, item), read_start)
<1>1. /\ ReaderType /\ SignalForFunctor /\ ItemsOnTheWay /\ RegisteredToRead /\ ReaderPhase
      /\ Sound(rl) /\ Alive(rl) /\ ~rl.closed_flag /\ loop = "events"
  BY DEF ReaderInv, ReaderType, on_read_ready_postable
<1>2. read_cb /\ batch = <<qwatcher>> /\ queue.counter > 0 /\ rl.ready_list = <<>> /\ queue.list # <<>>
  BY <1>1 DEF ReaderPhase, Starting, Waiting, Reading, Finished, SignalForFunctor
<1>3. /\ queue.list \in Seq(Items) /\ queue.list \in Seq(Nat) /\ given \in Seq(Nat) /\ Len(given) \in Nat
      /\ Numbered(given, 0) /\ Numbered(queue.list, Len(given))
  BY <1>1, ReaderTypes DEF ItemsOnTheWay
<1>4. /\ item = Len(given) + 1 /\ Numbered(rest, Len(given) + 1) /\ Len(rest) = Len(queue.list) - 1
  BY <1>2, <1>3, NumberedTail
<1>5. item \in Items /\ rest \in Seq(Items)
  BY <1>2, <1>3
<1>6. RemovedItem(queue) = item /\ queue' = [list |-> rest, counter |-> 0]
  BY <1>2 DEF on_read_ready_postable, RemovedItem, runloop_eventfd_queue_remove
<1>7. /\ given' = Append(given, item) /\ read_cb' = FALSE /\ written' = written
      /\ batch' = <<>> /\ loop' = "top" /\ ready' = Signalled(queue')
  <2>1. read_cb' = FALSE
    BY DEF on_read_ready_postable
  <2>2. given' = Append(given, item)
    BY <1>6 DEF on_read_ready_postable
  <2>3. written' = written /\ ready' = Signalled(queue')
    BY DEF on_read_ready_postable
  <2>4. Tail(<<qwatcher>>) = <<>> /\ Len(<<qwatcher>>) = 1
    OBVIOUS
  <2>5. batch' = <<>> /\ loop' = "top"
    BY <1>2, <2>4 DEF on_read_ready_postable, AfterEvent
  <2> QED BY <2>1, <2>2, <2>3, <2>5
<1>8. Delivered(Head(batch)) = rl /\ rl.entries[fd] = qwatcher
  <2>1. rl.entries[fd] = qwatcher /\ Head(batch) = qwatcher
    BY <1>1, <1>2 DEF RegisteredToRead
  <2> QED BY <1>1, <2>1, FdInTable, DeliveredFields
<1> HIDE DEF item, rest
<1>9. Placed(d, rl, fd, NULL, {})
  BY <1>1, <1>8, FdInTable, ReleaseFields
<1>10. rl' \in {d, posted}
  <2>1. rl' = Asserting(d, read_cb, "no callback", on_read_callback(d, item))
    BY <1>6, <1>8 DEF on_read_ready_postable, runloop_queue_watcher_deregister
  <2>2. Alive(d)
    BY <1>9 DEF Placed
  <2>3. rl' = on_read_callback(d, item)
    BY <1>2, <2>1, <2>2 DEF Asserting
  <2> QED BY <2>3 DEF on_read_callback
<1> HIDE DEF d
<1>11. /\ Sound(d) /\ Alive(d) /\ d.ready_list = <<>> /\ ~d.closed_flag
       /\ d.entries = [rl.entries EXCEPT ![fd] = NULL]
  BY <1>1, <1>2, <1>9 DEF Placed, Only, Table, Sound, IsRunloop
<1>12. /\ Sound(posted) /\ Alive(posted) /\ Only(posted, d, {"ready_list"})
       /\ posted.ready_list = <<item, read_start>>
  BY <1>11, TwoPosts DEF TwoPosted
<1> HIDE DEF posted
<1>13. posted.entries = d.entries /\ posted.closed_flag = d.closed_flag
  BY <1>11, <1>12 DEF Only, Sound, IsRunloop
<1>14. /\ Sound(rl') /\ rl'.aborted = "no" /\ ~rl'.closed_flag
       /\ rl'.entries = [rl.entries EXCEPT ![fd] = NULL]
       /\ rl'.ready_list \in {<<>>, <<item, read_start>>}
  BY <1>10, <1>11, <1>12, <1>13 DEF Alive
<1>15. ReaderType'
  <2>1. read_cb' \in BOOLEAN
    BY <1>7, Zenon
  <2>2. queue' \in QueueOf(Items)
    BY <1>5, <1>6 DEF QueueOf
  <2>3. written' \in Nat /\ given' \in Seq(Nat)
    BY <1>1, <1>3, <1>5, <1>7, ReaderTypes DEF Items
  <2> QED BY <1>14, <2>1, <2>2, <2>3, SoundPrimed DEF ReaderType
<1>16. SignalForFunctor'
  BY <1>6, <1>7 DEF SignalForFunctor
<1>17. ItemsOnTheWay'
  <2>1. Len(given') = Len(given) + 1 /\ queue'.list = rest
    BY <1>3, <1>6, <1>7
  <2>2. Numbered(given', 0)
    <3>1. item = 0 + Len(given) + 1
      BY <1>3, <1>4
    <3>2. Numbered(Append(given, 0 + Len(given) + 1), 0)
      BY <1>3, NumberedAppend
    <3> QED BY <1>7, <3>1, <3>2
  <2>3. Numbered(queue'.list, Len(given'))
    BY <1>4, <2>1
  <2>4. written' = Len(given') + Len(queue'.list)
    <3>1. written = Len(given) + Len(queue.list) /\ Len(queue.list) \in Nat
      BY <1>1, <1>3 DEF ItemsOnTheWay
    <3>2. written' = written
      BY <1>7
    <3>3. Len(rest) = Len(queue.list) - 1 /\ Len(given) \in Nat
      BY <1>3, <1>4
    <3>4. Len(queue'.list) = Len(queue.list) - 1
      BY <2>1, <3>3
    <3>5. Len(given') + Len(queue'.list) = (Len(given) + 1) + (Len(queue.list) - 1)
      BY <2>1, <3>4
    <3>6. (Len(given) + 1) + (Len(queue.list) - 1) = Len(given) + Len(queue.list)
      <4>1. \A g, l \in Nat : (g + 1) + (l - 1) = g + l
        OBVIOUS
      <4>2. Len(given) \in Nat /\ Len(queue.list) \in Nat
        BY <3>1, <3>3
      <4> QED BY <4>1, <4>2, Zenon
    <3> QED BY <3>1, <3>2, <3>5, <3>6, Zenon
  <2> QED BY <2>2, <2>3, <2>4 DEF ItemsOnTheWay, Numbered
<1>18. RegisteredToRead'
  BY <1>1, <1>7, <1>14, FdInTable DEF RegisteredToRead, NoOtherWatcher, Sound, IsRunloop
<1>19. Starting' \/ Finished'
  BY <1>5, <1>7, <1>14 DEF Starting, Finished
<1> QED BY <1>15, <1>16, <1>17, <1>18, <1>19 DEF ReaderInv, ReaderPhase

\* The writer adds the next item behind the others, or the queue is full.
LEMMA ReaderAdd ==
    ASSUME ReaderInv, Add
    PROVE  ReaderInv'
<1>1. /\ ReaderType /\ SignalForFunctor /\ ItemsOnTheWay /\ RegisteredToRead /\ ReaderPhase
      /\ Sound(rl) /\ Alive(rl) /\ written + 1 \in Item /\ written' = written + 1
      /\ UNCHANGED <<batch, loop, read_cb, given>>
  BY DEF ReaderInv, ReaderType, Add
<1>2. /\ queue.list \in Seq(Items) /\ queue.list \in Seq(Nat) /\ given \in Seq(Nat) /\ Len(given) \in Nat
      /\ written \in Nat /\ queue.counter \in Nat
      /\ Numbered(given, 0) /\ Numbered(queue.list, Len(given)) /\ written = Len(given) + Len(queue.list)
  BY <1>1, ReaderTypes DEF ItemsOnTheWay
<1>3. written' \in Items /\ written' = Len(given) + Len(queue.list) + 1
  BY <1>1, <1>2 DEF Items
<1>4. CASE HasRoom(queue)
  <2>1. /\ queue' = runloop_eventfd_queue_add(queue, written') /\ ready' = Signalled(queue')
        /\ UNCHANGED rl
    BY <1>4 DEF Add
  <2>2. /\ queue' \in QueueOf(Items) /\ queue'.list = Append(queue.list, written')
        /\ queue'.counter = queue.counter + 1 /\ queue'.list # <<>>
    BY <1>1, <1>3, <2>1, AddFields DEF ReaderType
  <2>3. ReaderType'
    BY <1>1, <1>2, <1>3, <2>1, <2>2, SoundPrimed DEF ReaderType, Items
  <2>4. SignalForFunctor'
    BY <2>1, <2>2 DEF SignalForFunctor
  <2>5. ItemsOnTheWay'
    <3>1. Numbered(queue'.list, Len(given'))
      <4>1. Numbered(Append(queue.list, Len(given) + Len(queue.list) + 1), Len(given))
        BY <1>2, NumberedAppend
      <4> QED BY <1>1, <1>3, <2>2, <4>1
    <3>2. Len(queue'.list) = Len(queue.list) + 1 /\ Len(queue.list) \in Nat
      BY <1>2, <1>3, <2>2
    <3>3. written' = Len(given') + Len(queue'.list)
      BY <1>1, <1>2, <1>3, <3>2
    <3> QED BY <1>1, <1>2, <3>1, <3>3 DEF ItemsOnTheWay, Numbered
  <2>6. RegisteredToRead'
    BY <1>1, <2>1 DEF RegisteredToRead, NoOtherWatcher
  <2>7. ReaderPhase'
    <3>1. queue'.counter > 0
      BY <1>2, <2>2
    <3>2. (Starting => Starting') /\ (Waiting => Waiting') /\ (Finished => Finished')
      BY <1>1, <2>1 DEF Starting, Waiting, Finished
    <3>3. Reading => Reading'
      BY <1>1, <2>1, <3>1 DEF Reading
    <3> QED BY <1>1, <3>2, <3>3 DEF ReaderPhase
  <2> QED BY <2>3, <2>4, <2>5, <2>6, <2>7 DEF ReaderInv
<1>5. CASE ~HasRoom(queue)
  <2>1. rl' = Abort(rl, "queue full") /\ UNCHANGED <<queue, ready>>
    BY <1>5 DEF Add
  <2>2. Only(rl', rl, {"aborted"}) /\ rl'.aborted = "queue full" /\ Sound(rl') /\ ~Alive(rl')
    <3>1. "aborted" \in DOMAIN rl
      BY <1>1 DEF Sound, IsRunloop
    <3> QED BY <1>1, <2>1, <3>1, AbortFields, AbortSound
  <2>3. rl'.ready_list = rl.ready_list /\ rl'.entries = rl.entries /\ rl'.closed_flag = rl.closed_flag
    BY <1>1, <2>2 DEF Sound, IsRunloop, Only
  <2>4. ReaderType'
    BY <1>1, <1>2, <1>3, <2>1, <2>2, <2>3, SoundPrimed DEF ReaderType, Items
  <2>5. SignalForFunctor'
    BY <1>1, <2>1 DEF SignalForFunctor, Signalled
  <2>6. ItemsOnTheWay'
    BY <1>1, <1>2, <2>1, <2>2 DEF ItemsOnTheWay, Numbered, Alive
  <2>7. RegisteredToRead'
    BY <1>1, <2>3 DEF RegisteredToRead, NoOtherWatcher
  <2>8. ReaderPhase'
    BY <1>1, <2>1, <2>3 DEF ReaderPhase, Starting, Waiting, Reading, Finished
  <2> QED BY <2>4, <2>5, <2>6, <2>7, <2>8 DEF ReaderInv
<1> QED BY <1>4, <1>5

LEMMA ReaderStep ==
    ASSUME ReaderInv, [ReaderNext]_readerVars
    PROVE  ReaderInv'
<1>1. CASE UNCHANGED readerVars
  <2>1. UNCHANGED <<rl, ready, batch, loop, queue, read_cb, written, given>>
    BY <1>1 DEF readerVars
  <2>2. ReaderPhase'
    BY <2>1 DEF ReaderInv, ReaderPhase, Starting, Waiting, Reading, Finished
  <2> QED BY <2>1, <2>2, ReaderSame DEF ReaderInv
<1> QED BY <1>1, ReaderIdle, ReaderWait, ReaderStart, ReaderRun, ReaderRead, ReaderAdd
        DEF ReaderNext, ReaderLoopStep

LEMMA ReaderShows == ReaderInv => ItemsValid /\ ReadsAlternate
<1> SUFFICES ASSUME ReaderInv PROVE ItemsValid /\ ReadsAlternate
  OBVIOUS
<1>1. ItemsValid
  BY NumberedSame DEF ReaderInv, ReaderType, ItemsOnTheWay, ItemsValid
<1>2. (rl.entries[fd] = qwatcher) = read_cb
  BY FdInTable DEF ReaderInv, ReaderType, RegisteredToRead
<1> QED BY <1>1, <1>2 DEF ReaderInv, ReaderType, ReadsAlternate

\* Whatever the writer does between the reader's steps, every callback has the next item,
\* the watcher is registered exactly while a callback waits, and only a full queue stops
\* the program.
THEOREM ReaderInOrder == ReaderSpec => [](ItemsValid /\ ReadsAlternate)
BY ReaderInitial, ReaderStep, ReaderShows, PTL DEF ReaderSpec

-----------------------------------------------------------------------------
(* The three uses side by side. *)

UsesInv ==
    /\ use \in {"program", "handoff", "reader"}
    /\ use = "program" => ProgramSound(rl)
    /\ use = "handoff" => HandoffInv
    /\ use = "reader" => ReaderInv

OwnInv == UsesInv /\ (use = "program" => ProgramInv)

LEMMA UsesInitial == UsesInit => OwnInv
<1> SUFFICES ASSUME UsesInit PROVE OwnInv
  OBVIOUS
<1>1. use \in {"program", "handoff", "reader"}
  BY UsesAssumption DEF UsesInit
<1>2. CASE use = "program"
  <2>1. ProgramInit
    BY <1>2 DEF UsesInit
  <2> QED BY <1>2, <2>1, InitSound, InitProgramInv DEF UsesInv, OwnInv
<1>3. CASE use = "handoff"
  <2>1. ItqInit
    BY <1>3 DEF UsesInit
  <2> QED BY <1>3, <2>1, HandoffInit DEF UsesInv, OwnInv
<1>4. CASE use = "reader"
  <2>1. ReaderInit
    BY <1>4 DEF UsesInit
  <2> QED BY <1>4, <2>1, ReaderInitial DEF UsesInv, OwnInv
<1> QED BY <1>1, <1>2, <1>3, <1>4

\* A behaviour is of one use, so that a step is one of it.
LEMMA OneUse ==
    ASSUME UsesInv, [UsesNext]_usesVars
    PROVE  /\ use' = use
           /\ use = "program" => [ProgramNext]_programVars
           /\ use = "handoff" => [ItqNext]_itqVars
           /\ use = "reader" => [ReaderNext]_readerVars
<1>1. CASE UNCHANGED usesVars
  BY <1>1 DEF usesVars, programVars, itqVars, readerVars, runloopVars
<1>2. CASE InUse("program", ProgramNext, NotProgram)
  BY <1>2 DEF InUse
<1>3. CASE InUse("handoff", ItqNext, NotHandoff)
  BY <1>3 DEF InUse
<1>4. CASE InUse("reader", ReaderNext, NotReader)
  BY <1>4 DEF InUse
<1> QED BY <1>1, <1>2, <1>3, <1>4 DEF UsesNext

LEMMA UsesStep ==
    ASSUME UsesInv, [UsesNext]_usesVars
    PROVE  UsesInv'
<1>1. use' = use /\ use \in {"program", "handoff", "reader"}
  BY OneUse DEF UsesInv
<1>2. use = "program" => ProgramSound(rl)'
  BY OneUse, NextSound DEF UsesInv
<1>3. use = "handoff" => HandoffInv'
  BY OneUse, HandoffNext DEF UsesInv
<1>4. use = "reader" => ReaderInv'
  BY OneUse, ReaderStep DEF UsesInv
<1> QED BY <1>1, <1>2, <1>3, <1>4 DEF UsesInv

LEMMA OwnStep ==
    ASSUME OwnOnly, OwnInv, [UsesNext]_usesVars
    PROVE  OwnInv'
<1>1. UsesInv /\ UsesInv'
  BY UsesStep DEF OwnInv
<1>2. use' = use /\ (use = "program" => ProgramInv')
  BY <1>1, OneUse, ProgramStep DEF OwnInv
<1> QED BY <1>1, <1>2 DEF OwnInv

\* In every one of the three uses the kernel and the table of a runloop that is open agree
\* on who watches what, and the count that runloop_run tests is that of the entries.
THEOREM UsesTable == UsesSpec => []TableMatchesKernel
<1>1. UsesInv => TableMatchesKernel
  <2>1. UsesInv => Sound(rl)
    BY DEF UsesInv, ProgramSound, HandoffInv, HandoffType, ReaderInv, ReaderType
  <2> QED BY <2>1 DEF Sound, Counted, Used, Mirrored, TableMatchesKernel
<1>2. UsesInit => UsesInv
  BY UsesInitial DEF OwnInv
<1>3. UsesInv /\ [UsesNext]_usesVars => UsesInv'
  BY UsesStep
<1> QED BY <1>1, <1>2, <1>3, PTL DEF UsesSpec

\* However many descriptors, watchers, threads and functors there are: of the assertions on
\* the way of an event and of a functor, only those of a full list can fail, and that of
\* the iterator when a runloop with its last descriptor in use is closed.
THEOREM UsesAborts == ASSUME OwnOnly PROVE UsesSpec => []OnlyFullListsAbort
<1>1. OwnInv => OnlyFullListsAbort
  BY DEF OwnInv, UsesInv, ProgramInv, HandoffInv, HandoffType, OnlyFullListsAbort, OnlyFullQueueAborts
<1>2. OwnInv /\ [UsesNext]_usesVars => OwnInv'
  BY OwnStep
<1> QED BY <1>1, <1>2, UsesInitial, PTL DEF UsesSpec

\* A queue between threads loses, doubles and overtakes nothing, whether its functors are
\* posted to the runloop or read one by one.
THEOREM UsesInOrder == UsesSpec => []QueueInOrder
<1>1. UsesInv => QueueInOrder
  BY ReaderShows DEF UsesInv, HandoffInv, QueueInOrder
<1>2. UsesInit => UsesInv
  BY UsesInitial DEF OwnInv
<1>3. UsesInv /\ [UsesNext]_usesVars => UsesInv'
  BY UsesStep
<1> QED BY <1>1, <1>2, <1>3, PTL DEF UsesSpec

=============================================================================
