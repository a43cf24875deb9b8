---------------------------- MODULE RunloopLemmas ---------------------------
(***************************************************************************)
(* What the functions of runloop.c do to the fields of a runloop, for      *)
(* every number of descriptors and every set of watchers.  A runloop may   *)
(* have more fields than those of Runloop: the watchers and the queues of  *)
(* a program are kept beside them.                                         *)
(***************************************************************************)
EXTENDS Runloop, FiniteSetTheorems, TLAPS

Slot == Watcher \cup {NULL}
EpollEvent == {"IN", "OUT", "RDHUP", "ET", "EXCLUSIVE"}

IsRunloop(r) ==
    /\ {"entries", "count", "epoll", "interest", "closed_flag", "ready_list", "aborted"} \subseteq DOMAIN r
    /\ r.entries \in [Fd -> Slot] /\ r.epoll \in [Fd -> Slot]
    /\ r.interest \in [Fd -> SUBSET EpollEvent]
    /\ r.count \in Int /\ r.closed_flag \in BOOLEAN

\* n differs from r in the fields S at most.
Only(n, r, S) == DOMAIN n = DOMAIN r /\ \A x \in DOMAIN r \ S : n[x] = r[x]

Used(r) == {d \in Fd : r.entries[d] # NULL}

(* What every function of runloop.c preserves: an entry is at its own      *)
(* descriptor, the count is that of the entries, and as long as the epoll  *)
(* instance is open the kernel has the same pointers.                      *)
OwnPlace(r) == \A d \in Fd : r.entries[d] # NULL => fdOf[r.entries[d]] = d
Counted(r) == r.count = Cardinality(Used(r))
Mirrored(r) == Alive(r) /\ ~r.closed_flag => r.epoll = r.entries

Sound(r) == IsRunloop(r) /\ OwnPlace(r) /\ Counted(r) /\ Mirrored(r)

LEMMA UsedFinite == \A r : IsFiniteSet(Used(r))
<1>1. IsFiniteSet(Fd)
  BY RunloopAssumption, FS_Interval DEF Fd
<1> QED BY <1>1, FS_Subset DEF Used

LEMMA WatcherPlace == \A w \in Watcher : fdOf[w] \in Fd /\ w \in Slot /\ w # NULL /\ NULL \in Slot
BY RunloopAssumption DEF Fd, Slot

\* An entry that is filled, and one that is emptied, is counted.
LEMMA CountFilled ==
    ASSUME NEW r, NEW n, IsRunloop(r), NEW d \in Fd, NEW w \in Watcher,
           Counted(r), r.entries[d] = NULL,
           n.entries = [r.entries EXCEPT ![d] = w], n.count = r.count + 1
    PROVE  Counted(n)
<1>1. Used(n) = Used(r) \cup {d} /\ d \notin Used(r)
  BY RunloopAssumption DEF Used, IsRunloop, Slot
<1> QED BY <1>1, UsedFinite, FS_AddElement DEF Counted

LEMMA CountEmptied ==
    ASSUME NEW r, NEW n, IsRunloop(r), NEW d \in Fd,
           Counted(r), r.entries[d] # NULL,
           n.entries = [r.entries EXCEPT ![d] = NULL], n.count = r.count - 1
    PROVE  Counted(n)
<1>1. Used(n) = Used(r) \ {d} /\ d \in Used(r)
  BY DEF Used, IsRunloop, Slot
<1> QED BY <1>1, UsedFinite, FS_RemoveElement DEF Counted

\* What the lemmas about r say carries over to a runloop with the same table and kernel.
LEMMA SameSound ==
    ASSUME NEW r, NEW n, Sound(r),
           \/ Only(n, r, {"ready_list"})
           \/ Only(n, r, {"aborted", "ready_list"}) /\ ~Alive(n)
    PROVE  Sound(n) /\ n.entries = r.entries /\ n.epoll = r.epoll /\ n.interest = r.interest
<1>1. /\ IsRunloop(n) /\ n.entries = r.entries /\ n.epoll = r.epoll /\ n.count = r.count
      /\ n.closed_flag = r.closed_flag /\ n.interest = r.interest
  BY DEF Sound, IsRunloop, Only
<1>2. OwnPlace(n) /\ Counted(n)
  BY <1>1 DEF Sound, OwnPlace, Counted, Used
<1>3. Mirrored(n)
  BY <1>1 DEF Sound, IsRunloop, Mirrored, Alive, Only
<1> QED BY <1>1, <1>2, <1>3 DEF Sound

\* A program that stops leaves the runloop as it is.
LEMMA AbortFields ==
    ASSUME NEW r, "aborted" \in DOMAIN r, NEW why
    PROVE  /\ Only(Abort(r, why), r, {"aborted"}) /\ Abort(r, why).aborted = why
           /\ why # "no" => ~Alive(Abort(r, why))
BY DEF Abort, Alive, Only

LEMMA AbortSound ==
    ASSUME NEW r, Sound(r), NEW why, why # "no"
    PROVE  Sound(Abort(r, why))
<1>1. Only(Abort(r, why), r, {"aborted", "ready_list"}) /\ ~Alive(Abort(r, why))
  BY AbortFields DEF Sound, IsRunloop, Only
<1> QED BY <1>1, SameSound

-----------------------------------------------------------------------------
\* The kernel's side and the table's side of a change, each by its fields.
KernelSide(r, d, e, i) == [r EXCEPT !.epoll[d] = e, !.interest[d] = i]
TableSide(r, d, e, c) == [r EXCEPT !.entries[d] = e, !.count = c]

LEMMA KernelChanged ==
    ASSUME NEW r, IsRunloop(r), NEW d \in Fd, NEW e \in Slot, NEW i \in SUBSET EpollEvent
    PROVE  LET n == KernelSide(r, d, e, i)
           IN  /\ IsRunloop(n) /\ Only(n, r, {"epoll", "interest"})
               /\ n.epoll = [r.epoll EXCEPT ![d] = e]
               /\ n.interest = [r.interest EXCEPT ![d] = i]
BY DEF IsRunloop, KernelSide, Only

LEMMA TableChanged ==
    ASSUME NEW r, IsRunloop(r), NEW d \in Fd, NEW e \in Slot, NEW c \in Int
    PROVE  LET n == TableSide(r, d, e, c)
           IN  /\ IsRunloop(n) /\ Only(n, r, {"entries", "count"})
               /\ n.entries = [r.entries EXCEPT ![d] = e]
               /\ n.count = c
BY DEF IsRunloop, TableSide, Only

Table == {"entries", "count", "epoll", "interest"}

\* n is r with the watcher w (NULL for none) and the interest i for descriptor d, on both
\* sides, and m is r with another interest for d.
Placed(n, r, d, w, i) ==
    /\ Sound(n) /\ Alive(n) /\ Only(n, r, Table)
    /\ n.entries = [r.entries EXCEPT ![d] = w] /\ n.interest = [r.interest EXCEPT ![d] = i]
Renewed(m, r, d, i) ==
    /\ Sound(m) /\ Alive(m) /\ Only(m, r, {"epoll", "interest"})
    /\ m.interest = [r.interest EXCEPT ![d] = i]

\* What a registration leaves.
LEMMA RegisterFields ==
    ASSUME NEW r, Sound(r), Alive(r), ~r.closed_flag, NEW w \in Watcher, r.entries[fdOf[w]] = NULL,
           NEW i \in SUBSET EpollEvent
    PROVE  Placed(runloop_register(r, fdOf[w], i, w), r, fdOf[w], w, i)
<1> DEFINE d == fdOf[w]
           m == KernelSide(r, d, w, i)
           n == TableSide(m, d, w, m.count + 1)
<1>1. d \in Fd /\ r.epoll = r.entries /\ IsRunloop(r) /\ w \in Slot /\ w # NULL
  BY WatcherPlace DEF Sound, Mirrored
<1>2. /\ IsRunloop(m) /\ Only(m, r, {"epoll", "interest"})
      /\ m.epoll = [r.epoll EXCEPT ![d] = w] /\ m.interest = [r.interest EXCEPT ![d] = i]
  BY <1>1, KernelChanged
<1>3. runloop_register(r, d, i, w) = FdTable_insert(m, w, d)
  BY <1>1 DEF runloop_register, runloop_epoll_ctl, EpollCtlFails, Asserting, KernelSide
<1> HIDE DEF m
<1>4. /\ m.entries = r.entries /\ m.count = r.count /\ m.aborted = r.aborted
      /\ m.closed_flag = r.closed_flag /\ m.count + 1 \in Int
  BY <1>1, <1>2 DEF IsRunloop, Only
<1>5. FdTable_insert(m, w, d) = n
  BY <1>4 DEF FdTable_insert, Asserting, Alive, TableSide
<1>6. /\ IsRunloop(n) /\ Only(n, m, {"entries", "count"})
      /\ n.entries = [r.entries EXCEPT ![d] = w] /\ n.count = r.count + 1
  BY <1>1, <1>2, <1>4, TableChanged
<1> HIDE DEF n
<1>7. /\ Only(n, r, Table) /\ n.epoll = m.epoll /\ n.interest = m.interest
      /\ n.closed_flag = r.closed_flag /\ n.aborted = r.aborted
  BY <1>1, <1>2, <1>6 DEF IsRunloop, Only, Table
<1>8. Counted(n)
  BY <1>1, <1>6, CountFilled DEF Sound
<1>9. OwnPlace(n) /\ Mirrored(n) /\ Alive(n)
  BY <1>1, <1>2, <1>6, <1>7 DEF Sound, OwnPlace, Mirrored, Alive, IsRunloop
<1>10. Placed(n, r, d, w, i)
  BY <1>2, <1>6, <1>7, <1>8, <1>9 DEF Sound, Placed
<1> QED BY <1>3, <1>5, <1>10

\* What deregistering leaves, and closing the descriptor and deleting it from the table.
LEMMA ReleaseFields ==
    ASSUME NEW r, Sound(r), Alive(r), ~r.closed_flag, NEW w \in Watcher, r.entries[fdOf[w]] = w
    PROVE  LET n == runloop_deregister(r, fdOf[w])
           IN  runloop_delete(close_fd(r, fdOf[w]), fdOf[w]) = n /\ Placed(n, r, fdOf[w], NULL, {})
<1> DEFINE d == fdOf[w]
           m == KernelSide(r, d, NULL, {})
           n == TableSide(m, d, NULL, m.count - 1)
<1>1. /\ d \in Fd /\ r.epoll = r.entries /\ IsRunloop(r) /\ NULL \in Slot /\ r.entries[d] # NULL
      /\ {} \in SUBSET EpollEvent
  BY WatcherPlace DEF Sound, Mirrored
<1>2. /\ IsRunloop(m) /\ Only(m, r, {"epoll", "interest"})
      /\ m.epoll = [r.epoll EXCEPT ![d] = NULL] /\ m.interest = [r.interest EXCEPT ![d] = {}]
  <2>1. ASSUME NEW i \in SUBSET EpollEvent
        PROVE  LET k == KernelSide(r, d, NULL, i)
               IN  /\ IsRunloop(k) /\ Only(k, r, {"epoll", "interest"})
                   /\ k.epoll = [r.epoll EXCEPT ![d] = NULL] /\ k.interest = [r.interest EXCEPT ![d] = i]
    BY <1>1, KernelChanged
  <2> QED BY <1>1, <2>1
<1>3. runloop_deregister(r, d) = FdTable_remove(m, d)
  BY <1>1 DEF runloop_deregister, FdTable_lookup, runloop_epoll_ctl, EpollCtlFails, Asserting, KernelSide
<1>4. close_fd(r, d) = m
  BY DEF close_fd, KernelSide
<1> HIDE DEF m
<1>5. /\ m.entries = r.entries /\ m.count = r.count /\ m.aborted = r.aborted
      /\ m.closed_flag = r.closed_flag /\ m.count - 1 \in Int
  BY <1>1, <1>2 DEF IsRunloop, Only
<1>6. FdTable_remove(m, d) = n /\ runloop_delete(m, d) = n
  BY <1>1, <1>5 DEF runloop_delete, FdTable_lookup, FdTable_remove, Asserting, Alive, TableSide
<1>7. /\ IsRunloop(n) /\ Only(n, m, {"entries", "count"})
      /\ n.entries = [r.entries EXCEPT ![d] = NULL] /\ n.count = r.count - 1
  BY <1>1, <1>2, <1>5, TableChanged
<1> HIDE DEF n
<1>8. /\ Only(n, r, Table) /\ n.epoll = m.epoll /\ n.interest = m.interest
      /\ n.closed_flag = r.closed_flag /\ n.aborted = r.aborted
  BY <1>1, <1>2, <1>7 DEF IsRunloop, Only, Table
<1>9. Counted(n)
  BY <1>1, <1>7, CountEmptied DEF Sound
<1>10. OwnPlace(n) /\ Mirrored(n) /\ Alive(n)
  BY <1>1, <1>2, <1>7, <1>8 DEF Sound, OwnPlace, Mirrored, Alive, IsRunloop
<1>11. Placed(n, r, d, NULL, {})
  BY <1>2, <1>7, <1>8, <1>9, <1>10 DEF Sound, Placed
<1> QED BY <1>3, <1>4, <1>6, <1>11

\* A change of the interest changes nothing else; it fails for an exclusive registration.
LEMMA ReregisterFields ==
    ASSUME NEW r, Sound(r), Alive(r), ~r.closed_flag, NEW w \in Watcher, r.entries[fdOf[w]] = w,
           NEW i \in SUBSET EpollEvent
    PROVE  LET n == runloop_reregister(r, fdOf[w], i, w)
           IN  /\ "EXCLUSIVE" \in r.interest[fdOf[w]] => n = Abort(r, "epoll_ctl")
               /\ "EXCLUSIVE" \notin r.interest[fdOf[w]] => Renewed(n, r, fdOf[w], i)
<1> DEFINE d == fdOf[w]
           m == KernelSide(r, d, w, i)
<1>1. d \in Fd /\ r.epoll = r.entries /\ IsRunloop(r) /\ w \in Slot /\ r.entries[d] # NULL
  BY WatcherPlace DEF Sound, Mirrored
<1>2. CASE "EXCLUSIVE" \in r.interest[d]
  <2>1. runloop_epoll_ctl(FdTable_lookup(r, d), "MOD", d, i, w) = Abort(r, "epoll_ctl")
    BY <1>1, <1>2 DEF FdTable_lookup, runloop_epoll_ctl, EpollCtlFails, Asserting
  <2>2. ~Alive(Abort(r, "epoll_ctl"))
    BY <1>1, AbortFields DEF IsRunloop
  <2> QED BY <1>2, <2>1, <2>2 DEF runloop_reregister, Asserting
<1>3. CASE "EXCLUSIVE" \notin r.interest[d]
  <2>1. runloop_epoll_ctl(FdTable_lookup(r, d), "MOD", d, i, w) = m
    BY <1>1, <1>3 DEF FdTable_lookup, runloop_epoll_ctl, EpollCtlFails, Asserting, KernelSide
  <2>2. /\ IsRunloop(m) /\ Only(m, r, {"epoll", "interest"})
        /\ m.epoll = [r.epoll EXCEPT ![d] = w] /\ m.interest = [r.interest EXCEPT ![d] = i]
    BY <1>1, KernelChanged
  <2> HIDE DEF m
  <2>3. /\ m.entries = r.entries /\ m.count = r.count /\ m.aborted = r.aborted
        /\ m.closed_flag = r.closed_flag
    BY <1>1, <2>2 DEF IsRunloop, Only
  <2>4. runloop_reregister(r, d, i, w) = m
    BY <2>1, <2>3 DEF runloop_reregister, Asserting, Alive
  <2>5. m.epoll = r.epoll
    BY <1>1, <2>2 DEF IsRunloop
  <2>6. OwnPlace(m) /\ Counted(m)
    BY <2>3 DEF Sound, OwnPlace, Counted, Used
  <2>7. Mirrored(m) /\ Alive(m)
    BY <1>1, <2>3, <2>5 DEF Mirrored, Alive
  <2> QED BY <1>3, <2>2, <2>4, <2>6, <2>7 DEF Sound, Renewed
<1> QED BY <1>2, <1>3

\* A functor is posted, or the ready list is full.
LEMMA PostFields ==
    ASSUME NEW r, Sound(r), Alive(r), NEW f
    PROVE  LET n == runloop_post(r, f)
           IN  /\ Sound(n) /\ n.entries = r.entries /\ n.interest = r.interest
               /\ Len(r.ready_list) < READY_MAX =>
                      Only(n, r, {"ready_list"}) /\ n.ready_list = Append(r.ready_list, f) /\ Alive(n)
               /\ ~(Len(r.ready_list) < READY_MAX) => n = Abort(r, "full")
<1>1. IsRunloop(r)
  BY DEF Sound
<1>2. CASE Len(r.ready_list) < READY_MAX
  <2> DEFINE n == [r EXCEPT !.ready_list = Append(@, f)]
  <2>1. runloop_post(r, f) = n
    BY <1>2 DEF runloop_post, Asserting
  <2>2. Only(n, r, {"ready_list"}) /\ n.ready_list = Append(r.ready_list, f) /\ n.aborted = r.aborted
    BY <1>1 DEF IsRunloop, Only
  <2> HIDE DEF n
  <2>3. Alive(n)
    BY <2>2 DEF Alive
  <2>4. Sound(n) /\ n.entries = r.entries /\ n.interest = r.interest
    BY <2>2, SameSound
  <2> QED BY <1>2, <2>1, <2>2, <2>3, <2>4
<1>3. CASE ~(Len(r.ready_list) < READY_MAX)
  <2>1. runloop_post(r, f) = Abort(r, "full")
    BY <1>3 DEF runloop_post, Asserting
  <2>2. Only(Abort(r, "full"), r, {"aborted"})
    BY <1>1, AbortFields DEF IsRunloop
  <2>3. Abort(r, "full").entries = r.entries /\ Abort(r, "full").interest = r.interest
    BY <1>1, <2>2 DEF IsRunloop, Only
  <2> QED BY <1>3, <2>1, <2>3, AbortSound
<1> QED BY <1>2, <1>3

\* The dispatch loop only looks: it goes on if the event meets its watcher.
LEMMA DeliveredFields ==
    ASSUME NEW w, Sound(rl), Alive(rl)
    PROVE  /\ Sound(Delivered(w))
           /\ Delivered(w) \in {rl, Abort(rl, "lookup"), Abort(rl, "mismatch")}
           /\ w # NULL /\ rl.entries[fdOf[w]] = w => Delivered(w) = rl
<1>1. Sound(Abort(rl, "lookup")) /\ Sound(Abort(rl, "mismatch")) /\ ~Alive(Abort(rl, "lookup"))
  BY AbortSound, AbortFields DEF Sound, IsRunloop
<1>2. Delivered(w) \in {rl, Abort(rl, "lookup"), Abort(rl, "mismatch")}
  BY <1>1 DEF Delivered, FdTable_lookup, Asserting
<1>3. w # NULL /\ rl.entries[fdOf[w]] = w => Delivered(w) = rl
  BY DEF Delivered, FdTable_lookup, Asserting
<1> QED BY <1>1, <1>2, <1>3

LEMMA NewSound == /\ Sound(runloop_new) /\ runloop_new.aborted = "no"
                  /\ runloop_new.ready_list = <<>> /\ runloop_new.count = 0
                  /\ runloop_new.entries = [d \in Fd |-> NULL]
                  /\ runloop_new.interest = [d \in Fd |-> {}] /\ runloop_new.closed_flag = FALSE
<1> DEFINE r == runloop_new
<1>1. /\ r.entries = FdTable_init /\ r.epoll = FdTable_init /\ r.count = 0
      /\ r.interest = [d \in Fd |-> {}] /\ r.closed_flag = FALSE /\ r.aborted = "no" /\ r.ready_list = <<>>
      /\ DOMAIN r = {"entries", "count", "epoll", "interest", "closed_flag", "ready_list", "aborted"}
  BY DEF runloop_new, FdTable_new
<1> HIDE DEF r
<1>2. IsRunloop(r)
  <2>1. r.entries \in [Fd -> Slot] /\ r.epoll \in [Fd -> Slot]
    BY <1>1 DEF FdTable_init, Slot
  <2>2. r.interest \in [Fd -> SUBSET EpollEvent]
    BY <1>1
  <2>3. {"entries", "count", "epoll", "interest", "closed_flag", "ready_list", "aborted"} \subseteq DOMAIN r
    BY <1>1
  <2>4. r.count \in Int
    BY <1>1
  <2>5. r.closed_flag \in BOOLEAN
    BY <1>1, Zenon
  <2> QED BY <2>1, <2>2, <2>3, <2>4, <2>5 DEF IsRunloop
<1>3. Used(r) = {}
  BY <1>1 DEF Used, FdTable_init
<1>4. OwnPlace(r) /\ Counted(r) /\ Mirrored(r)
  BY <1>1, <1>3, FS_EmptySet DEF OwnPlace, Counted, Mirrored, FdTable_init
<1> QED BY <1>1, <1>2, <1>4 DEF Sound, r, FdTable_init
=============================================================================
