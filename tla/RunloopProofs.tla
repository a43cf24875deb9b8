---------------------------- MODULE RunloopProofs ---------------------------
(***************************************************************************)
(* An arbitrary program on the epoll runloop, for every number of          *)
(* descriptors, every set of watchers and functors and every capacity of   *)
(* the ready list.  The table of watchers, its count and the kernel's      *)
(* interest list agree.  If handlers release only their own watcher, every *)
(* event of a batch meets its watcher, and only the two assertions about   *)
(* capacities can fail.                                                    *)
(***************************************************************************)
EXTENDS RunloopClient, RunloopLemmas

\* A program registers its watchers without EPOLLEXCLUSIVE.
Modifiable(r) == \A d \in Fd : "EXCLUSIVE" \notin r.interest[d]
ProgramSound(r) == Sound(r) /\ Modifiable(r)

\* Closing leaves the table as it is; its iteration fails on the last descriptor.
LEMMA CloseSound ==
    ASSUME NEW r, ProgramSound(r), Alive(r), ~r.closed_flag
    PROVE  LET n == runloop_close(r)
           IN  /\ ProgramSound(n) /\ n.aborted \in {"no", "iterator"} /\ n.entries = r.entries
               /\ n.closed_flag
<1> DEFINE c == [r EXCEPT !.closed_flag = TRUE, !.epoll = FdTable_init, !.interest = [d \in Fd |-> {}]]
<1>1. IsRunloop(r) /\ FdTable_init \in [Fd -> Slot]
  BY DEF ProgramSound, Sound, FdTable_init, Slot
<1>2. /\ IsRunloop(c) /\ Only(c, r, {"closed_flag", "epoll", "interest"}) /\ c.closed_flag
      /\ c.interest = [d \in Fd |-> {}]
  BY <1>1 DEF IsRunloop, Only
<1>3. runloop_close(r) = FdTable_next_iterator(c)
  BY DEF runloop_close, Asserting
<1> HIDE DEF c
<1>4. c.entries = r.entries /\ c.count = r.count /\ c.aborted = "no"
  BY <1>1, <1>2 DEF IsRunloop, Only, Alive
<1>5. Sound(c)
  BY <1>2, <1>4 DEF ProgramSound, Sound, OwnPlace, Counted, Used, Mirrored
<1>6. FdTable_next_iterator(c) \in {c, Abort(c, "iterator")}
  BY DEF FdTable_next_iterator, Asserting
<1>7. Sound(Abort(c, "iterator"))
  BY <1>5, AbortSound
<1>8. /\ Abort(c, "iterator").aborted = "iterator" /\ Abort(c, "iterator").entries = c.entries
      /\ Abort(c, "iterator").closed_flag = c.closed_flag /\ Abort(c, "iterator").interest = c.interest
  <2>1. /\ Only(Abort(c, "iterator"), c, {"aborted"}) /\ Abort(c, "iterator").aborted = "iterator"
    BY <1>2, AbortFields DEF IsRunloop
  <2> QED BY <1>2, <2>1 DEF IsRunloop, Only
<1> QED BY <1>2, <1>3, <1>4, <1>5, <1>6, <1>7, <1>8 DEF ProgramSound, Modifiable

Replaced(r, e, c) == [r EXCEPT !.entries = e, !.count = c]

LEMMA TableReplaced ==
    ASSUME NEW r, IsRunloop(r), NEW e \in [Fd -> Slot], NEW c \in Int
    PROVE  LET n == Replaced(r, e, c)
           IN  /\ IsRunloop(n) /\ Only(n, r, {"entries", "count"}) /\ n.entries = e /\ n.count = c
BY DEF IsRunloop, Only, Replaced

LEMMA FreeSound ==
    ASSUME NEW r, ProgramSound(r), Alive(r)
    PROVE  ProgramSound(runloop_free(r)) /\ runloop_free(r).aborted \in {"no", "iterator"}
<1> DEFINE c == IF r.closed_flag THEN r ELSE runloop_close(r)
           n == FdTable_free(c)
<1>1. ProgramSound(c) /\ c.aborted \in {"no", "iterator"} /\ c.closed_flag
  <2>1. r.closed_flag \in BOOLEAN /\ r.aborted = "no"
    BY DEF ProgramSound, Sound, IsRunloop, Alive
  <2> QED BY <2>1, CloseSound
<1>2. runloop_free(r) = IF Alive(c) THEN n ELSE c
  BY DEF runloop_free
<1> HIDE DEF c
<1>3. CASE Alive(c)
  <2>1. IsRunloop(c) /\ c.count - Cardinality(Used(c)) = 0 /\ FdTable_init \in [Fd -> Slot]
    BY <1>1, UsedFinite, FS_CardinalityType DEF ProgramSound, Sound, Counted, FdTable_init, Slot
  <2>2. n = Replaced(c, FdTable_init, 0)
    BY <2>1 DEF FdTable_free, Used, Replaced
  <2> HIDE DEF n
  <2>3. /\ IsRunloop(n) /\ n.entries = FdTable_init /\ n.count = 0
        /\ Only(n, c, {"entries", "count"})
    BY <2>1, <2>2, TableReplaced
  <2>4. n.closed_flag = c.closed_flag /\ n.aborted = c.aborted /\ n.interest = c.interest
    BY <2>1, <2>3 DEF IsRunloop, Only
  <2>5. Used(n) = {} /\ OwnPlace(n)
    BY <2>3 DEF Used, OwnPlace, FdTable_init
  <2>6. Counted(n) /\ Mirrored(n)
    BY <1>1, <2>3, <2>4, <2>5, FS_EmptySet DEF Counted, Mirrored
  <2> QED BY <1>1, <1>2, <1>3, <2>3, <2>4, <2>5, <2>6 DEF ProgramSound, Modifiable, Sound
<1>4. CASE ~Alive(c)
  BY <1>1, <1>2, <1>4
<1> QED BY <1>3, <1>4

\* The loop takes a functor off the ready list.
Popped(r) == [r EXCEPT !.ready_list = Tail(@)]

LEMMA PoppedFields ==
    ASSUME NEW r, Sound(r)
    PROVE  LET n == Popped(r)
           IN  /\ Sound(n) /\ Only(n, r, {"ready_list"}) /\ n.ready_list = Tail(r.ready_list)
               /\ n.entries = r.entries /\ n.interest = r.interest /\ n.aborted = r.aborted
               /\ n.closed_flag = r.closed_flag /\ n.count = r.count
<1> DEFINE n == Popped(r)
<1>1. /\ Only(n, r, {"ready_list"}) /\ n.ready_list = Tail(r.ready_list)
      /\ n.aborted = r.aborted /\ n.closed_flag = r.closed_flag /\ n.count = r.count
  BY DEF Sound, IsRunloop, Only, Popped
<1> HIDE DEF n
<1> QED BY <1>1, SameSound DEF n

LEMMA RegisterSound ==
    ASSUME NEW r, ProgramSound(r), Alive(r), ~r.closed_flag, NEW w \in Watcher, r.entries[fdOf[w]] = NULL
    PROVE  LET n == runloop_register(r, fdOf[w], {"IN"}, w)
           IN  ProgramSound(n) /\ Alive(n) /\ n.entries = [r.entries EXCEPT ![fdOf[w]] = w]
<1> DEFINE n == runloop_register(r, fdOf[w], {"IN"}, w)
<1>1. {"IN"} \in SUBSET EpollEvent
  BY DEF EpollEvent
<1>2. /\ Sound(n) /\ Alive(n) /\ n.entries = [r.entries EXCEPT ![fdOf[w]] = w]
      /\ n.interest = [r.interest EXCEPT ![fdOf[w]] = {"IN"}]
  BY <1>1, RegisterFields DEF ProgramSound, Placed
<1> HIDE DEF n
<1>3. Modifiable(n)
  BY <1>2 DEF ProgramSound, Modifiable, Sound, IsRunloop
<1> QED BY <1>2, <1>3 DEF ProgramSound, n

LEMMA ReleaseSound ==
    ASSUME NEW r, ProgramSound(r), Alive(r), ~r.closed_flag, NEW w \in Watcher, r.entries[fdOf[w]] = w
    PROVE  LET n == runloop_deregister(r, fdOf[w])
           IN  /\ runloop_delete(close_fd(r, fdOf[w]), fdOf[w]) = n
               /\ ProgramSound(n) /\ Alive(n) /\ n.entries = [r.entries EXCEPT ![fdOf[w]] = NULL]
<1> DEFINE n == runloop_deregister(r, fdOf[w])
<1>1. /\ runloop_delete(close_fd(r, fdOf[w]), fdOf[w]) = n
      /\ Sound(n) /\ Alive(n) /\ n.entries = [r.entries EXCEPT ![fdOf[w]] = NULL]
      /\ n.interest = [r.interest EXCEPT ![fdOf[w]] = {}]
  BY ReleaseFields DEF ProgramSound, Placed
<1> HIDE DEF n
<1>2. Modifiable(n)
  BY <1>1 DEF ProgramSound, Modifiable, Sound, IsRunloop
<1> QED BY <1>1, <1>2 DEF ProgramSound, n

LEMMA ReregisterSound ==
    ASSUME NEW r, ProgramSound(r), Alive(r), ~r.closed_flag, NEW w \in Watcher, r.entries[fdOf[w]] = w,
           NEW i \in SUBSET {"IN"}
    PROVE  LET n == runloop_reregister(r, fdOf[w], i, w)
           IN  ProgramSound(n) /\ Alive(n) /\ n.entries = r.entries
<1> DEFINE n == runloop_reregister(r, fdOf[w], i, w)
<1>1. i \in SUBSET EpollEvent /\ "EXCLUSIVE" \notin r.interest[fdOf[w]] /\ "EXCLUSIVE" \notin i
  BY WatcherPlace DEF EpollEvent, ProgramSound, Modifiable
<1>2. /\ Sound(n) /\ Alive(n) /\ n.interest = [r.interest EXCEPT ![fdOf[w]] = i]
      /\ Only(n, r, {"epoll", "interest"})
  BY <1>1, ReregisterFields DEF ProgramSound, Renewed
<1> HIDE DEF n
<1>3. Modifiable(n)
  BY <1>1, <1>2 DEF ProgramSound, Modifiable, Sound, IsRunloop
<1>4. n.entries = r.entries
  BY <1>2 DEF ProgramSound, Sound, IsRunloop, Only
<1> QED BY <1>2, <1>3, <1>4 DEF ProgramSound, n

LEMMA PostSound ==
    ASSUME NEW r, ProgramSound(r), Alive(r), NEW f
    PROVE  LET n == runloop_post(r, f)
           IN  ProgramSound(n) /\ n.aborted \in {"no", "full"} /\ n.entries = r.entries
<1> DEFINE n == runloop_post(r, f)
<1>1. Sound(n) /\ n.entries = r.entries /\ n.interest = r.interest /\ (Alive(n) \/ n = Abort(r, "full"))
  BY PostFields DEF ProgramSound
<1> HIDE DEF n
<1>2. n.aborted \in {"no", "full"}
  BY <1>1, AbortFields DEF ProgramSound, Sound, IsRunloop, Alive
<1> QED BY <1>1, <1>2 DEF ProgramSound, Modifiable, n

LEMMA DeliveredSound ==
    ASSUME NEW w, ProgramSound(rl), Alive(rl)
    PROVE  /\ ProgramSound(Delivered(w)) /\ Delivered(w).entries = rl.entries
           /\ w # NULL /\ rl.entries[fdOf[w]] = w => Delivered(w) = rl
<1>1. /\ Delivered(w) \in {rl, Abort(rl, "lookup"), Abort(rl, "mismatch")} /\ Sound(Delivered(w))
      /\ w # NULL /\ rl.entries[fdOf[w]] = w => Delivered(w) = rl
  BY DeliveredFields DEF ProgramSound
<1>2. /\ Abort(rl, "lookup").entries = rl.entries /\ Abort(rl, "mismatch").entries = rl.entries
      /\ Abort(rl, "lookup").interest = rl.interest /\ Abort(rl, "mismatch").interest = rl.interest
  BY AbortFields DEF ProgramSound, Sound, IsRunloop, Only
<1>3. Delivered(w).entries = rl.entries /\ Delivered(w).interest = rl.interest
  BY <1>1, <1>2
<1> QED BY <1>1, <1>3 DEF ProgramSound, Modifiable

LEMMA SoundPrimed == (Sound(rl') <=> Sound(rl)') /\ (ProgramSound(rl') <=> ProgramSound(rl)')
BY DEF ProgramSound, Modifiable, Sound, IsRunloop, OwnPlace, Counted, Used, Mirrored, Alive

LEMMA InitSound == ProgramInit => ProgramSound(rl)
BY NewSound DEF ProgramInit, RunloopInit, ProgramSound, Modifiable

LEMMA NextSound == ProgramSound(rl) /\ [ProgramNext]_programVars => ProgramSound(rl)'
<1> SUFFICES ASSUME ProgramSound(rl), [ProgramNext]_programVars PROVE ProgramSound(rl')
  BY SoundPrimed
<1>1. ASSUME NEW w \in Watcher, Register(w) PROVE ProgramSound(rl')
  BY <1>1, RegisterSound DEF Register, Call, InProgram
<1>2. ASSUME NEW w \in Watcher, Deregister(w) PROVE ProgramSound(rl')
  BY <1>2, ReleaseSound DEF Deregister, Call, InProgram
<1>3. ASSUME NEW w \in Watcher, CloseAndDelete(w) PROVE ProgramSound(rl')
  <2>1. /\ Alive(rl) /\ ~rl.closed_flag /\ rl.entries[fdOf[w]] = w
        /\ rl' = runloop_delete(close_fd(rl, fdOf[w]), fdOf[w])
    BY <1>3 DEF CloseAndDelete, Call, InProgram
  <2>2. /\ runloop_delete(close_fd(rl, fdOf[w]), fdOf[w]) = runloop_deregister(rl, fdOf[w])
        /\ ProgramSound(runloop_deregister(rl, fdOf[w]))
    BY <2>1, ReleaseSound
  <2> QED BY <2>1, <2>2
<1>4. ASSUME NEW w \in Watcher, NEW i \in {{}, {"IN"}}, Reregister(w, i) PROVE ProgramSound(rl')
  BY <1>4, ReregisterSound DEF Reregister, Call, InProgram
<1>5. ASSUME NEW f \in Functor, Post(f) PROVE ProgramSound(rl')
  BY <1>5, PostSound DEF Post, Call, InProgram
<1>6. CASE Close
  BY <1>6, CloseSound DEF Close, Call, InProgram
<1>7. CASE Free
  BY <1>7, FreeSound DEF Free
<1>8. CASE DispatchEvent
  BY <1>8, DeliveredSound DEF DispatchEvent
<1>9. CASE RunFunctor
  BY <1>9, PoppedFields DEF RunFunctor, Popped, ProgramSound, Modifiable
<1>10. CASE UNCHANGED rl
  BY <1>10
<1> QED
  <2>1. Run \/ Return \/ runloop_run_idle \/ runloop_run_closed \/ runloop_run_wait
            \/ runloop_run_interrupted \/ KernelStep \/ UNCHANGED programVars => UNCHANGED rl
    BY DEF Run, Return, runloop_run_idle, runloop_run_closed, runloop_run_wait,
           runloop_run_interrupted, KernelStep, programVars
  <2> QED BY <1>1, <1>2, <1>3, <1>4, <1>5, <1>6, <1>7, <1>8, <1>9, <1>10, <2>1
          DEF ProgramNext, ProgramLoopStep

\* However a program registers, changes, deletes and closes, the table, its count, by which
\* runloop_run ends, and the kernel's interest list agree.
THEOREM TableAgrees == ProgramSpec => []TableMatchesKernel
<1>1. ProgramSound(rl) => TableMatchesKernel
  BY DEF ProgramSound, Sound, Counted, Used, Mirrored, TableMatchesKernel
<1> QED BY <1>1, InitSound, NextSound, PTL DEF ProgramSpec

-----------------------------------------------------------------------------
(* For programs whose handlers release only their own watcher.  The        *)
(* watchers of a batch are distinct and still in the table: that needs     *)
(* that the one whose handler runs is no longer in the batch, and that     *)
(* functors run only between batches.                                      *)
BatchInTable == \A i \in DOMAIN batch : rl.entries[fdOf[batch[i]]] = batch[i]
BatchDistinct == \A i, j \in DOMAIN batch : batch[i] = batch[j] => i = j
BatchBehindHandler ==
    /\ loop # "events" => batch = <<>>
    /\ loop = "events" /\ running = NULL /\ Alive(rl) => batch # <<>>
    /\ loop = "events" /\ running # NULL =>
          running \in Watcher /\ \A i \in DOMAIN batch : batch[i] # running

ProgramInv ==
    /\ ProgramSound(rl) /\ OnlyCapacityAborts
    /\ batch \in Seq(Watcher) /\ BatchDistinct /\ BatchBehindHandler
    /\ Alive(rl) => BatchInTable

LEMMA InitProgramInv == ProgramInit => ProgramInv
<1> SUFFICES ASSUME ProgramInit PROVE ProgramInv
  OBVIOUS
<1>1. rl.aborted = "no" /\ batch = <<>> /\ loop = "setup"
  BY DEF ProgramInit, RunloopInit, runloop_new
<1> QED BY <1>1, InitSound
        DEF ProgramInv, OnlyCapacityAborts, BatchDistinct, BatchBehindHandler, BatchInTable

\* A call leaves the batch as it is; it is enough that it leaves its entries.
LEMMA CallKeepsBatch ==
    ASSUME ProgramInv, Alive(rl), UNCHANGED <<batch, loop, running>>,
           ProgramSound(rl'), rl'.aborted \in {"no", "full", "iterator"},
           \A i \in DOMAIN batch : rl'.entries[fdOf[batch[i]]] = batch[i]
    PROVE  ProgramInv'
<1>1. ProgramSound(rl)'
  BY SoundPrimed
<1> QED BY <1>1 DEF ProgramInv, OnlyCapacityAborts, BatchDistinct, BatchBehindHandler, BatchInTable, Alive

LEMMA RegisterStep == ASSUME ProgramInv, NEW w \in Watcher, Register(w) PROVE ProgramInv'
<1>1. /\ ProgramSound(rl) /\ Alive(rl) /\ ~rl.closed_flag /\ rl.entries[fdOf[w]] = NULL
      /\ rl' = runloop_register(rl, fdOf[w], {"IN"}, w) /\ UNCHANGED <<batch, loop, running>>
  BY DEF ProgramInv, Register, Call, InProgram
<1>2. ProgramSound(rl') /\ rl'.aborted = "no" /\ rl'.entries = [rl.entries EXCEPT ![fdOf[w]] = w]
  BY <1>1, RegisterSound DEF Alive
<1>3. \A i \in DOMAIN batch : rl'.entries[fdOf[batch[i]]] = batch[i]
  <2> SUFFICES ASSUME NEW i \in DOMAIN batch PROVE rl'.entries[fdOf[batch[i]]] = batch[i]
    OBVIOUS
  <2>1. batch[i] \in Watcher /\ rl.entries[fdOf[batch[i]]] = batch[i]
    BY <1>1 DEF ProgramInv, BatchInTable
  <2>2. fdOf[batch[i]] \in Fd /\ fdOf[batch[i]] # fdOf[w] /\ rl.entries \in [Fd -> Slot]
    BY <1>1, <2>1, RunloopAssumption DEF Fd, ProgramSound, Sound, IsRunloop
  <2> QED BY <1>2, <2>1, <2>2
<1> QED BY <1>1, <1>2, <1>3, CallKeepsBatch

\* The watcher a handler may release is its own, which is not in the batch.
LEMMA ReleaseStep ==
    ASSUME OwnOnly, ProgramInv, NEW w \in Watcher, Deregister(w) \/ CloseAndDelete(w)
    PROVE  ProgramInv'
<1>1. /\ ProgramSound(rl) /\ Alive(rl) /\ ~rl.closed_flag /\ rl.entries[fdOf[w]] = w
      /\ MayRelease(w) /\ (loop = "setup" \/ running # NULL) /\ UNCHANGED <<batch, loop, running>>
      /\ \/ rl' = runloop_deregister(rl, fdOf[w])
         \/ rl' = runloop_delete(close_fd(rl, fdOf[w]), fdOf[w])
  BY DEF ProgramInv, Deregister, CloseAndDelete, Call, InProgram
<1>2. ProgramSound(rl') /\ rl'.aborted = "no" /\ rl'.entries = [rl.entries EXCEPT ![fdOf[w]] = NULL]
  BY <1>1, ReleaseSound DEF Alive
<1>3. \A i \in DOMAIN batch : batch[i] # w
  <2>1. CASE loop = "events"
    BY <1>1, <2>1 DEF ProgramInv, BatchBehindHandler, MayRelease
  <2>2. CASE loop # "events"
    BY <2>2 DEF ProgramInv, BatchBehindHandler
  <2> QED BY <2>1, <2>2
<1>4. \A i \in DOMAIN batch : rl'.entries[fdOf[batch[i]]] = batch[i]
  <2> SUFFICES ASSUME NEW i \in DOMAIN batch PROVE rl'.entries[fdOf[batch[i]]] = batch[i]
    OBVIOUS
  <2>1. batch[i] \in Watcher /\ rl.entries[fdOf[batch[i]]] = batch[i]
    BY <1>1 DEF ProgramInv, BatchInTable
  <2>2. fdOf[batch[i]] \in Fd /\ fdOf[batch[i]] # fdOf[w] /\ rl.entries \in [Fd -> Slot]
    BY <1>1, <1>3, <2>1, RunloopAssumption DEF Fd, ProgramSound, Sound, IsRunloop
  <2> QED BY <1>2, <2>1, <2>2
<1> QED BY <1>1, <1>2, <1>4, CallKeepsBatch

\* The other calls leave the table as it is.
OtherCall ==
    \/ \E w \in Watcher, interest \in {{}, {"IN"}} : Reregister(w, interest)
    \/ \E f \in Functor : Post(f)
    \/ Close

LEMMA OtherCallStep == ASSUME ProgramInv, OtherCall PROVE ProgramInv'
<1>1. ProgramSound(rl) /\ Alive(rl) /\ UNCHANGED <<batch, loop, running>>
  BY DEF ProgramInv, OtherCall, Reregister, Post, Close, Call, InProgram
<1>2. ProgramSound(rl') /\ rl'.aborted \in {"no", "full", "iterator"} /\ rl'.entries = rl.entries
  <2>1. ASSUME NEW w \in Watcher, NEW i \in {{}, {"IN"}}, Reregister(w, i)
        PROVE  ProgramSound(rl') /\ rl'.aborted = "no" /\ rl'.entries = rl.entries
    BY <1>1, <2>1, ReregisterSound DEF Reregister, Call, Alive
  <2>2. ASSUME NEW f \in Functor, Post(f)
        PROVE  ProgramSound(rl') /\ rl'.aborted \in {"no", "full"} /\ rl'.entries = rl.entries
    BY <1>1, <2>2, PostSound DEF Post, Call
  <2>3. ASSUME Close
        PROVE  ProgramSound(rl') /\ rl'.aborted \in {"no", "iterator"} /\ rl'.entries = rl.entries
    BY <1>1, <2>3, CloseSound DEF Close, Call
  <2> QED BY <2>1, <2>2, <2>3 DEF OtherCall
<1>3. \A i \in DOMAIN batch : rl'.entries[fdOf[batch[i]]] = batch[i]
  BY <1>1, <1>2 DEF ProgramInv, BatchInTable
<1> QED BY <1>1, <1>2, <1>3, CallKeepsBatch

\* epoll_wait reports a descriptor once, so that a batch starts with distinct watchers, all
\* of them in the table.
LEMMA WaitStep == ASSUME ProgramInv, running = NULL, UNCHANGED running, runloop_run_wait PROVE ProgramInv'
<1>1. /\ ProgramSound(rl) /\ Alive(rl) /\ ~rl.closed_flag /\ UNCHANGED rl /\ loop' = "events"
      /\ OnlyCapacityAborts
  BY DEF ProgramInv, runloop_run_wait, AtEpollWait
<1>2. PICK S \in SUBSET Reportable :
           S # {} /\ \E order \in Orders(S) : batch' = [i \in DOMAIN order |-> rl.epoll[order[i]]]
  BY DEF runloop_run_wait
<1>3. PICK order \in Orders(S) : batch' = [i \in DOMAIN order |-> rl.epoll[order[i]]]
  BY <1>2
<1>4. IsFiniteSet(S) /\ Cardinality(S) \in Nat \ {0}
  <2>1. IsFiniteSet(Fd) /\ S \in SUBSET Fd
    <3>1. IsFiniteSet(Fd)
      BY RunloopAssumption, FS_Interval DEF Fd
    <3>2. Reportable \subseteq Fd
      BY DEF Reportable
    <3> QED BY <3>1, <3>2
  <2> QED BY <1>2, <2>1, FS_Subset, FS_EmptySet, FS_CardinalityType
<1> DEFINE N == Cardinality(S)
<1>5. order \in [1 .. N -> S] /\ \A i, j \in 1 .. N : order[i] = order[j] => i = j
  BY DEF Orders
<1> HIDE DEF N
<1>6. \A i \in 1 .. N : /\ batch'[i] = rl.entries[order[i]] /\ batch'[i] \in Watcher
                        /\ fdOf[batch'[i]] = order[i]
  <2> SUFFICES ASSUME NEW i \in 1 .. N
               PROVE  /\ batch'[i] = rl.entries[order[i]] /\ batch'[i] \in Watcher
                      /\ fdOf[batch'[i]] = order[i]
    OBVIOUS
  <2>1. order[i] \in Fd /\ rl.epoll[order[i]] # NULL
    BY <1>5 DEF Reportable
  <2>2. batch'[i] = rl.epoll[order[i]] /\ rl.epoll = rl.entries /\ rl.entries \in [Fd -> Slot]
    BY <1>1, <1>3, <1>5 DEF ProgramSound, Sound, Mirrored, IsRunloop
  <2> QED BY <1>1, <2>1, <2>2 DEF ProgramSound, Sound, OwnPlace, Slot
<1>7. batch' \in [1 .. N -> Watcher]
  BY <1>3, <1>5, <1>6
<1>8. batch' \in Seq(Watcher) /\ DOMAIN batch' = 1 .. N /\ batch' # <<>>
  BY <1>4, <1>7 DEF N
<1>9. BatchDistinct'
  BY <1>5, <1>6, <1>8 DEF BatchDistinct
<1>10. BatchInTable'
  BY <1>1, <1>6, <1>8 DEF BatchInTable
<1>11. BatchBehindHandler'
  BY <1>1, <1>8 DEF BatchBehindHandler
<1>12. ProgramSound(rl)' /\ OnlyCapacityAborts'
  BY <1>1, SoundPrimed DEF OnlyCapacityAborts
<1> QED BY <1>8, <1>9, <1>10, <1>11, <1>12 DEF ProgramInv

\* The event meets its watcher, which leaves the batch.
LEMMA DispatchStep == ASSUME ProgramInv, DispatchEvent PROVE ProgramInv'
<1>1. /\ ProgramSound(rl) /\ Alive(rl) /\ loop = "events" /\ loop' = loop
      /\ batch \in Seq(Watcher) /\ batch # <<>> /\ BatchDistinct /\ BatchInTable /\ OnlyCapacityAborts
      /\ rl' = Delivered(Head(batch)) /\ batch' = Tail(batch)
      /\ running' = IF Alive(rl') THEN Head(batch) ELSE NULL
  BY DEF ProgramInv, DispatchEvent, BatchBehindHandler
<1>2. Head(batch) \in Watcher /\ Head(batch) = batch[1] /\ 1 \in DOMAIN batch
  BY <1>1
<1>3. rl' = rl /\ Head(batch) # NULL
  BY <1>1, <1>2, DeliveredSound, RunloopAssumption DEF BatchInTable
<1>4. running' = Head(batch)
  BY <1>1, <1>3
<1>5. /\ batch' \in Seq(Watcher)
      /\ \A i \in DOMAIN batch' : i + 1 \in DOMAIN batch /\ batch'[i] = batch[i + 1] /\ i \in Nat /\ i # 0
  BY <1>1
<1>6. BatchDistinct' /\ BatchInTable'
  BY <1>1, <1>3, <1>5 DEF BatchDistinct, BatchInTable
<1>7. BatchBehindHandler'
  BY <1>1, <1>2, <1>3, <1>4, <1>5 DEF BatchBehindHandler, BatchDistinct
<1>8. ProgramSound(rl)' /\ OnlyCapacityAborts'
  BY <1>1, <1>3, SoundPrimed DEF OnlyCapacityAborts
<1> QED BY <1>5, <1>6, <1>7, <1>8 DEF ProgramInv

\* Functors run between batches.
LEMMA FunctorStep == ASSUME ProgramInv, RunFunctor PROVE ProgramInv'
<1>1. /\ ProgramSound(rl) /\ Alive(rl) /\ loop = "top" /\ batch = <<>> /\ UNCHANGED <<batch, loop>>
      /\ rl.ready_list # <<>> /\ rl' = [rl EXCEPT !.ready_list = Tail(@)] /\ OnlyCapacityAborts
  BY DEF ProgramInv, RunFunctor, BatchBehindHandler
<1>2. ProgramSound(rl') /\ rl'.aborted = rl.aborted
  BY <1>1, PoppedFields DEF Popped, ProgramSound, Modifiable
<1>3. ProgramSound(rl)' /\ OnlyCapacityAborts'
  BY <1>1, <1>2, SoundPrimed DEF OnlyCapacityAborts
<1> QED BY <1>1, <1>3 DEF ProgramInv, BatchDistinct, BatchBehindHandler, BatchInTable

\* The steps that only move runloop_run along.
LEMMA LoopStep ==
    ASSUME ProgramInv,
           \/ Run \/ Return \/ UNCHANGED programVars
           \/ running = NULL /\ UNCHANGED running
              /\ (runloop_run_idle \/ runloop_run_closed \/ runloop_run_interrupted \/ KernelStep)
    PROVE  ProgramInv'
<1>1. UNCHANGED <<rl, batch>>
  BY DEF Run, Return, programVars, runloop_run_idle, runloop_run_closed, runloop_run_interrupted, KernelStep
<1>2. /\ ProgramSound(rl)' /\ OnlyCapacityAborts' /\ (batch \in Seq(Watcher))' /\ BatchDistinct'
      /\ (Alive(rl) => BatchInTable)'
  BY <1>1, SoundPrimed DEF ProgramInv, OnlyCapacityAborts, BatchDistinct, BatchInTable, Alive
<1>3. BatchBehindHandler'
  BY <1>1 DEF ProgramInv, BatchBehindHandler, Run, Return, programVars, runloop_run_idle, AtEpollWait,
              runloop_run_closed, runloop_run_interrupted, KernelStep, Alive
<1> QED BY <1>2, <1>3 DEF ProgramInv

LEMMA FreeStep == ASSUME ProgramInv, Free PROVE ProgramInv'
<1>1. /\ ProgramSound(rl) /\ Alive(rl) /\ batch = <<>> /\ batch' = batch /\ loop' = "freed"
      /\ rl' = runloop_free(rl)
  BY DEF ProgramInv, Free, BatchBehindHandler
<1>2. ProgramSound(rl') /\ rl'.aborted \in {"no", "iterator"}
  BY <1>1, FreeSound
<1>3. ProgramSound(rl)' /\ OnlyCapacityAborts'
  BY <1>2, SoundPrimed DEF OnlyCapacityAborts
<1>4. (batch \in Seq(Watcher))' /\ BatchDistinct' /\ BatchInTable'
  BY <1>1 DEF BatchDistinct, BatchInTable
<1>5. BatchBehindHandler'
  BY <1>1 DEF BatchBehindHandler
<1> QED BY <1>3, <1>4, <1>5 DEF ProgramInv

LEMMA ProgramStep == ASSUME OwnOnly, ProgramInv, [ProgramNext]_programVars PROVE ProgramInv'
<1>1. CASE \E w \in Watcher : Register(w) \/ Deregister(w) \/ CloseAndDelete(w)
  BY <1>1, RegisterStep, ReleaseStep
<1>2. CASE OtherCall
  BY <1>2, OtherCallStep
<1>3. CASE \/ Run \/ Return \/ UNCHANGED programVars
           \/ running = NULL /\ UNCHANGED running
              /\ (runloop_run_idle \/ runloop_run_closed \/ runloop_run_interrupted \/ KernelStep)
  BY <1>3, LoopStep
<1>4. CASE running = NULL /\ UNCHANGED running /\ runloop_run_wait
  BY <1>4, WaitStep
<1>5. CASE Free \/ DispatchEvent \/ RunFunctor
  BY <1>5, FreeStep, DispatchStep, FunctorStep
<1> QED BY <1>1, <1>2, <1>3, <1>4, <1>5 DEF ProgramNext, ProgramLoopStep, OtherCall

\* A program whose handlers release only their own watcher is stopped by a full ready list
\* or by closing with the last descriptor in use, and by nothing else: in particular every
\* event of a batch meets the watcher it is for.
THEOREM OnlyCapacitiesStop == ASSUME OwnOnly PROVE ProgramSpec => []OnlyCapacityAborts
<1>1. ProgramInv /\ [ProgramNext]_programVars => ProgramInv'
  BY ProgramStep
<1>2. ProgramInv => OnlyCapacityAborts
  BY DEF ProgramInv
<1> QED BY <1>1, <1>2, InitProgramInv, PTL DEF ProgramSpec
=============================================================================
