------------------------------- MODULE Runloop ------------------------------
(***************************************************************************)
(* The epoll runloop (epoll_runloop/runloop.c and fdtable.c): the table of *)
(* watchers, the kernel's interest list, the ready list of posted functors *)
(* and the loop of runloop_run.                                            *)
(*                                                                         *)
(* The runloop is one record, rl, and each function of runloop.c an        *)
(* operator from runloop to runloop, so that a callback that makes several *)
(* calls is their composition.  A failed assertion is kept in rl.aborted.  *)
(* The ready list is the sequence RingProofs shows the ring to be.         *)
(***************************************************************************)
EXTENDS Integers, Sequences, FiniteSets, Asserts

CONSTANTS FDTABLE_MAX,  \* descriptors the FdTable has room for
          READY_MAX,    \* functors the ready list has room for
          Watcher,      \* watcher structures
          fdOf,         \* the fd field of each watcher
          NULL

ASSUME RunloopAssumption ==
    /\ FDTABLE_MAX \in Nat \ {0} /\ READY_MAX \in Nat
    /\ fdOf \in [Watcher -> 0 .. FDTABLE_MAX - 1]
    /\ NULL \notin Watcher

VARIABLES rl,      \* the Runloop structure and its epoll instance
          ready,   \* the events the kernel has, as pairs <<descriptor, event>>
          batch,   \* watchers of the events epoll_wait returned, undelivered
          loop,    \* where runloop_run is
          result   \* what runloop_run returned

runloopVars == <<rl, ready, batch, loop, result>>

Fd == 0 .. FDTABLE_MAX - 1

FdTable_init == [fd \in Fd |-> NULL]
FdTable_new == FdTable_init

runloop_new ==
    [entries |-> FdTable_new, count |-> 0,
     epoll |-> FdTable_init, interest |-> [fd \in Fd |-> {}], closed_flag |-> FALSE,
     ready_list |-> <<>>, aborted |-> "no"]

RunloopInit ==
    /\ rl = runloop_new
    /\ ready = {}
    /\ batch = <<>>
    /\ loop = "setup"
    /\ result = NULL

-----------------------------------------------------------------------------
(* The functions of runloop.c. *)

FdTable_size(r) == r.count

FdTable_lookup(r, fd) == Asserting(r, r.entries[fd] # NULL, "lookup", r)

FdTable_insert(r, w, fd) ==
    Asserting(r, r.entries[fd] = NULL, "insert",
        [r EXCEPT !.entries[fd] = w, !.count = @ + 1])

\* Mutant: the table keeps the watcher.
FdTable_remove_keep_entry(r, fd) ==
    Asserting(r, r.entries[fd] # NULL, "remove", [r EXCEPT !.count = @ - 1])

FdTable_remove(r, fd) ==
    Asserting(r, r.entries[fd] # NULL, "remove",
        [r EXCEPT !.entries[fd] = NULL, !.count = @ - 1])

\* FdTable_iterator and FdTable_next_iterator visit every entry.  The one after the
\* last descriptor is not asked for without an assertion failing.
FdTable_next_iterator(r) == Asserting(r, r.entries[FDTABLE_MAX - 1] = NULL, "iterator", r)

\* epoll_ctl fails on a closed epoll_fd; ADD also on a descriptor it has, DEL
\* and MOD on one it has not, and MOD on one added with EPOLLEXCLUSIVE.
EpollCtlFails(r, op, fd) ==
    \/ r.closed_flag
    \/ (op = "ADD") = (r.epoll[fd] # NULL)
    \/ op = "MOD" /\ "EXCLUSIVE" \in r.interest[fd]

runloop_epoll_ctl(r, op, fd, interest, w) ==
    Asserting(r, ~EpollCtlFails(r, op, fd), "epoll_ctl",
        [r EXCEPT !.epoll[fd] = w, !.interest[fd] = interest])

runloop_register(r, fd, interest, w) ==
    FdTable_insert(runloop_epoll_ctl(r, "ADD", fd, interest, w), w, fd)

runloop_deregister(r, fd) ==
    FdTable_remove(runloop_epoll_ctl(FdTable_lookup(r, fd), "DEL", fd, {}, NULL), fd)

\* EPOLL_CTL_MOD replaces the pointer before the table is compared with it.
runloop_reregister(r, fd, interest, w) ==
    LET modified == runloop_epoll_ctl(FdTable_lookup(r, fd), "MOD", fd, interest, w)
    IN  Asserting(modified, modified.entries[fd] = w, "reregister", modified)

\* Only the table forgets the descriptor.
runloop_delete(r, fd) == FdTable_remove(FdTable_lookup(r, fd), fd)

runloop_post(r, f) ==
    Asserting(r, Len(r.ready_list) < READY_MAX, "full",
        [r EXCEPT !.ready_list = Append(@, f)])

\* Closes the epoll instance and every descriptor of the table, and leaves the
\* table as it is.  The iteration asserts when the last descriptor is in it.
runloop_close(r) ==
    Asserting(r, ~r.closed_flag, "close",
        FdTable_next_iterator([r EXCEPT !.closed_flag = TRUE, !.epoll = FdTable_init,
                                        !.interest = [fd \in Fd |-> {}]]))

\* Every entry is removed.
FdTable_free(r) ==
    [r EXCEPT !.entries = FdTable_init, !.count = @ - Cardinality({fd \in Fd : r.entries[fd] # NULL})]

runloop_free(r) ==
    LET closed == IF r.closed_flag THEN r ELSE runloop_close(r)
    IN  IF Alive(closed) THEN FdTable_free(closed) ELSE closed

-----------------------------------------------------------------------------
(* The kernel: close(2) drops a descriptor from the interest list. *)
close_fd(r, fd) == [r EXCEPT !.epoll[fd] = NULL, !.interest[fd] = {}]

(* The descriptors epoll_wait can report: registered, and with an event of      *)
(* interest.  Errors and hangups are always of interest.                       *)
Reportable ==
    {fd \in Fd : /\ rl.epoll[fd] # NULL
                 /\ \E e \in rl.interest[fd] \cup {"ERR", "HUP"} : <<fd, e>> \in ready}

Orders(S) == {o \in [1 .. Cardinality(S) -> S] : \A i, j \in DOMAIN o : o[i] = o[j] => i = j}

-----------------------------------------------------------------------------
(* runloop_run *)

\* No watcher and no functor left: a clean exit.
runloop_run_idle ==
    /\ Alive(rl) /\ loop = "top"
    /\ FdTable_size(rl) = 0 /\ rl.ready_list = <<>>
    /\ loop' = "returned" /\ result' = 0
    /\ UNCHANGED <<rl, ready, batch>>

AtEpollWait ==
    /\ Alive(rl) /\ loop = "top"
    /\ FdTable_size(rl) # 0 /\ rl.ready_list = <<>>

\* The runloop was closed by a callback: epoll_wait fails.
runloop_run_closed ==
    /\ AtEpollWait
    /\ rl.closed_flag
    /\ loop' = "returned" /\ result' = 0
    /\ UNCHANGED <<rl, ready, batch>>

\* A signal interrupts epoll_wait.
runloop_run_interrupted ==
    /\ AtEpollWait
    /\ ~rl.closed_flag
    /\ loop' = "returned" /\ result' = -1
    /\ UNCHANGED <<rl, ready, batch>>

\* epoll_wait returns one event for each of some of the ready descriptors.  It
\* waits without a timeout, so its return of 0 (lines 216-219) cannot happen.
runloop_run_wait ==
    /\ AtEpollWait
    /\ ~rl.closed_flag
    /\ \E S \in SUBSET Reportable :
           /\ S # {}
           /\ \E order \in Orders(S) :
                  batch' = [i \in DOMAIN order |-> rl.epoll[order[i]]]
    /\ loop' = "events"
    /\ UNCHANGED <<rl, ready, result>>

\* The loop over the events: FdTable_lookup and assert(wr == wref).
Delivered(w) ==
    LET found == FdTable_lookup(rl, fdOf[w])
    IN  Asserting(found, rl.entries[fdOf[w]] = w, "mismatch", found)

AfterEvent == IF Len(batch) = 1 THEN "top" ELSE "events"

\* A descriptor gets an event, or the event is gone.
KernelStep ==
    /\ Alive(rl)
    /\ \E fd \in Fd : ready' \in {ready \cup {<<fd, "IN">>}, ready \ {<<fd, "IN">>}}
    /\ UNCHANGED <<rl, batch, loop, result>>
=============================================================================
