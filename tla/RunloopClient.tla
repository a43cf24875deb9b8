---------------------------- MODULE RunloopClient ---------------------------
(***************************************************************************)
(* The runloop with an arbitrary program on it.  A callback (the handler   *)
(* of a watcher, or a posted functor) makes any calls to the runloop       *)
(* before it returns.  Two watchers may have the same descriptor number,   *)
(* one after the other.  OwnOnly restricts handlers to deregistering the   *)
(* watcher they were called for.                                           *)
(***************************************************************************)
EXTENDS Runloop

CONSTANTS Functor, OwnOnly

VARIABLE running   \* the callback that is running

programVars == <<rl, ready, batch, loop, result, running>>

ProgramInit == RunloopInit /\ running = NULL

\* main() sets things up, or a callback runs.
InProgram == Alive(rl) /\ (loop = "setup" \/ running # NULL)

Call(r) ==
    /\ InProgram
    /\ rl' = r
    /\ UNCHANGED <<ready, batch, loop, result, running>>

MayRelease(w) == OwnOnly /\ running \in Watcher => running = w

\* A program does not register a watcher, or use one, out of turn.
Register(w) == rl.entries[fdOf[w]] = NULL /\ ~rl.closed_flag /\ Call(runloop_register(rl, fdOf[w], {"IN"}, w))
Reregister(w, interest) ==
    /\ rl.entries[fdOf[w]] = w /\ ~rl.closed_flag
    /\ Call(runloop_reregister(rl, fdOf[w], interest, w))
Deregister(w) ==
    /\ rl.entries[fdOf[w]] = w /\ ~rl.closed_flag /\ MayRelease(w)
    /\ Call(runloop_deregister(rl, fdOf[w]))
CloseAndDelete(w) ==
    /\ rl.entries[fdOf[w]] = w /\ ~rl.closed_flag /\ MayRelease(w)
    /\ Call(runloop_delete(close_fd(rl, fdOf[w]), fdOf[w]))
Post(f) == Call(runloop_post(rl, f))
Close == ~rl.closed_flag /\ Call(runloop_close(rl))

Run ==
    /\ Alive(rl) /\ loop = "setup"
    /\ loop' = "top"
    /\ UNCHANGED <<rl, ready, batch, result, running>>

Free ==
    /\ Alive(rl) /\ loop = "returned"
    /\ rl' = runloop_free(rl) /\ loop' = "freed"
    /\ UNCHANGED <<ready, batch, result, running>>

Return ==
    /\ Alive(rl) /\ running # NULL
    /\ running' = NULL
    /\ loop' = IF batch = <<>> THEN "top" ELSE "events"
    /\ UNCHANGED <<rl, ready, batch, result>>

DispatchEvent ==
    /\ Alive(rl) /\ loop = "events" /\ running = NULL
    /\ rl' = Delivered(Head(batch))
    /\ running' = IF Alive(rl') THEN Head(batch) ELSE NULL
    /\ batch' = Tail(batch)
    /\ UNCHANGED <<ready, loop, result>>

RunFunctor ==
    /\ Alive(rl) /\ loop = "top" /\ running = NULL
    /\ rl.ready_list # <<>>
    /\ running' = Head(rl.ready_list)
    /\ rl' = [rl EXCEPT !.ready_list = Tail(@)]
    /\ UNCHANGED <<ready, batch, loop, result>>

ProgramLoopStep ==
    \/ running = NULL /\ UNCHANGED running
       /\ (runloop_run_idle \/ runloop_run_closed \/ runloop_run_wait)
    \/ DispatchEvent
    \/ RunFunctor
    \/ Return

ProgramNext ==
    \/ \E w \in Watcher : Register(w) \/ Deregister(w) \/ CloseAndDelete(w)
    \/ \E w \in Watcher, interest \in {{}, {"IN"}} : Reregister(w, interest)
    \/ \E f \in Functor : Post(f)
    \/ Close
    \/ Run
    \/ Free
    \/ ProgramLoopStep
    \/ running = NULL /\ UNCHANGED running /\ (runloop_run_interrupted \/ KernelStep)

ProgramSpec == ProgramInit /\ [][ProgramNext]_programVars

-----------------------------------------------------------------------------
Entry == Watcher \cup {NULL}

\* The table and the kernel agree on who watches what, and count counts it: so
\* runloop_run neither leaves while something is watched nor waits for nothing.
TableMatchesKernel ==
    /\ Alive(rl) /\ ~rl.closed_flag => rl.epoll = rl.entries
    /\ rl.count = Cardinality({fd \in Fd : rl.entries[fd] # NULL})

\* Programs whose handlers release only their own watcher can be stopped by two
\* assertions only: a full ready list, and closing with the last descriptor in use.
OnlyCapacityAborts == rl.aborted \in {"no", "full", "iterator"}

\* An event of the batch still finds the watcher it is for: assert(entries[fd] != NULL)
\* in FdTable_lookup and assert(wr == wref) in the dispatch loop.
EventMeetsWatcher == rl.aborted \notin {"lookup", "mismatch"}

\* A posted functor is run, whatever events arrive in between.
PostedRuns ==
    \A f \in Functor : (f \in {rl.ready_list[i] : i \in DOMAIN rl.ready_list})
                           ~> (running = f \/ ~Alive(rl))
=============================================================================
