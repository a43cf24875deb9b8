--------------------------- MODULE MCRunloopUses ----------------------------
(***************************************************************************)
(* The three uses of the epoll runloop that the project looks at, side by  *)
(* side: an arbitrary program (RunloopClient), threads that hand functors  *)
(* to a runloop and asynchronous reads of a queue (both InterthreadQueue). *)
(* A behaviour is of one use from its start to its end.                    *)
(***************************************************************************)
EXTENDS RunloopClient, InterthreadQueue, TLC

CONSTANT Uses   \* the uses a run looks at

ASSUME UsesAssumption == Uses \subseteq {"program", "handoff", "reader"}

VARIABLE use

usesVars == <<use, running, itqVars, readerVars>>

UsesInit ==
    /\ use \in Uses
    /\ CASE use = "program" -> ProgramInit /\ queue = runloop_eventfd_queue_new /\ ran = <<>>
         [] use = "handoff" -> ItqInit
         [] use = "reader" -> ReaderInit
    /\ use # "program" => running = NULL
    /\ use # "handoff" => added = <<>>
    /\ use # "reader" => read_cb = FALSE /\ written = 0 /\ given = <<>>

InUse(u, step, others) == use = u /\ step /\ UNCHANGED <<use, others>>

NotProgram == <<queue, added, ran, read_cb, written, given>>
NotHandoff == <<running, read_cb, written, given>>
NotReader == <<running, added>>

UsesNext ==
    \/ InUse("program", ProgramNext, NotProgram)
    \/ InUse("handoff", ItqNext, NotHandoff)
    \/ InUse("reader", ReaderNext, NotReader)

\* The thread that calls runloop_run keeps running, and its callbacks return.
UsesLoopStep ==
    \/ InUse("program", ProgramLoopStep, NotProgram)
    \/ InUse("handoff", ItqLoopStep, NotHandoff)
    \/ InUse("reader", ReaderLoopStep, NotReader)

UsesSpec ==
    /\ UsesInit /\ [][UsesNext]_usesVars
    /\ WF_usesVars(UsesLoopStep)
    /\ WF_usesVars(InUse("program", Run, NotProgram))
    /\ WF_usesVars(InUse("program", Return, NotProgram))

-----------------------------------------------------------------------------
\* Of programs whose handlers release only their own watcher: only the two capacity
\* assertions can fail.  Of threads that add to a queue: only the one of a full queue can,
\* since no signal is for an empty one.
OnlyFullListsAbort ==
    /\ use = "program" => OnlyCapacityAborts
    /\ use = "handoff" => OnlyFullQueueAborts

\* Of threads that add to a queue: every functor is at one place, in order.  Of the
\* asynchronous reader: every callback has the next item, and registrations and callbacks
\* alternate.
QueueInOrder ==
    /\ use = "handoff" => InOrder
    /\ use = "reader" => ItemsValid /\ ReadsAlternate

\* A functor a program posts is run; a signal of threads that add to a queue leads to a run;
\* the asynchronous reader always comes back for the next item.
UsesProgress ==
    /\ use = "program" => PostedRuns
    /\ use = "handoff" => SignalRuns
    /\ use = "reader" => ReadsAgain

-----------------------------------------------------------------------------
(* Three descriptors, four watchers: w0 and v0 share descriptor 0.  The queue  *)
(* watcher of the uses with a queue is w0.                                     *)

CONSTANTS w0, v0, w1, w2
MCfdOf == w0 :> 0 @@ v0 :> 0 @@ w1 :> 1 @@ w2 :> 2
=============================================================================
