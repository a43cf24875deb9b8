---------------------------- MODULE FunctorQueue ----------------------------
(***************************************************************************)
(* What a FunctorList promises its users (the ready list of a runloop and  *)
(* the list inside an eventfd queue): a bounded first-in first-out queue   *)
(* of functors.  Adding to a full queue, or removing from an empty one,    *)
(* fails an RBL_ASSERT and ends the program.                               *)
(***************************************************************************)
EXTENDS Naturals, Sequences

CONSTANTS Functor,  \* the functors (a PostableFunction and its argument)
          Bound,    \* how many functors the queue holds
          NoFunctor \* the value of popped before the first remove

VARIABLES q,        \* the functors queued, oldest first
          popped,   \* the functor returned by the last remove
          aborted   \* an assertion failed

vars == <<q, popped, aborted>>

Init == q = <<>> /\ popped = NoFunctor /\ aborted = FALSE

Add(f) ==
    /\ ~aborted
    /\ Len(q) < Bound
    /\ q' = Append(q, f)
    /\ UNCHANGED <<popped, aborted>>

Remove ==
    /\ ~aborted
    /\ q # <<>>
    /\ popped' = Head(q)
    /\ q' = Tail(q)
    /\ UNCHANGED aborted

Abort ==
    /\ ~aborted
    /\ q = <<>> \/ Len(q) = Bound
    /\ aborted' = TRUE
    /\ UNCHANGED <<q, popped>>

Next == (\E f \in Functor : Add(f)) \/ Remove \/ Abort

Spec == Init /\ [][Next]_vars
=============================================================================
