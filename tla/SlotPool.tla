------------------------------ MODULE SlotPool ------------------------------
(***************************************************************************)
(* What the event table promises: a pool of slots.  An idle slot is handed *)
(* out to one holder at a time, the one idle longest first, and comes back *)
(* when its holder releases it.  Asking an exhausted pool aborts.          *)
(***************************************************************************)
EXTENDS Naturals, Sequences

CONSTANT Slots   \* a sequence: the slots in the order they are first handed out

VARIABLES idle,    \* the slots not in use, longest idle first
          held,    \* the slots in use
          aborted

vars == <<idle, held, aborted>>

Init == idle = Slots /\ held = {} /\ aborted = FALSE

Acquire ==
    /\ ~aborted
    /\ idle # <<>>
    /\ held' = held \cup {Head(idle)}
    /\ idle' = Tail(idle)
    /\ UNCHANGED aborted

Release(s) ==
    /\ ~aborted
    /\ s \in held
    /\ held' = held \ {s}
    /\ idle' = Append(idle, s)
    /\ UNCHANGED aborted

Exhausted ==
    /\ ~aborted
    /\ idle = <<>>
    /\ aborted' = TRUE
    /\ UNCHANGED <<idle, held>>

Next == Acquire \/ Exhausted \/ \E s \in held : Release(s)

Spec == Init /\ [][Next]_vars
=============================================================================
