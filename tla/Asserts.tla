------------------------------- MODULE Asserts ------------------------------
(***************************************************************************)
(* Assertions of the C code.  A piece of program state is a record with a  *)
(* field aborted: "no" while the program runs, and else the assertion that *)
(* ended it.  No operation changes an aborted state any more.              *)
(***************************************************************************)

Alive(s) == s.aborted = "no"
Abort(s, why) == [s EXCEPT !.aborted = why]

\* An assertion before a deterministic step, and before one with several outcomes.
Asserting(s, holds, why, next) ==
    IF ~Alive(s) THEN s ELSE IF holds THEN next ELSE Abort(s, why)
Checking(s, holds, why, nexts) ==
    IF ~Alive(s) THEN {s} ELSE IF holds THEN nexts ELSE {Abort(s, why)}
=============================================================================
