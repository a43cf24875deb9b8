------------------------------ MODULE Cbuffer -------------------------------
(***************************************************************************)
(* Cbuffer (common/cbuffer.c): bytes that grow at the end in memory that   *)
(* is reallocated as needed, kept terminated so that they are a C string.  *)
(* The HTTP parser collects url, status, names and values in Cbuffers.     *)
(***************************************************************************)
EXTENDS Asserts, Integers, Sequences

CONSTANTS CbByte,
          CB_MIN, CB_MAX   \* m_min_size and m_max_size of common_strategy

\* common_strategy has 256 and 1024 * 1024.
ASSUME CbufferAssumption == CB_MIN \in Nat \ {0} /\ CB_MAX \in Nat /\ CB_MAX >= 2 * CB_MIN /\ CbByte \subseteq Nat \ {0}

CbUninit == -1
CbTerm == 0

max_of_two(a, b) == IF a >= b THEN a ELSE b
min_of_two(a, b) == IF a <= b THEN a ELSE b

\* mem has the bytes inside the capacity and the one behind it, where a terminator may land.
BufferStrategy_allocate(n) == [i \in 0 .. max_of_two(n, CB_MIN) |-> CbUninit]
BufferStrategy_reallocate_size(current, requested) ==
    max_of_two(requested, min_of_two(CB_MAX, 2 * current))
BufferStrategy_reallocate(mem, n) ==
    [i \in 0 .. n |-> IF i < n /\ i \in DOMAIN mem THEN mem[i] ELSE CbUninit]

\* The memory is not cleared: the first byte of a new buffer is anything.
Cbuffer_new ==
    [mem |-> BufferStrategy_allocate(CB_MIN), length |-> 0, size |-> 0, capacity |-> CB_MIN,
     aborted |-> "no"]

Cbuffer_size(c) == c.length
Cbuffer_data(c) == [i \in 1 .. c.length |-> c.mem[i - 1]]
Cbuffer_next_available(c) == c.length
Cbuffer_capacity(c) == c.capacity

\* m_size keeps its value.
Cbuffer_clear(c) == [c EXCEPT !.length = 0, !.mem[0] = CbTerm]

Grown(c, requested) ==
    LET n == BufferStrategy_reallocate_size(c.capacity, requested)
    IN  Asserting(c, requested <= CB_MAX /\ n <= CB_MAX, "strategy",
            [c EXCEPT !.mem = BufferStrategy_reallocate(@, n), !.capacity = n])

\* Mutant: the memory grows only when the bytes do not fit, terminator not counted.
MustGrow_late(c, len) == c.length + len > c.capacity

MustGrow(c, len) == c.length + len >= c.capacity

\* The bytes and a terminator are written from the next available one on.
WrittenBehind(g, s) ==
    LET at == Cbuffer_next_available(g)
        end == g.length + Len(s)
    IN  [g EXCEPT !.mem = [i \in DOMAIN @ |-> IF i \in at .. end - 1 THEN s[i - at + 1]
                                               ELSE IF i = end THEN CbTerm ELSE @[i]],
                  !.length = end, !.size = end]

Cbuffer_append(c, s) ==
    LET g == IF MustGrow(c, Len(s)) THEN Grown(c, c.length + Len(s)) ELSE c
    IN  IF s = <<>> THEN c ELSE Asserting(g, TRUE, "", WrittenBehind(g, s))

Cbuffer_append_cstr(c, cstr) == Cbuffer_append(c, cstr)
Cbuffer_from_cstring(s) == Cbuffer_append(Cbuffer_new, s)

\* Cbuffer_cstr asserts that the byte at m_size is the terminator; a reader of the string
\* it returns stops at the first one.
CstrAsserts(c) == c.mem[c.size] = CbTerm
Cbuffer_cstr(c) ==
    LET ends == {i \in DOMAIN c.mem : c.mem[i] = CbTerm}
        end == CHOOSE i \in ends : \A j \in ends : i <= j
    IN  [i \in 1 .. end |-> c.mem[i - 1]]

\* Both buffers after the move: the memories are exchanged.
Cbuffer_move(dest, src) == [dest |-> src, src |-> Cbuffer_clear(Cbuffer_clear(dest))]

-----------------------------------------------------------------------------
(* Two Cbuffers under any sequence of appends, clears and moves between    *)
(* them; held is what each should hold.                                    *)

CONSTANT MaxAppend     \* bound: bytes appended at a time

VARIABLES cbuf, held, used    \* used: the buffers that had an append or a clear

cbVars == <<cbuf, held, used>>

Buf == {1, 2}

CbInit ==
    /\ cbuf = [b \in Buf |-> Cbuffer_new]
    /\ held = [b \in Buf |-> <<>>] /\ used = {}

CbAppend(b, s) ==
    /\ Alive(cbuf[b])
    /\ cbuf' = [cbuf EXCEPT ![b] = Cbuffer_append_cstr(@, s)]
    /\ held' = IF Alive(cbuf'[b]) THEN [held EXCEPT ![b] = @ \o s] ELSE held
    /\ used' = IF s = <<>> THEN used ELSE used \cup {b}

CbFromCstring(b, s) ==
    /\ Alive(cbuf[b])
    /\ cbuf' = [cbuf EXCEPT ![b] = Cbuffer_from_cstring(s)]
    /\ held' = [held EXCEPT ![b] = s]
    /\ used' = IF s = <<>> THEN used \ {b} ELSE used \cup {b}

CbClear(b) ==
    /\ Alive(cbuf[b])
    /\ cbuf' = [cbuf EXCEPT ![b] = Cbuffer_clear(@)]
    /\ held' = [held EXCEPT ![b] = <<>>]
    /\ used' = used \cup {b}

CbMove(d, s) ==
    /\ d # s /\ Alive(cbuf[d]) /\ Alive(cbuf[s])
    /\ LET m == Cbuffer_move(cbuf[d], cbuf[s]) IN
           cbuf' = [cbuf EXCEPT ![d] = m.dest, ![s] = m.src]
    /\ held' = [held EXCEPT ![d] = held[s], ![s] = <<>>]
    /\ used' = (used \ {d}) \cup {s} \cup (IF s \in used THEN {d} ELSE {})

CbNext ==
    \/ \E b \in Buf, s \in UNION {[1 .. n -> CbByte] : n \in 0 .. MaxAppend} :
           CbAppend(b, s) \/ CbFromCstring(b, s)
    \/ \E b \in Buf : CbClear(b)
    \/ \E d, s \in Buf : CbMove(d, s)

CbSpec == CbInit /\ [][CbNext]_cbVars

-----------------------------------------------------------------------------
\* A Cbuffer that was written to reads back as what was appended since it was cleared,
\* and as a C string too: growing, clearing and moving keep bytes and terminator, and the
\* assertion of Cbuffer_cstr holds although Cbuffer_clear leaves m_size behind.  The
\* terminator is inside the memory as long as the buffer holds less than twice the first
\* capacity.  (Beyond, an append that asks for all of the doubled capacity, or more, leaves
\* no byte for it.)
CbufferReadsBack ==
    /\ \A b \in used : Alive(cbuf[b]) =>
          /\ Cbuffer_data(cbuf[b]) = held[b]
          /\ CstrAsserts(cbuf[b]) /\ Cbuffer_cstr(cbuf[b]) = held[b]
    /\ \A b \in Buf : \/ Cbuffer_size(cbuf[b]) < Cbuffer_capacity(cbuf[b])
                     \/ Cbuffer_size(cbuf[b]) >= 2 * CB_MIN
=============================================================================
