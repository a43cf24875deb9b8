------------------------------ MODULE IOBuffer ------------------------------
(***************************************************************************)
(* IOBuffer (common/iobuffer.c): a fixed block of memory with one span of  *)
(* unread bytes, filled at the end and consumed from the front.  Pointers  *)
(* are offsets from mem_p; the block has one byte more than the capacity.  *)
(***************************************************************************)
EXTENDS Asserts, Integers, Sequences

Uninit == -1   \* a byte that was never written
Term == 0      \* IOB_TERM_CHAR

IOBuffer_init(capacity) ==
    [mem |-> [i \in 0 .. capacity |-> Uninit], cap |-> capacity,
     ptr |-> 0, rem |-> 0, aborted |-> "no"]

IOBuffer_new_with_capacity(capacity) == IOBuffer_init(capacity)

\* The contents are dropped, not copied.
IOBuffer_expand_and_reset(b, new_capacity) ==
    IF new_capacity > b.cap THEN IOBuffer_init(new_capacity) ELSE b

memcpy(b, at, s) ==
    [b EXCEPT !.mem = [i \in DOMAIN @ |->
        IF i \in at .. at + Len(s) - 1 THEN s[i - at + 1] ELSE @[i]]]

IOBuffer_data(b) == [i \in 1 .. b.rem |-> b.mem[b.ptr + i - 1]]
IOBuffer_data_len(b) == b.rem
IOBuffer_space(b) == b.ptr + b.rem
IOBuffer_space_len(b) == b.cap - (b.ptr + b.rem)
IOBuffer_empty(b) == b.rem = 0

\* What a C function sees of the buffer: the bytes up to the first terminator, or all of
\* the block when it has none.
IOBuffer_cstr(b) ==
    LET ends == {i \in b.ptr .. b.cap : b.mem[i] = Term} \cup {b.cap + 1}
        end == CHOOSE i \in ends : \A j \in ends : i <= j
    IN  [i \in 1 .. end - b.ptr |-> b.mem[b.ptr + i - 1]]

\* The terminator goes to mem_p + remaining, wherever the unread bytes start.  Behind
\* the block ("overrun") the write has no defined effect.
IOBuffer_commit(b, n) ==
    Asserting(b, n > 0, "commit",
    Asserting(b, b.rem + n <= b.cap, "overrun",
        [b EXCEPT !.rem = @ + n, !.mem[b.rem + n] = Term]))

IOBuffer_data_add(b, s) ==
    Asserting(b, IOBuffer_space_len(b) >= Len(s), "data_add",
        IOBuffer_commit(memcpy(b, IOBuffer_space(b), s), Len(s)))

IOBuffer_commit_push_back(b, ch) == IOBuffer_data_add(b, <<ch>>)

IOBuffer_consume(b, n) ==
    Asserting(b, b.ptr + n <= b.cap /\ n <= b.rem, "consume",
        [b EXCEPT !.ptr = IF n = b.rem THEN 0 ELSE @ + n, !.rem = @ - n])

\* The byte read and the buffer after it.
IOBuffer_consume_pop_front(b) == <<b.mem[b.ptr], IOBuffer_consume(b, 1)>>

IOBuffer_reset(b) == [b EXCEPT !.ptr = 0, !.rem = 0]

\* Copies the unread bytes into a block of the same size.
IOBuffer_consolidate_space(b) ==
    LET tmp == IOBuffer_data_add(IOBuffer_new_with_capacity(b.cap), IOBuffer_data(b))
    IN  Asserting(b, Alive(tmp), tmp.aborted, tmp)

\* Mutant: the duplicate starts at the start of its memory.
IOBuffer_dup_from_start(b) == [b EXCEPT !.ptr = 0]

IOBuffer_dup(b) == [memcpy(IOBuffer_new_with_capacity(b.cap), 0, [i \in 1 .. b.cap + 1 |-> b.mem[i - 1]])
                        EXCEPT !.ptr = b.ptr, !.rem = b.rem]

IOBuffer_from_buf(s) == IOBuffer_data_add(IOBuffer_new_with_capacity(2 * Len(s)), s)
IOBuffer_from_cstring(cstr) == IOBuffer_from_buf(cstr)

\* strncmp stops at a terminator in both.
IOBuffer_equal(a, b) ==
    /\ a.rem = b.rem
    /\ LET x == IOBuffer_data(a)  y == IOBuffer_data(b) IN
       \A i \in 1 .. a.rem : (\A j \in 1 .. i - 1 : x[j] # Term) => x[i] = y[i]

\* vsnprintf writes at most len1 - 1 characters and a terminator.  When that is too few
\* the buffer may be reallocated; the second vsnprintf writes to the old block (and
\* reads arguments already read), so the n bytes committed are whatever malloc left.
IOBuffer_sprintf(b, s) ==
    LET n == Len(s)  len1 == IOBuffer_space_len(b)
        put == IF len1 = 0 THEN b
               ELSE memcpy(b, IOBuffer_space(b), SubSeq(s, 1, len1 - 1) \o <<Term>>)
        bigger == IOBuffer_expand_and_reset(put, 2 * n)
    IN  IF n > len1 - 1
        THEN Asserting(bigger, IOBuffer_space_len(bigger) > n, "sprintf",
                       IOBuffer_commit(bigger, n))
        ELSE IOBuffer_commit(memcpy(b, IOBuffer_space(b), s \o <<Term>>), n)

-----------------------------------------------------------------------------
(***************************************************************************)
(* An IOBuffer in use as iobuffer.h describes: data is read or formatted   *)
(* into the space and committed, and some or all of it is consumed.  The   *)
(* callers in apps/ and src/ add to a buffer only while its unread bytes   *)
(* start at mem_p; AddBehind lets them add after a partial consume too.    *)
(***************************************************************************)

CONSTANTS Byte,       \* byte values
          IOB_CAP,    \* capacity of the buffer
          MaxChunk,   \* bound: bytes added or formatted at a time
          AddBehind

ASSUME IOBufferAssumption == IOB_CAP \in Nat \ {0} /\ MaxChunk \in Nat /\ Byte \subseteq Nat \ {Term}

VARIABLES iobuf,
          unread      \* history: the bytes added and not consumed

iobVars == <<iobuf, unread>>

Chunk(n) == UNION {[1 .. k -> Byte] : k \in 1 .. n}

IobInit == iobuf = IOBuffer_new_with_capacity(IOB_CAP) /\ unread = <<>>

MayAdd == Alive(iobuf) /\ (AddBehind \/ iobuf.ptr = 0)

\* read(2) or memcpy into the space, then commit.
IobFill(s) ==
    /\ MayAdd /\ Len(s) <= IOBuffer_space_len(iobuf)
    /\ iobuf' = IOBuffer_data_add(iobuf, s)
    /\ unread' = unread \o s

IobPushBack(ch) ==
    /\ MayAdd /\ IOBuffer_space_len(iobuf) > 0
    /\ iobuf' = IOBuffer_commit_push_back(iobuf, ch)
    /\ unread' = Append(unread, ch)

\* A text that does not fit is lost, with all the buffer held: the history takes over
\* what the new block holds.
IobSprintf(s) ==
    /\ MayAdd
    /\ iobuf' = IOBuffer_sprintf(iobuf, s)
    /\ unread' = IF Len(s) < IOBuffer_space_len(iobuf) THEN unread \o s ELSE IOBuffer_data(iobuf')

IobConsume(n) ==
    /\ Alive(iobuf) /\ n <= IOBuffer_data_len(iobuf)
    /\ iobuf' = IOBuffer_consume(iobuf, n)
    /\ unread' = SubSeq(unread, n + 1, Len(unread))

IobPopFront ==
    /\ Alive(iobuf) /\ ~IOBuffer_empty(iobuf)
    /\ iobuf' = IOBuffer_consume_pop_front(iobuf)[2]
    /\ unread' = IF Head(unread) = IOBuffer_consume_pop_front(iobuf)[1] THEN Tail(unread) ELSE unread

IobReset ==
    /\ Alive(iobuf)
    /\ iobuf' = IOBuffer_reset(iobuf) /\ unread' = <<>>

IobConsolidate ==
    /\ Alive(iobuf) /\ ~IOBuffer_empty(iobuf)
    /\ iobuf' = IOBuffer_consolidate_space(iobuf)
    /\ UNCHANGED unread

\* The caller goes on with a buffer made from a string, of twice its length.
IobFromCstring(s) == Alive(iobuf) /\ iobuf' = IOBuffer_from_cstring(s) /\ unread' = s

\* The caller goes on with a duplicate.
IobDup == Alive(iobuf) /\ iobuf' = IOBuffer_dup(iobuf) /\ UNCHANGED unread

IobNext ==
    \/ \E s \in Chunk(MaxChunk) : IobFill(s) \/ IobSprintf(s) \/ IobFromCstring(s)
    \/ \E ch \in Byte : IobPushBack(ch)
    \/ \E n \in 0 .. iobuf.cap : IobConsume(n)
    \/ IobPopFront \/ IobReset \/ IobConsolidate \/ IobDup

IobSpec == IobInit /\ [][IobNext]_iobVars

-----------------------------------------------------------------------------
\* The unread bytes are the bytes added and not consumed, in order, and equal to a
\* buffer made from them: a commit, consume, duplicate or move of the span loses and
\* overwrites none ("consuming some or all of the read data", iobuffer.h).  The only
\* assertion that fails is that of a text too long for a buffer in use.  And the text of a
\* non-empty buffer, which newline_msg_serialize and demo_msg_serialize print with %s, is
\* exactly its unread bytes: nothing is cut off and nothing behind is read.
UnreadIntact ==
    /\ IOBuffer_data(iobuf) = unread
    /\ unread # <<>> => IOBuffer_equal(iobuf, IOBuffer_from_buf(unread))
    /\ iobuf.aborted \in {"no", "sprintf"}
    /\ Alive(iobuf) /\ unread # <<>> => IOBuffer_cstr(iobuf) = unread
=============================================================================
