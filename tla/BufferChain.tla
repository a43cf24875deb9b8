---------------------------- MODULE BufferChain -----------------------------
(***************************************************************************)
(* BufferChain (common/buffer_chain.c): a body as a list of IOBuffers and  *)
(* the number of bytes in them.  The list is the sequence LinkedList       *)
(* implements.                                                             *)
(***************************************************************************)
EXTENDS IOBuffer, SequencesExt

CONSTANTS CHAIN_CAP,     \* capacity of the IOBuffers a chain allocates (256*4*8)
          CHAIN_SLACK    \* what a longer piece gets in addition (100)

ASSUME ChainAssumption == CHAIN_CAP \in Nat \ {0} /\ CHAIN_SLACK \in Nat

BufferChain_new == [m_chain |-> <<>>, m_size |-> 0, aborted |-> "no"]

\* The buffers are freed from the first on; List_free asserts that none is left.
BufferChain_free(ch) ==
    LET left == FoldLeft(LAMBDA l, b : Tail(l), ch.m_chain, ch.m_chain)
    IN  Asserting(ch, left = <<>>, "list_free", [ch EXCEPT !.m_chain = left])

BufferChain_size(ch) == ch.m_size

\* List_last of a chain whose m_size is wrong may be NULL.
BufferChain_append(ch, s) ==
    LET len == Len(s)
        n == Len(ch.m_chain)
        fits == ch.m_size > 0 /\ n > 0 /\ IOBuffer_space_len(ch.m_chain[n]) >= len
        required_len == IF len > CHAIN_CAP THEN len + CHAIN_SLACK ELSE CHAIN_CAP
    IN  Asserting(ch, ~(ch.m_size > 0 /\ n = 0), "null",
        Asserting(ch, len > 0, "commit",
            [ch EXCEPT !.m_chain = IF fits
                                   THEN [@ EXCEPT ![n] = IOBuffer_data_add(@, s)]
                                   ELSE Append(@, IOBuffer_data_add(IOBuffer_new_with_capacity(required_len), s)),
                       !.m_size = @ + len]))

BufferChain_append_cstr(ch, cstr) == BufferChain_append(ch, cstr)
BufferChain_append_IOBuffer(ch, b) == BufferChain_append(ch, IOBuffer_data(b))

\* Mutant: the size is set, not added to.
BufferChain_add_back_set(ch, b) ==
    [ch EXCEPT !.m_chain = Append(@, b), !.m_size = IOBuffer_data_len(b)]

BufferChain_add_back(ch, b) ==
    [ch EXCEPT !.m_chain = Append(@, b), !.m_size = @ + IOBuffer_data_len(b)]

\* The size is set, not added to.
BufferChain_add_front(ch, b) ==
    [ch EXCEPT !.m_chain = <<b>> \o @, !.m_size = IOBuffer_data_len(b)]

BufferChain_front(ch) == Head(ch.m_chain)

BufferChain_pop_front(ch) ==
    IF ch.m_chain = <<>> THEN ch
    ELSE [ch EXCEPT !.m_chain = Tail(@),
                    !.m_size = @ - IOBuffer_data_len(BufferChain_front(ch))]

\* The size is left as it is.
BufferChain_remove_iter(ch, i) == [ch EXCEPT !.m_chain = RemoveAt(@, i)]

BufferChain_append_bufferchain(ch, other) ==
    FoldLeft(LAMBDA acc, b : BufferChain_add_back(acc, IOBuffer_dup(b)), ch, other.m_chain)

\* The chain that takes, and the other one, popped empty.
BufferChain_steal_bufferchain(ch, other) ==
    FoldLeft(LAMBDA acc, b : [this |-> BufferChain_add_back(acc.this, b),
                              other |-> BufferChain_pop_front(acc.other)],
             [this |-> ch, other |-> other], other.m_chain)

\* One IOBuffer with the size of the chain, filled buffer by buffer.
BufferChain_compact(ch) ==
    FoldLeft(LAMBDA acc, b : IOBuffer_data_add(acc, IOBuffer_data(b)),
             IOBuffer_new_with_capacity(BufferChain_size(ch)), ch.m_chain)

\* A string longer than the chain compares equal to it.
BufferChain_eq_cstr(ch, s) ==
    LET bytes == FoldLeft(LAMBDA acc, b : acc \o IOBuffer_data(b), <<>>, ch.m_chain)
    IN  \A i \in DOMAIN bytes : i \in DOMAIN s /\ s[i] = bytes[i]

-----------------------------------------------------------------------------
(* Two BufferChains put together in every way the functions allow; bodies  *)
(* are what they should hold.  meddled has those on which add_front (on    *)
(* one that is not empty) or remove_iter was used, which no caller in      *)
(* src/ or apps/ does; once is enough, and keeps m_size bounded.           *)

CONSTANTS ChainByte,
          MaxPiece,    \* bound: bytes in one piece
          MaxBody      \* bound: bytes in a chain

VARIABLES chains, bodies, meddled

chainVars == <<chains, bodies, meddled>>

Chains == {1, 2}
Piece == UNION {[1 .. n -> ChainByte] : n \in 1 .. MaxPiece}

ChainInit ==
    /\ chains = [c \in Chains |-> BufferChain_new]
    /\ bodies = [c \in Chains |-> <<>>] /\ meddled = {}

May(c) == Alive(chains[c])
Fits(c, s) == Len(bodies[c]) + Len(s) <= MaxBody
Put(c, new) == chains' = [chains EXCEPT ![c] = new]

ChainAppend(c, s) ==
    /\ May(c) /\ Fits(c, s)
    /\ \/ Put(c, BufferChain_append_cstr(chains[c], s))
       \/ Put(c, BufferChain_append_IOBuffer(chains[c], IOBuffer_from_buf(s)))
    /\ bodies' = [bodies EXCEPT ![c] = IF Alive(chains'[c]) THEN @ \o s ELSE @]
    /\ UNCHANGED meddled

ChainAddBack(c, s) ==
    /\ May(c) /\ Fits(c, s)
    /\ Put(c, BufferChain_add_back(chains[c], IOBuffer_from_buf(s)))
    /\ bodies' = [bodies EXCEPT ![c] = @ \o s]
    /\ UNCHANGED meddled

ChainAddFront(c, s) ==
    /\ May(c) /\ c \notin meddled /\ Fits(c, s)
    /\ Put(c, BufferChain_add_front(chains[c], IOBuffer_from_buf(s)))
    /\ bodies' = [bodies EXCEPT ![c] = s \o @]
    /\ meddled' = IF bodies[c] = <<>> THEN meddled ELSE meddled \cup {c}

ChainPopFront(c) ==
    /\ May(c) /\ chains[c].m_chain # <<>>
    /\ Put(c, BufferChain_pop_front(chains[c]))
    /\ bodies' = [bodies EXCEPT ![c] =
                   SubSeq(@, 1 + IOBuffer_data_len(BufferChain_front(chains[c])), Len(@))]
    /\ UNCHANGED meddled

ChainRemove(c, i) ==
    /\ May(c) /\ c \notin meddled /\ i \in DOMAIN chains[c].m_chain
    /\ Put(c, BufferChain_remove_iter(chains[c], i))
    /\ bodies' = [bodies EXCEPT ![c] = FlattenSeq([j \in DOMAIN chains'[c].m_chain |->
                                                  IOBuffer_data(chains'[c].m_chain[j])])]
    /\ meddled' = meddled \cup {c}

ChainJoin(c, d) ==
    /\ c # d /\ May(c) /\ May(d) /\ Fits(c, bodies[d])
    /\ Put(c, BufferChain_append_bufferchain(chains[c], chains[d]))
    /\ bodies' = [bodies EXCEPT ![c] = @ \o bodies[d]]
    /\ UNCHANGED meddled

ChainSteal(c, d) ==
    /\ c # d /\ May(c) /\ May(d) /\ Fits(c, bodies[d])
    /\ LET res == BufferChain_steal_bufferchain(chains[c], chains[d])
       IN  chains' = [chains EXCEPT ![c] = res.this, ![d] = res.other]
    /\ bodies' = [bodies EXCEPT ![c] = @ \o bodies[d], ![d] = <<>>]
    /\ UNCHANGED meddled

\* The chain is freed, and one is made anew.
ChainFree(c) ==
    /\ May(c)
    /\ LET old == BufferChain_free(chains[c]) IN Put(c, IF Alive(old) THEN BufferChain_new ELSE old)
    /\ bodies' = [bodies EXCEPT ![c] = <<>>] /\ meddled' = meddled \ {c}

\* The chain goes on as the one buffer it was compacted to.  (A buffer of negative size,
\* which a chain that was meddled with may ask for, is not followed further.)
ChainCompact(c) ==
    /\ May(c) /\ bodies[c] # <<>> /\ BufferChain_size(chains[c]) \in 0 .. MaxBody
    /\ LET b == BufferChain_compact(chains[c]) IN
       Put(c, Asserting(chains[c], Alive(b), b.aborted, BufferChain_add_back(BufferChain_new, b)))
    /\ UNCHANGED <<bodies, meddled>>

ChainNext ==
    \/ \E c \in Chains, s \in Piece : ChainAppend(c, s) \/ ChainAddBack(c, s) \/ ChainAddFront(c, s)
    \/ \E c \in Chains : ChainPopFront(c) \/ ChainCompact(c) \/ ChainFree(c)
    \/ \E c \in Chains, i \in 1 .. MaxBody : ChainRemove(c, i)
    \/ \E c, d \in Chains : ChainJoin(c, d) \/ ChainSteal(c, d)

ChainSpec == ChainInit /\ [][ChainNext]_chainVars

-----------------------------------------------------------------------------
\* The buffers of a chain hold its body, split somehow; and as long as the functions that
\* miscount are not used its size is the body's length, so that no operation aborts:
\* neither compacting (capacity m_size) nor appending (List_last when m_size > 0).
ChainHoldsBody ==
    \A c \in Chains :
        /\ Alive(chains[c]) => BufferChain_eq_cstr(chains[c], bodies[c])
        /\ c \notin meddled => /\ Alive(chains[c])
                              /\ BufferChain_size(chains[c]) = Len(bodies[c])
=============================================================================
