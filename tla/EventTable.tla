----------------------------- MODULE EventTable -----------------------------
(***************************************************************************)
(* The table of event structures of the kqueue runloop (event_table.c): a  *)
(* slab of EVT_MAX entries and a ring of the indices of the free ones.     *)
(* Streams, listeners, timers and user events live in its entries; the     *)
(* runloop runs until number_in_use is 0.  An entry is named by its index  *)
(* in memory[].  memory[] is malloced and never cleared.                   *)
(***************************************************************************)
EXTENDS Integers, Sequences, FiniteSets

CONSTANTS EVT_MAX, Unset

ASSUME EvtMaxAssumption == EVT_MAX \in Nat \ {0}

VARIABLES count, rdix, wrix, buffer,  \* struct FreeList
          my_index,                   \* the index stored in each entry
          held,                       \* entries whose pointer a caller has
          table_aborted                     \* an assert failed

tableVars == <<count, rdix, wrix, buffer, my_index, held, table_aborted>>

Entry == 0 .. EVT_MAX - 1
modulo_max == EVT_MAX + 1
Cell == 0 .. EVT_MAX

\* freelist_init adds 0, 1, ... EVT_MAX - 1 to an empty ring.
event_table_init ==
    /\ count = EVT_MAX
    /\ rdix = 0
    /\ wrix = EVT_MAX % modulo_max
    /\ buffer = [c \in Cell |-> IF c \in Entry THEN c ELSE Unset]
    /\ my_index = [e \in Entry |-> Unset]
    /\ held = {}
    /\ table_aborted = FALSE

freelist_is_full == count = EVT_MAX
freelist_is_empty == count = 0

event_table_number_in_use == EVT_MAX - count

\* Mutant: the ring of free indices has no spare cell.
freelist_add_short_ring(element) ==
    /\ count' = count + 1
    /\ buffer' = [buffer EXCEPT ![wrix] = element]
    /\ wrix' = (wrix + 1) % EVT_MAX

freelist_add(element) ==
    /\ count' = count + 1
    /\ buffer' = [buffer EXCEPT ![wrix] = element]
    /\ wrix' = (wrix + 1) % modulo_max

\* Mutant: count is not decremented.
freelist_get_no_count ==
    /\ ~freelist_is_empty
    /\ UNCHANGED count
    /\ rdix' = (rdix + 1) % modulo_max

freelist_get ==
    /\ ~freelist_is_empty
    /\ count' = count - 1
    /\ rdix' = (rdix + 1) % modulo_max

event_table_get_entry ==
    /\ ~table_aborted
    /\ \/ /\ freelist_get
          /\ my_index' = [my_index EXCEPT ![buffer[rdix]] = buffer[rdix]]
          /\ held' = held \cup {buffer[rdix]}
          /\ UNCHANGED table_aborted
       \/ /\ freelist_is_empty
          /\ table_aborted' = TRUE
          /\ UNCHANGED <<count, rdix, my_index, held>>
    /\ UNCHANGED <<wrix, buffer>>

\* The caller passes the pointer it was given and does not use it again.
event_table_release_entry(p) ==
    /\ ~table_aborted
    /\ table_aborted' = freelist_is_full
    /\ IF freelist_is_full
       THEN UNCHANGED <<count, wrix, buffer, held>>
       ELSE freelist_add(my_index[p]) /\ held' = held \ {p}
    /\ UNCHANGED <<rdix, my_index>>

TableNext == event_table_get_entry \/ \E p \in held : event_table_release_entry(p)

TableSpec == event_table_init /\ [][TableNext]_tableVars

-----------------------------------------------------------------------------
(* The free indices in the order they will be handed out. *)
FreeList == [i \in 1 .. count |-> buffer[(rdix + (i - 1)) % modulo_max]]

\* The types of the FreeList fields and of the entries.
TableTypeOK ==
    /\ count \in 0 .. EVT_MAX
    /\ rdix \in Cell
    /\ wrix \in Cell
    /\ buffer \in [Cell -> Entry \cup {Unset}]
    /\ my_index \in [Entry -> Entry \cup {Unset}]
    /\ held \in SUBSET Entry
    /\ table_aborted \in BOOLEAN

\* What the runloop's exit test relies on: the number in use that the free
\* list computes from its counter is the number of entries callers hold.
InUseIsHeld == event_table_number_in_use = Cardinality(held)

\* An entry a caller holds is not free, so no later get_entry can hand the same
\* memory to a second stream, listener or timer.
HeldNotFree == \A i \in 1 .. count : FreeList[i] \notin held

SP == INSTANCE SlotPool
          WITH Slots <- [i \in 1 .. EVT_MAX |-> i - 1], idle <- FreeList,
               aborted <- table_aborted

\* The table implements the pool of slots: entries are handed out to one
\* holder at a time, the longest free first, and the release assertion
\* (!freelist_is_full) never fails.
ImplementsSlotPool == SP!Spec
=============================================================================
