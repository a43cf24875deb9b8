---------------------------- MODULE FunctorList -----------------------------
(***************************************************************************)
(* The ring of functors of functor_list.c (the same code in both           *)
(* runloops).  head is the slot of the newest functor, tail_plus the slot  *)
(* before the oldest, so one slot of the ring is never used and a list of  *)
(* capacity n holds n - 1 functors.                                        *)
(***************************************************************************)
EXTENDS Integers, Sequences

CONSTANTS Functor, capacity, Garbage

ASSUME CapacityAssumption == capacity \in Nat \ {0}

VARIABLES head, tail_plus, list,
          popped,   \* what the last functor_list_remove returned
          functor_aborted   \* an RBL_ASSERT failed: the program is over

functorVars == <<head, tail_plus, list, popped, functor_aborted>>

\* functor_list_new mallocs capacity + 1 entries and initialises none.
functor_list_new ==
    /\ head = 0
    /\ tail_plus = 0
    /\ list = [i \in 0 .. capacity |-> Garbage]
    /\ popped = Garbage
    /\ functor_aborted = FALSE

Succ(i) == (i + 1) % capacity

functor_list_size == (head + capacity - tail_plus) % capacity

\* Mutant: the test for a full list is dropped.
functor_list_add_unchecked(f) ==
    /\ ~functor_aborted
    /\ head' = Succ(head)
    /\ list' = [list EXCEPT ![Succ(head)] = f]
    /\ UNCHANGED <<tail_plus, popped, functor_aborted>>

functor_list_add(f) ==
    /\ ~functor_aborted
    /\ \/ /\ Succ(head) = tail_plus
          /\ functor_aborted' = TRUE
          /\ UNCHANGED <<head, list>>
       \/ /\ Succ(head) # tail_plus
          /\ head' = Succ(head)
          /\ list' = [list EXCEPT ![Succ(head)] = f]
          /\ UNCHANGED functor_aborted
    /\ UNCHANGED <<tail_plus, popped>>

functor_list_remove ==
    /\ ~functor_aborted
    /\ \/ /\ functor_list_size = 0
          /\ functor_aborted' = TRUE
          /\ UNCHANGED <<tail_plus, popped>>
       \/ /\ functor_list_size # 0
          /\ tail_plus' = Succ(tail_plus)
          /\ popped' = list[Succ(tail_plus)]
          /\ UNCHANGED functor_aborted
    /\ UNCHANGED <<head, list>>

FunctorNext == (\E f \in Functor : functor_list_add(f)) \/ functor_list_remove

FunctorSpec == functor_list_new /\ [][FunctorNext]_functorVars

-----------------------------------------------------------------------------
(* The ring as the sequence of functors it holds, oldest first. *)
QueuedFunctors == [i \in 1 .. functor_list_size |-> list[(tail_plus + i) % capacity]]

\* The types of the fields of struct FunctorList_s.
FunctorTypeOK ==
    /\ head \in 0 .. capacity - 1
    /\ tail_plus \in 0 .. capacity - 1
    /\ list \in [0 .. capacity -> Functor \cup {Garbage}]
    /\ popped \in Functor \cup {Garbage}
    /\ functor_aborted \in BOOLEAN

\* Every slot functor_list_remove can reach was written by functor_list_add:
\* no entry of the uninitialised malloc block is ever taken for a functor.
NoGarbageQueued == \A i \in 1 .. functor_list_size :
                       list[(tail_plus + i) % capacity] \in Functor

FQ == INSTANCE FunctorQueue
          WITH q <- QueuedFunctors, Bound <- capacity - 1, NoFunctor <- Garbage,
               aborted <- functor_aborted

\* The ring implements the bounded queue: functors come out once each, in the
\* order they went in, and the list aborts only when full or empty.
ImplementsFunctorQueue == FQ!Spec
=============================================================================
