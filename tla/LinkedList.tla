----------------------------- MODULE LinkedList -----------------------------
(***************************************************************************)
(* The doubly linked list of common/list.c, under the header list, the     *)
(* buffer chain and the lists of connections and messages: nodes are       *)
(* addresses of a heap, and a list is its count, head and tail.            *)
(***************************************************************************)
EXTENDS Asserts, Integers, Sequences

CONSTANTS Item, NoItem,
          MaxNodes      \* bound: nodes alive at a time

ASSUME ListAssumption == MaxNodes \in Nat /\ NoItem \notin Item

VARIABLES lst,      \* the List, and the heap of its nodes
          got       \* what the last removal returned

listVars == <<lst, got>>

NULL == 0

Node(item, prev, next) == [item |-> item, backward |-> prev, forward |-> next]

List_init == [count |-> 0, head |-> NULL, tail |-> NULL, heap |-> <<>>, aborted |-> "no"]

List_new == List_init

\* malloc returns some address that is not in use.
Fresh(l) == CHOOSE a \in 1 .. MaxNodes : a \notin DOMAIN l.heap
ListNode_new(l, item, prev, next) ==
    [l EXCEPT !.heap = [a \in DOMAIN @ \cup {Fresh(l)} |->
        IF a = Fresh(l) THEN Node(item, prev, next) ELSE @[a]]]
ListNode_free(l, a) == [l EXCEPT !.heap = [b \in DOMAIN @ \ {a} |-> @[b]]]

List_size(l) == l.count

List_first(l) == IF l.head = NULL THEN NoItem ELSE l.heap[l.head].item
List_last(l) == IF l.tail = NULL THEN NoItem ELSE l.heap[l.tail].item
List_iterator(l) == l.head
List_itr_next(l, itr) == l.heap[itr].forward
List_itr_unpack(l, itr) == l.heap[itr].item

\* The iterator after n steps of the loop every traversal of the code is.
ItrAt(l) ==
    LET at[n \in 0 .. l.count] == IF n = 0 THEN List_iterator(l)
                                  ELSE IF at[n - 1] = NULL THEN NULL
                                  ELSE List_itr_next(l, at[n - 1])
    IN  at

\* The first node with the item, or NULL.
List_find(l, item) ==
    LET hits == {n \in 0 .. l.count - 1 : List_itr_unpack(l, ItrAt(l)[n]) = item}
    IN  IF hits = {} THEN NULL ELSE ItrAt(l)[CHOOSE n \in hits : \A m \in hits : n <= m]

List_add_front(l, item) ==
    LET a == Fresh(l)
        m == ListNode_new(l, item, NULL, NULL)
    IN  IF l.count = 0
        THEN [m EXCEPT !.head = a, !.tail = a, !.count = 1]
        ELSE [m EXCEPT !.heap[a].forward = l.head, !.heap[l.head].backward = a,
                       !.head = a, !.count = @ + 1]

List_add_back(l, item) ==
    LET a == Fresh(l)
        m == ListNode_new(l, item, NULL, l.head)
    IN  IF l.count = 0
        THEN [m EXCEPT !.head = a, !.tail = a, !.count = 1]
        ELSE [m EXCEPT !.heap[a].backward = l.tail, !.heap[a].forward = NULL,
                       !.heap[l.tail].forward = a, !.tail = a, !.count = @ + 1]

\* What List_remove_first and List_remove_last do with the only node.
RemoveOnly(l) == ListNode_free([l EXCEPT !.count = 0, !.head = NULL, !.tail = NULL], l.head)

List_remove_first(l) ==
    IF l.count = 0 THEN l
    ELSE IF l.count = 1 THEN RemoveOnly(l)
    ELSE LET next == l.heap[l.head].forward IN
         ListNode_free([l EXCEPT !.head = next, !.heap[next].backward = NULL, !.count = @ - 1], l.head)

List_remove_last(l) ==
    IF l.count = 0 THEN l
    ELSE IF l.count = 1 THEN RemoveOnly(l)
    ELSE LET prev == l.heap[l.tail].backward IN
         ListNode_free([l EXCEPT !.tail = prev, !.heap[prev].forward = NULL, !.count = @ - 1], l.tail)

\* Mutant: the tail is not moved back when the last node is removed.
Unlinked_keep_tail(l, itr, next, prev) ==
    IF l.head = itr THEN [l EXCEPT !.heap[next].backward = prev, !.head = next]
    ELSE IF l.tail = itr THEN [l EXCEPT !.heap[prev].forward = next]
    ELSE [l EXCEPT !.heap[next].backward = prev, !.heap[prev].forward = next]

\* A node between prev and next, one of which may be NULL, is taken out.
Unlinked(l, itr, next, prev) ==
    IF l.head = itr THEN [l EXCEPT !.heap[next].backward = prev, !.head = next]
    ELSE IF l.tail = itr THEN [l EXCEPT !.heap[prev].forward = next, !.tail = prev]
    ELSE [l EXCEPT !.heap[next].backward = prev, !.heap[prev].forward = next]

List_itr_remove(l, itr) ==
    IF l.count = 0 THEN l
    ELSE IF l.count = 1 THEN Asserting(l, itr = l.head, "itr_remove", RemoveOnly(l))
    ELSE ListNode_free([Unlinked(l, itr, l.heap[itr].forward, l.heap[itr].backward)
                            EXCEPT !.count = @ - 1], itr)

\* Frees the nodes along the forward pointers; an empty list is left alone.
List_safe_deinit(l) ==
    IF l.count = 0 THEN l
    ELSE [l EXCEPT !.heap = [a \in DOMAIN @ \ {ItrAt(l)[n] : n \in 0 .. l.count} |-> @[a]],
                   !.count = 0, !.head = NULL, !.tail = NULL]

List_free(l) == Asserting(l, l.count = 0, "free", List_new)   \* and a new one is made
List_safe_free(l) == List_free(List_safe_deinit(l))

-----------------------------------------------------------------------------
ListInit == lst = List_new /\ got = NoItem

Room == \E a \in 1 .. MaxNodes : a \notin DOMAIN lst.heap

ListAddFront(x) == Room /\ lst' = List_add_front(lst, x) /\ UNCHANGED got
ListAddBack(x) == Room /\ lst' = List_add_back(lst, x) /\ UNCHANGED got
ListRemoveFirst == lst' = List_remove_first(lst) /\ got' = List_first(lst)
ListRemoveLast == lst' = List_remove_last(lst) /\ got' = List_last(lst)

\* An item is found and removed, as http_server does with a finished handler; or the node
\* n steps from the start is.
ListRemoveFound(x) ==
    /\ List_find(lst, x) # NULL
    /\ lst' = List_itr_remove(lst, List_find(lst, x)) /\ UNCHANGED got
ListRemoveNth(n) ==
    /\ n < List_size(lst)
    /\ lst' = List_itr_remove(lst, ItrAt(lst)[n]) /\ UNCHANGED got
ListSafeDeinit == lst' \in {List_safe_deinit(lst), List_safe_free(lst)} /\ UNCHANGED got

ListNext ==
    \/ \E x \in Item : ListAddFront(x) \/ ListAddBack(x) \/ ListRemoveFound(x)
    \/ \E n \in 0 .. MaxNodes - 1 : ListRemoveNth(n)
    \/ ListRemoveFirst \/ ListRemoveLast \/ ListSafeDeinit

ListSpec == ListInit /\ [][ListNext]_listVars

-----------------------------------------------------------------------------
Forward == [i \in 1 .. lst.count |-> List_itr_unpack(lst, ItrAt(lst)[i - 1])]

\* The nodes in the order the backward pointers give, from the tail.
BackAt ==
    LET at[n \in 0 .. lst.count] == IF n = 0 THEN lst.tail
                                    ELSE IF at[n - 1] = NULL THEN NULL
                                    ELSE lst.heap[at[n - 1]].backward
    IN  at

\* No pointer is to a node that was freed.  Both directions visit the same nodes, count of
\* them, and then end; every node of the heap is among them (a removal frees its node and
\* no other).
WellLinked ==
    /\ {lst.head, lst.tail} \subseteq DOMAIN lst.heap \cup {NULL}
    /\ \A a \in DOMAIN lst.heap :
          {lst.heap[a].forward, lst.heap[a].backward} \subseteq DOMAIN lst.heap \cup {NULL}
    /\ ItrAt(lst)[lst.count] = NULL /\ BackAt[lst.count] = NULL
    /\ \A n \in 1 .. lst.count : BackAt[n - 1] = ItrAt(lst)[lst.count - n]
    /\ DOMAIN lst.heap = {ItrAt(lst)[n] : n \in 0 .. lst.count - 1}
    /\ lst.aborted = "no"

\* The list stands for the sequence of its items, and for none when its links are not well
\* formed.
DQ == INSTANCE Deque WITH q <- IF WellLinked THEN Forward ELSE <<NoItem>>

\* The list is a sequence: adds and removals at either end or at an iterator have the
\* effect, and return the item, they have on a sequence; and its links stay well formed.
ImplementsDeque == DQ!Spec
=============================================================================
