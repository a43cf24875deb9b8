----------------------------- MODULE RingProofs -----------------------------
(***************************************************************************)
(* The structures that are rings, for every capacity.  The functor ring    *)
(* keeps its types, never hands out an entry of the uninitialised block,   *)
(* and implements the bounded FIFO queue.  Of the blocking socket queue,   *)
(* for all threads: no wakeup is lost, the threads never all sleep, its    *)
(* assertions hold, and it implements the bounded FIFO buffer.  Of the     *)
(* event table: no entry has two holders, the in-use count that decides    *)
(* when the runloop ends is right, and it implements the pool of slots.    *)
(***************************************************************************)
EXTENDS FunctorList, SocketQueue, EventTable, FiniteSetTheorems, TLAPS

(* Slot numbers in a ring of n slots, for every n. *)

\* The remainder of a number below twice the divisor: it wraps at most once.
LEMMA Wrap ==
    \A n \in Nat \ {0} : \A k \in 0 .. 2 * n - 1 :
        k % n = IF k >= n THEN k - n ELSE k
<1> SUFFICES ASSUME NEW n \in Nat \ {0}, NEW k \in 0 .. 2 * n - 1
             PROVE  k % n = IF k >= n THEN k - n ELSE k
  OBVIOUS
<1>1. CASE k >= n
  BY <1>1
<1>2. CASE k < n
  BY <1>2
<1> QED BY <1>1, <1>2

\* The slot after slot i is 0 when i is the last one.
LEMMA NextSlot ==
    \A n \in Nat \ {0} : \A i \in 0 .. n - 1 :
        /\ (i + 1) % n = IF i = n - 1 THEN 0 ELSE i + 1
        /\ (i + 1) % n \in 0 .. n - 1
<1> SUFFICES ASSUME NEW n \in Nat \ {0}, NEW i \in 0 .. n - 1
             PROVE  /\ (i + 1) % n = IF i = n - 1 THEN 0 ELSE i + 1
                    /\ (i + 1) % n \in 0 .. n - 1
  OBVIOUS
<1>1. CASE i = n - 1
  BY <1>1
<1>2. CASE i # n - 1
  BY <1>2
<1> QED BY <1>1, <1>2

\* Distance, in slots, from slot t forward to slot h.
Span(h, t, n) == IF h >= t THEN h - t ELSE h + n - t

LEMMA SpanIsMod ==
    \A n \in Nat \ {0} : \A h, t \in 0 .. n - 1 :
        /\ (h + n - t) % n = Span(h, t, n)
        /\ Span(h, t, n) \in 0 .. n - 1
<1> SUFFICES ASSUME NEW n \in Nat \ {0}, NEW h \in 0 .. n - 1, NEW t \in 0 .. n - 1
             PROVE  /\ (h + n - t) % n = Span(h, t, n)
                    /\ Span(h, t, n) \in 0 .. n - 1
  OBVIOUS
<1>1. CASE h >= t
  BY <1>1 DEF Span
<1>2. CASE h < t
  BY <1>2 DEF Span
<1> QED BY <1>1, <1>2

\* The slot i places after slot t.
Slot(t, i, n) == IF t + i >= n THEN t + i - n ELSE t + i

LEMMA SlotIsMod ==
    \A n \in Nat \ {0} : \A t \in 0 .. n - 1, i \in 0 .. n :
        /\ (t + i) % n = Slot(t, i, n)
        /\ Slot(t, i, n) \in 0 .. n - 1
<1> SUFFICES ASSUME NEW n \in Nat \ {0}, NEW t \in 0 .. n - 1, NEW i \in 0 .. n
             PROVE  /\ (t + i) % n = Slot(t, i, n)
                    /\ Slot(t, i, n) \in 0 .. n - 1
  OBVIOUS
<1>1. CASE t + i >= n
  BY <1>1 DEF Slot
<1>2. CASE t + i < n
  BY <1>2 DEF Slot
<1> QED BY <1>1, <1>2

-----------------------------------------------------------------------------
(* Functions on 1 .. m as sequences. *)

LEMMA SeqOfFunction ==
    ASSUME NEW S, NEW m \in Nat, NEW s \in [1 .. m -> S]
    PROVE  s \in Seq(S) /\ Len(s) = m
OBVIOUS

\* Agreeing with s on its m elements and having one more is appending it.
LEMMA AppendOfFunction ==
    ASSUME NEW S, NEW m \in Nat, NEW s \in [1 .. m -> S], NEW t \in [1 .. m + 1 -> S],
           \A i \in 1 .. m : t[i] = s[i]
    PROVE  t = Append(s, t[m + 1])
<1>1. s \in Seq(S) /\ Len(s) = m /\ t \in Seq(S) /\ Len(t) = m + 1
  BY SeqOfFunction
<1>2. Append(s, t[m + 1]) \in Seq(S) /\ Len(Append(s, t[m + 1])) = m + 1
  BY <1>1
<1>3. \A i \in 1 .. m + 1 : t[i] = Append(s, t[m + 1])[i]
  BY <1>1
<1> QED BY <1>1, <1>2, <1>3

\* Agreeing with s from its second element on is being its tail.
LEMMA TailOfFunction ==
    ASSUME NEW S, NEW m \in Nat \ {0}, NEW s \in [1 .. m -> S], NEW t \in [1 .. m - 1 -> S],
           \A i \in 1 .. m - 1 : t[i] = s[i + 1]
    PROVE  t = Tail(s) /\ s[1] = Head(s) /\ s # <<>>
<1>1. s \in Seq(S) /\ Len(s) = m /\ t \in Seq(S) /\ Len(t) = m - 1
  BY SeqOfFunction
<1>2. s # <<>> /\ s[1] = Head(s)
  BY <1>1
<1>3. Tail(s) \in Seq(S) /\ Len(Tail(s)) = m - 1
  BY <1>1, <1>2
<1>4. \A i \in 1 .. m - 1 : t[i] = Tail(s)[i]
  BY <1>1, <1>2
<1> QED BY <1>1, <1>2, <1>3, <1>4

-----------------------------------------------------------------------------
(* The functor list. *)

\* The ring seen without remainders: its size and the functors it holds.
Size == Span(head, tail_plus, capacity)
Ring == [i \in 1 .. Size |-> list[Slot(tail_plus, i, capacity)]]

LEMMA RingIsQueued ==
    /\ FunctorTypeOK => /\ functor_list_size = Size
                 /\ Size \in 0 .. capacity - 1
                 /\ QueuedFunctors = Ring
    /\ FunctorTypeOK' => /\ functor_list_size' = Size'
                  /\ Size' \in 0 .. capacity - 1
                  /\ QueuedFunctors' = Ring'
<1>1. ASSUME FunctorTypeOK
      PROVE  /\ functor_list_size = Size
             /\ Size \in 0 .. capacity - 1
             /\ QueuedFunctors = Ring
  <2>1. functor_list_size = Size /\ Size \in 0 .. capacity - 1
    BY <1>1, SpanIsMod, CapacityAssumption
      DEF FunctorTypeOK, functor_list_size, Size
  <2>2. \A i \in 1 .. Size : (tail_plus + i) % capacity = Slot(tail_plus, i, capacity)
    BY <1>1, <2>1, SlotIsMod, CapacityAssumption DEF FunctorTypeOK
  <2> QED BY <2>1, <2>2 DEF QueuedFunctors, Ring
<1>2. ASSUME FunctorTypeOK'
      PROVE  /\ functor_list_size' = Size'
             /\ Size' \in 0 .. capacity - 1
             /\ QueuedFunctors' = Ring'
  <2>1. functor_list_size' = Size' /\ Size' \in 0 .. capacity - 1
    BY <1>2, SpanIsMod, CapacityAssumption
      DEF FunctorTypeOK, functor_list_size, Size
  <2>2. \A i \in 1 .. Size' : (tail_plus' + i) % capacity = Slot(tail_plus', i, capacity)
    BY <1>2, <2>1, SlotIsMod, CapacityAssumption DEF FunctorTypeOK
  <2> QED BY <2>1, <2>2 DEF QueuedFunctors, Ring
<1> QED BY <1>1, <1>2

-----------------------------------------------------------------------------
(* What one call does to the queue the ring stands for. *)

FunctorEntry == Functor \cup {Garbage}

LEMMA RingType ==
    FunctorTypeOK => Size \in 0 .. capacity - 1 /\ Ring \in [1 .. Size -> FunctorEntry]
<1> SUFFICES ASSUME FunctorTypeOK
             PROVE  Size \in 0 .. capacity - 1 /\ Ring \in [1 .. Size -> FunctorEntry]
  OBVIOUS
<1>1. Size \in 0 .. capacity - 1
  BY RingIsQueued
<1>2. \A i \in 1 .. Size : Slot(tail_plus, i, capacity) \in 0 .. capacity
  BY <1>1, CapacityAssumption DEF FunctorTypeOK, Slot
<1> QED BY <1>1, <1>2 DEF Ring, FunctorEntry, FunctorTypeOK

\* A list that is not full gains the new functor at the end of the queue.
LEMMA FunctorAddLemma ==
    ASSUME FunctorTypeOK, NEW f \in Functor, functor_list_add(f), Succ(head) # tail_plus
    PROVE  /\ FunctorTypeOK'
           /\ Size' = Size + 1
           /\ Size < capacity - 1
           /\ Ring' = Append(Ring, f)
<1>1. FunctorTypeOK' /\ head' = Succ(head) /\ tail_plus' = tail_plus
  BY NextSlot, CapacityAssumption DEF FunctorTypeOK, functor_list_add, Succ
<1>2. head' = IF head = capacity - 1 THEN 0 ELSE head + 1
  BY <1>1, NextSlot, CapacityAssumption DEF FunctorTypeOK, Succ
<1>3. Size' = Size + 1 /\ Size < capacity - 1 /\ Size \in Nat
  BY <1>1, <1>2, CapacityAssumption DEF Size, Span, FunctorTypeOK
<1>4. Slot(tail_plus, Size + 1, capacity) = head'
  BY <1>1, <1>2, CapacityAssumption DEF Size, Span, FunctorTypeOK, Slot
<1>5. list' = [list EXCEPT ![head'] = f]
  BY <1>1 DEF functor_list_add
<1>6. \A i \in 1 .. Size : /\ Slot(tail_plus, i, capacity) # head'
                           /\ Slot(tail_plus, i, capacity) \in 0 .. capacity
  BY <1>3, <1>4, CapacityAssumption DEF FunctorTypeOK, Slot
<1>7. \A i \in 1 .. Size : Ring'[i] = Ring[i]
  <2> SUFFICES ASSUME NEW i \in 1 .. Size PROVE Ring'[i] = Ring[i]
    OBVIOUS
  <2>1. list'[Slot(tail_plus, i, capacity)] = list[Slot(tail_plus, i, capacity)]
    BY <1>5, <1>6 DEF FunctorTypeOK
  <2> QED BY <1>1, <1>3, <2>1 DEF Ring
<1>8. Ring'[Size + 1] = f
  <2>1. Ring'[Size + 1] = list'[head']
    BY <1>1, <1>3, <1>4 DEF Ring
  <2>2. head' \in 0 .. capacity
    BY <1>1, CapacityAssumption DEF FunctorTypeOK
  <2> QED BY <2>1, <2>2, <1>5 DEF FunctorTypeOK
<1>9. Ring \in [1 .. Size -> FunctorEntry] /\ Ring' \in [1 .. Size + 1 -> FunctorEntry]
  <2>1. \A i \in 1 .. Size + 1 : Slot(tail_plus, i, capacity) \in 0 .. capacity
    BY <1>3, CapacityAssumption DEF FunctorTypeOK, Slot
  <2> QED BY <1>1, <1>3, <2>1, RingType DEF Ring, FunctorEntry, FunctorTypeOK
<1> QED BY <1>1, <1>3, <1>7, <1>8, <1>9, AppendOfFunction

\* A list that is not empty gives up the oldest functor of the queue.
LEMMA FunctorRemoveLemma ==
    ASSUME FunctorTypeOK, functor_list_remove, functor_list_size # 0
    PROVE  /\ FunctorTypeOK'
           /\ Size' = Size - 1
           /\ Ring # <<>> /\ popped' = Head(Ring) /\ Ring' = Tail(Ring)
<1>1. /\ tail_plus' = Succ(tail_plus) /\ head' = head /\ list' = list
      /\ functor_aborted' = functor_aborted /\ popped' = list[Succ(tail_plus)]
  BY DEF functor_list_remove
<1>2. tail_plus' = IF tail_plus = capacity - 1 THEN 0 ELSE tail_plus + 1
  BY <1>1, NextSlot, CapacityAssumption DEF FunctorTypeOK, Succ
<1>3. Size \in 1 .. capacity - 1
  BY RingIsQueued
<1>4. FunctorTypeOK'
  BY <1>1, <1>2, CapacityAssumption DEF FunctorTypeOK
<1>5. Size' = Size - 1
  BY <1>1, <1>2, <1>3, CapacityAssumption DEF Size, Span, FunctorTypeOK
<1>6. \A i \in 1 .. Size - 1 : Slot(tail_plus', i, capacity) = Slot(tail_plus, i + 1, capacity)
  BY <1>2, <1>3, CapacityAssumption DEF FunctorTypeOK, Slot
<1>7. Slot(tail_plus, 1, capacity) = Succ(tail_plus)
  BY <1>1, <1>2, CapacityAssumption DEF FunctorTypeOK, Slot
<1>8. \A i \in 1 .. Size - 1 : Ring'[i] = Ring[i + 1]
  BY <1>1, <1>3, <1>5, <1>6 DEF Ring
<1>9. Ring[1] = popped'
  BY <1>1, <1>3, <1>7 DEF Ring
<1>10. Ring \in [1 .. Size -> FunctorEntry] /\ Ring' \in [1 .. Size - 1 -> FunctorEntry]
  <2>1. \A i \in 1 .. Size - 1 : Slot(tail_plus', i, capacity) \in 0 .. capacity
    <3>1. \A i \in 1 .. Size - 1 : Slot(tail_plus, i + 1, capacity) \in 0 .. capacity
      BY <1>3, CapacityAssumption DEF FunctorTypeOK, Slot
    <3> QED BY <1>6, <3>1
  <2> QED BY <1>4, <1>5, <2>1, RingType DEF Ring, FunctorEntry, FunctorTypeOK
<1> QED BY <1>3, <1>4, <1>5, <1>8, <1>9, <1>10, TailOfFunction

-----------------------------------------------------------------------------
(* The theorems. *)

LEMMA InitLemma == functor_list_new => FunctorTypeOK /\ Ring = <<>>
<1> SUFFICES ASSUME functor_list_new PROVE FunctorTypeOK /\ Ring = <<>>
  OBVIOUS
<1>1. 0 \in 0 .. capacity - 1
  BY CapacityAssumption
<1>2. FunctorTypeOK
  <2>1. list \in [0 .. capacity -> Functor \cup {Garbage}]
    BY DEF functor_list_new
  <2> QED BY <1>1, <2>1, Zenon DEF functor_list_new, FunctorTypeOK
<1>3. Size = 0
  BY DEF functor_list_new, Size, Span
<1> QED BY <1>2, <1>3 DEF Ring

\* A call that aborts finds the list full, or empty, and changes nothing else.
LEMMA AbortLemma ==
    ASSUME FunctorTypeOK, ~functor_aborted, functor_aborted',
           (\E f \in Functor : functor_list_add(f)) \/ functor_list_remove
    PROVE  /\ UNCHANGED <<head, tail_plus, list, popped>>
           /\ Ring = <<>> \/ Len(Ring) = capacity - 1
<1>1. CASE \E f \in Functor : functor_list_add(f)
  <2>1. Succ(head) = tail_plus /\ UNCHANGED <<head, tail_plus, list, popped>>
    BY <1>1 DEF functor_list_add
  <2>2. Size = capacity - 1
    BY <2>1, NextSlot, CapacityAssumption DEF FunctorTypeOK, Succ, Size, Span
  <2>3. Len(Ring) = Size
    BY RingType, SeqOfFunction, CapacityAssumption
  <2> QED BY <2>1, <2>2, <2>3
<1>2. CASE functor_list_remove
  <2>1. functor_list_size = 0 /\ UNCHANGED <<head, tail_plus, list, popped>>
    BY <1>2 DEF functor_list_remove
  <2>2. Size = 0
    BY <2>1, RingIsQueued
  <2> QED BY <2>1, <2>2 DEF Ring
<1> QED BY <1>1, <1>2

\* The types of the ring are kept by every call.
THEOREM TypeCorrect == FunctorSpec => []FunctorTypeOK
<1>1. functor_list_new => FunctorTypeOK
  BY InitLemma
<1>2. FunctorTypeOK /\ [FunctorNext]_functorVars => FunctorTypeOK'
  <2> SUFFICES ASSUME FunctorTypeOK, [FunctorNext]_functorVars PROVE FunctorTypeOK'
    OBVIOUS
  <2>1. CASE UNCHANGED functorVars
    BY <2>1 DEF FunctorTypeOK, functorVars
  <2>2. ASSUME NEW f \in Functor, functor_list_add(f) PROVE FunctorTypeOK'
    <3>1. CASE Succ(head) # tail_plus
      BY <2>2, <3>1, FunctorAddLemma
    <3>2. CASE Succ(head) = tail_plus
      BY <2>2, <3>2 DEF functor_list_add, FunctorTypeOK
    <3> QED BY <3>1, <3>2
  <2>3. CASE functor_list_remove
    <3>1. CASE functor_list_size # 0
      BY <2>3, <3>1, FunctorRemoveLemma
    <3>2. CASE functor_list_size = 0
      BY <2>3, <3>2 DEF functor_list_remove, FunctorTypeOK
    <3> QED BY <3>1, <3>2
  <2> QED BY <2>1, <2>2, <2>3 DEF FunctorNext
<1> QED BY <1>1, <1>2, PTL DEF FunctorSpec

\* No slot of the uninitialised block is ever among the queued functors.
THEOREM GarbageNeverQueued == FunctorSpec => []NoGarbageQueued
<1> DEFINE AllFunctors == \A i \in 1 .. Size : Ring[i] \in Functor
<1>0. (FunctorTypeOK => (NoGarbageQueued <=> AllFunctors))
  BY RingIsQueued DEF NoGarbageQueued, QueuedFunctors, Ring
<1>1. functor_list_new => AllFunctors
  BY InitLemma, CapacityAssumption DEF functor_list_new, Size, Span
<1>2. FunctorTypeOK /\ AllFunctors /\ [FunctorNext]_functorVars => AllFunctors'
  <2> SUFFICES ASSUME FunctorTypeOK, AllFunctors, [FunctorNext]_functorVars PROVE AllFunctors'
    OBVIOUS
  <2>0. Size \in 0 .. capacity - 1 /\ Ring \in Seq(FunctorEntry) /\ Len(Ring) = Size
    BY RingType, SeqOfFunction
  <2>1. CASE UNCHANGED functorVars
    BY <2>1 DEF functorVars, Ring, Size
  <2>2. ASSUME NEW f \in Functor, functor_list_add(f) PROVE AllFunctors'
    <3>1. CASE Succ(head) # tail_plus
      <4>1. Ring' = Append(Ring, f) /\ Size' = Size + 1
        BY <2>2, <3>1, FunctorAddLemma
      <4> QED BY <4>1, <2>0, <2>2
    <3>2. CASE Succ(head) = tail_plus
      <4>1. UNCHANGED <<head, tail_plus, list>>
        BY <2>2, <3>2 DEF functor_list_add
      <4> QED BY <4>1 DEF Ring, Size
    <3> QED BY <3>1, <3>2
  <2>3. CASE functor_list_remove
    <3>1. CASE functor_list_size # 0
      <4>1. Ring # <<>> /\ Ring' = Tail(Ring) /\ Size' = Size - 1
        BY <2>3, <3>1, FunctorRemoveLemma
      <4> QED BY <4>1, <2>0
    <3>2. CASE functor_list_size = 0
      <4>1. UNCHANGED <<head, tail_plus, list>>
        BY <2>3, <3>2 DEF functor_list_remove
      <4> QED BY <4>1 DEF Ring, Size
    <3> QED BY <3>1, <3>2
  <2> QED BY <2>1, <2>2, <2>3 DEF FunctorNext
<1> HIDE DEF AllFunctors
<1> QED BY <1>0, <1>1, <1>2, TypeCorrect, PTL DEF FunctorSpec

\* The ring of functor_list.c, whatever its capacity, is a first-in first-out
\* queue of capacity - 1 functors that loses and repeats nothing.
THEOREM RingImplementsQueue == FunctorSpec => ImplementsFunctorQueue
<1>1. functor_list_new => FQ!Init
  BY InitLemma, RingIsQueued DEF functor_list_new, FQ!Init
<1>2. FunctorTypeOK /\ FunctorTypeOK' /\ [FunctorNext]_functorVars => [FQ!Next]_(FQ!vars)
  <2> SUFFICES ASSUME FunctorTypeOK, FunctorTypeOK', [FunctorNext]_functorVars PROVE [FQ!Next]_(FQ!vars)
    OBVIOUS
  <2>0. QueuedFunctors = Ring /\ QueuedFunctors' = Ring' /\ Len(Ring) = Size /\ Size \in 0 .. capacity - 1
    BY RingIsQueued, RingType, SeqOfFunction
  <2>1. CASE UNCHANGED functorVars
    BY <2>1, <2>0 DEF functorVars, FQ!vars, Ring, Size
  <2>2. ASSUME NEW f \in Functor, functor_list_add(f), ~functor_aborted'
        PROVE  FQ!Add(f)
    <3>1. Succ(head) # tail_plus /\ UNCHANGED <<popped, functor_aborted>> /\ ~functor_aborted
      BY <2>2 DEF functor_list_add
    <3> QED BY <2>0, <2>2, <3>1, FunctorAddLemma DEF FQ!Add
  <2>3. CASE functor_list_remove /\ ~functor_aborted'
    <3>1. functor_list_size # 0 /\ UNCHANGED functor_aborted /\ ~functor_aborted
      BY <2>3 DEF functor_list_remove
    <3> QED BY <2>0, <2>3, <3>1, FunctorRemoveLemma DEF FQ!Remove, FQ!Next
  <2>4. ASSUME FunctorNext, functor_aborted' PROVE FQ!Abort
    <3>1. ~functor_aborted
      BY <2>4 DEF FunctorNext, functor_list_add, functor_list_remove
    <3>2. /\ UNCHANGED <<head, tail_plus, list, popped>>
          /\ Ring = <<>> \/ Len(Ring) = capacity - 1
      BY <2>4, <3>1, AbortLemma DEF FunctorNext
    <3>3. Ring' = Ring /\ functor_aborted' = TRUE
      BY <2>4, <3>2 DEF Ring, Size, FunctorTypeOK
    <3> QED BY <2>0, <3>1, <3>2, <3>3 DEF FQ!Abort
  <2> QED BY <2>1, <2>2, <2>3, <2>4 DEF FunctorNext, FQ!Next
<1> QED BY <1>1, <1>2, TypeCorrect, PTL
          DEF FunctorSpec, FQ!Spec, ImplementsFunctorQueue

-----------------------------------------------------------------------------
(* The blocking socket queue. *)

(* The inductive invariant: with Window the two tests the code uses for an *)
(* empty and a full ring (the indices, the counter) agree, which is what   *)
(* makes the broadcasts of add and remove reach every sleeping thread.     *)
Window == next = Slot(first, size, max_size)
IInv == QueueTypeOK /\ Window /\ NoLostWakeup /\ ~queue_aborted

At(i) == q[Slot(first, i - 1, max_size)]

LEMMA QueuedAt ==
    /\ QueueTypeOK => QueuedSockets = [i \in 1 .. size |-> At(i)]
    /\ QueueTypeOK' => QueuedSockets' = [i \in 1 .. size' |-> At(i)']
<1>1. ASSUME QueueTypeOK PROVE QueuedSockets = [i \in 1 .. size |-> At(i)]
  <2>1. ASSUME NEW i \in 1 .. size
        PROVE  (first + (i - 1)) % max_size = Slot(first, i - 1, max_size)
    <3>1. i - 1 \in 0 .. max_size /\ first \in 0 .. max_size - 1
      BY <1>1, QueueAssumption DEF QueueTypeOK
    <3> QED BY <3>1, SlotIsMod, QueueAssumption
  <2> QED BY <2>1 DEF QueuedSockets, At
<1>2. ASSUME QueueTypeOK' PROVE QueuedSockets' = [i \in 1 .. size' |-> At(i)']
  <2>1. ASSUME NEW i \in 1 .. size'
        PROVE  (first' + (i - 1)) % max_size = Slot(first', i - 1, max_size)
    <3>1. i - 1 \in 0 .. max_size /\ first' \in 0 .. max_size - 1
      BY <1>2, QueueAssumption DEF QueueTypeOK
    <3> QED BY <3>1, SlotIsMod, QueueAssumption
  <2> QED BY <2>1 DEF QueuedSockets, At
<1> QED BY <1>1, <1>2

\* With the window invariant the index tests say what their names say.
LEMMA EmptyAndFull ==
    ASSUME QueueTypeOK, Window
    PROVE  (is_empty <=> size = 0) /\ (is_full <=> size = max_size)
BY QueueAssumption DEF QueueTypeOK, Window, is_empty, is_full, Slot

LEMMA InitIInv == QueueInit => IInv
<1> SUFFICES ASSUME QueueInit PROVE IInv
  OBVIOUS
<1> USE QueueAssumption DEF QueueInit, Queue_new_with_capacity
<1>1. q \in [0 .. max_size - 1 -> Socket \cup {NoSocket}]
  OBVIOUS
<1>2. /\ pc \in [Thread -> {"out", "wait", "woken"}] /\ \A t \in Thread : pc[t] = "out"
      /\ arg \in [Producer -> Socket \cup {NoSocket}]
      /\ got \in [Consumer -> Socket \cup {NoSocket}]
  OBVIOUS
<1>3. full \in BOOLEAN /\ queue_aborted \in BOOLEAN /\ ~queue_aborted
  OBVIOUS
<1>4. size \in 0 .. max_size /\ next \in 0 .. max_size - 1 /\ first \in 0 .. max_size - 1
  OBVIOUS
<1>5. QueueTypeOK
  BY <1>1, <1>2, <1>3, <1>4 DEF QueueTypeOK
<1>6. Window
  BY DEF Window, Slot
<1>7. NoLostWakeup
  BY <1>2 DEF NoLostWakeup, Thread
<1> QED BY <1>3, <1>5, <1>6, <1>7 DEF IInv

-----------------------------------------------------------------------------
(* Queue_add *)

\* What a producer that finds room does.
LEMMA QueueAddLemma ==
    ASSUME IInv, NEW t \in Producer, NEW sock \in Socket, Queue_add(t, sock), size # max_size
    PROVE  /\ size' = size + 1 /\ size < max_size
           /\ \A i \in 1 .. size : At(i)' = At(i)
           /\ At(size)' = sock
           /\ got' = got
           /\ IInv'
<1> USE QueueAssumption
<1>1. /\ q' = [q EXCEPT ![next] = sock] /\ queue_aborted' = is_full
      /\ next' = (next + 1) % max_size /\ full' = (first = next' /\ size > 0)
      /\ first' = first /\ got' = got /\ arg' = [arg EXCEPT ![t] = sock]
      /\ size' = size + 1
      /\ pc' = IF size' = 1 THEN Broadcast(Consumer, t) ELSE Returns(t)
  BY DEF Queue_add, advance_next_pointer
<1>2. size \in 0 .. max_size - 1 /\ first \in 0 .. max_size - 1 /\ next \in 0 .. max_size - 1
  BY DEF IInv, QueueTypeOK
<1>3. next' = (IF next = max_size - 1 THEN 0 ELSE next + 1) /\ next' \in 0 .. max_size - 1
  BY <1>1, <1>2, NextSlot
<1>4. next = Slot(first, size, max_size)
  BY DEF IInv, Window
<1>5. ~queue_aborted' /\ queue_aborted' \in BOOLEAN
  BY <1>1, <1>2, EmptyAndFull DEF IInv, is_full
<1>6. Window'
  BY <1>1, <1>2, <1>3, <1>4 DEF Window, Slot
<1>7. \A i \in 1 .. size : Slot(first, i - 1, max_size) # next
                           /\ Slot(first, i - 1, max_size) \in 0 .. max_size - 1
  BY <1>2, <1>4 DEF Slot
<1>8. q \in [0 .. max_size - 1 -> Socket \cup {NoSocket}]
  BY DEF IInv, QueueTypeOK
<1>9. \A i \in 1 .. size : At(i)' = At(i)
  BY <1>1, <1>7, <1>8 DEF At
<1>10. At(size)' = sock
  <2>1. Slot(first', size' - 1, max_size) = next
    BY <1>1, <1>2, <1>4
  <2> QED BY <2>1, <1>1, <1>2, <1>8 DEF At
<1>11. pc \in [Thread -> {"out", "wait", "woken"}] /\ t \in Thread /\ t \notin Consumer
  BY DEF IInv, QueueTypeOK, Thread
<1>12. pc' \in [Thread -> {"out", "wait", "woken"}]
  <2>1. Broadcast(Consumer, t) \in [Thread -> {"out", "wait", "woken"}]
    BY <1>11 DEF Broadcast
  <2>2. Returns(t) \in [Thread -> {"out", "wait", "woken"}]
    BY <1>11 DEF Returns
  <2> QED BY <1>1, <2>1, <2>2
<1>13. QueueTypeOK'
  <2>1. full' \in BOOLEAN
    BY <1>1
  <2>2. q' \in [0 .. max_size - 1 -> Socket \cup {NoSocket}]
        /\ arg' \in [Producer -> Socket \cup {NoSocket}]
        /\ got' \in [Consumer -> Socket \cup {NoSocket}]
    BY <1>1, <1>2 DEF IInv, QueueTypeOK
  <2>3. size' \in 0 .. max_size /\ first' \in 0 .. max_size - 1
    BY <1>1, <1>2
  <2> QED BY <1>3, <1>5, <1>12, <2>1, <2>2, <2>3 DEF QueueTypeOK
<1>14. NoLostWakeup'
  <2>1. ASSUME NEW c \in Consumer PROVE pc'[c] # "wait"
    <3>1. CASE size = 0
      BY <1>1, <1>11, <3>1 DEF Broadcast, Thread
    <3>2. CASE size # 0
      <4>1. pc[c] # "wait"
        BY <3>2 DEF IInv, NoLostWakeup
      <4>2. pc'[c] = pc[c]
        BY <1>1, <1>2, <1>11, <3>2 DEF Returns, Thread
      <4> QED BY <4>1, <4>2
    <3> QED BY <3>1, <3>2
  <2>2. ASSUME NEW p \in Producer PROVE pc'[p] # "wait"
    <3>1. pc[p] # "wait"
      BY <1>2 DEF IInv, NoLostWakeup
    <3> QED BY <1>1, <1>11, <3>1 DEF Returns, Broadcast, Thread
  <2> QED BY <2>1, <2>2 DEF NoLostWakeup
<1> QED BY <1>1, <1>2, <1>5, <1>6, <1>9, <1>10, <1>13, <1>14 DEF IInv

-----------------------------------------------------------------------------
(* Queue_remove *)

\* What a consumer that finds a socket does.
LEMMA QueueRemoveLemma ==
    ASSUME IInv, NEW t \in Consumer, Queue_remove(t), size # 0
    PROVE  /\ size \in 1 .. max_size /\ size' = size - 1
           /\ \A i \in 1 .. size' : At(i)' = At(i + 1)
           /\ got' = [got EXCEPT ![t] = At(1)]
           /\ IInv'
<1> USE QueueAssumption
<1>1. size \in 1 .. max_size /\ first \in 0 .. max_size - 1 /\ next \in 0 .. max_size - 1
  BY DEF IInv, QueueTypeOK
<1>2. ~is_empty
  BY EmptyAndFull DEF IInv
<1>3. /\ got' = [got EXCEPT ![t] = q[first]] /\ queue_aborted' = is_empty
      /\ first' = (first + 1) % max_size /\ full' = (first' = next /\ size > 0)
      /\ next' = next /\ q' = q /\ arg' = arg
      /\ size' = size - 1
      /\ pc' = IF size' < max_size THEN Broadcast(Producer, t) ELSE Returns(t)
  BY <1>2 DEF Queue_remove, advance_first_pointer, ReadSlot
<1>4. first' = (IF first = max_size - 1 THEN 0 ELSE first + 1) /\ first' \in 0 .. max_size - 1
  BY <1>1, <1>3, NextSlot
<1>5. next = Slot(first, size, max_size)
  BY DEF IInv, Window
<1>6. Window'
  BY <1>1, <1>3, <1>4, <1>5 DEF Window, Slot
<1>7. \A i \in 1 .. size' : At(i)' = At(i + 1)
  <2>1. \A i \in 1 .. size' : Slot(first', i - 1, max_size) = Slot(first, i + 1 - 1, max_size)
    BY <1>1, <1>3, <1>4 DEF Slot
  <2> QED BY <2>1, <1>3 DEF At
<1>8. q[first] = At(1)
  BY <1>1 DEF At, Slot
<1>9. At(1) \in Socket \cup {NoSocket}
  BY <1>1, <1>8 DEF IInv, QueueTypeOK
<1>10. pc \in [Thread -> {"out", "wait", "woken"}] /\ t \in Thread /\ t \notin Producer
  BY DEF IInv, QueueTypeOK, Thread
<1>11. pc' = Broadcast(Producer, t)
  BY <1>1, <1>3
<1>12. QueueTypeOK'
  <2>1. pc' \in [Thread -> {"out", "wait", "woken"}]
    BY <1>10, <1>11 DEF Broadcast
  <2>2. full' \in BOOLEAN /\ queue_aborted' \in BOOLEAN
    BY <1>3 DEF is_empty
  <2>3. got' \in [Consumer -> Socket \cup {NoSocket}]
    BY <1>3, <1>8, <1>9 DEF IInv, QueueTypeOK
  <2>4. size' \in 0 .. max_size /\ next' \in 0 .. max_size - 1
    BY <1>1, <1>3
  <2> QED BY <1>3, <1>4, <2>1, <2>2, <2>3, <2>4 DEF IInv, QueueTypeOK
<1>13. NoLostWakeup'
  <2>1. ASSUME NEW p \in Producer PROVE pc'[p] # "wait"
    BY <1>10, <1>11 DEF Broadcast, Thread
  <2>2. ASSUME NEW c \in Consumer PROVE pc'[c] # "wait"
    <3>1. pc[c] # "wait" /\ c \notin Producer
      BY <1>1 DEF IInv, NoLostWakeup
    <3> QED BY <1>10, <1>11, <3>1 DEF Broadcast, Thread
  <2> QED BY <2>1, <2>2 DEF NoLostWakeup
<1> QED BY <1>1, <1>2, <1>3, <1>6, <1>7, <1>8, <1>12, <1>13 DEF IInv

-----------------------------------------------------------------------------
(* Steps that leave the ring alone: going to sleep, and waking spuriously. *)

LEMMA SleepLemma ==
    ASSUME IInv,
           \/ \E t \in Producer, sock \in Socket : Queue_add(t, sock) /\ size = max_size
           \/ \E t \in Consumer : Queue_remove(t) /\ size = 0
           \/ \E t \in Thread : SpuriousWakeup(t)
    PROVE  IInv' /\ UNCHANGED <<ringVars, got>>
<1> USE QueueAssumption
<1>0. is_empty <=> size = 0
  BY EmptyAndFull DEF IInv
<1>1. UNCHANGED <<ringVars, got, queue_aborted>>
  BY <1>0 DEF Queue_add, Queue_remove, SpuriousWakeup
<1>2. /\ arg' \in [Producer -> Socket \cup {NoSocket}]
      /\ pc' \in [Thread -> {"out", "wait", "woken"}]
  BY <1>0 DEF Queue_add, Queue_remove, SpuriousWakeup, IInv, QueueTypeOK, Thread
<1>3. QueueTypeOK' /\ Window' /\ ~queue_aborted'
  BY <1>1, <1>2 DEF IInv, QueueTypeOK, Window, ringVars
<1>4. NoLostWakeup'
  <2>1. CASE \E t \in Producer, sock \in Socket : Queue_add(t, sock) /\ size = max_size
    BY <1>1, <2>1 DEF Queue_add, NoLostWakeup, IInv, QueueTypeOK, Thread, ringVars
  <2>2. CASE \E t \in Consumer : Queue_remove(t) /\ size = 0
    BY <1>0, <1>1, <2>2
      DEF Queue_remove, NoLostWakeup, IInv, QueueTypeOK, Thread, ringVars
  <2>3. CASE \E t \in Thread : SpuriousWakeup(t)
    BY <1>1, <2>3
      DEF SpuriousWakeup, NoLostWakeup, IInv, QueueTypeOK, Thread, ringVars
  <2> QED BY <2>1, <2>2, <2>3
<1> QED BY <1>1, <1>3, <1>4 DEF IInv

-----------------------------------------------------------------------------
(* The theorems. *)

\* Every step of every thread keeps the inductive invariant; in particular the
\* assertions of advance_next_pointer and advance_first_pointer never fail.
THEOREM Invariant == QueueSpec => []IInv
<1>1. IInv /\ [QueueNext]_queueVars => IInv'
  <2> SUFFICES ASSUME IInv, [QueueNext]_queueVars PROVE IInv'
    OBVIOUS
  <2>1. CASE UNCHANGED queueVars
    BY <2>1 DEF queueVars, IInv, QueueTypeOK, Window, NoLostWakeup
  <2>2. ASSUME NEW t \in Producer, NEW sock \in Socket, Queue_add(t, sock) PROVE IInv'
    BY <2>2, QueueAddLemma, SleepLemma
  <2>3. ASSUME NEW t \in Consumer, Queue_remove(t) PROVE IInv'
    BY <2>3, QueueRemoveLemma, SleepLemma
  <2>4. CASE \E t \in Thread : SpuriousWakeup(t)
    BY <2>4, SleepLemma
  <2> QED BY <2>1, <2>2, <2>3, <2>4 DEF QueueNext, ProducerStep
<1> QED BY InitIInv, <1>1, PTL DEF QueueSpec

\* No thread sleeps while there is something for it to do.
THEOREM WakeupsNotLost == QueueSpec => []NoLostWakeup
<1>1. IInv => NoLostWakeup
  BY DEF IInv
<1> QED BY <1>1, Invariant, PTL

\* The threads never all sleep: the two conditions exclude each other.
THEOREM NoDeadlock == QueueSpec => []NotAllAsleep
<1>1. IInv => NotAllAsleep
  BY QueueAssumption DEF IInv, QueueTypeOK, NoLostWakeup, NotAllAsleep, Thread
<1> QED BY <1>1, Invariant, PTL

\* common/queue.c, whatever its capacity and its threads, is a bounded FIFO.
THEOREM QueueImplementsFifo == QueueSpec => ImplementsSocketFifo
<1> USE QueueAssumption
<1>1. QueueInit => SF!Init
  BY DEF QueueInit, Queue_new_with_capacity, SF!Init, QueuedSockets
<1>2. IInv /\ IInv' /\ [QueueNext]_queueVars => [SF!Next]_(SF!vars)
  <2> SUFFICES ASSUME IInv, IInv', [QueueNext]_queueVars PROVE [SF!Next]_(SF!vars)
    OBVIOUS
  <2> DEFINE SocketSlot == Socket \cup {NoSocket}
  <2> DEFINE F == [i \in 1 .. size |-> At(i)]
  <2>0. /\ QueuedSockets = F /\ QueuedSockets' = F'
        /\ F \in [1 .. size -> SocketSlot] /\ F' \in [1 .. size' -> SocketSlot]
        /\ size \in Nat /\ size' \in Nat
    <3>1. \A i \in 1 .. size : Slot(first, i - 1, max_size) \in 0 .. max_size - 1
      BY DEF IInv, QueueTypeOK, Slot
    <3>2. \A i \in 1 .. size' : Slot(first', i - 1, max_size) \in 0 .. max_size - 1
      <4>1. first' \in 0 .. max_size - 1 /\ size' \in 0 .. max_size
        BY DEF IInv, QueueTypeOK
      <4>2. ASSUME NEW i \in 1 .. size'
            PROVE  Slot(first', i - 1, max_size) \in 0 .. max_size - 1
        <5>1. i - 1 \in 0 .. max_size
          BY <4>1
        <5> QED BY <4>1, <5>1, SlotIsMod
      <4> QED BY <4>2
    <3>3. F \in [1 .. size -> SocketSlot]
      BY <3>1 DEF IInv, QueueTypeOK, At
    <3>4. F' \in [1 .. size' -> SocketSlot]
      BY <3>2 DEF IInv, QueueTypeOK, At
    <3> QED BY <3>3, <3>4, QueuedAt DEF IInv, QueueTypeOK
  <2>1. CASE UNCHANGED <<ringVars, got>>
    BY <2>1 DEF ringVars, SF!vars, QueuedSockets
  <2>2. ASSUME NEW t \in Producer, NEW sock \in Socket, Queue_add(t, sock), size # max_size
        PROVE  SF!Add(sock)
    <3>1. size' = size + 1 /\ F'[size'] = sock /\ size < max_size
      BY <2>0, <2>2, QueueAddLemma
    <3>2. \A i \in 1 .. size : F'[i] = F[i]
      BY <2>0, <2>2, <3>1, QueueAddLemma
    <3> HIDE DEF F, SocketSlot
    <3>3. F' = Append(F, F'[size + 1])
      BY <2>0, <3>1, <3>2, AppendOfFunction
    <3>4. Len(F) = size
      BY <2>0, SeqOfFunction
    <3> QED BY <2>0, <2>2, <3>1, <3>3, <3>4, QueueAddLemma DEF SF!Add
  <2>3. ASSUME NEW t \in Consumer, Queue_remove(t), size # 0 PROVE SF!Remove(t)
    <3>1. /\ size \in Nat \ {0} /\ size' = size - 1 /\ F[1] = At(1)
          /\ \A i \in 1 .. size' : F'[i] = F[i + 1]
      BY <2>0, <2>3, QueueRemoveLemma
    <3>2. F' = Tail(F) /\ F[1] = Head(F) /\ F # <<>>
      BY <2>0, <3>1, TailOfFunction
    <3> QED BY <2>0, <2>3, <3>1, <3>2, QueueRemoveLemma DEF SF!Remove
  <2>4. CASE UNCHANGED queueVars
    BY <2>1, <2>4 DEF queueVars, ringVars
  <2> QED BY <2>1, <2>2, <2>3, <2>4, SleepLemma DEF QueueNext, ProducerStep, SF!Next
<1> QED BY <1>1, <1>2, Invariant, PTL DEF QueueSpec, SF!Spec, ImplementsSocketFifo

-----------------------------------------------------------------------------
(* The event table. *)

TableAt(i) == buffer[Slot(rdix, i - 1, modulo_max)]

(* The inductive invariant.  The properties alone are not inductive: that  *)
(* a release puts back a free-again index needs IndexIsOwn, that it goes   *)
(* to a cell outside the window of free indices needs WindowEnd, and that  *)
(* the next get does not take a held entry needs the indices distinct.     *)
WindowEnd == wrix = Slot(rdix, count, modulo_max)
FreeAreEntries == \A i \in 1 .. count : TableAt(i) \in Entry /\ TableAt(i) \notin held
FreeDistinct == \A i, j \in 1 .. count : TableAt(i) = TableAt(j) => i = j
IndexIsOwn == \A p \in held : my_index[p] = p
HeldCounted == IsFiniteSet(held) /\ Cardinality(held) = EVT_MAX - count

TableInv == TableTypeOK /\ WindowEnd /\ FreeAreEntries /\ FreeDistinct /\ IndexIsOwn /\ HeldCounted

LEMMA ModuloMax == modulo_max \in Nat \ {0} /\ modulo_max = EVT_MAX + 1 /\ Cell = 0 .. modulo_max - 1
BY EvtMaxAssumption DEF modulo_max, Cell

LEMMA NextCell ==
    \A c \in Cell : (c + 1) % modulo_max = IF c = EVT_MAX THEN 0 ELSE c + 1
<1> SUFFICES ASSUME NEW c \in 0 .. modulo_max - 1
             PROVE  (c + 1) % modulo_max = IF c = modulo_max - 1 THEN 0 ELSE c + 1
  BY ModuloMax, EvtMaxAssumption
<1> QED BY NextSlot, ModuloMax

\* The free list without remainders.
LEMMA FreeListAt ==
    /\ TableTypeOK => FreeList = [i \in 1 .. count |-> TableAt(i)]
    /\ TableTypeOK' => FreeList' = [i \in 1 .. count' |-> TableAt(i)']
<1>1. ASSUME TableTypeOK PROVE FreeList = [i \in 1 .. count |-> TableAt(i)]
  <2>1. \A i \in 1 .. count : (rdix + (i - 1)) % modulo_max = Slot(rdix, i - 1, modulo_max)
    <3> SUFFICES ASSUME NEW i \in 1 .. count
                 PROVE  (rdix + (i - 1)) % modulo_max = Slot(rdix, i - 1, modulo_max)
      OBVIOUS
    <3>1. i - 1 \in 0 .. modulo_max /\ rdix \in 0 .. modulo_max - 1
      BY <1>1, ModuloMax, EvtMaxAssumption DEF TableTypeOK
    <3> QED BY <3>1, SlotIsMod, ModuloMax
  <2> QED BY <2>1 DEF FreeList, TableAt
<1>2. ASSUME TableTypeOK' PROVE FreeList' = [i \in 1 .. count' |-> TableAt(i)']
  <2>1. \A i \in 1 .. count' : (rdix' + (i - 1)) % modulo_max = Slot(rdix', i - 1, modulo_max)
    <3> SUFFICES ASSUME NEW i \in 1 .. count'
                 PROVE  (rdix' + (i - 1)) % modulo_max = Slot(rdix', i - 1, modulo_max)
      OBVIOUS
    <3>1. i - 1 \in 0 .. modulo_max /\ rdix' \in 0 .. modulo_max - 1
      BY <1>2, ModuloMax, EvtMaxAssumption DEF TableTypeOK
    <3> QED BY <3>1, SlotIsMod, ModuloMax
  <2> QED BY <2>1 DEF FreeList, TableAt, modulo_max
<1> QED BY <1>1, <1>2

\* The table starts with every entry free, in order.
LEMMA InitTableInv == event_table_init => TableInv
<1> SUFFICES ASSUME event_table_init PROVE TableInv
  OBVIOUS
<1> USE EvtMaxAssumption
<1>1. count = EVT_MAX /\ rdix = 0 /\ held = {} /\ wrix = EVT_MAX
  <2>1. EVT_MAX % modulo_max = EVT_MAX
    BY DEF modulo_max
  <2> QED BY <2>1 DEF event_table_init
<1>2. TableTypeOK
  <2>1. buffer \in [Cell -> Entry \cup {Unset}] /\ my_index \in [Entry -> Entry \cup {Unset}]
    BY DEF event_table_init
  <2>2. table_aborted \in BOOLEAN
    BY DEF event_table_init
  <2> QED BY <1>1, <2>1, <2>2 DEF TableTypeOK, Cell
<1>3. WindowEnd
  BY <1>1 DEF WindowEnd, Slot, modulo_max
<1>4. \A i \in 1 .. count : TableAt(i) = i - 1
  BY <1>1 DEF TableAt, event_table_init, Slot, modulo_max, Cell, Entry
<1>5. FreeAreEntries /\ FreeDistinct /\ IndexIsOwn
  BY <1>1, <1>4 DEF FreeAreEntries, FreeDistinct, IndexIsOwn, Entry
<1>6. HeldCounted
  BY <1>1, FS_EmptySet DEF HeldCounted
<1> QED BY <1>2, <1>3, <1>5, <1>6 DEF TableInv

-----------------------------------------------------------------------------
(* get_entry *)

\* A get that succeeds takes the first free entry.
LEMMA GetLemma ==
    ASSUME TableInv, event_table_get_entry, ~freelist_is_empty
    PROVE  /\ count \in 1 .. EVT_MAX /\ count' = count - 1
           /\ \A i \in 1 .. count' : TableAt(i)' = TableAt(i + 1)
           /\ held' = held \cup {TableAt(1)} /\ TableAt(1) \in Entry /\ TableAt(1) \notin held
           /\ table_aborted' = table_aborted /\ ~table_aborted
           /\ TableInv'
<1> USE EvtMaxAssumption
<1>1. /\ count' = count - 1 /\ rdix' = (rdix + 1) % modulo_max
      /\ my_index' = [my_index EXCEPT ![buffer[rdix]] = buffer[rdix]]
      /\ held' = held \cup {buffer[rdix]}
      /\ UNCHANGED <<wrix, buffer, table_aborted>> /\ ~table_aborted
  BY DEF event_table_get_entry, freelist_get
<1>2. count \in 1 .. EVT_MAX
  BY DEF TableInv, TableTypeOK, freelist_is_empty
<1>3. rdix \in 0 .. EVT_MAX /\ rdix' = IF rdix = EVT_MAX THEN 0 ELSE rdix + 1
  BY <1>1, NextCell DEF TableInv, TableTypeOK, Cell
<1>4. buffer[rdix] = TableAt(1)
  BY <1>3 DEF TableAt, Slot, modulo_max
<1>5. TableAt(1) \in Entry /\ TableAt(1) \notin held
  BY <1>2 DEF TableInv, FreeAreEntries
<1>6. \A i \in 1 .. count' : TableAt(i)' = TableAt(i + 1)
  <2> SUFFICES ASSUME NEW i \in 1 .. count' PROVE TableAt(i)' = TableAt(i + 1)
    OBVIOUS
  <2>1. Slot(rdix', i - 1, modulo_max) = Slot(rdix, i + 1 - 1, modulo_max)
    BY <1>1, <1>2, <1>3 DEF Slot, modulo_max
  <2>2. TableAt(i)' = buffer'[Slot(rdix', i - 1, modulo_max)]
    BY DEF TableAt, Slot, modulo_max
  <2> QED BY <2>1, <2>2, <1>1 DEF TableAt
<1>7. TableTypeOK'
  <2>1. rdix' \in Cell /\ count' \in 0 .. EVT_MAX
    BY <1>1, <1>2, <1>3 DEF Cell
  <2>2. my_index' \in [Entry -> Entry \cup {Unset}] /\ held' \in SUBSET Entry
    BY <1>1, <1>4, <1>5 DEF TableInv, TableTypeOK
  <2> QED BY <1>1, <2>1, <2>2 DEF TableInv, TableTypeOK
<1>8. WindowEnd'
  BY <1>1, <1>2, <1>3 DEF TableInv, WindowEnd, Slot, modulo_max
<1>9. FreeAreEntries' /\ FreeDistinct'
  <2>1. \A i \in 1 .. count' : i + 1 \in 1 .. count
    BY <1>1, <1>2
  <2>2. \A i \in 1 .. count' : TableAt(i)' \in Entry /\ TableAt(i)' \notin held
    BY <1>6, <2>1 DEF TableInv, FreeAreEntries
  <2>3. \A i \in 1 .. count' : TableAt(i)' # TableAt(1)
    BY <1>2, <1>6, <2>1 DEF TableInv, FreeDistinct
  <2>4. \A i, j \in 1 .. count' : TableAt(i)' = TableAt(j)' => i = j
    <3> SUFFICES ASSUME NEW i \in 1 .. count', NEW j \in 1 .. count', TableAt(i + 1) = TableAt(j + 1)
                 PROVE  i = j
      BY <1>6
    <3>1. i + 1 = j + 1
      BY <2>1 DEF TableInv, FreeDistinct
    <3> QED BY <3>1, <1>1, <1>2
  <2> QED BY <1>1, <1>4, <2>2, <2>3, <2>4 DEF FreeAreEntries, FreeDistinct
<1>10. IndexIsOwn'
  BY <1>1, <1>4, <1>5 DEF TableInv, IndexIsOwn, TableTypeOK
<1>11. HeldCounted'
  BY <1>1, <1>2, <1>4, <1>5, FS_AddElement DEF TableInv, HeldCounted
<1> QED BY <1>1, <1>2, <1>4, <1>5, <1>6, <1>7, <1>8, <1>9, <1>10, <1>11 DEF TableInv

-----------------------------------------------------------------------------
(* release_entry *)

\* A holder's release finds room and puts its entry behind the free ones.
LEMMA ReleaseLemma ==
    ASSUME TableInv, NEW p \in held, event_table_release_entry(p)
    PROVE  /\ count \in 0 .. EVT_MAX - 1 /\ count' = count + 1
           /\ \A i \in 1 .. count : TableAt(i)' = TableAt(i)
           /\ TableAt(count)' = p
           /\ held' = held \ {p}
           /\ table_aborted' = table_aborted /\ ~table_aborted
           /\ TableInv'
<1> USE EvtMaxAssumption
<1>1. p \in Entry /\ my_index[p] = p
  BY DEF TableInv, IndexIsOwn, TableTypeOK
<1>2. count \in 0 .. EVT_MAX - 1
  <2>1. Cardinality(held) # 0
    BY FS_EmptySet DEF TableInv, HeldCounted
  <2> QED BY <2>1 DEF TableInv, HeldCounted, TableTypeOK
<1>3. /\ count' = count + 1 /\ buffer' = [buffer EXCEPT ![wrix] = p]
      /\ wrix' = (wrix + 1) % modulo_max
      /\ held' = held \ {p}
      /\ UNCHANGED <<rdix, my_index, table_aborted>> /\ ~table_aborted /\ ~table_aborted'
  BY <1>1, <1>2
    DEF event_table_release_entry, freelist_add, freelist_is_full, TableInv, TableTypeOK
<1>4. /\ rdix \in 0 .. EVT_MAX /\ wrix \in 0 .. EVT_MAX
      /\ wrix' = IF wrix = EVT_MAX THEN 0 ELSE wrix + 1
  BY <1>3, NextCell DEF TableInv, TableTypeOK, Cell
<1>5. wrix = Slot(rdix, count, modulo_max)
  BY DEF TableInv, WindowEnd
<1>6. \A i \in 1 .. count : Slot(rdix, i - 1, modulo_max) # wrix
                            /\ Slot(rdix, i - 1, modulo_max) \in Cell
  BY <1>2, <1>4, <1>5 DEF Slot, modulo_max, Cell
<1>7. buffer \in [Cell -> Entry \cup {Unset}] /\ wrix \in Cell
  BY DEF TableInv, TableTypeOK
<1>8. \A i \in 1 .. count : TableAt(i)' = TableAt(i)
  <2> SUFFICES ASSUME NEW i \in 1 .. count PROVE TableAt(i)' = TableAt(i)
    OBVIOUS
  <2>1. TableAt(i)' = buffer'[Slot(rdix, i - 1, modulo_max)]
    BY <1>3 DEF TableAt, Slot, modulo_max
  <2> QED BY <2>1, <1>3, <1>6, <1>7 DEF TableAt
<1>9. TableAt(count)' = p
  <2>1. Slot(rdix, count' - 1, modulo_max) = wrix
    BY <1>2, <1>3, <1>5
  <2>2. TableAt(count)' = buffer'[Slot(rdix, count' - 1, modulo_max)]
    BY <1>3 DEF TableAt, Slot, modulo_max
  <2> QED BY <2>1, <2>2, <1>3, <1>7
<1>10. TableTypeOK'
  <2>1. wrix' \in Cell /\ count' \in 0 .. EVT_MAX
    BY <1>2, <1>3, <1>4 DEF Cell
  <2>2. buffer' \in [Cell -> Entry \cup {Unset}] /\ held' \in SUBSET Entry
    BY <1>1, <1>3, <1>7 DEF TableInv, TableTypeOK
  <2> QED BY <1>3, <2>1, <2>2 DEF TableInv, TableTypeOK
<1>11. WindowEnd'
  BY <1>2, <1>3, <1>4, <1>5 DEF WindowEnd, Slot, modulo_max
<1>12. FreeAreEntries' /\ FreeDistinct'
  <2>1. \A i \in 1 .. count' : i = count' \/ i \in 1 .. count
    BY <1>2, <1>3
  <2>2. \A i \in 1 .. count : TableAt(i)' # p /\ TableAt(i)' \in Entry /\ TableAt(i)' \notin held
    BY <1>8 DEF TableInv, FreeAreEntries
  <2>3. \A i \in 1 .. count' : i = count' => TableAt(i)' = p
    BY <1>9
  <2>4. FreeAreEntries'
    BY <1>1, <1>3, <2>1, <2>2, <2>3 DEF FreeAreEntries
  <2>5. \A i, j \in 1 .. count' : TableAt(i)' = TableAt(j)' => i = j
    BY <1>8, <2>1, <2>2, <2>3 DEF TableInv, FreeDistinct
  <2> QED BY <2>4, <2>5 DEF FreeDistinct
<1>13. IndexIsOwn' /\ HeldCounted'
  <2>1. IsFiniteSet(held) /\ Cardinality(held) = EVT_MAX - count /\ p \in held
    BY <1>2 DEF TableInv, HeldCounted
  <2>2. IsFiniteSet(held') /\ Cardinality(held') = Cardinality(held) - 1
    BY <1>3, <2>1, FS_RemoveElement
  <2>3. HeldCounted'
    BY <1>2, <1>3, <2>1, <2>2 DEF HeldCounted
  <2>4. IndexIsOwn'
    BY <1>3 DEF TableInv, IndexIsOwn
  <2> QED BY <2>3, <2>4
<1> QED BY <1>2, <1>3, <1>8, <1>9, <1>10, <1>11, <1>12, <1>13 DEF TableInv

-----------------------------------------------------------------------------
(* The theorems. *)

\* A get from an exhausted table aborts and changes nothing else.
LEMMA ExhaustedLemma ==
    ASSUME event_table_get_entry, freelist_is_empty
    PROVE  ~table_aborted /\ table_aborted' = TRUE /\ UNCHANGED <<count, rdix, wrix, buffer, my_index, held>>
BY DEF event_table_get_entry, freelist_get

LEMMA IInvUnchanged ==
    ASSUME TableInv, UNCHANGED <<count, rdix, wrix, buffer, my_index, held>>, table_aborted' \in BOOLEAN
    PROVE  TableInv'
<1>1. TableTypeOK'
  BY DEF TableInv, TableTypeOK
<1>2. \A i : TableAt(i)' = TableAt(i)
  BY DEF TableAt
<1> QED BY <1>1, <1>2
          DEF TableInv, WindowEnd, FreeAreEntries, FreeDistinct, IndexIsOwn, HeldCounted

\* The inductive invariant holds in every reachable state.
THEOREM TableInvariant == TableSpec => []TableInv
<1>1. TableInv /\ [TableNext]_tableVars => TableInv'
  <2> SUFFICES ASSUME TableInv, [TableNext]_tableVars PROVE TableInv'
    OBVIOUS
  <2>1. CASE UNCHANGED tableVars
    BY <2>1, IInvUnchanged DEF tableVars, TableInv, TableTypeOK
  <2>2. CASE event_table_get_entry
    BY <2>2, GetLemma, ExhaustedLemma, IInvUnchanged
  <2>3. ASSUME NEW p \in held, event_table_release_entry(p) PROVE TableInv'
    BY <2>3, ReleaseLemma
  <2> QED BY <2>1, <2>2, <2>3 DEF TableNext
<1> QED BY InitTableInv, <1>1, PTL DEF TableSpec

\* The count the runloop's exit test reads is the number of entries held.
THEOREM CountCorrect == TableSpec => []InUseIsHeld
<1>1. TableInv => InUseIsHeld
  BY DEF TableInv, HeldCounted, InUseIsHeld, event_table_number_in_use
<1> QED BY <1>1, TableInvariant, PTL

\* No entry is free while somebody holds it.
THEOREM NoDoubleUse == TableSpec => []HeldNotFree
<1>1. TableInv => HeldNotFree
  BY FreeListAt DEF TableInv, FreeAreEntries, HeldNotFree
<1> QED BY <1>1, TableInvariant, PTL

\* event_table.c, whatever its size, is a pool of slots reused oldest first
\* whose release assertion cannot fail.
THEOREM TableImplementsPool == TableSpec => ImplementsSlotPool
<1> USE EvtMaxAssumption
<1>1. event_table_init => SP!Init
  <2> SUFFICES ASSUME event_table_init PROVE SP!Init
    OBVIOUS
  <2>1. TableTypeOK
    BY InitTableInv DEF TableInv
  <2>2. count = EVT_MAX /\ \A i \in 1 .. count : TableAt(i) = i - 1
    BY DEF event_table_init, TableAt, Slot, modulo_max, Cell, Entry
  <2>3. FreeList = [i \in 1 .. EVT_MAX |-> i - 1]
    BY <2>1, <2>2, FreeListAt
  <2> QED BY <2>3 DEF event_table_init, SP!Init
<1>2. TableInv /\ TableInv' /\ [TableNext]_tableVars => [SP!Next]_(SP!vars)
  <2> SUFFICES ASSUME TableInv, TableInv', [TableNext]_tableVars PROVE [SP!Next]_(SP!vars)
    OBVIOUS
  <2> DEFINE F == [i \in 1 .. count |-> TableAt(i)]
  <2>0. /\ FreeList = F /\ FreeList' = F'
        /\ F \in [1 .. count -> Entry] /\ F' \in [1 .. count' -> Entry]
        /\ count \in Nat /\ count' \in Nat
    BY FreeListAt DEF TableInv, TableTypeOK, FreeAreEntries
  <2>1. CASE UNCHANGED tableVars
    BY <2>1 DEF tableVars, SP!vars, FreeList
  <2>2. CASE event_table_get_entry /\ ~freelist_is_empty
    <3>1. /\ count \in Nat \ {0} /\ count' = count - 1
          /\ \A i \in 1 .. count' : F'[i] = F[i + 1]
          /\ F[1] = TableAt(1)
      BY <2>2, GetLemma
    <3>2. F' = Tail(F) /\ F[1] = Head(F) /\ F # <<>>
      BY <2>0, <3>1, TailOfFunction
    <3> QED BY <2>0, <2>2, <3>1, <3>2, GetLemma DEF SP!Acquire, SP!Next
  <2>3. CASE event_table_get_entry /\ freelist_is_empty
    <3>1. F = <<>> /\ FreeList' = FreeList
      BY <2>3, ExhaustedLemma DEF freelist_is_empty, FreeList
    <3> QED BY <2>0, <2>3, <3>1, ExhaustedLemma DEF SP!Exhausted, SP!Next
  <2>4. ASSUME NEW p \in held, event_table_release_entry(p) PROVE SP!Release(p)
    <3>1. count' = count + 1 /\ F'[count'] = p
      BY <2>0, <2>4, ReleaseLemma
    <3>2. \A i \in 1 .. count : F'[i] = F[i]
      BY <2>0, <2>4, <3>1, ReleaseLemma
    <3>3. F' \in [1 .. count + 1 -> Entry] /\ F'[count + 1] = p
      BY <2>0, <3>1
    <3> HIDE DEF F
    <3>4. F' = Append(F, F'[count + 1])
      BY <2>0, <3>2, <3>3, AppendOfFunction
    <3> QED BY <2>0, <2>4, <3>3, <3>4, ReleaseLemma DEF SP!Release
  <2> QED BY <2>1, <2>2, <2>3, <2>4 DEF TableNext, SP!Next
<1> QED BY <1>1, <1>2, TableInvariant, PTL DEF TableSpec, SP!Spec, ImplementsSlotPool
=============================================================================
