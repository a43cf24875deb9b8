-------------------------------- MODULE Deque -------------------------------
(* What a List promises: a sequence of items with access at both ends and  *)
(* removal anywhere; got is what the last removal returned.                *)
EXTENDS Naturals, Sequences

CONSTANTS Item, NoItem

VARIABLES q, got

Init == q = <<>> /\ got = NoItem

AddFront(x) == q' = <<x>> \o q /\ UNCHANGED got
AddBack(x) == q' = Append(q, x) /\ UNCHANGED got
TakeFirst == q # <<>> /\ got' = Head(q) /\ q' = Tail(q)
TakeLast == q # <<>> /\ got' = q[Len(q)] /\ q' = SubSeq(q, 1, Len(q) - 1)
TakeNone == q = <<>> /\ got' = NoItem /\ UNCHANGED q
Drop(i) == q' = SubSeq(q, 1, i - 1) \o SubSeq(q, i + 1, Len(q)) /\ UNCHANGED got
Clear == q' = <<>> /\ UNCHANGED got

Next ==
    \/ \E x \in Item : AddFront(x) \/ AddBack(x)
    \/ TakeFirst \/ TakeLast \/ TakeNone \/ Clear
    \/ \E i \in DOMAIN q : Drop(i)

Spec == Init /\ [][Next]_<<q, got>>
=============================================================================
