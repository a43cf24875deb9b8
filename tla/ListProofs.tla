----------------------------- MODULE ListProofs -----------------------------
EXTENDS LinkedList, WellFoundedInduction, TLAPS

LEMMA LeastOf ==
    ASSUME NEW T, T \subseteq Nat, T # {}
    PROVE  \E x \in T : \A y \in T : x <= y
  <1>. DEFINE R == OpToRel(<, Nat)
  <1>1. IsWellFoundedOn(R, Nat)
    BY NatLessThanWellFounded
  <1>2. \A y, x \in Nat : y < x => <<y, x>> \in R
    BY DEF OpToRel
  <1>. HIDE DEF R
  <1>3. PICK x \in T : \A y \in T : ~(<<y, x>> \in R)
    BY <1>1, WFMin
  <1>4. \A y \in T : ~(y < x)
    BY <1>2, <1>3, Zenon
  <1>5. \A y \in Nat : ~(y < x) => x <= y
    OBVIOUS
  <1>. QED
    BY <1>4, <1>5, Zenon

\* Induction over the natural numbers, for a set instead of a predicate.
LEMMA SetInduction ==
    ASSUME NEW S, 0 \in S, \A n \in Nat : n \in S => n + 1 \in S
    PROVE  Nat \subseteq S
  <1>. SUFFICES ASSUME ~(Nat \subseteq S) PROVE FALSE
    OBVIOUS
  <1>. DEFINE T == Nat \ S
  <1>1. T # {} /\ T \subseteq Nat
    OBVIOUS
  <1>2. PICK x \in T : \A y \in T : x <= y
    BY <1>1, LeastOf
  <1>3. x # 0 /\ x - 1 \in Nat /\ x - 1 \notin T
    BY <1>2
  <1>. QED
    BY <1>3

Fwd(p, i) == IF i = Len(p) THEN NULL ELSE p[i + 1]
Bwd(p, i) == IF i = 1 THEN NULL ELSE p[i - 1]

ListNode == [item : Item, backward : 0 .. MaxNodes, forward : 0 .. MaxNodes]

\* The nodes of the list are those of the sequence p of different addresses, linked in its
\* order both ways, and no other node is in the heap.
Linked(l, p) ==
    /\ {"count", "head", "tail", "heap", "aborted"} \subseteq DOMAIN l
    /\ p \in Seq(1 .. MaxNodes)
    /\ \A i, j \in 1 .. Len(p) : p[i] = p[j] => i = j
    /\ l.count = Len(p) /\ l.aborted = "no"
    /\ l.head = IF Len(p) = 0 THEN NULL ELSE p[1]
    /\ l.tail = IF Len(p) = 0 THEN NULL ELSE p[Len(p)]
    /\ DOMAIN l.heap = {p[i] : i \in 1 .. Len(p)}
    /\ \A i \in 1 .. Len(p) : /\ l.heap[p[i]] \in ListNode
                              /\ l.heap[p[i]].forward = Fwd(p, i)
                              /\ l.heap[p[i]].backward = Bwd(p, i)

Items(l, p) == [i \in 1 .. Len(p) |-> l.heap[p[i]].item]

\* What a walk along one of the two pointers of the nodes visits.
Walk(l, first, dir) ==
    CHOOSE at : at = [n \in 0 .. l.count |-> IF n = 0 THEN first
                                             ELSE IF at[n - 1] = NULL THEN NULL
                                             ELSE l.heap[at[n - 1]][dir]]

IsWalk(f, l, first, dir) ==
    /\ f \in [0 .. l.count -> 0 .. MaxNodes] /\ f[0] = first
    /\ \A n \in 1 .. l.count : f[n] = IF f[n - 1] = NULL THEN NULL ELSE l.heap[f[n - 1]][dir]

LEMMA WalkIs ==
    ASSUME NEW l, l.count \in Nat, NEW first, NEW dir, NEW f, IsWalk(f, l, first, dir)
    PROVE  Walk(l, first, dir) = f
  <1>. DEFINE Steps(at) == [n \in 0 .. l.count |-> IF n = 0 THEN first
                                                   ELSE IF at[n - 1] = NULL THEN NULL
                                                   ELSE l.heap[at[n - 1]][dir]]
              g == Walk(l, first, dir)
  <1>f. /\ f \in [0 .. l.count -> 0 .. MaxNodes] /\ f[0] = first
        /\ \A n \in 1 .. l.count : f[n] = IF f[n - 1] = NULL THEN NULL ELSE l.heap[f[n - 1]][dir]
    BY DEF IsWalk
  <1>0. ASSUME NEW at
        PROVE  /\ DOMAIN Steps(at) = 0 .. l.count
               /\ Steps(at) = [n \in 0 .. l.count |-> Steps(at)[n]]
               /\ Steps(at)[0] = first
               /\ \A n \in 1 .. l.count : Steps(at)[n] = IF at[n - 1] = NULL THEN NULL ELSE l.heap[at[n - 1]][dir]
    OBVIOUS
  <1>. HIDE DEF Steps
  <1>1. f = Steps(f)
    <2>1. ASSUME NEW n \in 0 .. l.count PROVE f[n] = Steps(f)[n]
      <3>1. n = 0 \/ n \in 1 .. l.count
        OBVIOUS
      <3>. QED
        BY <1>f, <1>0, <3>1
    <2>2. Steps(f) = [n \in 0 .. l.count |-> Steps(f)[n]]
      BY <1>0
    <2>. QED
      BY <1>f, <2>1, <2>2
  <1>2. g = Steps(g)
    <2>1. \E h : h = Steps(h)
      BY <1>1
    <2>. QED
      BY <2>1, Zenon DEF Walk, Steps
  <1>. HIDE DEF g
  <1>. DEFINE S == {n \in Nat : n <= l.count => g[n] = f[n]}
  <1>3. 0 \in S
    BY <1>f, <1>0, <1>2
  <1>4. ASSUME NEW n \in Nat, n \in S PROVE n + 1 \in S
    <2>. SUFFICES ASSUME n + 1 <= l.count PROVE g[n + 1] = f[n + 1]
      OBVIOUS
    <2>1. n + 1 \in 1 .. l.count /\ (n + 1) - 1 = n /\ n <= l.count
      OBVIOUS
    <2>2. g[n] = f[n]
      BY <1>4, <2>1
    <2>. HIDE DEF S
    <2>3. g[n + 1] = IF g[n] = NULL THEN NULL ELSE l.heap[g[n]][dir]
      <3>1. Steps(g)[n + 1] = IF g[(n + 1) - 1] = NULL THEN NULL ELSE l.heap[g[(n + 1) - 1]][dir]
        BY <1>0, <2>1
      <3>. QED
        BY <1>2, <2>1, <3>1
    <2>4. f[n + 1] = IF f[n] = NULL THEN NULL ELSE l.heap[f[n]][dir]
      <3>1. f[n + 1] = IF f[(n + 1) - 1] = NULL THEN NULL ELSE l.heap[f[(n + 1) - 1]][dir]
        BY <1>f, <2>1
      <3>. QED
        BY <2>1, <3>1
    <2>. QED
      BY <2>2, <2>3, <2>4
  <1>5. \A n \in Nat : n \in S
    <2>. HIDE DEF S
    <2>. QED
      BY <1>3, <1>4, SetInduction
  <1>6. \A n \in 0 .. l.count : Steps(g)[n] = f[n]
    BY <1>2, <1>5
  <1>7. Steps(g) = [n \in 0 .. l.count |-> Steps(g)[n]]
    BY <1>0
  <1>8. Steps(g) = f
    BY <1>f, <1>6, <1>7
  <1>. QED
    BY <1>2, <1>8 DEF g

LEMMA ItrIs ==
    ASSUME NEW l, NEW p, Linked(l, p)
    PROVE  ItrAt(l) = [n \in 0 .. Len(p) |-> IF n < Len(p) THEN p[n + 1] ELSE NULL]
  <1>. DEFINE f == [n \in 0 .. Len(p) |-> IF n < Len(p) THEN p[n + 1] ELSE NULL]
  <1>1. l.count = Len(p) /\ Len(p) \in Nat /\ p \in Seq(1 .. MaxNodes) /\ l.count \in Nat
    BY DEF Linked
  <1>2. f[0] = l.head
    BY <1>1 DEF Linked
  <1>3. ASSUME NEW n \in 1 .. l.count
        PROVE  f[n] = IF f[n - 1] = NULL THEN NULL ELSE l.heap[f[n - 1]]["forward"]
    <2>1. n \in 1 .. Len(p) /\ n - 1 \in 0 .. Len(p) /\ n - 1 < Len(p) /\ (n - 1) + 1 = n
      BY <1>1
    <2>2. f[n - 1] = p[n] /\ p[n] # NULL
      BY <1>1, <2>1, ListAssumption DEF NULL
    <2>3. l.heap[p[n]].forward = Fwd(p, n)
      BY <2>1 DEF Linked
    <2>4. f[n] = Fwd(p, n)
      BY <1>1, <2>1 DEF Fwd
    <2>. QED
      BY <2>2, <2>3, <2>4
  <1>4. f \in [0 .. l.count -> 0 .. MaxNodes]
    BY <1>1, ListAssumption DEF NULL
  <1>. HIDE DEF f
  <1>5. Walk(l, l.head, "forward") = f
    <2>1. IsWalk(f, l, l.head, "forward")
      BY <1>2, <1>3, <1>4 DEF IsWalk
    <2>. QED
      BY <1>1, <2>1, WalkIs
  <1>6. ItrAt(l) = Walk(l, l.head, "forward")
    BY DEF ItrAt, Walk, List_iterator, List_itr_next
  <1>. QED
    BY <1>5, <1>6 DEF f

LEMMA BackIs ==
    ASSUME NEW l, NEW p, Linked(l, p)
    PROVE  Walk(l, l.tail, "backward") = [n \in 0 .. Len(p) |-> IF n < Len(p) THEN p[Len(p) - n] ELSE NULL]
  <1>. DEFINE f == [n \in 0 .. Len(p) |-> IF n < Len(p) THEN p[Len(p) - n] ELSE NULL]
  <1>1. l.count = Len(p) /\ Len(p) \in Nat /\ p \in Seq(1 .. MaxNodes) /\ l.count \in Nat
    BY DEF Linked
  <1>2. f[0] = l.tail
    BY <1>1 DEF Linked
  <1>3. ASSUME NEW n \in 1 .. l.count
        PROVE  f[n] = IF f[n - 1] = NULL THEN NULL ELSE l.heap[f[n - 1]]["backward"]
    <2>. DEFINE i == Len(p) - (n - 1)
    <2>1. i \in 1 .. Len(p) /\ n - 1 \in 0 .. Len(p) /\ n - 1 < Len(p) /\ n \in 0 .. Len(p)
           /\ (n < Len(p) <=> i # 1) /\ Len(p) - n = i - 1
      BY <1>1
    <2>2. f[n - 1] = p[i] /\ p[i] # NULL
      BY <1>1, <2>1, ListAssumption DEF NULL
    <2>3. l.heap[p[i]].backward = Bwd(p, i)
      BY <2>1 DEF Linked
    <2>4. f[n] = Bwd(p, i)
      <3>. HIDE DEF i
      <3>. QED
        BY <1>1, <2>1 DEF Bwd
    <2>. QED
      BY <2>2, <2>3, <2>4
  <1>4. f \in [0 .. l.count -> 0 .. MaxNodes]
    <2>1. \A n \in 0 .. Len(p) : n < Len(p) => Len(p) - n \in 1 .. Len(p)
      BY <1>1
    <2>. QED
      BY <1>1, <2>1, ListAssumption DEF NULL
  <1>. HIDE DEF f
  <1>5. IsWalk(f, l, l.tail, "backward")
    BY <1>2, <1>3, <1>4 DEF IsWalk
  <1>6. Walk(l, l.tail, "backward") = f
    BY <1>1, <1>5, WalkIs
  <1>. QED
    BY <1>6 DEF f

\* What WellLinked says of lst, of any list.
LinkedBothWays(l) ==
    LET back == Walk(l, l.tail, "backward") IN
    /\ {l.head, l.tail} \subseteq DOMAIN l.heap \cup {NULL}
    /\ \A a \in DOMAIN l.heap :
          {l.heap[a].forward, l.heap[a].backward} \subseteq DOMAIN l.heap \cup {NULL}
    /\ ItrAt(l)[l.count] = NULL /\ back[l.count] = NULL
    /\ \A n \in 1 .. l.count : back[n - 1] = ItrAt(l)[l.count - n]
    /\ DOMAIN l.heap = {ItrAt(l)[n] : n \in 0 .. l.count - 1}
    /\ l.aborted = "no"

LEMMA LinkedIsWell ==
    ASSUME NEW l, NEW p, Linked(l, p)
    PROVE  LinkedBothWays(l)
  <1>. DEFINE back == Walk(l, l.tail, "backward")
  <1>1. l.count = Len(p) /\ Len(p) \in Nat /\ p \in Seq(1 .. MaxNodes)
         /\ DOMAIN l.heap = {p[i] : i \in 1 .. Len(p)}
    BY DEF Linked
  <1>2. ItrAt(l) = [n \in 0 .. Len(p) |-> IF n < Len(p) THEN p[n + 1] ELSE NULL]
    BY ItrIs
  <1>3. back = [n \in 0 .. Len(p) |-> IF n < Len(p) THEN p[Len(p) - n] ELSE NULL]
    BY BackIs
  <1>. HIDE DEF back
  <1>4. \A i \in 1 .. Len(p) : p[i] \in DOMAIN l.heap
    BY <1>1
  <1>5. {l.head, l.tail} \subseteq DOMAIN l.heap \cup {NULL}
    <2>1. CASE Len(p) = 0
      BY <2>1 DEF Linked
    <2>2. CASE Len(p) # 0
      <3>1. 1 \in 1 .. Len(p) /\ Len(p) \in 1 .. Len(p)
        BY <1>1, <2>2
      <3>2. l.head = p[1] /\ l.tail = p[Len(p)]
        BY <2>2 DEF Linked
      <3>. QED
        BY <1>4, <3>1, <3>2
    <2>. QED
      BY <2>1, <2>2
  <1>6. ASSUME NEW a \in DOMAIN l.heap
        PROVE  {l.heap[a].forward, l.heap[a].backward} \subseteq DOMAIN l.heap \cup {NULL}
    <2>1. PICK i \in 1 .. Len(p) : a = p[i]
      BY <1>1
    <2>2. l.heap[a].forward = Fwd(p, i) /\ l.heap[a].backward = Bwd(p, i)
      BY <2>1 DEF Linked
    <2>3. Fwd(p, i) = NULL \/ Fwd(p, i) \in DOMAIN l.heap
      <3>1. CASE i = Len(p)
        BY <3>1 DEF Fwd
      <3>2. CASE i # Len(p)
        <4>1. i + 1 \in 1 .. Len(p)
          BY <1>1, <3>2
        <4>. QED
          BY <1>4, <3>2, <4>1 DEF Fwd
      <3>. QED
        BY <3>1, <3>2
    <2>4. Bwd(p, i) = NULL \/ Bwd(p, i) \in DOMAIN l.heap
      <3>1. CASE i = 1
        BY <3>1 DEF Bwd
      <3>2. CASE i # 1
        <4>1. i - 1 \in 1 .. Len(p)
          BY <1>1, <3>2
        <4>. QED
          BY <1>4, <3>2, <4>1 DEF Bwd
      <3>. QED
        BY <3>1, <3>2
    <2>. QED
      BY <2>2, <2>3, <2>4
  <1>7. ItrAt(l)[l.count] = NULL /\ back[l.count] = NULL
    BY <1>1, <1>2, <1>3
  <1>8. ASSUME NEW n \in 1 .. l.count PROVE back[n - 1] = ItrAt(l)[l.count - n]
    <2>1. n - 1 \in 0 .. Len(p) /\ n - 1 < Len(p) /\ Len(p) - n \in 0 .. Len(p) /\ Len(p) - n < Len(p)
           /\ Len(p) - (n - 1) = (Len(p) - n) + 1
      BY <1>1
    <2>2. back[n - 1] = p[Len(p) - (n - 1)]
      BY <1>3, <2>1
    <2>3. ItrAt(l)[Len(p) - n] = p[(Len(p) - n) + 1]
      BY <1>2, <2>1
    <2>. QED
      BY <1>1, <2>1, <2>2, <2>3
  <1>9. DOMAIN l.heap = {ItrAt(l)[n] : n \in 0 .. l.count - 1}
    <2>1. ASSUME NEW i \in 1 .. Len(p) PROVE i - 1 \in 0 .. l.count - 1 /\ ItrAt(l)[i - 1] = p[i]
      BY <1>1, <1>2
    <2>2. ASSUME NEW n \in 0 .. l.count - 1 PROVE n + 1 \in 1 .. Len(p) /\ ItrAt(l)[n] = p[n + 1]
      BY <1>1, <1>2
    <2>. DEFINE visited == {ItrAt(l)[n] : n \in 0 .. l.count - 1}
    <2>3. DOMAIN l.heap \subseteq visited
      <3>1. ASSUME NEW a \in DOMAIN l.heap PROVE \E n \in 0 .. l.count - 1 : a = ItrAt(l)[n]
        <4>1. PICK i \in 1 .. Len(p) : a = p[i]
          BY <1>1
        <4>. QED
          BY <2>1, <4>1
      <3>. QED
        BY <3>1
    <2>4. visited \subseteq DOMAIN l.heap
      <3>1. ASSUME NEW n \in 0 .. l.count - 1 PROVE ItrAt(l)[n] \in DOMAIN l.heap
        BY <1>4, <2>2
      <3>. QED
        BY <3>1
    <2>. QED
      BY <2>3, <2>4
  <1>10. l.aborted = "no"
    BY DEF Linked
  <1>. QED
    BY <1>5, <1>6, <1>7, <1>8, <1>9, <1>10 DEF LinkedBothWays, back

LEMMA ForwardIs ==
    ASSUME NEW l, NEW p, Linked(l, p)
    PROVE  [i \in 1 .. l.count |-> List_itr_unpack(l, ItrAt(l)[i - 1])] = Items(l, p)
  <1>1. l.count = Len(p) /\ Len(p) \in Nat
    BY DEF Linked
  <1>2. ItrAt(l) = [n \in 0 .. Len(p) |-> IF n < Len(p) THEN p[n + 1] ELSE NULL]
    BY ItrIs
  <1>3. ASSUME NEW i \in 1 .. Len(p) PROVE ItrAt(l)[i - 1] = p[i]
    BY <1>1, <1>2
  <1>. QED
    BY <1>1, <1>3 DEF List_itr_unpack, Items

\* The sequence the list stands for.
LEMMA StandsFor ==
    ASSUME NEW p
    PROVE  /\ Linked(lst, p) => (IF WellLinked THEN Forward ELSE <<NoItem>>) = Items(lst, p)
           /\ Linked(lst', p) => (IF WellLinked THEN Forward ELSE <<NoItem>>)' = Items(lst', p)
  <1>1. /\ WellLinked <=> LinkedBothWays(lst)
        /\ WellLinked' <=> LinkedBothWays(lst')
    BY DEF WellLinked, LinkedBothWays, BackAt, Walk
  <1>2. /\ Forward = [i \in 1 .. lst.count |-> List_itr_unpack(lst, ItrAt(lst)[i - 1])]
        /\ Forward' = [i \in 1 .. lst'.count |-> List_itr_unpack(lst', ItrAt(lst')[i - 1])]
    BY DEF Forward, List_itr_unpack, ItrAt, List_iterator, List_itr_next
  <1>. QED
    BY <1>1, <1>2, LinkedIsWell, ForwardIs

\* The sequence p without its element at k.
Without(p, k) == SubSeq(p, 1, k - 1) \o SubSeq(p, k + 1, Len(p))

LEMMA WithoutIs ==
    ASSUME NEW S, NEW p \in Seq(S), NEW k \in 1 .. Len(p)
    PROVE  /\ Without(p, k) \in Seq(S) /\ Len(Without(p, k)) = Len(p) - 1
           /\ \A i \in 1 .. Len(p) - 1 : Without(p, k)[i] = IF i < k THEN p[i] ELSE p[i + 1]
  <1>. DEFINE u == SubSeq(p, 1, k - 1)
              v == SubSeq(p, k + 1, Len(p))
  <1>1. u \in Seq(S) /\ Len(u) = k - 1 /\ \A i \in 1 .. k - 1 : u[i] = p[i]
    OBVIOUS
  <1>2. v \in Seq(S) /\ Len(v) = Len(p) - k /\ \A i \in 1 .. Len(p) - k : v[i] = p[k + i]
    OBVIOUS
  <1>. HIDE DEF u, v
  <1>3. u \o v \in Seq(S) /\ Len(u \o v) = Len(p) - 1
    BY <1>1, <1>2
  <1>4. ASSUME NEW i \in 1 .. Len(p) - 1 PROVE (u \o v)[i] = IF i < k THEN p[i] ELSE p[i + 1]
    <2>1. CASE i < k
      <3>1. i \in 1 .. Len(u) /\ i \in 1 .. k - 1
        BY <1>1, <2>1
      <3>. QED
        BY <1>1, <1>2, <2>1, <3>1
    <2>2. CASE ~(i < k)
      <3>1. i - Len(u) \in 1 .. Len(v) /\ i > Len(u) /\ k + (i - Len(u)) = i + 1 /\ i - Len(u) \in 1 .. Len(p) - k
        BY <1>1, <1>2, <2>2
      <3>2. (u \o v)[i] = v[i - Len(u)]
        BY <1>1, <1>2, <3>1
      <3>3. v[i - Len(u)] = p[k + (i - Len(u))]
        BY <1>2, <3>1
      <3>. QED
        BY <2>2, <3>1, <3>2, <3>3
    <2>. QED
      BY <2>1, <2>2
  <1>. QED
    BY <1>3, <1>4 DEF Without, u, v

\* r is l without the node p[k]: the nodes on either side of it are linked to each other.
TakenOut(r, l, p, k) ==
    /\ {"count", "head", "tail", "heap", "aborted"} \subseteq DOMAIN r
    /\ r.count = Len(p) - 1 /\ r.aborted = "no"
    /\ r.head = (IF k = 1 THEN Fwd(p, k) ELSE p[1])
    /\ r.tail = (IF k = Len(p) THEN Bwd(p, k) ELSE p[Len(p)])
    /\ DOMAIN r.heap = DOMAIN l.heap \ {p[k]}
    /\ \A i \in 1 .. Len(p) : i # k =>
          /\ r.heap[p[i]] \in ListNode /\ r.heap[p[i]].item = l.heap[p[i]].item
          /\ r.heap[p[i]].forward = IF i = k - 1 THEN Fwd(p, k) ELSE Fwd(p, i)
          /\ r.heap[p[i]].backward = IF i = k + 1 THEN Bwd(p, k) ELSE Bwd(p, i)

LEMMA TakenOutLinked ==
    ASSUME NEW l, NEW p, Linked(l, p), NEW k \in 1 .. Len(p), NEW r, TakenOut(r, l, p, k)
    PROVE  Linked(r, Without(p, k)) /\ Items(r, Without(p, k)) = Without(Items(l, p), k)
  <1>. DEFINE w == Without(p, k)
              At(i) == IF i < k THEN i ELSE i + 1
  <1>0. p \in Seq(1 .. MaxNodes)
    BY DEF Linked
  <1>1. Len(p) \in Nat /\ (\A i, j \in 1 .. Len(p) : p[i] = p[j] => i = j)
         /\ DOMAIN l.heap = {p[i] : i \in 1 .. Len(p)}
    BY <1>0 DEF Linked
  <1>2. w \in Seq(1 .. MaxNodes) /\ Len(w) = Len(p) - 1 /\ Len(w) \in Nat
         /\ \A i \in 1 .. Len(w) : w[i] = IF i < k THEN p[i] ELSE p[i + 1]
    <2>1. w \in Seq(1 .. MaxNodes) /\ Len(w) = Len(p) - 1
           /\ \A i \in 1 .. Len(p) - 1 : w[i] = IF i < k THEN p[i] ELSE p[i + 1]
      BY <1>0, WithoutIs
    <2>. HIDE DEF w
    <2>. QED
      BY <2>1
  <1>. HIDE DEF w
  <1>n. Len(p) \in Nat /\ Len(w) \in Nat /\ Len(w) = Len(p) - 1
    BY <1>1, <1>2
  <1>a. \A a, b \in Nat : b = a - 1 /\ b = 0 => a = 1 /\ \A c \in 1 .. a : c = 1
    OBVIOUS
  <1>3. ASSUME NEW i \in 1 .. Len(w)
        PROVE  At(i) \in 1 .. Len(p) /\ At(i) # k /\ w[i] = p[At(i)]
    BY <1>1, <1>2
  <1>4. ASSUME NEW j \in 1 .. Len(p), j # k
        PROVE  \E i \in 1 .. Len(w) : j = At(i)
    <2>1. CASE j < k
      <3>1. j \in 1 .. Len(w)
        BY <1>1, <1>2, <2>1
      <3>. QED
        BY <2>1, <3>1
    <2>2. CASE j > k
      <3>1. j - 1 \in 1 .. Len(w) /\ ~(j - 1 < k) /\ (j - 1) + 1 = j
        BY <1>1, <1>2, <2>2
      <3>. QED
        BY <3>1
    <2>. QED
      BY <1>4, <2>1, <2>2
  <1>5. \A i, j \in 1 .. Len(w) : w[i] = w[j] => i = j
    <2>. SUFFICES ASSUME NEW i \in 1 .. Len(w), NEW j \in 1 .. Len(w), w[i] = w[j] PROVE i = j
      OBVIOUS
    <2>1. At(i) = At(j)
      <3>1. At(i) \in 1 .. Len(p) /\ At(j) \in 1 .. Len(p) /\ p[At(i)] = p[At(j)]
        <4>. HIDE DEF At
        <4>. QED
          BY <1>3
      <3>. HIDE DEF At
      <3>. QED
        BY <1>1, <3>1
    <2>. QED
      BY <2>1
  <1>6. DOMAIN r.heap = {w[i] : i \in 1 .. Len(w)}
    <2>0. DOMAIN r.heap = {p[i] : i \in 1 .. Len(p)} \ {p[k]}
      BY <1>1 DEF TakenOut
    <2>1. ASSUME NEW a \in DOMAIN r.heap PROVE \E i \in 1 .. Len(w) : a = w[i]
      <3>1. PICK j \in 1 .. Len(p) : a = p[j] /\ j # k
        BY <2>0
      <3>2. PICK i \in 1 .. Len(w) : j = At(i)
        BY <1>4, <3>1
      <3>. HIDE DEF At
      <3>. QED
        BY <1>3, <3>1, <3>2
    <2>2. ASSUME NEW i \in 1 .. Len(w) PROVE w[i] \in DOMAIN r.heap
      <3>. HIDE DEF At
      <3>. QED
        BY <1>1, <1>3, <2>0
    <2>. QED
      BY <2>1, <2>2
  <1>7. ASSUME NEW i \in 1 .. Len(w)
        PROVE  /\ r.heap[w[i]] \in ListNode /\ r.heap[w[i]].item = l.heap[p[At(i)]].item
               /\ r.heap[w[i]].forward = Fwd(w, i) /\ r.heap[w[i]].backward = Bwd(w, i)
    <2>1. /\ r.heap[w[i]] \in ListNode /\ r.heap[w[i]].item = l.heap[p[At(i)]].item
          /\ r.heap[w[i]].forward = IF At(i) = k - 1 THEN Fwd(p, k) ELSE Fwd(p, At(i))
          /\ r.heap[w[i]].backward = IF At(i) = k + 1 THEN Bwd(p, k) ELSE Bwd(p, At(i))
      <3>. HIDE DEF At
      <3>. QED
        BY <1>3 DEF TakenOut
    <2>2. Fwd(w, i) = IF At(i) = k - 1 THEN Fwd(p, k) ELSE Fwd(p, At(i))
      <3>1. CASE i = Len(w)
        BY <1>1, <1>2, <3>1 DEF Fwd
      <3>2. CASE i # Len(w)
        <4>1. i + 1 \in 1 .. Len(w)
          BY <1>2, <3>2
        <4>2. w[i + 1] = IF i + 1 < k THEN p[i + 1] ELSE p[(i + 1) + 1]
          BY <1>2, <4>1
        <4>. QED
          BY <1>1, <1>2, <3>2, <4>2 DEF Fwd
      <3>. QED
        BY <3>1, <3>2
    <2>3. Bwd(w, i) = IF At(i) = k + 1 THEN Bwd(p, k) ELSE Bwd(p, At(i))
      <3>1. CASE i = 1
        BY <1>1, <1>2, <3>1 DEF Bwd
      <3>2. CASE i # 1
        <4>1. i - 1 \in 1 .. Len(w) /\ (i - 1) + 1 = i
          BY <1>2, <3>2
        <4>2. w[i - 1] = IF i - 1 < k THEN p[i - 1] ELSE p[i]
          BY <1>2, <4>1
        <4>. QED
          BY <1>1, <1>2, <3>2, <4>2 DEF Bwd
      <3>. QED
        BY <3>1, <3>2
    <2>. HIDE DEF At
    <2>. QED
      BY <2>1, <2>2, <2>3
  <1>8. r.head = IF Len(w) = 0 THEN NULL ELSE w[1]
    <2>1. CASE Len(w) = 0
      <3>1. k = 1 /\ Len(p) = 1
        BY <1>n, <1>a, <2>1, Zenon
      <3>. QED
        BY <2>1, <3>1 DEF TakenOut, Fwd
    <2>2. CASE Len(w) # 0
      <3>1. 1 \in 1 .. Len(w)
        BY <1>2, <2>2
      <3>2. w[1] = IF 1 < k THEN p[1] ELSE p[1 + 1]
        BY <1>2, <3>1
      <3>. QED
        BY <1>1, <1>2, <2>2, <3>2 DEF TakenOut, Fwd
    <2>. QED
      BY <2>1, <2>2
  <1>9. r.tail = IF Len(w) = 0 THEN NULL ELSE w[Len(w)]
    <2>1. CASE Len(w) = 0
      <3>1. k = 1 /\ Len(p) = 1
        BY <1>n, <1>a, <2>1, Zenon
      <3>. QED
        BY <2>1, <3>1 DEF TakenOut, Bwd
    <2>2. CASE Len(w) # 0
      <3>1. Len(w) \in 1 .. Len(w) /\ Len(w) + 1 = Len(p)
        BY <1>1, <1>2, <2>2
      <3>2. w[Len(w)] = IF Len(w) < k THEN p[Len(w)] ELSE p[Len(w) + 1]
        BY <1>2, <3>1
      <3>. QED
        BY <1>1, <1>2, <2>2, <3>1, <3>2 DEF TakenOut, Bwd
    <2>. QED
      BY <2>1, <2>2
  <1>10. Linked(r, w)
    <2>. HIDE DEF At
    <2>. QED
      BY <1>2, <1>5, <1>6, <1>7, <1>8, <1>9 DEF Linked, TakenOut
  <1>11. Items(r, w) = Without(Items(l, p), k)
    <2>. DEFINE q == Items(l, p)
    <2>1. q \in Seq(Item) /\ Len(q) = Len(p) /\ \A i \in 1 .. Len(p) : q[i] = l.heap[p[i]].item
      <3>1. ASSUME NEW i \in 1 .. Len(p) PROVE l.heap[p[i]].item \in Item
        BY DEF Linked, ListNode
      <3>. QED
        BY <1>1, <3>1 DEF Items
    <2>. HIDE DEF q
    <2>2. Without(q, k) \in Seq(Item) /\ Len(Without(q, k)) = Len(w)
           /\ \A i \in 1 .. Len(w) : Without(q, k)[i] = IF i < k THEN q[i] ELSE q[i + 1]
      BY <1>2, <2>1, WithoutIs
    <2>3. ASSUME NEW i \in 1 .. Len(w) PROVE Items(r, w)[i] = Without(q, k)[i]
      <3>1. Without(q, k)[i] = q[At(i)]
        BY <2>2
      <3>2. Items(r, w)[i] = r.heap[w[i]].item
        BY DEF Items
      <3>. HIDE DEF At
      <3>. QED
        BY <1>3, <1>7, <2>1, <3>1, <3>2
    <2>4. Without(q, k) \in [1 .. Len(w) -> Item] /\ Items(r, w) = [i \in 1 .. Len(w) |-> Items(r, w)[i]]
      BY <2>2 DEF Items
    <2>5. Items(r, w) = Without(q, k)
      BY <2>3, <2>4
    <2>. QED
      BY <2>5 DEF q
  <1>. QED
    BY <1>10, <1>11 DEF w

LEMMA FirstLast ==
    ASSUME NEW l, NEW p, Linked(l, p), Len(p) # 0
    PROVE  /\ Len(p) \in Nat /\ 1 \in 1 .. Len(p) /\ Len(p) \in 1 .. Len(p)
           /\ l.head = p[1] /\ l.tail = p[Len(p)] /\ l.count = Len(p)
  <1>1. p \in Seq(1 .. MaxNodes)
    BY DEF Linked
  <1>. QED
    BY <1>1 DEF Linked

\* g is the heap h with one pointer of the node a set.
SetBackward(g, h, a, v) ==
    /\ DOMAIN g = DOMAIN h /\ \A b \in DOMAIN h : b # a => g[b] = h[b]
    /\ g[a] \in ListNode /\ g[a].item = h[a].item /\ g[a].forward = h[a].forward /\ g[a].backward = v
SetForward(g, h, a, v) ==
    /\ DOMAIN g = DOMAIN h /\ \A b \in DOMAIN h : b # a => g[b] = h[b]
    /\ g[a] \in ListNode /\ g[a].item = h[a].item /\ g[a].backward = h[a].backward /\ g[a].forward = v

LEMMA BackwardSet ==
    ASSUME NEW h, NEW a \in DOMAIN h, h[a] \in ListNode, NEW v \in 0 .. MaxNodes
    PROVE  SetBackward([h EXCEPT ![a].backward = v], h, a, v)
  BY DEF SetBackward, ListNode

LEMMA ForwardSet ==
    ASSUME NEW h, NEW a \in DOMAIN h, h[a] \in ListNode, NEW v \in 0 .. MaxNodes
    PROVE  SetForward([h EXCEPT ![a].forward = v], h, a, v)
  BY DEF SetForward, ListNode

\* The node the iterator is at is taken out, and with it the end of the list moves when it
\* was at one.
LEMMA ItrRemoved ==
    ASSUME NEW l, NEW p, Linked(l, p), NEW k \in 1 .. Len(p)
    PROVE  TakenOut(List_itr_remove(l, p[k]), l, p, k)
  <1>. DEFINE r == List_itr_remove(l, p[k])
              next == l.heap[p[k]].forward
              prev == l.heap[p[k]].backward
              u == Unlinked(l, p[k], next, prev)
  <1>0. p \in Seq(1 .. MaxNodes) /\ Len(p) \in Nat /\ Len(p) # 0
    BY DEF Linked
  <1>1. /\ {"count", "head", "tail", "heap", "aborted"} \subseteq DOMAIN l
        /\ l.count = Len(p) /\ l.aborted = "no" /\ l.head = p[1] /\ l.tail = p[Len(p)]
        /\ 1 \in 1 .. Len(p) /\ Len(p) \in 1 .. Len(p)
    BY <1>0, FirstLast DEF Linked
  <1>2. next = Fwd(p, k) /\ prev = Bwd(p, k)
    BY DEF Linked
  <1>3. \A i \in 1 .. Len(p) : p[i] \in DOMAIN l.heap /\ l.heap[p[i]] \in ListNode
                              /\ l.heap[p[i]].forward = Fwd(p, i) /\ l.heap[p[i]].backward = Bwd(p, i)
    BY DEF Linked
  <1>4. \A i, j \in 1 .. Len(p) : p[i] = p[j] => i = j
    BY DEF Linked
  <1>5. CASE Len(p) = 1
    <2>1. k = 1
      BY <1>5
    <2>2. r = RemoveOnly(l)
      BY <1>1, <1>5, <2>1 DEF List_itr_remove, Asserting, Alive
    <2>3. r = [[l EXCEPT !.count = 0, !.head = NULL, !.tail = NULL]
                  EXCEPT !.heap = [b \in DOMAIN l.heap \ {p[1]} |-> l.heap[b]]]
      BY <1>1, <2>2 DEF RemoveOnly, ListNode_free
    <2>4. r.count = 0 /\ r.head = NULL /\ r.tail = NULL /\ r.aborted = "no" /\ DOMAIN r = DOMAIN l
           /\ DOMAIN r.heap = DOMAIN l.heap \ {p[1]}
      BY <1>1, <2>3
    <2>5. Fwd(p, 1) = NULL /\ Bwd(p, 1) = NULL
      BY <1>5 DEF Fwd, Bwd
    <2>. HIDE DEF r
    <2>6. TakenOut(r, l, p, k)
      BY <1>1, <1>5, <2>1, <2>4, <2>5 DEF TakenOut
    <2>. QED
      BY <2>6 DEF r
  <1>6. CASE Len(p) # 1
    <2>1. l.count # 0 /\ l.count # 1
      BY <1>0, <1>1, <1>6
    <2>2. r = ListNode_free([u EXCEPT !.count = @ - 1], p[k])
      BY <2>1 DEF List_itr_remove
    <2>. HIDE DEF next, prev
    <2>3. /\ DOMAIN u = DOMAIN l /\ u.count = l.count /\ u.aborted = l.aborted
          /\ u.head = (IF k = 1 THEN next ELSE l.head)
          /\ u.tail = (IF k = Len(p) THEN prev ELSE l.tail)
          /\ DOMAIN u.heap = DOMAIN l.heap
          /\ \A i \in 1 .. Len(p) : i # k =>
                /\ u.heap[p[i]] \in ListNode /\ u.heap[p[i]].item = l.heap[p[i]].item
                /\ u.heap[p[i]].forward = IF i = k - 1 THEN next ELSE Fwd(p, i)
                /\ u.heap[p[i]].backward = IF i = k + 1 THEN prev ELSE Bwd(p, i)
      <3>0. next \in 0 .. MaxNodes /\ prev \in 0 .. MaxNodes
        BY <1>3 DEF ListNode, next, prev
      <3>1. CASE k = 1
        <4>a. 2 \in 1 .. Len(p) /\ k # Len(p) /\ 1 + 1 = 2
          BY <1>0, <1>6, <3>1
        <4>1. next = p[2] /\ 2 \in 1 .. Len(p) /\ k # Len(p)
          BY <1>2, <3>1, <4>a DEF Fwd
        <4>2. u = [l EXCEPT !.heap[next].backward = prev, !.head = next]
          BY <1>1, <3>1 DEF Unlinked
        <4>. DEFINE h == [l.heap EXCEPT ![next].backward = prev]
        <4>3. u.heap = h /\ u.head = next /\ u.tail = l.tail /\ u.count = l.count /\ u.aborted = l.aborted
               /\ DOMAIN u = DOMAIN l
          BY <1>1, <4>2
        <4>4. SetBackward(h, l.heap, next, prev)
          BY <1>3, <3>0, <4>1, BackwardSet
        <4>. HIDE DEF h, u
        <4>5. ASSUME NEW i \in 1 .. Len(p), i # k
              PROVE  /\ h[p[i]] \in ListNode /\ h[p[i]].item = l.heap[p[i]].item
                     /\ h[p[i]].forward = Fwd(p, i)
                     /\ h[p[i]].backward = IF i = 2 THEN prev ELSE Bwd(p, i)
          <5>1. i = 2 \/ p[i] # next
            BY <1>4, <4>1
          <5>2. CASE i = 2
            BY <1>3, <4>1, <4>4, <5>2 DEF SetBackward
          <5>3. CASE i # 2
            <6>1. h[p[i]] = l.heap[p[i]]
              BY <1>3, <4>4, <5>1, <5>3 DEF SetBackward
            <6>. QED
              BY <1>3, <5>3, <6>1
          <5>. QED
            BY <5>2, <5>3
        <4>. QED
          BY <3>1, <4>1, <4>3, <4>4, <4>5 DEF SetBackward
      <3>2. CASE k = Len(p)
        <4>1. prev = p[k - 1] /\ k - 1 \in 1 .. Len(p) /\ k # 1
          BY <1>0, <1>2, <1>6, <3>2 DEF Bwd
        <4>0. l.head # p[k] /\ l.tail = p[k]
          BY <1>1, <1>4, <3>2, <4>1
        <4>2. u = [l EXCEPT !.heap[prev].forward = next, !.tail = prev]
          BY <4>0 DEF Unlinked
        <4>. DEFINE h == [l.heap EXCEPT ![prev].forward = next]
        <4>3. u.heap = h /\ u.head = l.head /\ u.tail = prev /\ u.count = l.count /\ u.aborted = l.aborted
               /\ DOMAIN u = DOMAIN l
          BY <1>1, <4>2
        <4>4. SetForward(h, l.heap, prev, next)
          BY <1>3, <3>0, <4>1, ForwardSet
        <4>. HIDE DEF h, u
        <4>5. ASSUME NEW i \in 1 .. Len(p), i # k
              PROVE  /\ h[p[i]] \in ListNode /\ h[p[i]].item = l.heap[p[i]].item
                     /\ h[p[i]].forward = IF i = k - 1 THEN next ELSE Fwd(p, i)
                     /\ h[p[i]].backward = Bwd(p, i)
          <5>1. i = k - 1 \/ p[i] # prev
            BY <1>4, <4>1
          <5>. QED
            BY <1>3, <4>1, <4>4, <5>1 DEF SetForward
        <4>6. \A i \in 1 .. Len(p) : i # k + 1
          BY <1>0, <3>2
        <4>. QED
          BY <3>2, <4>1, <4>3, <4>4, <4>5, <4>6 DEF SetForward
      <3>3. CASE k # 1 /\ k # Len(p)
        <4>1. next = p[k + 1] /\ prev = p[k - 1] /\ k + 1 \in 1 .. Len(p) /\ k - 1 \in 1 .. Len(p)
          BY <1>0, <1>2, <3>3 DEF Bwd, Fwd
        <4>0. l.head # p[k] /\ l.tail # p[k]
          BY <1>1, <1>4, <3>3
        <4>2. u = [l EXCEPT !.heap[next].backward = prev, !.heap[prev].forward = next]
          BY <4>0 DEF Unlinked
        <4>. DEFINE h1 == [l.heap EXCEPT ![next].backward = prev]
                    h == [h1 EXCEPT ![prev].forward = next]
        <4>3. u.heap = h /\ u.head = l.head /\ u.tail = l.tail /\ u.count = l.count /\ u.aborted = l.aborted
               /\ DOMAIN u = DOMAIN l
          BY <1>1, <4>2
        <4>4. SetBackward(h1, l.heap, next, prev)
          BY <1>3, <3>0, <4>1, BackwardSet
        <4>. HIDE DEF h1
        <4>5. prev \in DOMAIN h1 /\ h1[prev] \in ListNode
          BY <1>3, <4>1, <4>4 DEF SetBackward
        <4>6. SetForward(h, h1, prev, next)
          BY <3>0, <4>5, ForwardSet
        <4>. HIDE DEF h, u
        <4>7. ASSUME NEW i \in 1 .. Len(p), i # k
              PROVE  /\ h1[p[i]] \in ListNode /\ h1[p[i]].item = l.heap[p[i]].item
                     /\ h1[p[i]].forward = Fwd(p, i)
                     /\ h1[p[i]].backward = IF i = k + 1 THEN prev ELSE Bwd(p, i)
          <5>1. i = k + 1 \/ p[i] # next
            BY <1>4, <4>1
          <5>. QED
            BY <1>3, <4>1, <4>4, <5>1 DEF SetBackward
        <4>8. ASSUME NEW i \in 1 .. Len(p), i # k
              PROVE  /\ h[p[i]] \in ListNode /\ h[p[i]].item = l.heap[p[i]].item
                     /\ h[p[i]].forward = IF i = k - 1 THEN next ELSE Fwd(p, i)
                     /\ h[p[i]].backward = IF i = k + 1 THEN prev ELSE Bwd(p, i)
          <5>1. i = k - 1 \/ p[i] # prev
            BY <1>4, <4>1
          <5>2. p[i] \in DOMAIN h1
            BY <1>3, <4>4 DEF SetBackward
          <5>. QED
            BY <4>1, <4>6, <4>7, <4>8, <5>1, <5>2 DEF SetForward
        <4>. QED
          BY <3>3, <4>3, <4>4, <4>6, <4>8 DEF SetForward, SetBackward
      <3>. QED
        BY <3>1, <3>2, <3>3
    <2>4. /\ DOMAIN r = DOMAIN u /\ r.count = u.count - 1 /\ r.head = u.head /\ r.tail = u.tail
          /\ r.aborted = u.aborted /\ r.heap = [b \in DOMAIN u.heap \ {p[k]} |-> u.heap[b]]
      <3>. HIDE DEF u
      <3>. QED
        BY <1>1, <2>2, <2>3 DEF ListNode_free
    <2>. HIDE DEF r, u
    <2>5. ASSUME NEW i \in 1 .. Len(p), i # k PROVE r.heap[p[i]] = u.heap[p[i]]
      <3>1. p[i] \in DOMAIN u.heap \ {p[k]}
        BY <1>3, <1>4, <2>3, <2>5
      <3>. QED
        BY <2>4, <3>1
    <2>a. /\ {"count", "head", "tail", "heap", "aborted"} \subseteq DOMAIN r
          /\ r.count = Len(p) - 1 /\ r.aborted = "no"
          /\ r.head = (IF k = 1 THEN Fwd(p, k) ELSE p[1])
          /\ r.tail = (IF k = Len(p) THEN Bwd(p, k) ELSE p[Len(p)])
          /\ DOMAIN r.heap = DOMAIN l.heap \ {p[k]}
      BY <1>1, <1>2, <2>3, <2>4
    <2>b. ASSUME NEW i \in 1 .. Len(p), i # k
          PROVE  /\ r.heap[p[i]] \in ListNode /\ r.heap[p[i]].item = l.heap[p[i]].item
                 /\ r.heap[p[i]].forward = IF i = k - 1 THEN Fwd(p, k) ELSE Fwd(p, i)
                 /\ r.heap[p[i]].backward = IF i = k + 1 THEN Bwd(p, k) ELSE Bwd(p, i)
      BY <1>2, <2>b, <2>3, <2>5
    <2>6. TakenOut(r, l, p, k)
      BY <2>a, <2>b DEF TakenOut
    <2>. QED
      BY <2>6 DEF r
  <1>. QED
    BY <1>5, <1>6

LEMMA FirstRemoved ==
    ASSUME NEW l, NEW p, Linked(l, p), Len(p) # 0
    PROVE  TakenOut(List_remove_first(l), l, p, 1)
  <1>1. /\ Len(p) \in Nat /\ 1 \in 1 .. Len(p) /\ l.head = p[1] /\ l.count = Len(p) /\ l.aborted = "no"
        /\ {"count", "head", "tail", "heap", "aborted"} \subseteq DOMAIN l
    BY FirstLast DEF Linked
  <1>2. l.heap[p[1]].backward = NULL
    BY <1>1 DEF Linked, Bwd
  <1>3. List_remove_first(l) = List_itr_remove(l, p[1])
    <2>1. CASE l.count = 1
      BY <1>1, <2>1 DEF List_remove_first, List_itr_remove, Asserting, Alive
    <2>2. CASE l.count # 1
      <3>. DEFINE next == l.heap[p[1]].forward
                  h == [l.heap EXCEPT ![next].backward = NULL]
                  a == [l EXCEPT !.head = next, !.heap[next].backward = NULL, !.count = @ - 1]
                  b == [[l EXCEPT !.heap[next].backward = NULL, !.head = next] EXCEPT !.count = @ - 1]
      <3>1. List_remove_first(l) = ListNode_free(a, p[1])
        BY <1>1, <2>2 DEF List_remove_first
      <3>2. Unlinked(l, p[1], next, NULL) = [l EXCEPT !.heap[next].backward = NULL, !.head = next]
        BY <1>1 DEF Unlinked
      <3>3. List_itr_remove(l, p[1]) = ListNode_free(b, p[1])
        BY <1>1, <1>2, <2>2, <3>2 DEF List_itr_remove
      <3>4. a = b
        <4>1. a = [f \in DOMAIN l |-> IF f = "head" THEN next ELSE IF f = "heap" THEN h
                                      ELSE IF f = "count" THEN l.count - 1 ELSE l[f]]
          BY <1>1
        <4>2. b = [f \in DOMAIN l |-> IF f = "head" THEN next ELSE IF f = "heap" THEN h
                                      ELSE IF f = "count" THEN l.count - 1 ELSE l[f]]
          BY <1>1
        <4>. QED
          BY <4>1, <4>2
      <3>. HIDE DEF a, b
      <3>. QED
        BY <3>1, <3>3, <3>4
    <2>. QED
      BY <2>1, <2>2
  <1>. QED
    BY <1>1, <1>3, ItrRemoved

LEMMA LastRemoved ==
    ASSUME NEW l, NEW p, Linked(l, p), Len(p) # 0
    PROVE  TakenOut(List_remove_last(l), l, p, Len(p))
  <1>1. /\ Len(p) \in Nat /\ Len(p) \in 1 .. Len(p) /\ 1 \in 1 .. Len(p) /\ l.head = p[1]
        /\ l.tail = p[Len(p)] /\ l.count = Len(p) /\ l.aborted = "no"
        /\ {"count", "head", "tail", "heap", "aborted"} \subseteq DOMAIN l
    BY FirstLast DEF Linked
  <1>2. l.heap[p[Len(p)]].forward = NULL
    BY <1>1 DEF Linked, Fwd
  <1>3. List_remove_last(l) = List_itr_remove(l, p[Len(p)])
    <2>1. CASE l.count = 1
      BY <1>1, <2>1 DEF List_remove_last, List_itr_remove, Asserting, Alive
    <2>2. CASE l.count # 1
      <3>. DEFINE prev == l.heap[p[Len(p)]].backward
                  h == [l.heap EXCEPT ![prev].forward = NULL]
                  a == [l EXCEPT !.tail = prev, !.heap[prev].forward = NULL, !.count = @ - 1]
                  b == [[l EXCEPT !.heap[prev].forward = NULL, !.tail = prev] EXCEPT !.count = @ - 1]
      <3>0. l.head # p[Len(p)]
        BY <1>1, <2>2 DEF Linked
      <3>1. List_remove_last(l) = ListNode_free(a, p[Len(p)])
        BY <1>1, <2>2 DEF List_remove_last
      <3>2. Unlinked(l, p[Len(p)], NULL, prev) = [l EXCEPT !.heap[prev].forward = NULL, !.tail = prev]
        BY <1>1, <3>0 DEF Unlinked
      <3>3. List_itr_remove(l, p[Len(p)]) = ListNode_free(b, p[Len(p)])
        BY <1>1, <1>2, <2>2, <3>2 DEF List_itr_remove
      <3>4. a = b
        <4>1. a = [f \in DOMAIN l |-> IF f = "tail" THEN prev ELSE IF f = "heap" THEN h
                                      ELSE IF f = "count" THEN l.count - 1 ELSE l[f]]
          BY <1>1
        <4>2. b = [f \in DOMAIN l |-> IF f = "tail" THEN prev ELSE IF f = "heap" THEN h
                                      ELSE IF f = "count" THEN l.count - 1 ELSE l[f]]
          BY <1>1
        <4>. QED
          BY <4>1, <4>2
      <3>. HIDE DEF a, b
      <3>. QED
        BY <3>1, <3>3, <3>4
    <2>. QED
      BY <2>1, <2>2
  <1>. QED
    BY <1>1, <1>3, ItrRemoved

\* The item found is that of a node of the list.
LEMMA FoundIs ==
    ASSUME NEW l, NEW p, Linked(l, p), NEW x, List_find(l, x) # NULL
    PROVE  \E k \in 1 .. Len(p) : List_find(l, x) = p[k]
  <1>. DEFINE hits == {n \in 0 .. l.count - 1 : List_itr_unpack(l, ItrAt(l)[n]) = x}
              first == CHOOSE n \in hits : \A m \in hits : n <= m
  <1>1. l.count = Len(p) /\ Len(p) \in Nat
    BY DEF Linked
  <1>2. ItrAt(l) = [n \in 0 .. Len(p) |-> IF n < Len(p) THEN p[n + 1] ELSE NULL]
    BY ItrIs
  <1>3. hits # {} /\ List_find(l, x) = ItrAt(l)[first]
    BY DEF List_find
  <1>4. hits \subseteq Nat /\ hits \subseteq 0 .. Len(p) - 1
    BY <1>1
  <1>5. first \in hits
    <2>. HIDE DEF hits
    <2>1. \E n \in hits : \A m \in hits : n <= m
      BY <1>3, <1>4, LeastOf
    <2>. QED
      BY <2>1
  <1>. HIDE DEF hits, first
  <1>6. first + 1 \in 1 .. Len(p) /\ ItrAt(l)[first] = p[first + 1]
    BY <1>1, <1>2, <1>4, <1>5
  <1>. QED
    BY <1>3, <1>6

LEMMA NewLinked == Linked(List_new, <<>>) /\ Items(List_new, <<>>) = <<>>
  <1>1. DOMAIN List_new.heap = {}
    BY DEF List_new, List_init
  <1>2. <<>> \in Seq(1 .. MaxNodes) /\ Len(<<>>) = 0
    OBVIOUS
  <1>. QED
    BY <1>1, <1>2 DEF Linked, List_new, List_init, Items

LEMMA Deinited ==
    ASSUME NEW l, NEW p, Linked(l, p)
    PROVE  /\ Linked(List_safe_deinit(l), <<>>) /\ Items(List_safe_deinit(l), <<>>) = <<>>
           /\ List_safe_free(l) = List_new
  <1>. DEFINE r == List_safe_deinit(l)
  <1>0. <<>> \in Seq(1 .. MaxNodes) /\ Len(<<>>) = 0
    OBVIOUS
  <1>1. /\ l.count = Len(p) /\ Len(p) \in Nat /\ l.aborted = "no"
        /\ {"count", "head", "tail", "heap", "aborted"} \subseteq DOMAIN l
        /\ DOMAIN l.heap = {p[i] : i \in 1 .. Len(p)}
    BY DEF Linked
  <1>2. /\ r.count = 0 /\ r.head = NULL /\ r.tail = NULL /\ r.aborted = "no" /\ DOMAIN r.heap = {}
        /\ {"count", "head", "tail", "heap", "aborted"} \subseteq DOMAIN r
    <2>1. CASE l.count = 0
      <3>1. r = l
        BY <2>1 DEF List_safe_deinit
      <3>2. l.head = NULL /\ l.tail = NULL
        BY <1>1, <2>1 DEF Linked
      <3>3. DOMAIN l.heap = {}
        BY <1>1, <2>1
      <3>. QED
        BY <1>1, <2>1, <3>1, <3>2, <3>3
    <2>2. CASE l.count # 0
      <3>. DEFINE gone == {ItrAt(l)[n] : n \in 0 .. l.count}
      <3>1. r = [l EXCEPT !.heap = [a \in DOMAIN l.heap \ gone |-> l.heap[a]],
                          !.count = 0, !.head = NULL, !.tail = NULL]
        BY <2>2 DEF List_safe_deinit
      <3>2. DOMAIN l.heap \ gone = {}
        <4>1. ASSUME NEW i \in 1 .. Len(p) PROVE p[i] \in gone
          <5>1. i - 1 \in 0 .. l.count /\ ItrAt(l)[i - 1] = p[i]
            BY <1>1, ItrIs
          <5>. QED
            BY <5>1
        <4>. QED
          BY <1>1, <4>1
      <3>. HIDE DEF gone
      <3>. QED
        BY <1>1, <3>1, <3>2
    <2>. QED
      BY <2>1, <2>2
  <1>. HIDE DEF r
  <1>3. Linked(r, <<>>)
    BY <1>0, <1>2 DEF Linked
  <1>4. Items(r, <<>>) = <<>>
    BY <1>0 DEF Items
  <1>5. List_safe_free(l) = List_new
    BY <1>2 DEF List_safe_free, List_free, Asserting, Alive, r
  <1>. QED
    BY <1>3, <1>4, <1>5 DEF r

LEMMA FreshIs ==
    ASSUME NEW l, \E a \in 1 .. MaxNodes : a \notin DOMAIN l.heap
    PROVE  Fresh(l) \in 1 .. MaxNodes /\ Fresh(l) \notin DOMAIN l.heap /\ Fresh(l) # NULL
  <1>1. Fresh(l) \in 1 .. MaxNodes /\ Fresh(l) \notin DOMAIN l.heap
    BY DEF Fresh
  <1>. QED
    BY <1>1, ListAssumption DEF NULL

\* r is l with the node a before, or behind, its nodes.
JoinedFront(r, l, p, a, x) ==
    /\ {"count", "head", "tail", "heap", "aborted"} \subseteq DOMAIN r
    /\ r.count = Len(p) + 1 /\ r.aborted = "no" /\ r.head = a
    /\ r.tail = (IF Len(p) = 0 THEN a ELSE p[Len(p)])
    /\ DOMAIN r.heap = DOMAIN l.heap \cup {a}
    /\ r.heap[a] \in ListNode /\ r.heap[a].item = x /\ r.heap[a].backward = NULL
    /\ r.heap[a].forward = (IF Len(p) = 0 THEN NULL ELSE p[1])
    /\ \A i \in 1 .. Len(p) :
          /\ r.heap[p[i]] \in ListNode /\ r.heap[p[i]].item = l.heap[p[i]].item
          /\ r.heap[p[i]].forward = Fwd(p, i)
          /\ r.heap[p[i]].backward = IF i = 1 THEN a ELSE Bwd(p, i)
JoinedBack(r, l, p, a, x) ==
    /\ {"count", "head", "tail", "heap", "aborted"} \subseteq DOMAIN r
    /\ r.count = Len(p) + 1 /\ r.aborted = "no" /\ r.tail = a
    /\ r.head = (IF Len(p) = 0 THEN a ELSE p[1])
    /\ DOMAIN r.heap = DOMAIN l.heap \cup {a}
    /\ r.heap[a] \in ListNode /\ r.heap[a].item = x /\ r.heap[a].forward = NULL
    /\ r.heap[a].backward = (IF Len(p) = 0 THEN NULL ELSE p[Len(p)])
    /\ \A i \in 1 .. Len(p) :
          /\ r.heap[p[i]] \in ListNode /\ r.heap[p[i]].item = l.heap[p[i]].item
          /\ r.heap[p[i]].forward = IF i = Len(p) THEN a ELSE Fwd(p, i)
          /\ r.heap[p[i]].backward = Bwd(p, i)

\* A node as ListNode_new makes it, in the heap.
LEMMA NodeMade ==
    ASSUME NEW l, NEW p, Linked(l, p), NEW x \in Item, NEW v \in 0 .. MaxNodes,
           \E a \in 1 .. MaxNodes : a \notin DOMAIN l.heap,
           NEW m, m = ListNode_new(l, x, NULL, v)
    PROVE  LET a == Fresh(l) IN
           /\ DOMAIN m = DOMAIN l /\ m.count = l.count /\ m.head = l.head /\ m.tail = l.tail
           /\ m.aborted = l.aborted /\ DOMAIN m.heap = DOMAIN l.heap \cup {a}
           /\ m.heap[a] \in ListNode /\ m.heap[a].item = x /\ m.heap[a].backward = NULL
           /\ m.heap[a].forward = v
           /\ \A b \in DOMAIN l.heap : m.heap[b] = l.heap[b]
  <1>. DEFINE a == Fresh(l)
  <1>1. a \notin DOMAIN l.heap
    BY FreshIs
  <1>2. {"count", "head", "tail", "heap", "aborted"} \subseteq DOMAIN l
    BY DEF Linked
  <1>. HIDE DEF a
  <1>3. m = [l EXCEPT !.heap = [b \in DOMAIN l.heap \cup {a} |->
                                    IF b = a THEN Node(x, NULL, v) ELSE l.heap[b]]]
    BY DEF ListNode_new, a
  <1>4. /\ DOMAIN m = DOMAIN l /\ m.count = l.count /\ m.head = l.head /\ m.tail = l.tail
        /\ m.aborted = l.aborted
        /\ m.heap = [b \in DOMAIN l.heap \cup {a} |-> IF b = a THEN Node(x, NULL, v) ELSE l.heap[b]]
    BY <1>2, <1>3
  <1>5. Node(x, NULL, v) \in ListNode /\ Node(x, NULL, v).item = x
         /\ Node(x, NULL, v).backward = NULL /\ Node(x, NULL, v).forward = v
    BY ListAssumption DEF Node, ListNode, NULL
  <1>6. m.heap[a] = Node(x, NULL, v) /\ DOMAIN m.heap = DOMAIN l.heap \cup {a}
         /\ \A b \in DOMAIN l.heap : m.heap[b] = l.heap[b]
    BY <1>1, <1>4
  <1>. QED
    BY <1>4, <1>5, <1>6 DEF a

LEMMA FrontAdded ==
    ASSUME NEW l, NEW p, Linked(l, p), NEW x \in Item,
           \E a \in 1 .. MaxNodes : a \notin DOMAIN l.heap
    PROVE  JoinedFront(List_add_front(l, x), l, p, Fresh(l), x)
  <1>. DEFINE a == Fresh(l)
              m == ListNode_new(l, x, NULL, NULL)
              r == List_add_front(l, x)
  <1>0. a \in 1 .. MaxNodes /\ a \notin DOMAIN l.heap /\ a # NULL /\ NULL \in 0 .. MaxNodes
    BY FreshIs, ListAssumption DEF NULL
  <1>1. /\ DOMAIN m = DOMAIN l /\ m.count = l.count /\ m.head = l.head /\ m.tail = l.tail
        /\ m.aborted = l.aborted /\ DOMAIN m.heap = DOMAIN l.heap \cup {a}
        /\ m.heap[a] \in ListNode /\ m.heap[a].item = x /\ m.heap[a].backward = NULL
        /\ m.heap[a].forward = NULL
        /\ \A b \in DOMAIN l.heap : m.heap[b] = l.heap[b]
    BY <1>0, NodeMade
  <1>2. /\ {"count", "head", "tail", "heap", "aborted"} \subseteq DOMAIN l
        /\ l.count = Len(p) /\ l.aborted = "no" /\ Len(p) \in Nat
    BY DEF Linked
  <1>3. \A i \in 1 .. Len(p) : p[i] \in DOMAIN l.heap /\ l.heap[p[i]] \in ListNode
                              /\ l.heap[p[i]].forward = Fwd(p, i) /\ l.heap[p[i]].backward = Bwd(p, i)
    BY DEF Linked
  <1>4. CASE Len(p) = 0
    <2>1. r = [m EXCEPT !.head = a, !.tail = a, !.count = 1]
      BY <1>2, <1>4 DEF List_add_front
    <2>. HIDE DEF m, r, a
    <2>2. DOMAIN r = DOMAIN l /\ r.count = 1 /\ r.head = a /\ r.tail = a /\ r.heap = m.heap /\ r.aborted = "no"
      BY <1>1, <1>2, <2>1
    <2>3. JoinedFront(r, l, p, a, x)
      BY <1>1, <1>2, <1>4, <2>2 DEF JoinedFront
    <2>. QED
      BY <2>3 DEF r, a
  <1>5. CASE Len(p) # 0
    <2>0. l.head = p[1] /\ l.tail = p[Len(p)] /\ 1 \in 1 .. Len(p)
      BY <1>5, FirstLast
    <2>1. r = [m EXCEPT !.heap[a].forward = p[1], !.heap[p[1]].backward = a, !.head = a, !.count = @ + 1]
      BY <1>2, <1>5, <2>0 DEF List_add_front
    <2>. DEFINE h1 == [m.heap EXCEPT ![a].forward = p[1]]
                h == [h1 EXCEPT ![p[1]].backward = a]
    <2>. HIDE DEF m, r, a
    <2>2. DOMAIN r = DOMAIN l /\ r.count = Len(p) + 1 /\ r.head = a /\ r.tail = p[Len(p)] /\ r.heap = h
           /\ r.aborted = "no"
      BY <1>1, <1>2, <2>0, <2>1
    <2>3. p[1] \in 0 .. MaxNodes /\ p[1] \in DOMAIN l.heap /\ a \in 0 .. MaxNodes
      <3>1. p \in Seq(1 .. MaxNodes)
        BY DEF Linked
      <3>. QED
        BY <1>0, <1>3, <2>0, <3>1, ListAssumption
    <2>4. SetForward(h1, m.heap, a, p[1])
      BY <1>1, <2>3, ForwardSet
    <2>. HIDE DEF h1
    <2>5. p[1] \in DOMAIN h1 /\ h1[p[1]] \in ListNode /\ h1[p[1]] = l.heap[p[1]]
      BY <1>0, <1>1, <1>3, <2>0, <2>3, <2>4 DEF SetForward
    <2>6. SetBackward(h, h1, p[1], a)
      BY <2>3, <2>5, BackwardSet
    <2>. HIDE DEF h
    <2>7. h[a] = h1[a] /\ DOMAIN h = DOMAIN l.heap \cup {a}
      BY <1>0, <1>1, <2>3, <2>4, <2>6 DEF SetForward, SetBackward
    <2>8. ASSUME NEW i \in 1 .. Len(p)
          PROVE  /\ h[p[i]] \in ListNode /\ h[p[i]].item = l.heap[p[i]].item
                 /\ h[p[i]].forward = Fwd(p, i)
                 /\ h[p[i]].backward = IF i = 1 THEN a ELSE Bwd(p, i)
      <3>1. CASE i = 1
        BY <1>3, <2>0, <2>5, <2>6, <3>1 DEF SetBackward
      <3>2. CASE i # 1
        <4>1. p[i] # p[1]
          BY <2>0, <3>2 DEF Linked
        <4>2. p[i] \in DOMAIN l.heap /\ p[i] # a
          BY <1>0, <1>3
        <4>3. h1[p[i]] = l.heap[p[i]] /\ p[i] \in DOMAIN h1
          BY <1>1, <2>4, <4>2 DEF SetForward
        <4>4. h[p[i]] = l.heap[p[i]]
          BY <2>6, <4>1, <4>3 DEF SetBackward
        <4>. QED
          BY <1>3, <3>2, <4>4
      <3>. QED
        BY <3>1, <3>2
    <2>9. JoinedFront(r, l, p, a, x)
      BY <1>1, <1>2, <1>5, <2>2, <2>4, <2>7, <2>8 DEF JoinedFront, SetForward
    <2>. QED
      BY <2>9 DEF r, a
  <1>. QED
    BY <1>4, <1>5

LEMMA BackAdded ==
    ASSUME NEW l, NEW p, Linked(l, p), NEW x \in Item,
           \E a \in 1 .. MaxNodes : a \notin DOMAIN l.heap
    PROVE  JoinedBack(List_add_back(l, x), l, p, Fresh(l), x)
  <1>. DEFINE a == Fresh(l)
              m == ListNode_new(l, x, NULL, l.head)
              r == List_add_back(l, x)
  <1>0. a \in 1 .. MaxNodes /\ a \notin DOMAIN l.heap /\ a # NULL /\ NULL \in 0 .. MaxNodes
    BY FreshIs, ListAssumption DEF NULL
  <1>2. /\ {"count", "head", "tail", "heap", "aborted"} \subseteq DOMAIN l
        /\ l.count = Len(p) /\ l.aborted = "no" /\ Len(p) \in Nat /\ p \in Seq(1 .. MaxNodes)
    BY DEF Linked
  <1>3. \A i \in 1 .. Len(p) : p[i] \in DOMAIN l.heap /\ l.heap[p[i]] \in ListNode
                              /\ l.heap[p[i]].forward = Fwd(p, i) /\ l.heap[p[i]].backward = Bwd(p, i)
    BY DEF Linked
  <1>h. l.head \in 0 .. MaxNodes /\ (Len(p) = 0 => l.head = NULL)
    <2>1. CASE Len(p) = 0
      BY <1>0, <2>1 DEF Linked
    <2>2. CASE Len(p) # 0
      <3>1. l.head = p[1] /\ 1 \in 1 .. Len(p)
        BY <2>2, FirstLast
      <3>. QED
        BY <1>2, <2>2, <3>1, ListAssumption
    <2>. QED
      BY <2>1, <2>2
  <1>1. /\ DOMAIN m = DOMAIN l /\ m.count = l.count /\ m.head = l.head /\ m.tail = l.tail
        /\ m.aborted = l.aborted /\ DOMAIN m.heap = DOMAIN l.heap \cup {a}
        /\ m.heap[a] \in ListNode /\ m.heap[a].item = x /\ m.heap[a].backward = NULL
        /\ m.heap[a].forward = l.head
        /\ \A b \in DOMAIN l.heap : m.heap[b] = l.heap[b]
    BY <1>h, NodeMade
  <1>4. CASE Len(p) = 0
    <2>1. r = [m EXCEPT !.head = a, !.tail = a, !.count = 1]
      BY <1>2, <1>4 DEF List_add_back
    <2>. HIDE DEF m, r, a
    <2>2. DOMAIN r = DOMAIN l /\ r.count = 1 /\ r.head = a /\ r.tail = a /\ r.heap = m.heap /\ r.aborted = "no"
      BY <1>1, <1>2, <2>1
    <2>3. JoinedBack(r, l, p, a, x)
      BY <1>1, <1>2, <1>4, <1>h, <2>2 DEF JoinedBack
    <2>. QED
      BY <2>3 DEF r, a
  <1>5. CASE Len(p) # 0
    <2>. DEFINE t == p[Len(p)]
    <2>0. l.head = p[1] /\ l.tail = t /\ Len(p) \in 1 .. Len(p)
      BY <1>5, FirstLast
    <2>1. r = [m EXCEPT !.heap[a].backward = t, !.heap[a].forward = NULL,
                        !.heap[t].forward = a, !.tail = a, !.count = @ + 1]
      BY <1>2, <1>5, <2>0 DEF List_add_back
    <2>. DEFINE h1 == [m.heap EXCEPT ![a].backward = t]
                h2 == [h1 EXCEPT ![a].forward = NULL]
                h == [h2 EXCEPT ![t].forward = a]
    <2>. HIDE DEF m, r, a
    <2>2. DOMAIN r = DOMAIN l /\ r.count = Len(p) + 1 /\ r.head = p[1] /\ r.tail = a /\ r.heap = h
           /\ r.aborted = "no"
      <3>. HIDE DEF t
      <3>. QED
        BY <1>1, <1>2, <2>0, <2>1
    <2>3. t \in 0 .. MaxNodes /\ t \in DOMAIN l.heap /\ a \in 0 .. MaxNodes /\ t # a
      BY <1>0, <1>2, <1>3, <2>0, ListAssumption
    <2>. HIDE DEF t
    <2>4. SetBackward(h1, m.heap, a, t)
      BY <1>1, <2>3, BackwardSet
    <2>. HIDE DEF h1
    <2>5. a \in DOMAIN h1 /\ h1[a] \in ListNode
      BY <1>1, <2>4 DEF SetBackward
    <2>6. SetForward(h2, h1, a, NULL)
      BY <1>0, <2>5, ForwardSet
    <2>. HIDE DEF h2
    <2>7. t \in DOMAIN h2 /\ h2[t] = l.heap[t] /\ h2[t] \in ListNode
      BY <1>1, <1>3, <2>0, <2>3, <2>4, <2>6 DEF SetForward, SetBackward, t
    <2>8. SetForward(h, h2, t, a)
      BY <2>3, <2>7, ForwardSet
    <2>. HIDE DEF h
    <2>9. h[a] = h2[a] /\ DOMAIN h = DOMAIN l.heap \cup {a}
      BY <1>0, <1>1, <2>3, <2>4, <2>6, <2>8 DEF SetForward, SetBackward
    <2>10. ASSUME NEW i \in 1 .. Len(p)
          PROVE  /\ h[p[i]] \in ListNode /\ h[p[i]].item = l.heap[p[i]].item
                 /\ h[p[i]].forward = IF i = Len(p) THEN a ELSE Fwd(p, i)
                 /\ h[p[i]].backward = Bwd(p, i)
      <3>1. CASE i = Len(p)
        BY <1>3, <2>0, <2>7, <2>8, <3>1 DEF SetForward, t
      <3>2. CASE i # Len(p)
        <4>1. p[i] # t
          BY <2>0, <3>2 DEF Linked, t
        <4>2. p[i] \in DOMAIN l.heap /\ p[i] # a
          BY <1>0, <1>3
        <4>3. h2[p[i]] = l.heap[p[i]] /\ p[i] \in DOMAIN h2
          BY <1>1, <2>4, <2>6, <4>2 DEF SetForward, SetBackward
        <4>4. h[p[i]] = l.heap[p[i]]
          BY <2>8, <4>1, <4>3 DEF SetForward
        <4>. QED
          BY <1>3, <3>2, <4>4
      <3>. QED
        BY <3>1, <3>2
    <2>11. h[a] \in ListNode /\ h[a].item = x /\ h[a].forward = NULL /\ h[a].backward = t
      BY <1>1, <2>4, <2>6, <2>9 DEF SetForward, SetBackward
    <2>12. JoinedBack(r, l, p, a, x)
      BY <1>2, <1>5, <2>2, <2>9, <2>10, <2>11 DEF JoinedBack, t
    <2>. QED
      BY <2>12 DEF r, a
  <1>. QED
    BY <1>4, <1>5

LEMMA ItemsSeq ==
    ASSUME NEW l, NEW p, Linked(l, p)
    PROVE  /\ Items(l, p) \in Seq(Item) /\ Len(Items(l, p)) = Len(p) /\ Len(p) \in Nat
           /\ \A i \in 1 .. Len(p) : Items(l, p)[i] = l.heap[p[i]].item
  <1>1. ASSUME NEW i \in 1 .. Len(p) PROVE l.heap[p[i]].item \in Item
    BY DEF Linked, ListNode
  <1>2. Len(p) \in Nat
    BY DEF Linked
  <1>. QED
    BY <1>1, <1>2 DEF Items

InFront(r, l, p, a, x) == Linked(r, <<a>> \o p) /\ Items(r, <<a>> \o p) = <<x>> \o Items(l, p)

LEMMA FrontLinked ==
    ASSUME NEW l, NEW p, Linked(l, p), NEW x \in Item, NEW a \in 1 .. MaxNodes, a \notin DOMAIN l.heap,
           NEW r, JoinedFront(r, l, p, a, x)
    PROVE  InFront(r, l, p, a, x)
  <1>. DEFINE w == <<a>> \o p
              q == Items(l, p)
  <1>0. p \in Seq(1 .. MaxNodes) /\ DOMAIN l.heap = {p[i] : i \in 1 .. Len(p)}
         /\ \A i, j \in 1 .. Len(p) : p[i] = p[j] => i = j
    BY DEF Linked
  <1>1. w \in Seq(1 .. MaxNodes) /\ Len(w) = Len(p) + 1 /\ w[1] = a
         /\ \A i \in 1 .. Len(p) : w[i + 1] = p[i]
    BY <1>0
  <1>2. q \in Seq(Item) /\ Len(q) = Len(p) /\ \A i \in 1 .. Len(p) : q[i] = l.heap[p[i]].item
    BY ItemsSeq
  <1>. HIDE DEF q
  <1>3. <<x>> \o q \in Seq(Item) /\ Len(<<x>> \o q) = Len(p) + 1 /\ (<<x>> \o q)[1] = x
         /\ \A i \in 1 .. Len(p) : (<<x>> \o q)[i + 1] = q[i]
    BY <1>2
  <1>. HIDE DEF w
  <1>n. Len(p) \in Nat /\ Len(w) = Len(p) + 1
    BY <1>0, <1>1
  <1>4. ASSUME NEW i \in 1 .. Len(w)
        PROVE  i = 1 \/ (i - 1 \in 1 .. Len(p) /\ (i - 1) + 1 = i /\ w[i] = p[i - 1] /\ w[i] # a)
    <2>. SUFFICES ASSUME i # 1 PROVE i - 1 \in 1 .. Len(p) /\ (i - 1) + 1 = i /\ w[i] = p[i - 1] /\ w[i] # a
      OBVIOUS
    <2>1. i - 1 \in 1 .. Len(p) /\ (i - 1) + 1 = i
      BY <1>n
    <2>2. w[i] = p[i - 1]
      BY <1>1, <2>1
    <2>3. p[i - 1] \in DOMAIN l.heap
      BY <1>0, <2>1
    <2>. QED
      BY <2>1, <2>2, <2>3
  <1>5. \A i, j \in 1 .. Len(w) : w[i] = w[j] => i = j
    <2>. SUFFICES ASSUME NEW i \in 1 .. Len(w), NEW j \in 1 .. Len(w), w[i] = w[j] PROVE i = j
      OBVIOUS
    <2>1. CASE i = 1 \/ j = 1
      BY <1>1, <1>4, <2>1
    <2>2. CASE i # 1 /\ j # 1
      <3>1. i - 1 \in 1 .. Len(p) /\ j - 1 \in 1 .. Len(p) /\ p[i - 1] = p[j - 1]
        BY <1>4, <2>2
      <3>2. i - 1 = j - 1
        BY <1>0, <3>1
      <3>. QED
        BY <1>n, <3>2
    <2>. QED
      BY <2>1, <2>2
  <1>6. DOMAIN r.heap = {w[i] : i \in 1 .. Len(w)}
    <2>0. DOMAIN r.heap = {p[i] : i \in 1 .. Len(p)} \cup {a}
      BY <1>0 DEF JoinedFront
    <2>1. ASSUME NEW b \in DOMAIN r.heap PROVE \E i \in 1 .. Len(w) : b = w[i]
      <3>1. CASE b = a
        <4>1. 1 \in 1 .. Len(w)
          BY <1>n
        <4>. QED
          BY <1>1, <3>1, <4>1
      <3>2. CASE b # a
        <4>1. PICK i \in 1 .. Len(p) : b = p[i]
          BY <2>0, <3>2
        <4>2. i + 1 \in 1 .. Len(w)
          BY <1>n
        <4>. QED
          BY <1>1, <4>1, <4>2
      <3>. QED
        BY <3>1, <3>2
    <2>2. ASSUME NEW i \in 1 .. Len(w) PROVE w[i] \in DOMAIN r.heap
      BY <1>1, <1>4, <2>0
    <2>. QED
      BY <2>1, <2>2
  <1>7. ASSUME NEW i \in 1 .. Len(w)
        PROVE  /\ r.heap[w[i]] \in ListNode /\ r.heap[w[i]].item = (<<x>> \o q)[i]
               /\ r.heap[w[i]].forward = Fwd(w, i) /\ r.heap[w[i]].backward = Bwd(w, i)
    <2>1. CASE i = 1
      <3>1. Fwd(w, 1) = IF Len(p) = 0 THEN NULL ELSE p[1]
        <4>1. CASE Len(p) = 0
          BY <1>n, <4>1 DEF Fwd
        <4>2. CASE Len(p) # 0
          <5>1. 1 \in 1 .. Len(p) /\ 1 # Len(w)
            BY <1>n, <4>2
          <5>2. w[1 + 1] = p[1]
            BY <1>1, <5>1
          <5>. QED
            BY <4>2, <5>1, <5>2 DEF Fwd
        <4>. QED
          BY <4>1, <4>2
      <3>. QED
        BY <1>1, <1>3, <2>1, <3>1 DEF JoinedFront, Bwd
    <2>2. CASE i # 1
      <3>. DEFINE j == i - 1
      <3>1. j \in 1 .. Len(p) /\ j + 1 = i /\ w[i] = p[j]
        BY <1>4, <2>2
      <3>2. Fwd(w, i) = Fwd(p, j)
        <4>1. CASE j = Len(p)
          BY <1>n, <3>1, <4>1 DEF Fwd
        <4>2. CASE j # Len(p)
          <5>1. j + 1 \in 1 .. Len(p) /\ i # Len(w)
            BY <1>n, <3>1, <4>2
          <5>2. w[(j + 1) + 1] = p[j + 1]
            BY <1>1, <5>1
          <5>. QED
            BY <3>1, <4>2, <5>1, <5>2 DEF Fwd
        <4>. QED
          BY <4>1, <4>2
      <3>3. Bwd(w, i) = IF j = 1 THEN a ELSE Bwd(p, j)
        <4>1. CASE j = 1
          BY <1>1, <2>2, <3>1, <4>1 DEF Bwd
        <4>2. CASE j # 1
          <5>1. j - 1 \in 1 .. Len(p) /\ (j - 1) + 1 = i - 1
            BY <1>n, <3>1, <4>2
          <5>2. w[i - 1] = p[j - 1]
            BY <1>1, <5>1
          <5>. QED
            BY <2>2, <4>2, <5>2 DEF Bwd
        <4>. QED
          BY <4>1, <4>2
      <3>4. (<<x>> \o q)[i] = l.heap[p[j]].item
        BY <1>2, <1>3, <3>1
      <3>. HIDE DEF j
      <3>5. /\ r.heap[p[j]] \in ListNode /\ r.heap[p[j]].item = l.heap[p[j]].item
            /\ r.heap[p[j]].forward = Fwd(p, j)
            /\ r.heap[p[j]].backward = IF j = 1 THEN a ELSE Bwd(p, j)
        BY <3>1 DEF JoinedFront
      <3>. QED
        BY <3>1, <3>2, <3>3, <3>4, <3>5
    <2>. QED
      BY <2>1, <2>2
  <1>8. Linked(r, w)
    <2>1. /\ {"count", "head", "tail", "heap", "aborted"} \subseteq DOMAIN r
          /\ r.count = Len(w) /\ r.aborted = "no"
      BY <1>n DEF JoinedFront
    <2>2. r.head = (IF Len(w) = 0 THEN NULL ELSE w[1])
      BY <1>1, <1>n DEF JoinedFront
    <2>3. r.tail = (IF Len(w) = 0 THEN NULL ELSE w[Len(w)])
      <3>1. CASE Len(p) = 0
        BY <1>1, <1>n, <3>1 DEF JoinedFront
      <3>2. CASE Len(p) # 0
        <4>1. Len(p) \in 1 .. Len(p) /\ Len(w) # 0
          BY <1>n, <3>2
        <4>2. w[Len(p) + 1] = p[Len(p)]
          BY <1>1, <4>1
        <4>. QED
          BY <1>n, <3>2, <4>1, <4>2 DEF JoinedFront
      <3>. QED
        BY <3>1, <3>2
    <2>. QED
      BY <1>1, <1>5, <1>6, <1>7, <2>1, <2>2, <2>3 DEF Linked
  <1>9. Items(r, w) = <<x>> \o q
    <2>. DEFINE y == <<x>> \o q
    <2>0. y \in Seq(Item) /\ Len(y) = Len(w)
      BY <1>3, <1>n
    <2>2. \A i \in 1 .. Len(w) : r.heap[w[i]].item = y[i]
      BY <1>7
    <2>. HIDE DEF y
    <2>1. y \in [1 .. Len(w) -> Item]
      BY <2>0
    <2>3. Items(r, w) = y
      BY <2>1, <2>2 DEF Items
    <2>. QED
      BY <2>3 DEF y
  <1>. QED
    BY <1>8, <1>9 DEF w, q, InFront

LEMMA BackLinked ==
    ASSUME NEW l, NEW p, Linked(l, p), NEW x \in Item, NEW a \in 1 .. MaxNodes, a \notin DOMAIN l.heap,
           NEW r, JoinedBack(r, l, p, a, x)
    PROVE  Linked(r, Append(p, a)) /\ Items(r, Append(p, a)) = Append(Items(l, p), x)
  <1>. DEFINE w == Append(p, a)
              q == Items(l, p)
              y == Append(q, x)
  <1>0. p \in Seq(1 .. MaxNodes) /\ DOMAIN l.heap = {p[i] : i \in 1 .. Len(p)}
         /\ \A i, j \in 1 .. Len(p) : p[i] = p[j] => i = j
    BY DEF Linked
  <1>1. w \in Seq(1 .. MaxNodes) /\ Len(w) = Len(p) + 1 /\ w[Len(p) + 1] = a
         /\ \A i \in 1 .. Len(p) : w[i] = p[i]
    BY <1>0
  <1>2. q \in Seq(Item) /\ Len(q) = Len(p) /\ \A i \in 1 .. Len(p) : q[i] = l.heap[p[i]].item
    BY ItemsSeq
  <1>. HIDE DEF q
  <1>3. y \in Seq(Item) /\ Len(y) = Len(p) + 1 /\ y[Len(p) + 1] = x
         /\ \A i \in 1 .. Len(p) : y[i] = q[i]
    BY <1>2
  <1>. HIDE DEF w, y
  <1>n. Len(p) \in Nat /\ Len(w) = Len(p) + 1
    BY <1>0, <1>1
  <1>4. ASSUME NEW i \in 1 .. Len(w)
        PROVE  i = Len(w) \/ (i \in 1 .. Len(p) /\ w[i] = p[i] /\ w[i] # a)
    <2>. SUFFICES ASSUME i # Len(w) PROVE i \in 1 .. Len(p) /\ w[i] = p[i] /\ w[i] # a
      OBVIOUS
    <2>1. i \in 1 .. Len(p)
      BY <1>n
    <2>2. p[i] \in DOMAIN l.heap
      BY <1>0, <2>1
    <2>. QED
      BY <1>1, <2>1, <2>2
  <1>5. \A i, j \in 1 .. Len(w) : w[i] = w[j] => i = j
    <2>. SUFFICES ASSUME NEW i \in 1 .. Len(w), NEW j \in 1 .. Len(w), w[i] = w[j] PROVE i = j
      OBVIOUS
    <2>0. w[Len(w)] = a
      BY <1>1
    <2>1. CASE i = Len(w) \/ j = Len(w)
      BY <1>4, <2>0, <2>1
    <2>2. CASE i # Len(w) /\ j # Len(w)
      <3>1. i \in 1 .. Len(p) /\ j \in 1 .. Len(p) /\ p[i] = p[j]
        BY <1>4, <2>2
      <3>. QED
        BY <1>0, <3>1
    <2>. QED
      BY <2>1, <2>2
  <1>6. DOMAIN r.heap = {w[i] : i \in 1 .. Len(w)}
    <2>0. DOMAIN r.heap = {p[i] : i \in 1 .. Len(p)} \cup {a}
      BY <1>0 DEF JoinedBack
    <2>1. ASSUME NEW b \in DOMAIN r.heap PROVE \E i \in 1 .. Len(w) : b = w[i]
      <3>1. CASE b = a
        <4>1. Len(p) + 1 \in 1 .. Len(w)
          BY <1>n
        <4>. QED
          BY <1>1, <3>1, <4>1
      <3>2. CASE b # a
        <4>1. PICK i \in 1 .. Len(p) : b = p[i]
          BY <2>0, <3>2
        <4>2. i \in 1 .. Len(w)
          BY <1>n
        <4>. QED
          BY <1>1, <4>1, <4>2
      <3>. QED
        BY <3>1, <3>2
    <2>2. ASSUME NEW i \in 1 .. Len(w) PROVE w[i] \in DOMAIN r.heap
      <3>1. i = Len(w) => w[i] = a
        BY <1>1
      <3>. QED
        BY <1>4, <2>0, <3>1
    <2>. QED
      BY <2>1, <2>2
  <1>7. ASSUME NEW i \in 1 .. Len(w)
        PROVE  /\ r.heap[w[i]] \in ListNode /\ r.heap[w[i]].item = y[i]
               /\ r.heap[w[i]].forward = Fwd(w, i) /\ r.heap[w[i]].backward = Bwd(w, i)
    <2>1. CASE i = Len(w)
      <3>0. w[i] = a /\ y[i] = x /\ i = Len(p) + 1 /\ Fwd(w, i) = NULL
        BY <1>1, <1>3, <2>1 DEF Fwd
      <3>1. Bwd(w, i) = IF Len(p) = 0 THEN NULL ELSE p[Len(p)]
        <4>1. CASE Len(p) = 0
          BY <3>0, <4>1 DEF Bwd
        <4>2. CASE Len(p) # 0
          <5>1. Len(p) \in 1 .. Len(p) /\ i # 1 /\ i - 1 = Len(p)
            BY <1>n, <3>0, <4>2
          <5>2. w[Len(p)] = p[Len(p)]
            BY <1>1, <5>1
          <5>. QED
            BY <4>2, <5>1, <5>2 DEF Bwd
        <4>. QED
          BY <4>1, <4>2
      <3>. QED
        BY <3>0, <3>1 DEF JoinedBack
    <2>2. CASE i # Len(w)
      <3>1. i \in 1 .. Len(p) /\ w[i] = p[i]
        BY <1>4, <2>2
      <3>2. Fwd(w, i) = IF i = Len(p) THEN a ELSE Fwd(p, i)
        <4>1. CASE i = Len(p)
          BY <1>1, <2>2, <4>1 DEF Fwd
        <4>2. CASE i # Len(p)
          <5>1. i + 1 \in 1 .. Len(p)
            BY <1>n, <3>1, <4>2
          <5>2. w[i + 1] = p[i + 1]
            BY <1>1, <5>1
          <5>. QED
            BY <2>2, <4>2, <5>2 DEF Fwd
        <4>. QED
          BY <4>1, <4>2
      <3>3. Bwd(w, i) = Bwd(p, i)
        <4>1. CASE i = 1
          BY <4>1 DEF Bwd
        <4>2. CASE i # 1
          <5>1. i - 1 \in 1 .. Len(p)
            BY <1>n, <3>1, <4>2
          <5>2. w[i - 1] = p[i - 1]
            BY <1>1, <5>1
          <5>. QED
            BY <4>2, <5>2 DEF Bwd
        <4>. QED
          BY <4>1, <4>2
      <3>4. y[i] = l.heap[p[i]].item
        BY <1>2, <1>3, <3>1
      <3>5. /\ r.heap[p[i]] \in ListNode /\ r.heap[p[i]].item = l.heap[p[i]].item
            /\ r.heap[p[i]].forward = IF i = Len(p) THEN a ELSE Fwd(p, i)
            /\ r.heap[p[i]].backward = Bwd(p, i)
        BY <3>1 DEF JoinedBack
      <3>. QED
        BY <3>1, <3>2, <3>3, <3>4, <3>5
    <2>. QED
      BY <2>1, <2>2
  <1>8. Linked(r, w)
    <2>1. /\ {"count", "head", "tail", "heap", "aborted"} \subseteq DOMAIN r
          /\ r.count = Len(w) /\ r.aborted = "no"
      BY <1>n DEF JoinedBack
    <2>2. r.tail = (IF Len(w) = 0 THEN NULL ELSE w[Len(w)])
      BY <1>1, <1>n DEF JoinedBack
    <2>3. r.head = (IF Len(w) = 0 THEN NULL ELSE w[1])
      <3>1. CASE Len(p) = 0
        BY <1>1, <1>n, <3>1 DEF JoinedBack
      <3>2. CASE Len(p) # 0
        <4>1. 1 \in 1 .. Len(p) /\ Len(w) # 0
          BY <1>n, <3>2
        <4>. QED
          BY <1>1, <3>2, <4>1 DEF JoinedBack
      <3>. QED
        BY <3>1, <3>2
    <2>. QED
      BY <1>1, <1>5, <1>6, <1>7, <2>1, <2>2, <2>3 DEF Linked
  <1>9. Items(r, w) = y
    <2>1. y \in [1 .. Len(w) -> Item]
      BY <1>3, <1>n
    <2>2. \A i \in 1 .. Len(w) : r.heap[w[i]].item = y[i]
      BY <1>7
    <2>. QED
      BY <2>1, <2>2 DEF Items
  <1>. QED
    BY <1>8, <1>9 DEF w, q, y

\* What Without is at the two ends.
LEMMA WithoutEnds ==
    ASSUME NEW S, NEW s \in Seq(S), Len(s) # 0
    PROVE  Without(s, 1) = Tail(s) /\ Without(s, Len(s)) = SubSeq(s, 1, Len(s) - 1)
  <1>0. Len(s) \in Nat /\ 1 \in 1 .. Len(s) /\ Len(s) \in 1 .. Len(s)
    OBVIOUS
  <1>1. Without(s, 1) = Tail(s)
    <2>. DEFINE w == Without(s, 1)
                t == Tail(s)
    <2>1. w \in Seq(S) /\ Len(w) = Len(s) - 1 /\ \A i \in 1 .. Len(s) - 1 : w[i] = s[i + 1]
      <3>1. \A i \in 1 .. Len(s) - 1 : ~(i < 1)
        BY <1>0
      <3>. QED
        BY <1>0, <3>1, WithoutIs
    <2>2. t \in Seq(S) /\ Len(t) = Len(s) - 1 /\ \A i \in 1 .. Len(s) - 1 : t[i] = s[i + 1]
      BY <1>0
    <2>. HIDE DEF w, t
    <2>3. w = t
      BY <2>1, <2>2
    <2>. QED
      BY <2>3 DEF w, t
  <1>2. Without(s, Len(s)) = SubSeq(s, 1, Len(s) - 1)
    <2>. DEFINE w == Without(s, Len(s))
                t == SubSeq(s, 1, Len(s) - 1)
    <2>1. w \in Seq(S) /\ Len(w) = Len(s) - 1 /\ \A i \in 1 .. Len(s) - 1 : w[i] = s[i]
      <3>1. \A i \in 1 .. Len(s) - 1 : i < Len(s)
        BY <1>0
      <3>. QED
        BY <1>0, <3>1, WithoutIs
    <2>n. \A n \in 0 .. Len(s) : LET u == SubSeq(s, 1, n) IN
             u \in Seq(S) /\ Len(u) = n /\ \A i \in 1 .. n : u[i] = s[i]
      OBVIOUS
    <2>m. Len(s) - 1 \in 0 .. Len(s)
      BY <1>0
    <2>2. t \in Seq(S) /\ Len(t) = Len(s) - 1 /\ \A i \in 1 .. Len(s) - 1 : t[i] = s[i]
      BY <2>n, <2>m, Zenon
    <2>. HIDE DEF w, t
    <2>3. w = t
      BY <2>1, <2>2
    <2>. QED
      BY <2>3 DEF w, t
  <1>. QED
    BY <1>1, <1>2

\* The inductive invariant: the nodes of the heap are the list's, in an order both
\* directions agree on.
ListInv == \E p : Linked(lst, p)

Stands == IF WellLinked THEN Forward ELSE <<NoItem>>

\* A removal of the node at k is Drop(k).
LEMMA DropStep ==
    ASSUME NEW p, Linked(lst, p), NEW k \in 1 .. Len(p), lst' = List_itr_remove(lst, p[k]), got' = got
    PROVE  ListInv' /\ DQ!Next
  <1>. DEFINE w == Without(p, k)
  <1>1. TakenOut(lst', lst, p, k)
    BY ItrRemoved
  <1>2. Linked(lst', w) /\ Items(lst', w) = Without(Items(lst, p), k)
    BY <1>1, TakenOutLinked
  <1>3. Stands = Items(lst, p) /\ Stands' = Items(lst', w)
    BY <1>2, StandsFor DEF Stands
  <1>4. k \in DOMAIN Stands
    <2>1. DOMAIN Items(lst, p) = 1 .. Len(p)
      BY DEF Items
    <2>. QED
      BY <1>3, <2>1
  <1>5. DQ!Drop(k)
    <2>1. Stands' = SubSeq(Stands, 1, k - 1) \o SubSeq(Stands, k + 1, Len(Stands))
      BY <1>2, <1>3 DEF Without
    <2>. QED
      BY <2>1 DEF DQ!Drop, Stands
  <1>6. ListInv'
    BY <1>2 DEF ListInv
  <1>. QED
    BY <1>4, <1>5, <1>6 DEF DQ!Next, Stands

LEMMA ListStep ==
    ASSUME ListInv, [ListNext]_listVars
    PROVE  ListInv' /\ [DQ!Next]_<<Stands, got>>
  <1>0. PICK p : Linked(lst, p)
    BY DEF ListInv
  <1>s. Stands = Items(lst, p)
    BY <1>0, StandsFor DEF Stands
  <1>q. /\ Stands \in Seq(Item) /\ Len(Stands) = Len(p) /\ Len(p) \in Nat
        /\ \A i \in 1 .. Len(p) : Stands[i] = lst.heap[p[i]].item
    BY <1>0, <1>s, ItemsSeq
  <1>1. ASSUME NEW x \in Item, ListAddFront(x) PROVE ListInv' /\ DQ!Next
    <2>. DEFINE a == Fresh(lst)
    <2>1. a \in 1 .. MaxNodes /\ a \notin DOMAIN lst.heap
      BY <1>1, FreshIs DEF ListAddFront, Room
    <2>2. JoinedFront(lst', lst, p, a, x) /\ got' = got
      BY <1>0, <1>1, FrontAdded DEF ListAddFront, Room
    <2>. HIDE DEF a
    <2>3. Linked(lst', <<a>> \o p) /\ Items(lst', <<a>> \o p) = <<x>> \o Items(lst, p)
      <3>1. InFront(lst', lst, p, a, x)
        BY <1>0, <2>1, <2>2, FrontLinked
      <3>. QED
        BY <3>1 DEF InFront
    <2>4. Stands' = <<x>> \o Stands
      BY <1>s, <2>3, StandsFor DEF Stands
    <2>5. DQ!AddFront(x)
      BY <2>2, <2>4 DEF DQ!AddFront, Stands
    <2>. QED
      BY <2>3, <2>5 DEF ListInv, DQ!Next
  <1>2. ASSUME NEW x \in Item, ListAddBack(x) PROVE ListInv' /\ DQ!Next
    <2>. DEFINE a == Fresh(lst)
    <2>1. a \in 1 .. MaxNodes /\ a \notin DOMAIN lst.heap
      BY <1>2, FreshIs DEF ListAddBack, Room
    <2>2. JoinedBack(lst', lst, p, a, x) /\ got' = got
      BY <1>0, <1>2, BackAdded DEF ListAddBack, Room
    <2>. HIDE DEF a
    <2>3. Linked(lst', Append(p, a)) /\ Items(lst', Append(p, a)) = Append(Items(lst, p), x)
      BY <1>0, <2>1, <2>2, BackLinked
    <2>4. Stands' = Append(Stands, x)
      BY <1>s, <2>3, StandsFor DEF Stands
    <2>5. DQ!AddBack(x)
      BY <2>2, <2>4 DEF DQ!AddBack, Stands
    <2>. QED
      BY <2>3, <2>5 DEF ListInv, DQ!Next
  <1>3. ASSUME NEW x \in Item, ListRemoveFound(x) PROVE ListInv' /\ DQ!Next
    <2>1. PICK k \in 1 .. Len(p) : List_find(lst, x) = p[k]
      BY <1>0, <1>3, FoundIs DEF ListRemoveFound
    <2>2. lst' = List_itr_remove(lst, p[k]) /\ got' = got
      BY <1>3, <2>1 DEF ListRemoveFound
    <2>. QED
      BY <1>0, <2>2, DropStep
  <1>4. ASSUME NEW n \in 0 .. MaxNodes - 1, ListRemoveNth(n) PROVE ListInv' /\ DQ!Next
    <2>0. lst.count = Len(p)
      BY <1>0 DEF Linked
    <2>1. n < Len(p) /\ n \in Nat
      BY <1>4, <2>0, ListAssumption DEF ListRemoveNth, List_size
    <2>2. n + 1 \in 1 .. Len(p) /\ n \in 0 .. Len(p)
      BY <1>q, <2>1
    <2>3. ItrAt(lst)[n] = p[n + 1]
      <3>1. ItrAt(lst) = [m \in 0 .. Len(p) |-> IF m < Len(p) THEN p[m + 1] ELSE NULL]
        BY <1>0, ItrIs
      <3>. QED
        BY <2>1, <2>2, <3>1
    <2>4. lst' = List_itr_remove(lst, p[n + 1]) /\ got' = got
      BY <1>4, <2>3 DEF ListRemoveNth
    <2>. QED
      BY <1>0, <2>2, <2>4, DropStep
  <1>5. ASSUME ListRemoveFirst, Len(p) # 0 PROVE ListInv' /\ DQ!Next
    <2>1. lst.head = p[1] /\ 1 \in 1 .. Len(p) /\ lst.head # NULL
      BY <1>0, <1>5, FirstLast, ListAssumption DEF Linked, NULL
    <2>2. TakenOut(lst', lst, p, 1)
      BY <1>0, <1>5, FirstRemoved DEF ListRemoveFirst
    <2>3. Linked(lst', Without(p, 1)) /\ Items(lst', Without(p, 1)) = Without(Items(lst, p), 1)
      BY <1>0, <2>1, <2>2, TakenOutLinked
    <2>4. Stands' = Tail(Stands)
      <3>1. Stands' = Without(Stands, 1)
        BY <1>s, <2>3, StandsFor DEF Stands
      <3>. QED
        BY <1>5, <1>q, <3>1, WithoutEnds
    <2>5. got' = Head(Stands) /\ Stands # <<>>
      <3>1. got' = lst.heap[p[1]].item
        BY <1>5, <2>1 DEF ListRemoveFirst, List_first
      <3>. QED
        BY <1>5, <1>q, <2>1, <3>1
    <2>6. DQ!TakeFirst
      BY <2>4, <2>5 DEF DQ!TakeFirst, Stands
    <2>. QED
      BY <2>3, <2>6 DEF ListInv, DQ!Next
  <1>6. ASSUME ListRemoveLast, Len(p) # 0 PROVE ListInv' /\ DQ!Next
    <2>1. lst.tail = p[Len(p)] /\ Len(p) \in 1 .. Len(p) /\ lst.tail # NULL
      BY <1>0, <1>6, FirstLast, ListAssumption DEF Linked, NULL
    <2>2. TakenOut(lst', lst, p, Len(p))
      BY <1>0, <1>6, LastRemoved DEF ListRemoveLast
    <2>3. Linked(lst', Without(p, Len(p))) /\ Items(lst', Without(p, Len(p))) = Without(Items(lst, p), Len(p))
      BY <1>0, <2>1, <2>2, TakenOutLinked
    <2>4. Stands' = SubSeq(Stands, 1, Len(Stands) - 1)
      <3>1. Stands' = Without(Stands, Len(Stands))
        BY <1>s, <1>q, <2>3, StandsFor DEF Stands
      <3>. QED
        BY <1>6, <1>q, <3>1, WithoutEnds
    <2>5. got' = Stands[Len(Stands)] /\ Stands # <<>>
      <3>1. got' = lst.heap[p[Len(p)]].item
        BY <1>6, <2>1 DEF ListRemoveLast, List_last
      <3>. QED
        BY <1>6, <1>q, <2>1, <3>1
    <2>6. DQ!TakeLast
      BY <2>4, <2>5 DEF DQ!TakeLast, Stands
    <2>. QED
      BY <2>3, <2>6 DEF ListInv, DQ!Next
  <1>7. ASSUME ListRemoveFirst \/ ListRemoveLast, Len(p) = 0 PROVE ListInv' /\ DQ!Next
    <2>1. lst.count = 0 /\ lst.head = NULL /\ lst.tail = NULL
      BY <1>0, <1>7 DEF Linked
    <2>2. lst' = lst /\ got' = NoItem
      BY <1>7, <2>1 DEF ListRemoveFirst, ListRemoveLast, List_remove_first, List_remove_last, List_first, List_last
    <2>3. Stands' = Stands
      BY <1>0, <1>s, <2>2, StandsFor DEF Stands
    <2>4. Stands = <<>>
      BY <1>7, <1>q
    <2>5. DQ!TakeNone
      BY <2>2, <2>3, <2>4 DEF DQ!TakeNone, Stands
    <2>. QED
      BY <1>0, <2>2, <2>5 DEF ListInv, DQ!Next
  <1>8. ASSUME ListSafeDeinit PROVE ListInv' /\ DQ!Next
    <2>1. Linked(lst', <<>>) /\ Items(lst', <<>>) = <<>> /\ got' = got
      BY <1>0, <1>8, Deinited, NewLinked DEF ListSafeDeinit
    <2>2. Stands' = <<>>
      BY <2>1, StandsFor DEF Stands
    <2>3. DQ!Clear
      BY <2>1, <2>2 DEF DQ!Clear, Stands
    <2>. QED
      BY <2>1, <2>3 DEF ListInv, DQ!Next
  <1>9. ASSUME UNCHANGED listVars PROVE ListInv' /\ UNCHANGED <<Stands, got>>
    <2>1. lst' = lst /\ got' = got
      BY <1>9 DEF listVars
    <2>2. Stands' = Stands
      BY <1>0, <1>s, <2>1, StandsFor DEF Stands
    <2>. QED
      BY <1>0, <2>1, <2>2 DEF ListInv
  <1>. QED
    BY <1>1, <1>2, <1>3, <1>4, <1>5, <1>6, <1>7, <1>8, <1>9 DEF ListNext

\* list.c implements a sequence, for any number of nodes and any items: the walk along the
\* forward pointers is the sequence, every operation of the list has the effect on it that
\* the same operation of Deque has, and the links stay well formed.
THEOREM ListImplementsDeque == ListSpec => ImplementsDeque
  <1>1. ListInit => ListInv /\ DQ!Init
    <2>. SUFFICES ASSUME ListInit PROVE ListInv /\ DQ!Init
      OBVIOUS
    <2>1. Linked(lst, <<>>) /\ Items(lst, <<>>) = <<>> /\ got = NoItem
      BY NewLinked DEF ListInit
    <2>2. Stands = <<>>
      BY <2>1, StandsFor DEF Stands
    <2>. QED
      BY <2>1, <2>2 DEF ListInv, DQ!Init, Stands
  <1>2. ListInv /\ [ListNext]_listVars => ListInv'
    BY ListStep
  <1>3. ListInv /\ [ListNext]_listVars => [DQ!Next]_<<Stands, got>>
    BY ListStep
  <1>. QED
    BY <1>1, <1>2, <1>3, PTL DEF ListSpec, ImplementsDeque, DQ!Spec, Stands
=============================================================================
