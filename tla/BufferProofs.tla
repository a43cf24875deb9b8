---------------------------- MODULE BufferProofs ----------------------------
(***************************************************************************)
(* The two byte buffers of common/, for every content and capacity:        *)
(* neither loses, repeats or reorders a byte.                              *)
(***************************************************************************)
EXTENDS IOBuffer, Cbuffer, TLAPS

(* The IOBuffer. *)

\* A block of memory with a span of unread bytes inside it, which starts at mem_p when empty.
IsIob(b) ==
    /\ {"mem", "cap", "ptr", "rem", "aborted"} \subseteq DOMAIN b
    /\ b.cap \in Nat /\ b.ptr \in Nat /\ b.rem \in Nat
    /\ b.mem \in [0 .. b.cap -> Int]
    /\ b.ptr + b.rem <= b.cap
    /\ b.rem = 0 => b.ptr = 0

\* Bytes of a text: no terminator among them.
Text == Int \ {Term}

\* The unread bytes of the buffer are those of s, and a terminator is behind them.
Holds(b, s) ==
    /\ s \in Seq(Text) /\ b.rem = Len(s)
    /\ \A i \in 1 .. Len(s) : b.mem[b.ptr + i - 1] = s[i]
    /\ Alive(b) /\ Len(s) > 0 => b.mem[b.ptr + b.rem] = Term

Good(b, s) == IsIob(b) /\ Holds(b, s)

IobInv == Good(iobuf, unread) /\ iobuf.aborted \in {"no", "sprintf"}

LEMMA DataIs ==
    ASSUME NEW b, NEW s, Good(b, s)
    PROVE  IOBuffer_data(b) = s
  <1>1. s \in [1 .. Len(s) -> Text]
    BY DEF Good, Holds
  <1>. QED
    BY <1>1 DEF Good, Holds, IsIob, IOBuffer_data

LEMMA CstrIs ==
    ASSUME NEW b, NEW s, Good(b, s), Alive(b), s # <<>>
    PROVE  IOBuffer_cstr(b) = s
  <1>. DEFINE ends == {i \in b.ptr .. b.cap : b.mem[i] = Term} \cup {b.cap + 1}
              end == CHOOSE i \in ends : \A j \in ends : i <= j
              last == b.ptr + b.rem
  <1>1. s \in Seq(Text) /\ Len(s) > 0 /\ s \in [1 .. Len(s) -> Text]
    BY DEF Good, Holds
  <1>2. last \in ends /\ last \in Nat /\ ends \subseteq Nat
    BY <1>1 DEF Good, Holds, IsIob
  <1>3. ASSUME NEW j \in ends PROVE last <= j
    <2>1. CASE j = b.cap + 1
      BY <2>1 DEF Good, IsIob
    <2>2. CASE j \in b.ptr .. b.cap /\ b.mem[j] = Term /\ j < last
      <3>. DEFINE i == j - b.ptr + 1
      <3>0. b.ptr \in Nat /\ b.cap \in Nat /\ b.rem = Len(s) /\ Len(s) \in Nat
        BY <1>1 DEF Good, Holds, IsIob
      <3>1. i \in 1 .. Len(s) /\ b.ptr + i - 1 = j
        BY <2>2, <3>0
      <3>2. b.mem[j] = s[i] /\ s[i] \in Text
        BY <3>1, <1>1 DEF Good, Holds
      <3>. QED
        BY <3>2, <2>2 DEF Text
    <2>. QED
      BY <2>1, <2>2, <1>2
  <1>4. end \in ends /\ \A j \in ends : end <= j
    <2>. HIDE DEF ends, last
    <2>1. \E i \in ends : \A j \in ends : i <= j
      BY <1>2, <1>3
    <2>. QED
      BY <2>1
  <1>5. end = last
    <2>. HIDE DEF ends, last, end
    <2>. QED
      BY <1>2, <1>3, <1>4
  <1>6. IOBuffer_cstr(b) = [i \in 1 .. end - b.ptr |-> b.mem[b.ptr + i - 1]]
    BY DEF IOBuffer_cstr
  <1>7. end - b.ptr = Len(s)
    <2>1. last - b.ptr = Len(s)
      BY DEF Good, Holds, IsIob
    <2>. HIDE DEF end, last
    <2>. QED
      BY <1>5, <2>1
  <1>8. IOBuffer_cstr(b) = [i \in 1 .. Len(s) |-> b.mem[b.ptr + i - 1]]
    BY <1>6, <1>7
  <1>9. \A i \in 1 .. Len(s) : b.mem[b.ptr + i - 1] = s[i]
    BY DEF Good, Holds
  <1>. HIDE DEF ends, end, last
  <1>. QED
    BY <1>1, <1>8, <1>9

\* IOBuffer_commit makes the bytes written behind the unread ones unread too, when these
\* start at mem_p.
LEMMA Committed ==
    ASSUME NEW c, IsIob(c), Alive(c), c.ptr = 0,
           NEW s \in Seq(Text), NEW t \in Seq(Text), Len(t) > 0,
           c.rem = Len(s), Len(s) + Len(t) <= c.cap,
           \A i \in 1 .. Len(s) : c.mem[i - 1] = s[i],
           \A i \in 1 .. Len(t) : c.mem[Len(s) + i - 1] = t[i]
    PROVE  Good(IOBuffer_commit(c, Len(t)), s \o t) /\ Alive(IOBuffer_commit(c, Len(t)))
  <1>. DEFINE r == IOBuffer_commit(c, Len(t))
              e == Len(s) + Len(t)
  <1>1. r = [c EXCEPT !.rem = @ + Len(t), !.mem[c.rem + Len(t)] = Term]
    BY DEF IOBuffer_commit, Asserting
  <1>4. r.mem = [c.mem EXCEPT ![e] = Term] /\ r.cap = c.cap /\ r.ptr = 0 /\ r.rem = e /\ r.aborted = "no"
         /\ DOMAIN r = DOMAIN c
    BY <1>1 DEF Alive, IsIob
  <1>5. c.mem \in [0 .. c.cap -> Int] /\ e \in 0 .. c.cap /\ c.cap \in Nat
    BY DEF IsIob
  <1>6. IsIob(r)
    <2>1. r.mem \in [0 .. r.cap -> Int]
      BY <1>4, <1>5 DEF Term
    <2>. QED
      BY <1>4, <1>5, <2>1 DEF IsIob
  <1>7. s \o t \in Seq(Text) /\ Len(s \o t) = e
    OBVIOUS
  <1>8. ASSUME NEW i \in 1 .. e PROVE r.mem[i - 1] = (s \o t)[i]
    <2>1. r.mem[i - 1] = c.mem[i - 1]
      BY <1>4, <1>5
    <2>2. CASE i <= Len(s)
      BY <2>1, <2>2
    <2>3. CASE i > Len(s)
      <3>1. i - Len(s) \in 1 .. Len(t) /\ Len(s) + (i - Len(s)) - 1 = i - 1
        BY <2>3
      <3>2. c.mem[i - 1] = t[i - Len(s)]
        BY <3>1
      <3>. QED
        BY <2>1, <2>3, <3>2
    <2>. QED
      BY <2>2, <2>3
  <1>9. r.mem[e] = Term
    BY <1>4, <1>5
  <1>10. Holds(r, s \o t)
    BY <1>4, <1>7, <1>8, <1>9 DEF Holds
  <1>. QED
    BY <1>4, <1>6, <1>10 DEF Good, Alive

\* c is b but for the bytes of t from the offset at on, as far as they fit.
CopyOf(c, b, at, t) ==
    /\ IsIob(c) /\ c.cap = b.cap /\ c.ptr = b.ptr /\ c.rem = b.rem /\ c.aborted = b.aborted
    /\ \A i \in 0 .. b.cap : i < at \/ i > at + Len(t) - 1 => c.mem[i] = b.mem[i]
    /\ \A i \in 1 .. Len(t) : at + i - 1 <= b.cap => c.mem[at + i - 1] = t[i]

\* memcpy behind the unread bytes leaves them, and fills as much of the block as it is given.
LEMMA Copied ==
    ASSUME NEW b, IsIob(b), NEW at \in Nat, NEW t \in Seq(Int)
    PROVE  CopyOf(memcpy(b, at, t), b, at, t)
  <1>. DEFINE r == memcpy(b, at, t)
              m == [i \in 0 .. b.cap |-> IF i \in at .. at + Len(t) - 1 THEN t[i - at + 1] ELSE b.mem[i]]
  <1>1. r.mem = m /\ r.cap = b.cap /\ r.ptr = b.ptr /\ r.rem = b.rem /\ r.aborted = b.aborted
         /\ DOMAIN r = DOMAIN b
    BY DEF memcpy, IsIob
  <1>2. m \in [0 .. b.cap -> Int]
    <2>1. ASSUME NEW i \in 0 .. b.cap PROVE m[i] \in Int
      <3>1. CASE i \in at .. at + Len(t) - 1
        <4>1. i - at + 1 \in 1 .. Len(t)
          BY <3>1
        <4>. QED
          BY <3>1, <4>1
      <3>2. CASE i \notin at .. at + Len(t) - 1
        BY <3>2 DEF IsIob
      <3>. QED
        BY <3>1, <3>2
    <2>. QED
      BY <2>1
  <1>3. ASSUME NEW i \in 1 .. Len(t), at + i - 1 <= b.cap PROVE m[at + i - 1] = t[i]
    <2>1. at + i - 1 \in 0 .. b.cap /\ at + i - 1 \in at .. at + Len(t) - 1 /\ (at + i - 1) - at + 1 = i
      BY <1>3 DEF IsIob
    <2>. QED
      BY <2>1
  <1>4. ASSUME NEW i \in 0 .. b.cap, i < at \/ i > at + Len(t) - 1 PROVE m[i] = b.mem[i]
    <2>1. i \notin at .. at + Len(t) - 1
      BY <1>4
    <2>. QED
      BY <2>1
  <1>5. IsIob(r)
    <2>. HIDE DEF m, r
    <2>. QED
      BY <1>1, <1>2 DEF IsIob
  <1>. HIDE DEF m
  <1>. QED
    BY <1>1, <1>3, <1>4, <1>5 DEF CopyOf

\* Bytes are added to a buffer whose unread bytes start at mem_p: written with memcpy, t or
\* more, and committed.
LEMMA Written ==
    ASSUME NEW b, NEW s, Good(b, s), Alive(b), b.ptr = 0,
           NEW t \in Seq(Text), Len(t) > 0, Len(t) <= IOBuffer_space_len(b),
           NEW u \in Seq(Int), Len(u) >= Len(t), \A i \in 1 .. Len(t) : u[i] = t[i]
    PROVE  LET r == IOBuffer_commit(memcpy(b, IOBuffer_space(b), u), Len(t)) IN
           Good(r, s \o t) /\ Alive(r)
  <1>. DEFINE c == memcpy(b, IOBuffer_space(b), u)
  <1>0. s \in Seq(Text) /\ b.rem = Len(s) /\ b.cap \in Nat /\ IsIob(b)
    BY DEF Good, Holds, IsIob
  <1>1. IOBuffer_space(b) = Len(s) /\ Len(s) + Len(t) <= b.cap /\ Len(s) \in Nat
    BY <1>0 DEF IOBuffer_space, IOBuffer_space_len
  <1>2. /\ IsIob(c) /\ c.cap = b.cap /\ c.ptr = 0 /\ c.rem = Len(s) /\ Alive(c)
        /\ \A i \in 0 .. b.cap : i < Len(s) \/ i > Len(s) + Len(u) - 1 => c.mem[i] = b.mem[i]
        /\ \A i \in 1 .. Len(u) : Len(s) + i - 1 <= b.cap => c.mem[Len(s) + i - 1] = u[i]
    <2>1. /\ IsIob(c) /\ c.cap = b.cap /\ c.ptr = b.ptr /\ c.rem = b.rem /\ c.aborted = b.aborted
          /\ \A i \in 0 .. b.cap : i < Len(s) \/ i > Len(s) + Len(u) - 1 => c.mem[i] = b.mem[i]
          /\ \A i \in 1 .. Len(u) : Len(s) + i - 1 <= b.cap => c.mem[Len(s) + i - 1] = u[i]
      <3>1. c = memcpy(b, Len(s), u)
        BY <1>1
      <3>2. Len(s) \in Nat /\ IsIob(b)
        BY <1>0, <1>1
      <3>. HIDE DEF c
      <3>3. CopyOf(c, b, Len(s), u)
        BY <3>1, <3>2, Copied
      <3>. QED
        BY <3>3 DEF CopyOf
    <2>. HIDE DEF c
    <2>. QED
      BY <1>0, <2>1 DEF Alive
  <1>3. ASSUME NEW i \in 1 .. Len(s) PROVE c.mem[i - 1] = s[i]
    <2>1. i - 1 \in 0 .. b.cap /\ i - 1 < Len(s)
      BY <1>0, <1>1
    <2>2. b.mem[0 + i - 1] = s[i] /\ 0 + i - 1 = i - 1
      BY DEF Good, Holds
    <2>. HIDE DEF c
    <2>. QED
      BY <1>2, <2>1, <2>2
  <1>4. ASSUME NEW i \in 1 .. Len(t) PROVE c.mem[Len(s) + i - 1] = t[i]
    <2>1. i \in 1 .. Len(u) /\ Len(s) + i - 1 <= b.cap
      BY <1>0, <1>1
    <2>. HIDE DEF c
    <2>. QED
      BY <1>2, <2>1
  <1>. HIDE DEF c
  <1>5. Good(IOBuffer_commit(c, Len(t)), s \o t) /\ Alive(IOBuffer_commit(c, Len(t)))
    BY <1>0, <1>1, <1>2, <1>3, <1>4, Committed
  <1>. QED
    BY <1>5 DEF c

LEMMA Added ==
    ASSUME NEW b, NEW s, Good(b, s), Alive(b), b.ptr = 0,
           NEW t \in Seq(Text), Len(t) > 0, Len(t) <= IOBuffer_space_len(b)
    PROVE  Good(IOBuffer_data_add(b, t), s \o t) /\ Alive(IOBuffer_data_add(b, t))
  <1>1. t \in Seq(Int) /\ Len(t) >= Len(t) /\ \A i \in 1 .. Len(t) : t[i] = t[i]
    BY DEF Text
  <1>2. LET r == IOBuffer_commit(memcpy(b, IOBuffer_space(b), t), Len(t)) IN
        Good(r, s \o t) /\ Alive(r)
    BY <1>1, Written
  <1>3. IOBuffer_space_len(b) >= Len(t)
    BY DEF Good, IsIob, IOBuffer_space_len
  <1>4. IOBuffer_data_add(b, t) = IOBuffer_commit(memcpy(b, IOBuffer_space(b), t), Len(t))
    BY <1>3 DEF IOBuffer_data_add, Asserting
  <1>. QED
    BY <1>2, <1>4

LEMMA NewGood ==
    ASSUME NEW n \in Nat
    PROVE  /\ Good(IOBuffer_init(n), <<>>) /\ Alive(IOBuffer_init(n)) /\ IOBuffer_init(n).ptr = 0
           /\ IOBuffer_init(n).cap = n /\ IOBuffer_space_len(IOBuffer_init(n)) = n
           /\ \A i \in 0 .. n : IOBuffer_init(n).mem[i] = Uninit
  <1>. DEFINE r == IOBuffer_init(n)
  <1>1. r.mem = [i \in 0 .. n |-> Uninit] /\ r.cap = n /\ r.ptr = 0 /\ r.rem = 0 /\ r.aborted = "no"
         /\ DOMAIN r = {"mem", "cap", "ptr", "rem", "aborted"}
    BY DEF IOBuffer_init
  <1>2. [i \in 0 .. n |-> Uninit] \in [0 .. n -> Int]
    BY DEF Uninit
  <1>. HIDE DEF r
  <1>3. IsIob(r)
    BY <1>1, <1>2 DEF IsIob
  <1>4. Holds(r, <<>>)
    BY <1>1 DEF Holds
  <1>5. IOBuffer_space_len(r) = n
    BY <1>1 DEF IOBuffer_space_len
  <1>. QED
    BY <1>1, <1>3, <1>4, <1>5 DEF Good, Alive, r

LEMMA FromBuf ==
    ASSUME NEW s \in Seq(Text), Len(s) > 0
    PROVE  Good(IOBuffer_from_buf(s), s) /\ Alive(IOBuffer_from_buf(s))
  <1>. DEFINE c == IOBuffer_init(2 * Len(s))
  <1>1. 2 * Len(s) \in Nat /\ Len(s) <= 2 * Len(s)
    OBVIOUS
  <1>2. Good(c, <<>>) /\ Alive(c) /\ c.ptr = 0 /\ Len(s) <= IOBuffer_space_len(c)
    BY <1>1, NewGood
  <1>. HIDE DEF c
  <1>3. Good(IOBuffer_data_add(c, s), <<>> \o s) /\ Alive(IOBuffer_data_add(c, s))
    BY <1>2, Added
  <1>4. <<>> \o s = s
    OBVIOUS
  <1>5. IOBuffer_from_buf(s) = IOBuffer_data_add(c, s)
    BY DEF IOBuffer_from_buf, IOBuffer_new_with_capacity, c
  <1>. QED
    BY <1>3, <1>4, <1>5

LEMMA Consumed ==
    ASSUME NEW b, NEW s, Good(b, s), Alive(b), NEW n \in 0 .. b.rem
    PROVE  /\ Good(IOBuffer_consume(b, n), SubSeq(s, n + 1, Len(s)))
           /\ Alive(IOBuffer_consume(b, n))
  <1>. DEFINE r == IOBuffer_consume(b, n)
              u == SubSeq(s, n + 1, Len(s))
  <1>1. s \in Seq(Text) /\ b.rem = Len(s) /\ IsIob(b) /\ b.cap \in Nat /\ b.ptr \in Nat /\ Len(s) \in Nat
    BY DEF Good, Holds, IsIob
  <1>2. b.ptr + n <= b.cap /\ n <= b.rem /\ n \in Nat
    BY <1>1 DEF IsIob
  <1>3. r = [b EXCEPT !.ptr = IF n = b.rem THEN 0 ELSE @ + n, !.rem = @ - n]
    BY <1>2 DEF IOBuffer_consume, Asserting
  <1>4. /\ r.ptr = (IF n = b.rem THEN 0 ELSE b.ptr + n) /\ r.rem = b.rem - n
        /\ r.mem = b.mem /\ r.cap = b.cap /\ r.aborted = b.aborted /\ DOMAIN r = DOMAIN b
    BY <1>1, <1>3 DEF IsIob
  <1>. HIDE DEF r
  <1>5. IsIob(r)
    BY <1>1, <1>2, <1>4 DEF IsIob
  <1>6. u \in Seq(Text) /\ Len(u) = Len(s) - n /\ \A i \in 1 .. Len(u) : u[i] = s[n + i]
    BY <1>1, <1>2
  <1>. HIDE DEF u
  <1>7. ASSUME NEW i \in 1 .. Len(u) PROVE r.mem[r.ptr + i - 1] = u[i]
    <2>1. n # b.rem /\ n + i \in 1 .. Len(s) /\ r.ptr + i - 1 = b.ptr + (n + i) - 1
      BY <1>1, <1>2, <1>4, <1>6
    <2>2. b.mem[b.ptr + (n + i) - 1] = s[n + i]
      BY <2>1 DEF Good, Holds
    <2>. QED
      BY <1>4, <1>6, <2>1, <2>2
  <1>8. Len(u) > 0 => r.mem[r.ptr + r.rem] = Term
    <2>. HAVE Len(u) > 0
    <2>0. n # b.rem /\ Len(s) > 0
      BY <1>1, <1>2, <1>6
    <2>1. r.ptr + r.rem = b.ptr + b.rem /\ Len(s) > 0
      BY <1>1, <1>2, <1>4, <2>0
    <2>. QED
      BY <1>4, <2>1 DEF Good, Holds
  <1>9. Good(r, u)
    BY <1>1, <1>4, <1>5, <1>6, <1>7, <1>8 DEF Good, Holds
  <1>. QED
    BY <1>4, <1>9 DEF Alive, r, u

LEMMA ResetGood ==
    ASSUME NEW b, IsIob(b), Alive(b)
    PROVE  Good(IOBuffer_reset(b), <<>>) /\ Alive(IOBuffer_reset(b))
  <1>. DEFINE r == IOBuffer_reset(b)
  <1>1. r.ptr = 0 /\ r.rem = 0 /\ r.mem = b.mem /\ r.cap = b.cap /\ r.aborted = b.aborted
         /\ DOMAIN r = DOMAIN b
    BY DEF IOBuffer_reset, IsIob
  <1>. HIDE DEF r
  <1>2. IsIob(r) /\ Holds(r, <<>>)
    BY <1>1 DEF IsIob, Holds
  <1>. QED
    BY <1>1, <1>2 DEF Good, Alive, r

LEMMA Duplicated ==
    ASSUME NEW b, NEW s, Good(b, s), Alive(b)
    PROVE  Good(IOBuffer_dup(b), s) /\ Alive(IOBuffer_dup(b))
  <1>. DEFINE r == IOBuffer_dup(b)
              t == [i \in 1 .. b.cap + 1 |-> b.mem[i - 1]]
              c == memcpy(IOBuffer_init(b.cap), 0, t)
  <1>1. IsIob(b) /\ b.cap \in Nat /\ b.ptr \in Nat /\ b.rem \in Nat /\ b.mem \in [0 .. b.cap -> Int]
         /\ b.ptr + b.rem <= b.cap
    BY DEF Good, IsIob
  <1>2. Len(t) = b.cap + 1 /\ t \in Seq(Int) /\ 0 \in Nat
    <2>1. b.cap + 1 \in Nat /\ \A i \in 1 .. b.cap + 1 : i - 1 \in 0 .. b.cap
      BY <1>1
    <2>2. t \in [1 .. b.cap + 1 -> Int]
      BY <1>1, <2>1
    <2>. HIDE DEF t
    <2>. QED
      BY <2>1, <2>2
  <1>3. IsIob(IOBuffer_init(b.cap)) /\ IOBuffer_init(b.cap).cap = b.cap /\ IOBuffer_init(b.cap).aborted = "no"
    BY <1>1, NewGood DEF Good, Alive
  <1>4. CopyOf(c, IOBuffer_init(b.cap), 0, t)
    <2>. HIDE DEF t
    <2>. QED
      BY <1>2, <1>3, Copied
  <1>5. r = [c EXCEPT !.ptr = b.ptr, !.rem = b.rem]
    BY DEF IOBuffer_dup, IOBuffer_new_with_capacity
  <1>6. \A i \in 1 .. b.cap + 1 : t[i] = b.mem[i - 1]
    OBVIOUS
  <1>. HIDE DEF r, t, c
  <1>7. IsIob(c) /\ c.cap = b.cap /\ c.aborted = "no"
    BY <1>3, <1>4 DEF CopyOf
  <1>8. r.ptr = b.ptr /\ r.rem = b.rem /\ r.mem = c.mem /\ r.cap = c.cap /\ r.aborted = c.aborted
         /\ DOMAIN r = DOMAIN c
    BY <1>5, <1>7 DEF IsIob
  <1>9. ASSUME NEW i \in 0 .. b.cap PROVE r.mem[i] = b.mem[i]
    <2>0. i + 1 \in 1 .. b.cap + 1 /\ 0 + (i + 1) - 1 = i /\ (i + 1) - 1 = i /\ 0 + (i + 1) - 1 <= b.cap
      BY <1>1
    <2>1. i + 1 \in 1 .. b.cap + 1 /\ 0 + (i + 1) - 1 = i /\ (i + 1) - 1 = i /\ i + 1 \in 1 .. Len(t)
           /\ 0 + (i + 1) - 1 <= b.cap
      BY <1>2, <2>0
    <2>2. c.mem[i] = t[i + 1]
      BY <1>3, <1>4, <2>1 DEF CopyOf
    <2>3. t[i + 1] = b.mem[i]
      BY <1>6, <2>1
    <2>. QED
      BY <1>8, <2>2, <2>3
  <1>10. r.mem \in [0 .. r.cap -> Int] /\ IsIob(r)
    <2>1. c.mem \in [0 .. c.cap -> Int] /\ {"mem", "cap", "ptr", "rem", "aborted"} \subseteq DOMAIN c
      BY <1>7 DEF IsIob
    <2>. QED
      BY <1>1, <1>7, <1>8, <2>1 DEF IsIob
  <1>11. ASSUME NEW i \in 1 .. b.rem + 1 PROVE r.mem[r.ptr + i - 1] = b.mem[b.ptr + i - 1]
    <2>1. b.ptr + i - 1 \in 0 .. b.cap
      BY <1>1
    <2>. QED
      BY <1>8, <1>9, <2>1
  <1>12. s \in Seq(Text) /\ b.rem = Len(s) /\ Len(s) \in Nat
    BY DEF Good, Holds
  <1>13. ASSUME NEW i \in 1 .. Len(s) PROVE r.mem[r.ptr + i - 1] = s[i]
    <2>1. i \in 1 .. b.rem + 1
      BY <1>12
    <2>. QED
      BY <1>11, <2>1 DEF Good, Holds
  <1>14. Len(s) > 0 => r.mem[r.ptr + r.rem] = Term
    <2>1. r.ptr + r.rem = b.ptr + b.rem /\ b.ptr + b.rem \in 0 .. b.cap
      BY <1>1, <1>8
    <2>. QED
      BY <1>9, <2>1 DEF Good, Holds
  <1>15. Holds(r, s)
    BY <1>8, <1>12, <1>13, <1>14 DEF Holds
  <1>. QED
    BY <1>7, <1>8, <1>10, <1>15 DEF Good, Alive, r

LEMMA Consolidated ==
    ASSUME NEW b, NEW s, Good(b, s), Alive(b), Len(s) > 0
    PROVE  Good(IOBuffer_consolidate_space(b), s) /\ Alive(IOBuffer_consolidate_space(b))
  <1>. DEFINE c == IOBuffer_init(b.cap)
              tmp == IOBuffer_data_add(c, s)
  <1>1. s \in Seq(Text) /\ Len(s) \in Nat /\ b.cap \in Nat /\ Len(s) <= b.cap
    BY DEF Good, Holds, IsIob
  <1>2. Good(c, <<>>) /\ Alive(c) /\ c.ptr = 0 /\ IOBuffer_space_len(c) = b.cap
    BY <1>1, NewGood
  <1>. HIDE DEF c
  <1>3. Good(tmp, <<>> \o s) /\ Alive(tmp)
    BY <1>1, <1>2, Added
  <1>4. <<>> \o s = s
    BY <1>1
  <1>5. IOBuffer_data(b) = s
    BY DataIs
  <1>6. IOBuffer_consolidate_space(b) = Asserting(b, Alive(tmp), tmp.aborted, tmp)
    BY <1>5 DEF IOBuffer_consolidate_space, IOBuffer_new_with_capacity, c
  <1>7. IOBuffer_consolidate_space(b) = tmp
    BY <1>3, <1>6 DEF Asserting
  <1>. QED
    BY <1>3, <1>4, <1>7

\* A text that fits with its terminator is added.  One that does not leaves the program
\* stopped, with the unread bytes as they were, or a new block with as many bytes as the text.
LEMMA Printed ==
    ASSUME NEW b, NEW s, Good(b, s), Alive(b), b.ptr = 0, NEW t \in Seq(Text), Len(t) > 0
    PROVE  /\ Len(t) < IOBuffer_space_len(b) =>
                 Good(IOBuffer_sprintf(b, t), s \o t) /\ Alive(IOBuffer_sprintf(b, t))
           /\ ~(Len(t) < IOBuffer_space_len(b)) =>
                 /\ \E u : Good(IOBuffer_sprintf(b, t), u)
                 /\ IOBuffer_sprintf(b, t).aborted \in {"no", "sprintf"}
  <1>. DEFINE n == Len(t)
              len1 == IOBuffer_space_len(b)
              part == SubSeq(t, 1, len1 - 1) \o <<Term>>
              put == IF len1 = 0 THEN b ELSE memcpy(b, IOBuffer_space(b), part)
              bigger == IOBuffer_expand_and_reset(put, 2 * n)
              r == IOBuffer_sprintf(b, t)
  <1>0. s \in Seq(Text) /\ b.rem = Len(s) /\ b.cap \in Nat /\ IsIob(b) /\ Len(s) \in Nat
    BY DEF Good, Holds, IsIob
  <1>1. len1 \in Nat /\ n \in Nat /\ IOBuffer_space(b) = Len(s) /\ IOBuffer_space(b) \in Nat
    BY <1>0 DEF IOBuffer_space_len, IOBuffer_space, IsIob
  <1>2. CASE n < len1
    <2>. DEFINE u == t \o <<Term>>
    <2>1. u \in Seq(Int) /\ Len(u) >= Len(t) /\ \A i \in 1 .. Len(t) : u[i] = t[i]
      BY DEF Text, Term
    <2>2. Len(t) <= IOBuffer_space_len(b)
      BY <1>1, <1>2
    <2>3. LET c == IOBuffer_commit(memcpy(b, IOBuffer_space(b), u), Len(t)) IN
          Good(c, s \o t) /\ Alive(c)
      <3>. HIDE DEF u
      <3>. QED
        BY <2>1, <2>2, Written
    <2>4. ~(n > len1 - 1)
      BY <1>1, <1>2
    <2>5. r = IOBuffer_commit(memcpy(b, IOBuffer_space(b), u), n)
      BY <2>4 DEF IOBuffer_sprintf
    <2>. QED
      BY <1>2, <2>3, <2>5
  <1>3. CASE ~(n < len1)
    <2>1. n > len1 - 1
      BY <1>1, <1>3
    <2>2. r = Asserting(bigger, IOBuffer_space_len(bigger) > n, "sprintf", IOBuffer_commit(bigger, n))
      BY <2>1 DEF IOBuffer_sprintf
    <2>3. IsIob(put) /\ put.cap = b.cap /\ put.ptr = 0 /\ put.rem = b.rem /\ Alive(put)
           /\ \A i \in 1 .. Len(s) : put.mem[i - 1] = s[i]
      <3>0. \A i \in 1 .. Len(s) : b.mem[i - 1] = s[i] /\ i - 1 \in 0 .. b.cap /\ i - 1 < Len(s)
        BY <1>0 DEF Good, Holds, IsIob
      <3>1. CASE len1 = 0
        BY <1>0, <3>0, <3>1
      <3>2. CASE len1 # 0
        <4>1. len1 - 1 \in Nat /\ SubSeq(t, 1, len1 - 1) \in Seq(Int)
          BY <1>1, <3>2, <2>1 DEF Text
        <4>2. part \in Seq(Int)
          BY <4>1 DEF Term
        <4>3. put = memcpy(b, Len(s), part)
          BY <1>1, <3>2
        <4>. HIDE DEF part, put
        <4>4. CopyOf(put, b, Len(s), part)
          BY <1>0, <4>2, <4>3, Copied
        <4>. QED
          BY <1>0, <3>0, <4>4 DEF CopyOf, Alive
      <3>. QED
        BY <3>1, <3>2
    <2>. HIDE DEF put
    <2>4. CASE 2 * n > put.cap
      <3>. DEFINE u == [i \in 1 .. n |-> Uninit]
      <3>1. bigger = IOBuffer_init(2 * n) /\ 2 * n \in Nat
        BY <2>4 DEF IOBuffer_expand_and_reset
      <3>2. /\ Good(bigger, <<>>) /\ Alive(bigger) /\ bigger.ptr = 0 /\ bigger.cap = 2 * n
            /\ IOBuffer_space_len(bigger) = 2 * n /\ \A i \in 0 .. 2 * n : bigger.mem[i] = Uninit
        BY <3>1, NewGood
      <3>. HIDE DEF bigger
      <3>3. u \in [1 .. n -> Text] /\ n \in Nat
        BY DEF Text, Uninit, Term
      <3>4. u \in Seq(Text) /\ Len(u) = n /\ \A i \in 1 .. Len(u) : u[i] = Uninit
        BY <3>3
      <3>. HIDE DEF u
      <3>5. IsIob(bigger) /\ bigger.rem = Len(<<>>) /\ <<>> \in Seq(Text) /\ Len(<<>>) = 0
        BY <3>2 DEF Good, Holds
      <3>6. Len(<<>>) + Len(u) <= bigger.cap /\ Len(u) > 0
        BY <3>2, <3>4, <3>5
      <3>7. \A i \in 1 .. Len(u) : bigger.mem[Len(<<>>) + i - 1] = u[i]
        <4>. TAKE i \in 1 .. Len(u)
        <4>1. Len(<<>>) + i - 1 \in 0 .. 2 * n
          BY <3>4, <3>5
        <4>. QED
          BY <3>2, <3>4, <4>1
      <3>8. \A i \in 1 .. Len(<<>>) : bigger.mem[i - 1] = <<>>[i]
        BY <3>5
      <3>9. Good(IOBuffer_commit(bigger, Len(u)), <<>> \o u) /\ Alive(IOBuffer_commit(bigger, Len(u)))
        BY <3>2, <3>4, <3>5, <3>6, <3>7, <3>8, Committed
      <3>10. r = IOBuffer_commit(bigger, Len(u))
        <4>1. 2 * n > n
          OBVIOUS
        <4>. QED
          BY <2>2, <3>2, <3>4, <4>1 DEF Asserting
      <3>. HIDE DEF r
      <3>. QED
        BY <1>3, <3>9, <3>10 DEF Alive, r
    <2>5. CASE ~(2 * n > put.cap)
      <3>1. bigger = put
        BY <2>5 DEF IOBuffer_expand_and_reset
      <3>2. IOBuffer_space_len(put) = len1
        BY <2>3 DEF IOBuffer_space_len
      <3>3. r = Abort(put, "sprintf")
        BY <1>1, <1>3, <2>2, <2>3, <3>1, <3>2 DEF Asserting
      <3>. HIDE DEF r, bigger
      <3>4. r.mem = put.mem /\ r.cap = put.cap /\ r.ptr = put.ptr /\ r.rem = put.rem
             /\ r.aborted = "sprintf" /\ DOMAIN r = DOMAIN put
        BY <2>3, <3>3 DEF Abort, IsIob
      <3>5. IsIob(r)
        BY <2>3, <3>4 DEF IsIob
      <3>6. Holds(r, s)
        BY <1>0, <2>3, <3>4 DEF Holds, Alive
      <3>. QED
        BY <1>3, <3>4, <3>5, <3>6 DEF Good, r
    <2>. QED
      BY <2>4, <2>5
  <1>. QED
    BY <1>2, <1>3

LEMMA IntactOf ==
    ASSUME IobInv
    PROVE  UnreadIntact
  <1>1. Good(iobuf, unread) /\ IOBuffer_data(iobuf) = unread
    BY DataIs DEF IobInv
  <1>2. ASSUME unread # <<>> PROVE IOBuffer_equal(iobuf, IOBuffer_from_buf(unread))
    <2>. DEFINE y == IOBuffer_from_buf(unread)
    <2>1. unread \in Seq(Text) /\ Len(unread) > 0 /\ iobuf.rem = Len(unread)
      BY <1>1, <1>2 DEF Good, Holds
    <2>2. Good(y, unread)
      BY <2>1, FromBuf
    <2>. HIDE DEF y
    <2>3. IOBuffer_data(y) = unread /\ y.rem = Len(unread)
      BY <2>2, DataIs DEF Good, Holds
    <2>4. IOBuffer_equal(iobuf, y)
      BY <1>1, <2>1, <2>3 DEF IOBuffer_equal
    <2>. QED
      BY <2>4 DEF y
  <1>. QED
    BY <1>1, <1>2, CstrIs DEF IobInv, UnreadIntact

LEMMA ChunkIsText ==
    ASSUME NEW k, NEW s \in Chunk(k), k \in Nat
    PROVE  s \in Seq(Text) /\ Len(s) > 0
  <1>1. PICK n \in 1 .. k : s \in [1 .. n -> Byte]
    BY DEF Chunk
  <1>2. Byte \subseteq Text
    BY IOBufferAssumption DEF Text, Term
  <1>. QED
    BY <1>1, <1>2

\* Under any use of an IOBuffer that adds to it only while the unread bytes start at mem_p,
\* the unread bytes are those added and not consumed, and a C function that reads the
\* buffer's text sees exactly these.
THEOREM IobIntact ==
    ASSUME AddBehind = FALSE
    PROVE  IobSpec => []UnreadIntact
  <1>1. IobInit => IobInv
    <2>. HAVE IobInit
    <2>1. IOB_CAP \in Nat
      BY IOBufferAssumption
    <2>2. Good(IOBuffer_init(IOB_CAP), <<>>) /\ Alive(IOBuffer_init(IOB_CAP))
      BY <2>1, NewGood
    <2>. QED
      BY <2>2 DEF IobInit, IobInv, IOBuffer_new_with_capacity, Alive
  <1>2. IobInv /\ [IobNext]_iobVars => IobInv'
    <2>. SUFFICES ASSUME IobInv, [IobNext]_iobVars PROVE IobInv'
      OBVIOUS
    <2>0. ASSUME Good(iobuf', unread'), iobuf'.aborted \in {"no", "sprintf"} PROVE IobInv'
      BY <2>0 DEF IobInv, Good, IsIob, Holds, Alive
    <2>g. Good(iobuf, unread) /\ unread \in Seq(Text) /\ iobuf.rem = Len(unread) /\ IsIob(iobuf)
      BY DEF IobInv, Good, Holds
    <2>1. ASSUME NEW s \in Chunk(MaxChunk), IobFill(s) PROVE IobInv'
      <3>1. s \in Seq(Text) /\ Len(s) > 0
        BY IOBufferAssumption, ChunkIsText
      <3>2. Alive(iobuf) /\ iobuf.ptr = 0 /\ Len(s) <= IOBuffer_space_len(iobuf)
        BY <2>1 DEF IobFill, MayAdd
      <3>3. Good(IOBuffer_data_add(iobuf, s), unread \o s) /\ Alive(IOBuffer_data_add(iobuf, s))
        BY <2>g, <3>1, <3>2, Added
      <3>. QED
        BY <2>0, <2>1, <3>3 DEF IobFill, Alive
    <2>2. ASSUME NEW s \in Chunk(MaxChunk), IobSprintf(s) PROVE IobInv'
      <3>1. s \in Seq(Text) /\ Len(s) > 0
        BY IOBufferAssumption, ChunkIsText
      <3>2. Alive(iobuf) /\ iobuf.ptr = 0
        BY <2>2 DEF IobSprintf, MayAdd
      <3>3. CASE Len(s) < IOBuffer_space_len(iobuf)
        <4>1. Good(IOBuffer_sprintf(iobuf, s), unread \o s) /\ Alive(IOBuffer_sprintf(iobuf, s))
          BY <2>g, <3>1, <3>2, <3>3, Printed
        <4>. QED
          BY <2>0, <2>2, <3>3, <4>1 DEF IobSprintf, Alive
      <3>4. CASE ~(Len(s) < IOBuffer_space_len(iobuf))
        <4>1. (\E u : Good(iobuf', u)) /\ iobuf'.aborted \in {"no", "sprintf"}
          BY <2>g, <2>2, <3>1, <3>2, <3>4, Printed DEF IobSprintf
        <4>2. PICK u : Good(iobuf', u)
          BY <4>1
        <4>3. IOBuffer_data(iobuf') = u
          BY <4>2, DataIs
        <4>4. unread' = u
          BY <2>2, <3>4, <4>3 DEF IobSprintf, IOBuffer_data
        <4>. QED
          BY <2>0, <4>1, <4>2, <4>4
      <3>. QED
        BY <3>3, <3>4
    <2>3. ASSUME NEW s \in Chunk(MaxChunk), IobFromCstring(s) PROVE IobInv'
      <3>1. s \in Seq(Text) /\ Len(s) > 0
        BY IOBufferAssumption, ChunkIsText
      <3>2. Good(IOBuffer_from_buf(s), s) /\ Alive(IOBuffer_from_buf(s))
        BY <3>1, FromBuf
      <3>. QED
        BY <2>0, <2>3, <3>2 DEF IobFromCstring, IOBuffer_from_cstring, Alive
    <2>4. ASSUME NEW ch \in Byte, IobPushBack(ch) PROVE IobInv'
      <3>0. ch \in Text
        BY IOBufferAssumption DEF Text, Term
      <3>. DEFINE t == <<ch>>
      <3>1. t \in Seq(Text) /\ Len(t) = 1 /\ unread \o t = Append(unread, ch)
        BY <2>g, <3>0
      <3>2. iobuf' = IOBuffer_data_add(iobuf, t) /\ unread' = Append(unread, ch)
        BY <2>4 DEF IobPushBack, IOBuffer_commit_push_back
      <3>. HIDE DEF t
      <3>3. Alive(iobuf) /\ iobuf.ptr = 0 /\ Len(t) <= IOBuffer_space_len(iobuf) /\ Len(t) > 0
        BY <2>g, <2>4, <3>1 DEF IobPushBack, MayAdd, IOBuffer_space_len, IsIob
      <3>4. Good(IOBuffer_data_add(iobuf, t), unread \o t) /\ Alive(IOBuffer_data_add(iobuf, t))
        BY <2>g, <3>1, <3>3, Added
      <3>. QED
        BY <2>0, <3>1, <3>2, <3>4 DEF Alive
    <2>5. ASSUME NEW n \in 0 .. iobuf.cap, IobConsume(n) PROVE IobInv'
      <3>1. n \in 0 .. iobuf.rem /\ Alive(iobuf)
        BY <2>g, <2>5 DEF IobConsume, IOBuffer_data_len, IsIob
      <3>2. Good(IOBuffer_consume(iobuf, n), SubSeq(unread, n + 1, Len(unread)))
             /\ Alive(IOBuffer_consume(iobuf, n))
        BY <2>g, <3>1, Consumed
      <3>. QED
        BY <2>0, <2>5, <3>2 DEF IobConsume, Alive
    <2>6. ASSUME IobPopFront PROVE IobInv'
      <3>1. iobuf.rem # 0 /\ Alive(iobuf)
        BY <2>6 DEF IobPopFront, IOBuffer_empty
      <3>2. 1 \in 0 .. iobuf.rem /\ 1 \in 1 .. Len(unread)
        BY <2>g, <3>1 DEF IsIob
      <3>3. Good(IOBuffer_consume(iobuf, 1), SubSeq(unread, 1 + 1, Len(unread)))
             /\ Alive(IOBuffer_consume(iobuf, 1))
        BY <2>g, <3>1, <3>2, Consumed
      <3>4. Head(unread) = iobuf.mem[iobuf.ptr]
        <4>1. iobuf.mem[iobuf.ptr + 1 - 1] = unread[1] /\ iobuf.ptr + 1 - 1 = iobuf.ptr
          BY <3>2 DEF IobInv, Good, Holds, IsIob
        <4>. QED
          BY <2>g, <3>2, <4>1
      <3>5. Tail(unread) = SubSeq(unread, 1 + 1, Len(unread))
        BY <2>g, <3>2
      <3>. QED
        BY <2>0, <2>6, <3>3, <3>4, <3>5 DEF IobPopFront, IOBuffer_consume_pop_front, Alive
    <2>7. ASSUME IobReset PROVE IobInv'
      <3>1. Good(IOBuffer_reset(iobuf), <<>>) /\ Alive(IOBuffer_reset(iobuf))
        BY <2>g, <2>7, ResetGood DEF IobReset
      <3>. QED
        BY <2>0, <2>7, <3>1 DEF IobReset, Alive
    <2>8. ASSUME IobConsolidate PROVE IobInv'
      <3>1. Alive(iobuf) /\ Len(unread) > 0
        BY <2>g, <2>8 DEF IobConsolidate, IOBuffer_empty
      <3>2. Good(IOBuffer_consolidate_space(iobuf), unread) /\ Alive(IOBuffer_consolidate_space(iobuf))
        BY <2>g, <3>1, Consolidated
      <3>. QED
        BY <2>0, <2>8, <3>2 DEF IobConsolidate, Alive
    <2>9. ASSUME IobDup PROVE IobInv'
      <3>1. Good(IOBuffer_dup(iobuf), unread) /\ Alive(IOBuffer_dup(iobuf))
        BY <2>g, <2>9, Duplicated DEF IobDup
      <3>. QED
        BY <2>0, <2>9, <3>1 DEF IobDup, Alive
    <2>10. CASE UNCHANGED iobVars
      BY <2>0, <2>10 DEF IobInv, iobVars
    <2>. QED
      BY <2>1, <2>2, <2>3, <2>4, <2>5, <2>6, <2>7, <2>8, <2>9, <2>10 DEF IobNext
  <1>. QED
    BY <1>1, <1>2, IntactOf, PTL DEF IobSpec

-----------------------------------------------------------------------------
(* The Cbuffer. *)

\* The memory has the capacity and one byte more, and a buffer that is full to its capacity
\* holds at least twice the first capacity.
IsCb(c) ==
    /\ {"mem", "length", "size", "capacity", "aborted"} \subseteq DOMAIN c
    /\ c.capacity \in Nat /\ c.length \in Nat /\ c.size \in Nat
    /\ c.mem \in [0 .. c.capacity -> Int]
    /\ c.capacity >= CB_MIN /\ c.length <= c.capacity /\ c.size <= c.capacity
    /\ c.length < c.capacity \/ c.length >= 2 * CB_MIN

CbText == Int \ {CbTerm}

\* The buffer holds the bytes of s.  Terminators are behind them and at m_size once it was
\* written to (u); before, it has only its first memory.
CbHolds(c, s, u) ==
    /\ s \in Seq(CbText) /\ c.length = Len(s)
    /\ \A i \in 1 .. Len(s) : c.mem[i - 1] = s[i]
    /\ IF u THEN c.mem[c.length] = CbTerm /\ c.mem[c.size] = CbTerm
            ELSE c.length = 0 /\ c.size = 0

CbGood(c, s, u) == IsCb(c) /\ (Alive(c) => CbHolds(c, s, u))

CbInv ==
    /\ DOMAIN cbuf = Buf /\ held \in [Buf -> Seq(CbText)] /\ used \subseteq Buf
    /\ \A b \in Buf : CbGood(cbuf[b], held[b], b \in used)

\* BufferStrategy_reallocate_size gives room for the request, and more than the request
\* while that is less than twice the first capacity.
LEMMA SizeGrows ==
    ASSUME NEW c \in Nat, c >= CB_MIN, NEW q \in Nat, q >= c
    PROVE  LET n == BufferStrategy_reallocate_size(c, q) IN
           n \in Nat /\ n >= q /\ n >= c /\ (q < n \/ q >= 2 * CB_MIN)
  BY CbufferAssumption DEF BufferStrategy_reallocate_size, max_of_two, min_of_two

\* A buffer of the capacity n with the bytes and fields of c.
Resized(g, c, n) ==
    /\ DOMAIN g = DOMAIN c /\ g.capacity = n /\ g.length = c.length /\ g.size = c.size
    /\ g.aborted = c.aborted /\ g.mem \in [0 .. n -> Int]
    /\ \A i \in 0 .. c.length - 1 : g.mem[i] = c.mem[i]

LEMMA GrownFields ==
    ASSUME NEW c, IsCb(c), Alive(c), NEW q \in Nat, q >= c.capacity
    PROVE  IF Alive(Grown(c, q))
           THEN Resized(Grown(c, q), c, BufferStrategy_reallocate_size(c.capacity, q))
           ELSE IsCb(Grown(c, q))
  <1>. DEFINE n == BufferStrategy_reallocate_size(c.capacity, q)
              g == Grown(c, q)
              m == BufferStrategy_reallocate(c.mem, n)
  <1>1. n \in Nat /\ n >= c.capacity /\ c.capacity \in Nat /\ c.length \in Nat /\ c.length <= c.capacity
    BY SizeGrows DEF IsCb
  <1>. HIDE DEF n
  <1>2. CASE q <= CB_MAX /\ n <= CB_MAX
    <2>1. g = [c EXCEPT !.mem = m, !.capacity = n]
      BY <1>2 DEF Grown, Asserting, n
    <2>2. m = [i \in 0 .. n |-> IF i < n /\ i \in 0 .. c.capacity THEN c.mem[i] ELSE CbUninit]
      BY DEF BufferStrategy_reallocate, IsCb
    <2>3. m \in [0 .. n -> Int]
      BY <2>2 DEF IsCb, CbUninit
    <2>4. ASSUME NEW i \in 0 .. c.length - 1 PROVE m[i] = c.mem[i]
      BY <1>1, <2>2
    <2>. HIDE DEF m, g
    <2>5. DOMAIN g = DOMAIN c /\ g.capacity = n /\ g.length = c.length /\ g.size = c.size
           /\ g.aborted = c.aborted /\ g.mem = m
      BY <2>1 DEF IsCb
    <2>6. Resized(g, c, n) /\ Alive(g)
      BY <2>3, <2>4, <2>5 DEF Resized, Alive
    <2>. QED
      BY <2>6 DEF g, n
  <1>3. CASE ~(q <= CB_MAX /\ n <= CB_MAX)
    <2>1. g = Abort(c, "strategy")
      BY <1>3 DEF Grown, Asserting, n
    <2>. HIDE DEF g
    <2>2. DOMAIN g = DOMAIN c /\ g.capacity = c.capacity /\ g.length = c.length /\ g.size = c.size
           /\ g.aborted = "strategy" /\ g.mem = c.mem
      BY <2>1 DEF Abort, IsCb
    <2>3. IsCb(g) /\ ~Alive(g)
      BY <2>2 DEF IsCb, Alive
    <2>. QED
      BY <2>3 DEF g
  <1>. QED
    BY <1>2, <1>3

\* The bytes of t are written behind those of s, and a terminator behind them.
LEMMA AppendWrites ==
    ASSUME NEW g, {"mem", "length", "size", "capacity", "aborted"} \subseteq DOMAIN g, Alive(g),
           g.capacity \in Nat, g.mem \in [0 .. g.capacity -> Int], g.capacity >= CB_MIN,
           NEW s \in Seq(CbText), NEW t \in Seq(CbText), g.length = Len(s), Len(t) > 0,
           \A i \in 1 .. Len(s) : g.mem[i - 1] = s[i],
           Len(s) + Len(t) <= g.capacity,
           Len(s) + Len(t) < g.capacity \/ Len(s) + Len(t) >= 2 * CB_MIN,
           NEW r,
           r = WrittenBehind(g, t)
    PROVE  CbGood(r, s \o t, TRUE) /\ Alive(r)
  <1>. DEFINE e == Len(s) + Len(t)
              m == [i \in 0 .. g.capacity |-> IF i \in Len(s) .. e - 1 THEN t[i - Len(s) + 1]
                                              ELSE IF i = e THEN CbTerm ELSE g.mem[i]]
  <1>1. r.mem = m /\ r.length = e /\ r.size = e /\ r.capacity = g.capacity /\ r.aborted = g.aborted
         /\ DOMAIN r = DOMAIN g
    BY DEF WrittenBehind, Cbuffer_next_available
  <1>2. e \in Nat /\ e \in 0 .. g.capacity /\ Len(s) \in Nat /\ Len(t) \in Nat
    OBVIOUS
  <1>3. ASSUME NEW i \in 0 .. g.capacity PROVE m[i] \in Int
    <2>1. CASE i \in Len(s) .. e - 1
      <3>1. i - Len(s) + 1 \in 1 .. Len(t)
        BY <2>1
      <3>. QED
        BY <2>1, <3>1 DEF CbText
    <2>2. CASE i \notin Len(s) .. e - 1
      BY <2>2 DEF CbTerm
    <2>. QED
      BY <2>1, <2>2
  <1>4. m \in [0 .. g.capacity -> Int]
    BY <1>3
  <1>5. m[e] = CbTerm
    BY <1>2
  <1>6. ASSUME NEW i \in 1 .. e PROVE m[i - 1] = (s \o t)[i]
    <2>0. i - 1 \in 0 .. g.capacity
      BY <1>2
    <2>1. CASE i <= Len(s)
      <3>1. i - 1 \notin Len(s) .. e - 1 /\ i - 1 # e /\ i \in 1 .. Len(s)
        BY <2>1, <1>2
      <3>2. (s \o t)[i] = s[i]
        BY <3>1
      <3>. QED
        BY <2>0, <3>1, <3>2
    <2>2. CASE i > Len(s)
      <3>1. i - 1 \in Len(s) .. e - 1 /\ (i - 1) - Len(s) + 1 = i - Len(s)
        BY <2>2, <1>2
      <3>2. (s \o t)[i] = t[i - Len(s)]
        BY <2>2
      <3>. QED
        BY <2>0, <3>1, <3>2
    <2>. QED
      BY <2>1, <2>2
  <1>7. s \o t \in Seq(CbText) /\ Len(s \o t) = e
    OBVIOUS
  <1>. HIDE DEF m
  <1>8. IsCb(r)
    BY <1>1, <1>2, <1>4 DEF IsCb
  <1>9. CbHolds(r, s \o t, TRUE)
    BY <1>1, <1>5, <1>6, <1>7 DEF CbHolds
  <1>. QED
    BY <1>1, <1>8, <1>9 DEF CbGood, Alive

LEMMA Appended ==
    ASSUME NEW c, NEW s, NEW u, CbGood(c, s, u), Alive(c), NEW t \in Seq(CbText), t # <<>>
    PROVE  CbGood(Cbuffer_append(c, t), s \o t, TRUE)
  <1>. DEFINE q == c.length + Len(t)
              g == IF MustGrow(c, Len(t)) THEN Grown(c, q) ELSE c
              r == Cbuffer_append(c, t)
  <1>1. IsCb(c) /\ CbHolds(c, s, u) /\ s \in Seq(CbText) /\ c.length = Len(s) /\ Len(t) > 0
    BY DEF CbGood, CbHolds
  <1>2. c.capacity \in Nat /\ c.length \in Nat /\ c.capacity >= CB_MIN /\ q \in Nat /\ Len(t) \in Nat
         /\ {"mem", "length", "size", "capacity", "aborted"} \subseteq DOMAIN c
         /\ c.mem \in [0 .. c.capacity -> Int]
    BY <1>1 DEF IsCb
  <1>3. r = Asserting(g, TRUE, "", WrittenBehind(g, t))
    BY DEF Cbuffer_append
  <1>4. CASE ~Alive(g)
    <2>1. MustGrow(c, Len(t)) /\ g = Grown(c, q) /\ q >= c.capacity
      BY <1>2, <1>4 DEF MustGrow
    <2>2. IsCb(g)
      BY <1>1, <1>2, <1>4, <2>1, GrownFields
    <2>. HIDE DEF g
    <2>3. r = g
      BY <1>3, <1>4 DEF Asserting
    <2>. QED
      BY <1>4, <2>2, <2>3 DEF CbGood
  <1>5. CASE Alive(g)
    <2>1. /\ {"mem", "length", "size", "capacity", "aborted"} \subseteq DOMAIN g
          /\ g.capacity \in Nat /\ g.mem \in [0 .. g.capacity -> Int] /\ g.capacity >= CB_MIN
          /\ g.length = Len(s) /\ \A i \in 1 .. Len(s) : g.mem[i - 1] = s[i]
          /\ q <= g.capacity /\ (q < g.capacity \/ q >= 2 * CB_MIN)
      <3>1. CASE MustGrow(c, Len(t))
        <4>. DEFINE n == BufferStrategy_reallocate_size(c.capacity, q)
        <4>1. g = Grown(c, q) /\ q >= c.capacity
          BY <1>2, <3>1 DEF MustGrow
        <4>2. Resized(g, c, n)
          BY <1>1, <1>2, <1>5, <4>1, GrownFields
        <4>3. n \in Nat /\ n >= q /\ n >= c.capacity /\ (q < n \/ q >= 2 * CB_MIN)
          BY <1>2, <4>1, SizeGrows
        <4>. HIDE DEF g, n
        <4>4. ASSUME NEW i \in 1 .. Len(s) PROVE g.mem[i - 1] = s[i]
          <5>1. i - 1 \in 0 .. c.length - 1
            BY <1>1, <1>2
          <5>. QED
            BY <1>1, <4>2, <5>1 DEF Resized, CbHolds
        <4>5. g.capacity = n /\ g.mem \in [0 .. n -> Int] /\ g.length = c.length /\ DOMAIN g = DOMAIN c
          BY <4>2 DEF Resized
        <4>6. n >= CB_MIN /\ q <= n
          BY <1>2, <4>3, CbufferAssumption
        <4>. HIDE DEF q
        <4>. QED
          BY <1>1, <1>2, <4>3, <4>4, <4>5, <4>6
      <3>2. CASE ~MustGrow(c, Len(t))
        <4>1. g = c /\ q < c.capacity
          BY <1>2, <3>2 DEF MustGrow
        <4>. QED
          BY <1>1, <1>2, <4>1 DEF CbHolds
      <3>. QED
        BY <3>1, <3>2
    <2>2. g.length + Len(t) = Len(s) + Len(t) /\ q = Len(s) + Len(t)
      BY <1>1, <2>1
    <2>. HIDE DEF g, q
    <2>3. r = WrittenBehind(g, t)
      BY <1>3, <1>5 DEF Asserting
    <2>. HIDE DEF r
    <2>4. CbGood(r, s \o t, TRUE)
      BY <1>1, <1>5, <2>1, <2>2, <2>3, AppendWrites
    <2>. QED
      BY <2>4 DEF r
  <1>. QED
    BY <1>4, <1>5

LEMMA NewCb == CbGood(Cbuffer_new, <<>>, FALSE) /\ Alive(Cbuffer_new)
  <1>. DEFINE c == Cbuffer_new
  <1>1. c.mem = [i \in 0 .. CB_MIN |-> CbUninit] /\ c.length = 0 /\ c.size = 0 /\ c.capacity = CB_MIN
         /\ c.aborted = "no" /\ DOMAIN c = {"mem", "length", "size", "capacity", "aborted"}
    BY CbufferAssumption DEF Cbuffer_new, BufferStrategy_allocate, max_of_two
  <1>2. c.mem \in [0 .. CB_MIN -> Int]
    BY <1>1 DEF CbUninit
  <1>. HIDE DEF c
  <1>3. IsCb(c)
    BY <1>1, <1>2, CbufferAssumption DEF IsCb
  <1>4. CbHolds(c, <<>>, FALSE)
    BY <1>1 DEF CbHolds
  <1>. QED
    BY <1>1, <1>3, <1>4 DEF CbGood, Alive, c

LEMMA Cleared ==
    ASSUME NEW c, NEW s, NEW u, CbGood(c, s, u), Alive(c)
    PROVE  CbGood(Cbuffer_clear(c), <<>>, TRUE) /\ Alive(Cbuffer_clear(c))
  <1>. DEFINE r == Cbuffer_clear(c)
  <1>0. IsCb(c) /\ CbHolds(c, s, u)
    BY DEF CbGood
  <1>1. r.mem = [c.mem EXCEPT ![0] = CbTerm] /\ r.length = 0 /\ r.size = c.size /\ r.capacity = c.capacity
         /\ r.aborted = c.aborted /\ DOMAIN r = DOMAIN c
    BY <1>0 DEF Cbuffer_clear, IsCb
  <1>2. c.mem \in [0 .. c.capacity -> Int] /\ c.capacity \in Nat /\ c.size \in 0 .. c.capacity
         /\ c.capacity >= CB_MIN /\ {"mem", "length", "size", "capacity", "aborted"} \subseteq DOMAIN c
    BY <1>0 DEF IsCb
  <1>3. c.mem[c.size] = CbTerm \/ c.size = 0
    BY <1>0 DEF CbHolds
  <1>4. r.mem \in [0 .. c.capacity -> Int] /\ r.mem[0] = CbTerm /\ r.mem[c.size] = CbTerm
    BY <1>1, <1>2, <1>3 DEF CbTerm
  <1>. HIDE DEF r
  <1>5. IsCb(r)
    BY <1>1, <1>2, <1>4, CbufferAssumption DEF IsCb
  <1>6. CbHolds(r, <<>>, TRUE)
    BY <1>1, <1>4 DEF CbHolds
  <1>. QED
    BY <1>1, <1>5, <1>6 DEF CbGood, Alive, r

LEMMA CbDataIs ==
    ASSUME NEW c, NEW s, NEW u, CbHolds(c, s, u)
    PROVE  Cbuffer_data(c) = s
  <1>1. s \in [1 .. Len(s) -> CbText]
    BY DEF CbHolds
  <1>. QED
    BY <1>1 DEF CbHolds, Cbuffer_data

LEMMA CbCstrIs ==
    ASSUME NEW c, NEW s, CbGood(c, s, TRUE), Alive(c)
    PROVE  Cbuffer_cstr(c) = s
  <1>. DEFINE ends == {i \in DOMAIN c.mem : c.mem[i] = CbTerm}
              end == CHOOSE i \in ends : \A j \in ends : i <= j
              last == Len(s)
  <1>0. IsCb(c) /\ CbHolds(c, s, TRUE)
    BY DEF CbGood
  <1>1. s \in Seq(CbText) /\ s \in [1 .. Len(s) -> CbText] /\ c.length = Len(s) /\ Len(s) \in 0 .. c.capacity
         /\ c.mem[Len(s)] = CbTerm
    BY <1>0 DEF CbHolds, IsCb
  <1>2. DOMAIN c.mem = 0 .. c.capacity /\ c.capacity \in Nat
    BY <1>0 DEF IsCb
  <1>3. last \in ends /\ last \in Nat /\ ends \subseteq Nat
    BY <1>1, <1>2
  <1>4. ASSUME NEW j \in ends, j < last PROVE FALSE
    <2>1. j + 1 \in 1 .. Len(s) /\ (j + 1) - 1 = j
      BY <1>3, <1>4
    <2>2. c.mem[j] = s[j + 1]
      BY <1>0, <2>1 DEF CbHolds
    <2>3. s[j + 1] \in CbText
      BY <1>1, <2>1
    <2>. QED
      BY <2>2, <2>3 DEF CbText
  <1>5. end \in ends /\ \A j \in ends : end <= j
    <2>. HIDE DEF ends, last
    <2>1. \A j \in ends : last <= j
      BY <1>3, <1>4
    <2>2. \E i \in ends : \A j \in ends : i <= j
      BY <1>3, <2>1
    <2>. QED
      BY <2>2
  <1>6. end = last
    <2>. HIDE DEF ends, last, end
    <2>. QED
      BY <1>3, <1>4, <1>5
  <1>7. Cbuffer_cstr(c) = [i \in 1 .. end |-> c.mem[i - 1]]
    BY DEF Cbuffer_cstr
  <1>8. Cbuffer_cstr(c) = [i \in 1 .. Len(s) |-> c.mem[i - 1]]
    BY <1>6, <1>7
  <1>9. \A i \in 1 .. Len(s) : c.mem[i - 1] = s[i]
    BY <1>0 DEF CbHolds
  <1>. HIDE DEF ends, end, last
  <1>. QED
    BY <1>1, <1>8, <1>9

LEMMA ReadsBackOf ==
    ASSUME CbInv
    PROVE  CbufferReadsBack
  <1>1. ASSUME NEW b \in used, Alive(cbuf[b])
        PROVE  /\ Cbuffer_data(cbuf[b]) = held[b]
               /\ CstrAsserts(cbuf[b]) /\ Cbuffer_cstr(cbuf[b]) = held[b]
    <2>0. b \in Buf /\ (b \in used) = TRUE
      BY DEF CbInv
    <2>1. CbGood(cbuf[b], held[b], TRUE)
      BY <2>0 DEF CbInv
    <2>2. CbHolds(cbuf[b], held[b], TRUE)
      BY <1>1, <2>1 DEF CbGood
    <2>. QED
      BY <1>1, <2>1, <2>2, CbDataIs, CbCstrIs DEF CbHolds, CstrAsserts
  <1>2. ASSUME NEW b \in Buf
        PROVE  \/ Cbuffer_size(cbuf[b]) < Cbuffer_capacity(cbuf[b])
               \/ Cbuffer_size(cbuf[b]) >= 2 * CB_MIN
    BY DEF CbInv, CbGood, IsCb, Cbuffer_size, Cbuffer_capacity
  <1>. QED
    BY <1>1, <1>2 DEF CbufferReadsBack

\* A Cbuffer reads back as what was appended to it, as bytes and as a C string, after any
\* appends, clears and moves and whatever it grew to.
THEOREM CbReadsBack == CbSpec => []CbufferReadsBack
  <1>1. CbInit => CbInv
    <2>. HAVE CbInit
    <2>1. ASSUME NEW b \in Buf PROVE CbGood(cbuf[b], held[b], b \in used)
      <3>1. (b \in used) = FALSE /\ cbuf[b] = Cbuffer_new /\ held[b] = <<>>
        BY DEF CbInit
      <3>. QED
        BY <3>1, NewCb
    <2>2. <<>> \in Seq(CbText)
      OBVIOUS
    <2>. QED
      BY <2>1, <2>2 DEF CbInit, CbInv
  <1>2. CbInv /\ [CbNext]_cbVars => CbInv'
    <2>. SUFFICES ASSUME CbInv, [CbNext]_cbVars PROVE CbInv'
      OBVIOUS
    <2>0. DOMAIN cbuf = Buf /\ held \in [Buf -> Seq(CbText)] /\ used \subseteq Buf
           /\ \A b \in Buf : CbGood(cbuf[b], held[b], b \in used)
      BY DEF CbInv
    <2>1. ASSUME NEW b \in Buf, NEW c, NEW s \in Seq(CbText), NEW v \in BOOLEAN,
                 CbGood(c, s, v),
                 cbuf' = [cbuf EXCEPT ![b] = c], held' = [held EXCEPT ![b] = s],
                 (b \in used') = v, used' \ {b} = used \ {b}
          PROVE  CbInv'
      <3>1. DOMAIN cbuf' = Buf /\ held' \in [Buf -> Seq(CbText)] /\ used' \subseteq Buf
        BY <2>0, <2>1
      <3>2. ASSUME NEW a \in Buf PROVE CbGood(cbuf'[a], held'[a], a \in used')
        <4>1. CASE a = b
          <5>1. cbuf'[a] = c /\ held'[a] = s /\ (a \in used') = v
            BY <2>0, <2>1, <4>1
          <5>. QED
            BY <2>1, <5>1
        <4>2. CASE a # b
          <5>1. cbuf'[a] = cbuf[a] /\ held'[a] = held[a] /\ (a \in used') = (a \in used)
            BY <2>0, <2>1, <4>2
          <5>. QED
            BY <2>0, <5>1
        <4>. QED
          BY <4>1, <4>2
      <3>. QED
        BY <3>1, <3>2 DEF CbInv, CbGood, IsCb, CbHolds, Alive
    <2>2. ASSUME NEW k \in 0 .. MaxAppend, NEW s \in [1 .. k -> CbByte]
          PROVE  s \in Seq(CbText)
      <3>1. CbByte \subseteq CbText
        BY CbufferAssumption DEF CbText, CbTerm
      <3>. QED
        BY <3>1
    <2>3. ASSUME NEW b \in Buf, NEW s \in Seq(CbText), CbAppend(b, s) PROVE CbInv'
      <3>. DEFINE c == Cbuffer_append(cbuf[b], s)
      <3>1. cbuf' = [cbuf EXCEPT ![b] = c] /\ cbuf'[b] = c /\ Alive(cbuf[b])
        BY <2>0, <2>3 DEF CbAppend, Cbuffer_append_cstr
      <3>2. CASE s = <<>>
        <4>1. c = cbuf[b] /\ used' = used
          BY <2>3, <3>2 DEF Cbuffer_append, CbAppend
        <4>2. held[b] \o s = held[b]
          BY <2>0, <3>2
        <4>. HIDE DEF c
        <4>3. held' = [held EXCEPT ![b] = held[b]] /\ held[b] \in Seq(CbText)
          BY <2>0, <2>3, <3>1, <4>1, <4>2 DEF CbAppend
        <4>4. CbGood(c, held[b], b \in used)
          BY <2>0, <4>1
        <4>5. (b \in used) \in BOOLEAN /\ (b \in used') = (b \in used) /\ used' \ {b} = used \ {b}
          BY <4>1
        <4>. QED
          BY <2>1, <3>1, <4>3, <4>4, <4>5, Zenon
      <3>3. CASE s # <<>>
        <4>1. CbGood(cbuf[b], held[b], b \in used)
          BY <2>0
        <4>2. CbGood(c, held[b] \o s, TRUE)
          BY <3>1, <3>3, <4>1, Appended
        <4>3. used' \ {b} = used \ {b} /\ (b \in used') = TRUE
          BY <2>3, <3>3 DEF CbAppend
        <4>. HIDE DEF c
        <4>4. CASE Alive(c)
          <5>1. held' = [held EXCEPT ![b] = held[b] \o s]
            BY <2>3, <3>1, <4>4 DEF CbAppend
          <5>2. held[b] \o s \in Seq(CbText)
            BY <2>0
          <5>. QED
            BY <2>1, <3>1, <4>2, <4>3, <5>1, <5>2
        <4>5. CASE ~Alive(c)
          <5>1. held' = held
            BY <2>3, <3>1, <4>5 DEF CbAppend
          <5>2. held' = [held EXCEPT ![b] = held[b]] /\ held[b] \in Seq(CbText)
            BY <2>0, <5>1
          <5>3. CbGood(c, held[b], TRUE)
            BY <4>2, <4>5 DEF CbGood
          <5>. QED
            BY <2>1, <3>1, <4>3, <5>2, <5>3
        <4>. QED
          BY <4>4, <4>5
      <3>. QED
        BY <3>2, <3>3
    <2>4. ASSUME NEW b \in Buf, NEW s \in Seq(CbText), CbFromCstring(b, s) PROVE CbInv'
      <3>. DEFINE c == Cbuffer_append(Cbuffer_new, s)
      <3>1. cbuf' = [cbuf EXCEPT ![b] = c] /\ held' = [held EXCEPT ![b] = s]
        BY <2>4 DEF CbFromCstring, Cbuffer_from_cstring
      <3>2. CASE s = <<>>
        <4>1. c = Cbuffer_new /\ used' \ {b} = used \ {b} /\ (b \in used') = FALSE
          BY <2>4, <3>2 DEF Cbuffer_append, CbFromCstring
        <4>2. CbGood(c, s, FALSE)
          BY <3>2, <4>1, NewCb
        <4>. HIDE DEF c
        <4>. QED
          BY <2>1, <3>1, <4>1, <4>2
      <3>3. CASE s # <<>>
        <4>1. used' \ {b} = used \ {b} /\ (b \in used') = TRUE
          BY <2>4, <3>3 DEF CbFromCstring
        <4>2. CbGood(c, <<>> \o s, TRUE)
          <5>1. PICK u : CbGood(Cbuffer_new, <<>>, u)
            BY NewCb
          <5>. QED
            BY <3>3, <5>1, NewCb, Appended
        <4>3. <<>> \o s = s
          OBVIOUS
        <4>4. CbGood(c, s, TRUE)
          BY <4>2, <4>3, Zenon
        <4>. HIDE DEF c
        <4>. QED
          BY <2>1, <3>1, <4>1, <4>4
      <3>. QED
        BY <3>2, <3>3
    <2>5. ASSUME NEW b \in Buf, CbClear(b) PROVE CbInv'
      <3>. DEFINE c == Cbuffer_clear(cbuf[b])
      <3>1. cbuf' = [cbuf EXCEPT ![b] = c] /\ held' = [held EXCEPT ![b] = <<>>]
             /\ used' \ {b} = used \ {b} /\ (b \in used') = TRUE /\ Alive(cbuf[b])
        BY <2>5 DEF CbClear
      <3>2. CbGood(cbuf[b], held[b], b \in used)
        BY <2>0
      <3>3. CbGood(c, <<>>, TRUE)
        BY <3>1, <3>2, Cleared, Zenon
      <3>4. <<>> \in Seq(CbText)
        OBVIOUS
      <3>. HIDE DEF c
      <3>. QED
        BY <2>1, <3>1, <3>3, <3>4
    <2>6. ASSUME NEW d \in Buf, NEW s \in Buf, CbMove(d, s) PROVE CbInv'
      <3>. DEFINE c == Cbuffer_clear(Cbuffer_clear(cbuf[d]))
      <3>1. /\ cbuf' = [cbuf EXCEPT ![d] = cbuf[s], ![s] = c]
            /\ held' = [held EXCEPT ![d] = held[s], ![s] = <<>>]
            /\ d # s /\ Alive(cbuf[d]) /\ Alive(cbuf[s])
            /\ used' = (used \ {d}) \cup {s} \cup (IF s \in used THEN {d} ELSE {})
        BY <2>6 DEF CbMove, Cbuffer_move
      <3>2. CbGood(cbuf[d], held[d], d \in used)
        BY <2>0
      <3>3. CbGood(Cbuffer_clear(cbuf[d]), <<>>, TRUE) /\ Alive(Cbuffer_clear(cbuf[d]))
        BY <3>1, <3>2, Cleared, Zenon
      <3>4. CbGood(c, <<>>, TRUE)
        <4>1. PICK u : CbGood(Cbuffer_clear(cbuf[d]), <<>>, u)
          BY <3>3
        <4>. QED
          BY <3>3, <4>1, Cleared
      <3>e. <<>> \in Seq(CbText)
        OBVIOUS
      <3>. HIDE DEF c
      <3>5. DOMAIN cbuf' = Buf /\ held' \in [Buf -> Seq(CbText)] /\ used' \subseteq Buf
        BY <2>0, <3>1, <3>e
      <3>6. ASSUME NEW a \in Buf PROVE CbGood(cbuf'[a], held'[a], a \in used')
        <4>1. CASE a = s
          <5>1. cbuf'[a] = c /\ held'[a] = <<>> /\ (a \in used') = TRUE
            BY <2>0, <3>1, <4>1
          <5>. QED
            BY <3>4, <5>1
        <4>2. CASE a = d
          <5>1. cbuf'[a] = cbuf[s] /\ held'[a] = held[s] /\ (a \in used') = (s \in used)
            BY <2>0, <3>1, <4>2
          <5>. QED
            BY <2>0, <5>1
        <4>3. CASE a # s /\ a # d
          <5>1. cbuf'[a] = cbuf[a] /\ held'[a] = held[a] /\ (a \in used') = (a \in used)
            BY <2>0, <3>1, <4>3
          <5>. QED
            BY <2>0, <5>1
        <4>. QED
          BY <4>1, <4>2, <4>3
      <3>. QED
        BY <3>5, <3>6 DEF CbInv, CbGood, IsCb, CbHolds, Alive
    <2>7. CASE UNCHANGED cbVars
      BY <2>0, <2>7 DEF CbInv, cbVars
    <2>. QED
      BY <2>2, <2>3, <2>4, <2>5, <2>6, <2>7 DEF CbNext
  <1>. QED
    BY <1>1, <1>2, ReadsBackOf, PTL DEF CbSpec
=============================================================================
