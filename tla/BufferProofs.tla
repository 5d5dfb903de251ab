---------------------------- MODULE BufferProofs -----------------------------
(***************************************************************************)
(* The safety properties of Buffer, proved for any number of buffers and   *)
(* chunks and for texts of any length, for a program that moves no buffer  *)
(* with text to a new one.                                                 *)
(*                                                                         *)
(* The argument is about heaps first and about the actions second.  A list *)
(* is a sequence of addresses that next links in a heap; Arranged says     *)
(* that given lists are those of the buffers and share the heap out among  *)
(* them.  Linking, freeing, moving and popping take one arrangement to     *)
(* another, and Chain and Contents are functions of the arrangement.       *)
(***************************************************************************)
EXTENDS Buffer, SequenceLemmas, FiniteSetTheorems

-----------------------------------------------------------------------------
(* Lists in a heap                                                         *)

\* In the heap h the addresses s are linked one to the next, from first on.
ListOf(h, first, s) ==
  /\ s \in Seq(DOMAIN h)
  /\ \A i, j \in 1..Len(s) : s[i] = s[j] => i = j
  /\ first = IF s = <<>> THEN Null ELSE s[1]
  /\ \A i \in 1..Len(s) : h[s[i]].next = IF i = Len(s) THEN Null ELSE s[i + 1]

\* Chain, of any heap
Walk(h, first) ==
  LET node[k \in 1 .. Cardinality(Chunks)] ==
        IF k = 1 THEN first
        ELSE IF node[k - 1] \in DOMAIN h THEN h[node[k - 1]].next ELSE Null
  IN SubSeq(node, 1, Cardinality({k \in DOMAIN node : node[k] # Null}))

\* Chain walks the heap from _start.
LEMMA ChainWalk ==
  /\ \A b : Chain(b) = Walk(heap, start[b])
  /\ \A b : Chain(b)' = Walk(heap', start'[b])
BY DEF Chain, Walk, Follow

\* There are n numbers from 1 to n.
LEMMA CountTo ==
  ASSUME NEW n \in Nat
  PROVE  IsFiniteSet(1..n) /\ Cardinality(1..n) = n
BY FS_Interval

\* A list is no longer than the heap is large.
LEMMA ListLength ==
  ASSUME NEW h, NEW first, NEW s, DOMAIN h \subseteq Chunks, ListOf(h, first, s)
  PROVE  Len(s) \in Nat /\ Cardinality(Chunks) \in Nat /\ Len(s) <= Cardinality(Chunks)
<1>1. /\ s \in Seq(DOMAIN h) /\ Len(s) \in Nat /\ DOMAIN s = 1..Len(s)
      /\ \A i \in 1..Len(s) : s[i] \in Chunks
  BY ElementOfSeq, LenProperties DEF ListOf
<1>2. IsFiniteSet(Chunks) /\ Cardinality(Chunks) \in Nat
  BY BufferAssumption, FS_CardinalityType DEF BufferAssumption
<1>3. s \in Injection(1..Len(s), Chunks)
  <2>1. s \in [1..Len(s) -> Chunks]
    <3>1. s \in [1..Len(s) -> DOMAIN h]
      BY <1>1, LenProperties
    <3> QED BY <1>1, <3>1
  <2>2. IsInjective(s)
    BY <1>1 DEF IsInjective, ListOf
  <2> QED BY <2>1, <2>2 DEF Injection
<1>4. Cardinality(1..Len(s)) <= Cardinality(Chunks)
  BY <1>2, <1>3, FS_Injection
<1>5. Cardinality(1..Len(s)) = Len(s)
  BY <1>1, CountTo
<1> QED BY <1>1, <1>2, <1>4, <1>5

\* Whoever walks a list meets its addresses.
LEMMA WalkOfList ==
  ASSUME NEW h, NEW first, NEW s, DOMAIN h \subseteq Chunks, ListOf(h, first, s)
  PROVE  Walk(h, first) = s
<1> DEFINE N == Cardinality(Chunks)
           after(c) == IF c \in DOMAIN h THEN h[c].next ELSE Null
           Walks(f) == f = [k \in 1..N |-> IF k = 1 THEN first ELSE after(f[k - 1])]
           g == [k \in 1..N |-> IF k <= Len(s) THEN s[k] ELSE Null]
           f == CHOOSE f : Walks(f)
<1>1. Len(s) \in Nat /\ N \in Nat /\ Len(s) <= N
  BY ListLength
<1>2. /\ s \in Seq(DOMAIN h) /\ DOMAIN s = 1..Len(s)
      /\ \A i \in 1..Len(s) : s[i] \in DOMAIN h /\ s[i] # Null
      /\ Null \notin DOMAIN h
      /\ first = IF Len(s) = 0 THEN Null ELSE s[1]
      /\ \A i \in 1..Len(s) : h[s[i]].next = IF i = Len(s) THEN Null ELSE s[i + 1]
  <2>1. Null \notin DOMAIN h
    BY BufferAssumption DEF BufferAssumption
  <2> QED BY <2>1, ElementOfSeq, LenProperties, EmptySeq DEF ListOf
<1> HIDE DEF N
<1>3. /\ \A k \in 1..N : g[k] = IF k <= Len(s) THEN s[k] ELSE Null
      /\ DOMAIN g = 1..N
      /\ g = [k \in 1..N |-> g[k]]
  OBVIOUS
<1> HIDE DEF g
<1>4. \A k \in 1..N : g[k] = IF k = 1 THEN first ELSE after(g[k - 1])
  <2> SUFFICES ASSUME NEW k \in 1..N PROVE g[k] = IF k = 1 THEN first ELSE after(g[k - 1])
    OBVIOUS
  <2>1. CASE k = 1
    <3>1. Len(s) = 0 \/ (Len(s) # 0 /\ 1 <= Len(s))
      BY <1>1
    <3> QED BY <1>1, <1>2, <1>3, <2>1, <3>1
  <2>2. CASE k # 1
    <3>1. k - 1 \in 1..N
      BY <1>1, <2>2
    <3>2. g[k - 1] = IF k - 1 <= Len(s) THEN s[k - 1] ELSE Null
      BY <1>3, <3>1
    <3>3. g[k] = IF k <= Len(s) THEN s[k] ELSE Null
      BY <1>3
    <3>4. CASE k - 1 <= Len(s)
      <4>1. k - 1 \in 1..Len(s) /\ (k - 1) + 1 = k /\ (k - 1 = Len(s) <=> ~(k <= Len(s)))
        BY <1>1, <3>1, <3>4
      <4>2. after(s[k - 1]) = IF k - 1 = Len(s) THEN Null ELSE s[k]
        BY <1>2, <4>1
      <4> HIDE DEF after
      <4> QED BY <2>2, <3>2, <3>3, <3>4, <4>1, <4>2
    <3>5. CASE ~(k - 1 <= Len(s))
      <4>1. ~(k <= Len(s))
        BY <1>1, <3>5
      <4>2. after(Null) = Null
        BY <1>2
      <4> HIDE DEF after
      <4> QED BY <2>2, <3>2, <3>3, <3>5, <4>1, <4>2
    <3> QED BY <3>4, <3>5
  <2> QED BY <2>1, <2>2
<1>5. Walks(g)
  <2> DEFINE e(k) == IF k = 1 THEN first ELSE after(g[k - 1])
             w == [k \in 1..N |-> e(k)]
  <2>1. \A k \in 1..N : g[k] = e(k)
    BY <1>4
  <2> HIDE DEF e
  <2>2. g = w
    BY <1>3, <2>1
  <2> QED BY <2>2 DEF e
<1>6. Walks(f)
  <2> HIDE DEF Walks
  <2> QED BY <1>5
<1>7. \A k \in 1..N : f[k] = IF k = 1 THEN first ELSE after(f[k - 1])
  <2> DEFINE e(k) == IF k = 1 THEN first ELSE after(f[k - 1])
  <2>1. f = [k \in 1..N |-> e(k)]
    BY <1>6
  <2> HIDE DEF f, e
  <2>2. \A k \in 1..N : f[k] = e(k)
    BY <2>1
  <2> QED BY <2>2 DEF e
<1>8. f = g
  <2> DEFINE Holds(n) == n \in 1..N => f[n] = g[n]
             T == {n \in Nat : Holds(n)}
  <2> HIDE DEF f, after
  <2>1. Holds(0)
    OBVIOUS
  <2>2. ASSUME NEW n \in Nat, Holds(n) PROVE Holds(n + 1)
    <3> SUFFICES ASSUME n + 1 \in 1..N PROVE f[n + 1] = g[n + 1]
      OBVIOUS
    <3>1. CASE n = 0
      BY <1>4, <1>7, <3>1
    <3>2. CASE n # 0
      <4>1. n \in 1..N /\ n + 1 # 1 /\ (n + 1) - 1 = n
        BY <1>1, <3>2
      <4> QED BY <1>4, <1>7, <2>2, <4>1
    <3> QED BY <3>1, <3>2
  <2>3. Nat \subseteq T
    <3> HIDE DEF Holds
    <3>1. 0 \in T /\ \A n \in Nat : n \in T => n + 1 \in T
      BY <2>1, <2>2
    <3> QED BY <3>1, SetInduction
  <2>4. \A k \in 1..N : f[k] = g[k]
    BY <1>1, <2>3
  <2>5. f = [k \in 1..N |-> f[k]] /\ g = [k \in 1..N |-> g[k]]
    BY <1>3, <1>6
  <2> QED BY <2>4, <2>5
<1>9. Walk(h, first) = SubSeq(f, 1, Cardinality({k \in DOMAIN f : f[k] # Null}))
  BY DEF Walk, N
<1> HIDE DEF f
<1>10. {k \in DOMAIN g : g[k] # Null} = 1..Len(s)
  <2>1. 1..Len(s) \subseteq 1..N
    BY <1>1
  <2>2. ASSUME NEW k \in 1..N PROVE g[k] # Null <=> k \in 1..Len(s)
    <3>1. k <= Len(s) <=> k \in 1..Len(s)
      BY <1>1
    <3> QED BY <1>2, <1>3, <3>1
  <2> QED BY <1>3, <2>1, <2>2
<1>11. Cardinality(1..Len(s)) = Len(s)
  BY <1>1, CountTo
<1>12. SubSeq(g, 1, Len(s)) = s
  <2>1. g \in Seq(Chunks \cup {Null}) /\ Len(g) = N
    <3>1. ASSUME NEW k \in 1..N PROVE g[k] \in Chunks \cup {Null}
      <4>1. k <= Len(s) => s[k] \in Chunks
        <5>1. k <= Len(s) => k \in 1..Len(s)
          BY <1>1
        <5>2. \A i \in 1..Len(s) : s[i] \in DOMAIN h
          BY <1>2
        <5> QED BY <5>1, <5>2
      <4> QED BY <1>3, <4>1
    <3>2. g \in [1..N -> Chunks \cup {Null}]
      BY <1>3, <3>1
    <3> QED BY <1>1, <3>2, SeqDef, LenProperties
  <2>2. Len(s) \in 0..Len(g) /\ s \in Seq(Chunks \cup {Null})
    <3>1. s \in Seq(Chunks \cup {Null})
      BY <1>2, SeqMonotonic
    <3> QED BY <1>1, <2>1, <3>1
  <2>3. IsPrefix(s, g)
    <3>1. \A i \in 1..Len(s) : s[i] = g[i]
      BY <1>1, <1>3
    <3> QED BY <1>1, <2>1, <2>2, <3>1, PrefixPointwise
  <2>4. s = SubSeq(g, 1, Len(s))
    <3>1. SubSeq(s, 1, Len(s)) = s
      BY <2>2, SubSeqFull
    <3> QED BY <2>3, <3>1 DEF IsPrefix
  <2> QED BY <2>4
<1> QED BY <1>8, <1>9, <1>10, <1>11, <1>12

\* What is in a sequence is at some index.
LEMMA InList ==
  ASSUME NEW S, NEW s \in Seq(S)
  PROVE  /\ Len(s) \in Nat
         /\ \A i \in 1..Len(s) : s[i] \in S /\ s[i] \in ToSet(s)
         /\ \A c \in ToSet(s) : c \in S /\ \E i \in 1..Len(s) : s[i] = c
BY LenProperties, ElementOfSeq DEF ToSet

\* A sequence is over whatever set its elements are in.
LEMMA SeqOver ==
  ASSUME NEW S, NEW s \in Seq(S), NEW T, \A c \in ToSet(s) : c \in T
  PROVE  s \in Seq(T)
<1>1. Len(s) \in Nat /\ \A i \in 1..Len(s) : s[i] \in T
  BY InList
<1>2. s \in [1..Len(s) -> S]
  BY LenProperties
<1>3. s \in [1..Len(s) -> T]
  BY <1>1, <1>2
<1> QED BY <1>1, <1>3, SeqDef

\* A list has no chunk exactly when its first address is null.
LEMMA ListNull ==
  ASSUME NEW h, NEW first, NEW s, DOMAIN h \subseteq Chunks, ListOf(h, first, s)
  PROVE  first = Null <=> s = <<>>
<1>1. ASSUME s # <<>> PROVE s[1] # Null
  <2>1. s \in Seq(DOMAIN h) /\ Len(s) # 0
    BY <1>1, EmptySeq DEF ListOf
  <2>2. s[1] \in DOMAIN h
    BY <2>1, InList
  <2> QED BY <2>2, BufferAssumption DEF BufferAssumption
<1> QED BY <1>1 DEF ListOf

\* The list without chunks is one of every heap.
LEMMA EmptyList == \A h : ListOf(h, Null, <<>>)
BY EmptySeq DEF ListOf

\* A list stays in a heap that has its chunks and their links.
LEMMA ListKept ==
  ASSUME NEW h, NEW first, NEW s, ListOf(h, first, s),
         NEW g, \A c \in ToSet(s) : c \in DOMAIN g /\ g[c].next = h[c].next
  PROVE  ListOf(g, first, s)
<1>1. s \in Seq(DOMAIN h)
  BY DEF ListOf
<1>2. s \in Seq(DOMAIN g)
  BY <1>1, SeqOver
<1>3. \A i \in 1..Len(s) : g[s[i]].next = h[s[i]].next
  BY <1>1, InList
<1> QED BY <1>2, <1>3 DEF ListOf

\* A new chunk linked to the last one is the last of the list.
LEMMA ListLinked ==
  ASSUME NEW h, NEW first, NEW s, ListOf(h, first, s), DOMAIN h \subseteq Chunks,
         NEW c \in Chunks \ DOMAIN h,
         NEW g, DOMAIN g = DOMAIN h \cup {c}, g[c].next = Null,
         \A x \in ToSet(s) : g[x].next = IF x = s[Len(s)] THEN c ELSE h[x].next
  PROVE  ListOf(g, IF first = Null THEN c ELSE first, Append(s, c))
<1> DEFINE t == Append(s, c)
           n == Len(s)
<1>1. /\ s \in Seq(DOMAIN h) /\ \A i, j \in 1..n : s[i] = s[j] => i = j
      /\ first = IF s = <<>> THEN Null ELSE s[1]
      /\ \A i \in 1..n : h[s[i]].next = IF i = n THEN Null ELSE s[i + 1]
  BY DEF ListOf
<1>2. /\ n \in Nat /\ \A i \in 1..n : s[i] \in DOMAIN h /\ s[i] \in ToSet(s)
  BY <1>1, InList
<1>3. s \in Seq(DOMAIN g)
  BY <1>1, SeqMonotonic
<1>4. /\ t \in Seq(DOMAIN g) /\ Len(t) = n + 1 /\ \A i \in 1..n : t[i] = s[i]
      /\ t[n + 1] = c /\ t # <<>>
  BY <1>3, AppendProperties
<1>5. s = <<>> <=> n = 0
  BY <1>1, EmptySeq
<1> HIDE DEF t, n
<1>6. \A i, j \in 1..(n + 1) : t[i] = t[j] => i = j
  <2> SUFFICES ASSUME NEW i \in 1..(n + 1), NEW j \in 1..(n + 1), t[i] = t[j] PROVE i = j
    OBVIOUS
  <2>1. (i \in 1..n \/ i = n + 1) /\ (j \in 1..n \/ j = n + 1)
    BY <1>2
  <2>2. c \notin DOMAIN h
    OBVIOUS
  <2> QED BY <1>1, <1>2, <1>4, <2>1, <2>2
<1>7. (IF first = Null THEN c ELSE first) = t[1]
  <2>1. CASE n = 0
    BY <1>1, <1>4, <1>5, <2>1
  <2>2. CASE n # 0
    <3>1. first # Null
      BY <1>5, <2>2, ListNull
    <3>2. 1 \in 1..n
      BY <1>2, <2>2
    <3> QED BY <1>1, <1>4, <1>5, <2>2, <3>1, <3>2
  <2> QED BY <2>1, <2>2
<1>8. ASSUME NEW i \in 1..(n + 1)
      PROVE  g[t[i]].next = IF i = n + 1 THEN Null ELSE t[i + 1]
  <2>1. CASE i = n + 1
    BY <1>4, <2>1
  <2>2. CASE i = n /\ i # n + 1
    <3>1. i \in 1..n /\ t[i] = s[n] /\ t[i + 1] = c /\ s[n] \in ToSet(s)
      BY <1>2, <1>4, <2>2
    <3>2. g[s[n]].next = c
      BY <3>1 DEF n
    <3> QED BY <2>2, <3>1, <3>2
  <2>3. CASE i # n /\ i # n + 1
    <3>1. i \in 1..n /\ i + 1 \in 1..n /\ n \in 1..n
      BY <1>2, <2>3
    <3>2. t[i] = s[i] /\ t[i + 1] = s[i + 1] /\ s[i] \in ToSet(s) /\ s[i] # s[n]
      BY <1>1, <1>2, <1>4, <2>3, <3>1
    <3>3. g[s[i]].next = h[s[i]].next
      BY <3>2 DEF n
    <3> QED BY <1>1, <2>3, <3>1, <3>2, <3>3
  <2> QED BY <2>1, <2>2, <2>3
<1>9. ListOf(g, IF first = Null THEN c ELSE first, t)
  BY <1>4, <1>6, <1>7, <1>8 DEF ListOf
<1> QED BY <1>9 DEF t

\* Without its first chunk a list goes on from the second.
LEMMA ListRest ==
  ASSUME NEW h, NEW first, NEW s, ListOf(h, first, s), s # <<>>,
         NEW g, DOMAIN g = DOMAIN h \ {first}, \A x \in DOMAIN g : g[x] = h[x]
  PROVE  /\ ListOf(g, h[first].next, Tail(s))
         /\ ToSet(Tail(s)) = ToSet(s) \ {first}
         /\ first = s[1] /\ first \in ToSet(s)
<1> DEFINE t == Tail(s)
           n == Len(s)
<1>1. /\ s \in Seq(DOMAIN h) /\ \A i, j \in 1..n : s[i] = s[j] => i = j
      /\ first = s[1]
      /\ \A i \in 1..n : h[s[i]].next = IF i = n THEN Null ELSE s[i + 1]
  BY DEF ListOf
<1>2. /\ n \in Nat \ {0} /\ \A i \in 1..n : s[i] \in DOMAIN h /\ s[i] \in ToSet(s)
      /\ \A c \in ToSet(s) : \E i \in 1..n : s[i] = c
  BY <1>1, InList, EmptySeq
<1>3. /\ t \in Seq(DOMAIN h) /\ Len(t) = n - 1 /\ \A i \in 1..(n - 1) : t[i] = s[i + 1]
  BY <1>1, HeadTailProperties
<1> HIDE DEF t, n
<1>4. \A c \in ToSet(t) : \E i \in 1..(n - 1) : t[i] = c
  BY <1>3, InList
<1>5. \A i \in 1..(n - 1) : t[i] \in ToSet(t)
  BY <1>3, InList
<1>6. ToSet(t) = ToSet(s) \ {first}
  <2>1. ASSUME NEW c \in ToSet(t) PROVE c \in ToSet(s) \ {first}
    <3>1. PICK i \in 1..(n - 1) : t[i] = c
      BY <1>4
    <3>2. i + 1 \in 1..n /\ 1 \in 1..n /\ i + 1 # 1 /\ s[i + 1] = c
      BY <1>2, <1>3, <3>1
    <3> QED BY <1>1, <1>2, <3>2
  <2>2. ASSUME NEW c \in ToSet(s), c # first PROVE c \in ToSet(t)
    <3>1. PICK i \in 1..n : s[i] = c
      BY <1>2
    <3>2. i # 1
      BY <1>1, <2>2, <3>1
    <3>3. i - 1 \in 1..(n - 1) /\ (i - 1) + 1 = i
      BY <1>2, <3>2
    <3>4. t[i - 1] = c
      BY <1>3, <3>1, <3>3
    <3> QED BY <1>5, <3>3, <3>4
  <2> QED BY <2>1, <2>2
<1>7. t \in Seq(DOMAIN g)
  <2>1. \A c \in ToSet(t) : c \in DOMAIN g
    BY <1>1, <1>6, InList
  <2> QED BY <1>3, <2>1, SeqOver
<1>8. \A i, j \in 1..(n - 1) : t[i] = t[j] => i = j
  <2> SUFFICES ASSUME NEW i \in 1..(n - 1), NEW j \in 1..(n - 1), t[i] = t[j] PROVE i = j
    OBVIOUS
  <2>1. i + 1 \in 1..n /\ j + 1 \in 1..n /\ s[i + 1] = s[j + 1]
    BY <1>2, <1>3
  <2>2. i + 1 = j + 1
    BY <1>1, <2>1
  <2> QED BY <2>2
<1>9. h[first].next = IF t = <<>> THEN Null ELSE t[1]
  <2>1. 1 \in 1..n /\ h[first].next = IF 1 = n THEN Null ELSE s[2]
    BY <1>1, <1>2
  <2>2. t = <<>> <=> n = 1
    BY <1>2, <1>3, EmptySeq
  <2>3. n # 1 => 1 \in 1..(n - 1) /\ 1 + 1 = 2
    BY <1>2
  <2> QED BY <1>3, <2>1, <2>2, <2>3
<1>10. ASSUME NEW i \in 1..(n - 1)
       PROVE  g[t[i]].next = IF i = n - 1 THEN Null ELSE t[i + 1]
  <2>1. i + 1 \in 1..n /\ (i = n - 1 <=> i + 1 = n) /\ t[i] = s[i + 1]
    BY <1>2, <1>3
  <2>2. i # n - 1 => i + 1 \in 1..(n - 1)
    BY <1>2
  <2>3. i # n - 1 => t[i + 1] = s[(i + 1) + 1]
    BY <1>3, <2>2
  <2>4. t[i] \in DOMAIN g
    BY <1>3, <1>7, InList
  <2>5. g[t[i]] = h[s[i + 1]]
    BY <2>1, <2>4
  <2> QED BY <1>1, <2>1, <2>3, <2>5
<1>11. ListOf(g, h[first].next, t)
  BY <1>3, <1>7, <1>8, <1>9, <1>10 DEF ListOf
<1>12. 1 \in 1..n
  BY <1>2
<1> QED BY <1>1, <1>2, <1>6, <1>11, <1>12 DEF t

-----------------------------------------------------------------------------
(* The text in a list                                                      *)

Stored(h, c) == SubSeq(h[c].data, 1, h[c].size)
TextIn(h, s) == FlattenSeq([k \in DOMAIN s |-> Stored(h, s[k])])

\* Contents is the text in the chain.
LEMMA ContentsText ==
  /\ \A b : Contents(b) = TextIn(heap, Chain(b))
  /\ \A b : Contents(b)' = TextIn(heap', Chain(b)')
BY DEF Contents, TextIn, Stored

\* The pieces of a list of chunks with text.
LEMMA Pieces ==
  ASSUME NEW S, NEW s \in Seq(S), NEW h, \A c \in ToSet(s) : Stored(h, c) \in Seq(Chars)
  PROVE  LET p == [k \in DOMAIN s |-> Stored(h, s[k])]
         IN /\ p \in Seq(Seq(Chars))
            /\ Len(p) = Len(s)
            /\ \A k \in 1..Len(s) : p[k] = Stored(h, s[k])
<1> DEFINE p == [k \in DOMAIN s |-> Stored(h, s[k])]
<1>1. Len(s) \in Nat /\ DOMAIN s = 1..Len(s) /\ \A k \in 1..Len(s) : s[k] \in ToSet(s)
  BY LenProperties, InList
<1>2. \A k \in 1..Len(s) : Stored(h, s[k]) \in Seq(Chars)
  BY <1>1
<1>3. p \in [1..Len(s) -> Seq(Chars)] /\ \A k \in 1..Len(s) : p[k] = Stored(h, s[k])
  BY <1>1, <1>2
<1> HIDE DEF p
<1>4. p \in Seq(Seq(Chars)) /\ Len(p) = Len(s)
  BY <1>1, <1>3, SeqDef, LenProperties
<1> QED BY <1>3, <1>4 DEF p

\* Text is characters.
LEMMA TextType ==
  ASSUME NEW S, NEW s \in Seq(S), NEW h, \A c \in ToSet(s) : Stored(h, c) \in Seq(Chars)
  PROVE  TextIn(h, s) \in Seq(Chars)
BY Pieces, FlattenType DEF TextIn

\* An empty list has no text.
LEMMA TextEmpty == \A h : TextIn(h, <<>>) = <<>>
<1> SUFFICES ASSUME NEW h PROVE TextIn(h, <<>>) = <<>>
  OBVIOUS
<1>1. [k \in DOMAIN <<>> |-> Stored(h, <<>>[k])] = <<>>
  OBVIOUS
<1> QED BY <1>1, FlattenEmpty DEF TextIn

\* The text depends on what the chunks of the list hold and on nothing else.
LEMMA TextSame ==
  ASSUME NEW S, NEW s \in Seq(S), NEW h, NEW g, \A c \in ToSet(s) : Stored(g, c) = Stored(h, c)
  PROVE  TextIn(g, s) = TextIn(h, s)
<1>1. DOMAIN s = 1..Len(s) /\ \A k \in 1..Len(s) : s[k] \in ToSet(s)
  BY LenProperties, InList
<1>2. \A k \in DOMAIN s : Stored(g, s[k]) = Stored(h, s[k])
  BY <1>1
<1>3. [k \in DOMAIN s |-> Stored(g, s[k])] = [k \in DOMAIN s |-> Stored(h, s[k])]
  BY <1>2
<1> QED BY <1>3 DEF TextIn

\* A chunk at the end adds its text at the end.
LEMMA TextAppend ==
  ASSUME NEW S, NEW s \in Seq(S), NEW h, \A x \in ToSet(s) : Stored(h, x) \in Seq(Chars),
         NEW c \in S, Stored(h, c) \in Seq(Chars)
  PROVE  TextIn(h, Append(s, c)) = TextIn(h, s) \o Stored(h, c)
<1> DEFINE p == [k \in DOMAIN s |-> Stored(h, s[k])]
           t == Append(s, c)
           q == [k \in DOMAIN t |-> Stored(h, t[k])]
           x == Stored(h, c)
<1>1. p \in Seq(Seq(Chars)) /\ Len(p) = Len(s) /\ \A k \in 1..Len(s) : p[k] = Stored(h, s[k])
  BY Pieces
<1>2. /\ Len(s) \in Nat /\ DOMAIN t = 1..(Len(s) + 1) /\ t[Len(s) + 1] = c
      /\ \A k \in 1..Len(s) : t[k] = s[k]
  BY AppendProperties, LenProperties
<1>3. DOMAIN q = 1..(Len(s) + 1) /\ q = [k \in DOMAIN q |-> q[k]]
      /\ \A k \in 1..(Len(s) + 1) : q[k] = Stored(h, t[k])
  BY <1>2
<1> HIDE DEF t, p, q
<1>4. /\ Append(p, x) \in Seq(Seq(Chars)) /\ DOMAIN Append(p, x) = 1..(Len(s) + 1)
      /\ Append(p, x)[Len(s) + 1] = x /\ \A k \in 1..Len(s) : Append(p, x)[k] = p[k]
      /\ Append(p, x) = [k \in 1..(Len(s) + 1) |-> Append(p, x)[k]]
  <2> DEFINE T == Seq(Chars)
             a == Append(p, x)
  <2>1. x \in T /\ p \in Seq(T)
    BY <1>1
  <2> HIDE DEF x, T
  <2>2. /\ a \in Seq(T) /\ Len(a) = Len(p) + 1 /\ a[Len(p) + 1] = x
        /\ \A k \in 1..Len(p) : a[k] = p[k]
    BY <2>1, AppendProperties
  <2> HIDE DEF a
  <2>3. DOMAIN a = 1..(Len(s) + 1) /\ a = [k \in 1..(Len(s) + 1) |-> a[k]]
    BY <1>1, <2>2, LenProperties
  <2> QED BY <1>1, <2>2, <2>3 DEF a, T
<1>5. \A k \in 1..(Len(s) + 1) : q[k] = Append(p, x)[k]
  <2> SUFFICES ASSUME NEW k \in 1..(Len(s) + 1) PROVE q[k] = Append(p, x)[k]
    OBVIOUS
  <2>1. k \in 1..Len(s) \/ k = Len(s) + 1
    BY <1>2
  <2>2. CASE k \in 1..Len(s)
    BY <1>1, <1>2, <1>3, <1>4, <2>2
  <2>3. CASE k = Len(s) + 1
    BY <1>2, <1>3, <1>4, <2>3
  <2> QED BY <2>1, <2>2, <2>3
<1>6. q = Append(p, x)
  <2> DEFINE a == Append(p, x)
  <2>1. a = [k \in 1..(Len(s) + 1) |-> a[k]] /\ \A k \in 1..(Len(s) + 1) : q[k] = a[k]
    BY <1>4, <1>5
  <2> HIDE DEF a
  <2>2. q = a
    BY <1>3, <2>1
  <2> QED BY <2>2 DEF a
<1>7. FlattenSeq(q) = FlattenSeq(p) \o x
  <2>1. x \in Seq(Chars)
    OBVIOUS
  <2> HIDE DEF x
  <2> QED BY <1>1, <1>6, <2>1, FlattenAppend
<1> QED BY <1>7 DEF TextIn, p, q, t

\* The text of a list starts with what its first chunk holds.
LEMMA TextTail ==
  ASSUME NEW S, NEW s \in Seq(S), s # <<>>, NEW h,
         \A c \in ToSet(s) : Stored(h, c) \in Seq(Chars)
  PROVE  TextIn(h, s) = Stored(h, s[1]) \o TextIn(h, Tail(s))
<1> DEFINE p == [k \in DOMAIN s |-> Stored(h, s[k])]
           t == Tail(s)
           q == [k \in DOMAIN t |-> Stored(h, t[k])]
<1>1. p \in Seq(Seq(Chars)) /\ Len(p) = Len(s) /\ \A k \in 1..Len(s) : p[k] = Stored(h, s[k])
  BY Pieces
<1>2. /\ Len(s) \in Nat \ {0} /\ DOMAIN t = 1..(Len(s) - 1)
      /\ \A k \in 1..(Len(s) - 1) : t[k] = s[k + 1]
  BY HeadTailProperties, LenProperties, EmptySeq
<1>3. /\ DOMAIN q = 1..(Len(s) - 1) /\ q = [k \in DOMAIN q |-> q[k]]
      /\ \A k \in 1..(Len(s) - 1) : q[k] = Stored(h, t[k])
  BY <1>2
<1> HIDE DEF t, p, q
<1>4. /\ p # <<>> /\ Tail(p) \in Seq(Seq(Chars)) /\ DOMAIN Tail(p) = 1..(Len(s) - 1)
      /\ \A k \in 1..(Len(s) - 1) : Tail(p)[k] = p[k + 1]
      /\ Head(p) = p[1]
      /\ Tail(p) = [k \in 1..(Len(s) - 1) |-> Tail(p)[k]]
  <2> DEFINE T == Seq(Chars)
             a == Tail(p)
  <2>1. p \in Seq(T)
    BY <1>1
  <2> HIDE DEF T
  <2>2. p # <<>>
    BY <1>1, <1>2, <2>1, EmptySeq
  <2>3. /\ a \in Seq(T) /\ Len(a) = Len(p) - 1 /\ Head(p) = p[1]
        /\ \A k \in 1..Len(a) : a[k] = p[k + 1]
    BY <2>1, <2>2, HeadTailProperties
  <2> HIDE DEF a
  <2>4. DOMAIN a = 1..(Len(s) - 1) /\ a = [k \in 1..(Len(s) - 1) |-> a[k]]
    BY <1>1, <2>3, LenProperties
  <2> QED BY <1>1, <2>2, <2>3, <2>4 DEF a, T
<1>5. \A k \in 1..(Len(s) - 1) : q[k] = Tail(p)[k]
  <2> SUFFICES ASSUME NEW k \in 1..(Len(s) - 1) PROVE q[k] = Tail(p)[k]
    OBVIOUS
  <2>1. k + 1 \in 1..Len(s)
    BY <1>2
  <2> QED BY <1>1, <1>2, <1>3, <1>4, <2>1
<1>6. q = Tail(p)
  <2> DEFINE a == Tail(p)
  <2>1. a = [k \in 1..(Len(s) - 1) |-> a[k]] /\ \A k \in 1..(Len(s) - 1) : q[k] = a[k]
    BY <1>4, <1>5
  <2> HIDE DEF a
  <2>2. q = a
    BY <1>3, <2>1
  <2> QED BY <2>2 DEF a
<1>7. FlattenSeq(p) = p[1] \o FlattenSeq(q)
  BY <1>1, <1>4, <1>6, FlattenHead
<1>8. p[1] = Stored(h, s[1])
  BY <1>1, <1>2
<1> QED BY <1>7, <1>8 DEF TextIn, p, q, t

\* What is stored behind the text of the last chunk is behind the text.
LEMMA TextStored ==
  ASSUME NEW S, NEW s \in Seq(S), s # <<>>,
         \A i, j \in 1..Len(s) : s[i] = s[j] => i = j,
         NEW h, \A c \in ToSet(s) : Stored(h, c) \in Seq(Chars),
         NEW g, NEW u \in Seq(Chars),
         \A c \in ToSet(s) : Stored(g, c) = IF c = s[Len(s)] THEN Stored(h, c) \o u ELSE Stored(h, c)
  PROVE  TextIn(g, s) = TextIn(h, s) \o u
<1>1. PICK t \in Seq(S), c \in S : s = Append(t, c)
  BY SequenceEmptyOrAppend
<1>2. /\ Len(t) \in Nat /\ Len(s) = Len(t) + 1 /\ s[Len(s)] = c
      /\ \A i \in 1..Len(t) : s[i] = t[i]
  BY <1>1, AppendProperties, LenProperties
<1>3. \A i \in 1..Len(s) : s[i] \in ToSet(s)
  BY InList
<1>4. c \in ToSet(s)
  <2>1. Len(s) \in 1..Len(s)
    BY <1>2
  <2> QED BY <1>2, <1>3, <2>1
<1>5. ASSUME NEW x \in ToSet(t) PROVE x \in ToSet(s) /\ x # s[Len(s)]
  <2>1. PICK i \in 1..Len(t) : t[i] = x
    BY <1>1, InList
  <2>2. i \in 1..Len(s) /\ Len(s) \in 1..Len(s) /\ i # Len(s) /\ s[i] = x
    BY <1>2, <2>1
  <2> QED BY <1>3, <2>2
<1>6. \A x \in ToSet(t) : Stored(h, x) \in Seq(Chars) /\ Stored(g, x) = Stored(h, x)
  BY <1>5
<1>7. Stored(h, c) \in Seq(Chars) /\ Stored(g, c) = Stored(h, c) \o u /\ Stored(h, c) \o u \in Seq(Chars)
  BY <1>2, <1>4
<1>8. TextIn(g, t) = TextIn(h, t) /\ TextIn(h, t) \in Seq(Chars)
  BY <1>1, <1>6, TextSame, TextType
<1>9. TextIn(h, s) = TextIn(h, t) \o Stored(h, c)
  <2>1. t \in Seq(S) /\ c \in S /\ Stored(h, c) \in Seq(Chars)
    BY <1>1, <1>7
  <2>2. \A x \in ToSet(t) : Stored(h, x) \in Seq(Chars)
    BY <1>6
  <2>3. TextIn(h, Append(t, c)) = TextIn(h, t) \o Stored(h, c)
    BY ONLY <2>1, <2>2, TextAppend
  <2> QED BY <1>1, <2>3
<1>10. TextIn(g, s) = TextIn(g, t) \o Stored(g, c)
  <2>1. \A x \in ToSet(t) : Stored(g, x) \in Seq(Chars)
    BY <1>6
  <2>2. t \in Seq(S) /\ c \in S /\ Stored(g, c) \in Seq(Chars)
    BY <1>1, <1>7
  <2>3. TextIn(g, Append(t, c)) = TextIn(g, t) \o Stored(g, c)
    BY ONLY <2>1, <2>2, TextAppend
  <2> QED BY <1>1, <2>3
<1> DEFINE v == TextIn(h, t)
           w == Stored(h, c)
<1>11. v \in Seq(Chars) /\ w \in Seq(Chars)
  BY <1>7, <1>8
<1>12. TextIn(g, s) = v \o (w \o u) /\ TextIn(h, s) = v \o w
  BY <1>7, <1>8, <1>9, <1>10
<1> HIDE DEF v, w
<1>13. (v \o w) \o u = v \o (w \o u)
  BY <1>11, ConcatAssociative
<1> QED BY <1>12, <1>13

-----------------------------------------------------------------------------
(* The heap shared out among the buffers                                   *)

\* L[b] is the list of b: it starts at st[b], ends at fi[b] if it has a chunk,
\* and the lists of the buffers al have each chunk of the heap once.
Arranged(h, st, fi, al, L) ==
  /\ DOMAIN h \subseteq Chunks
  /\ \A b \in al : ListOf(h, st[b], L[b])
  /\ \A c \in DOMAIN h : \E b \in al : c \in ToSet(L[b])
  /\ \A a, b \in al : a # b => ToSet(L[a]) \cap ToSet(L[b]) = {}
  /\ \A b \in al : L[b] # <<>> => fi[b] = L[b][Len(L[b])]

Lists  == [b \in alive |-> Chain(b)]
Memory == Arranged(heap, start, finish, alive, Lists)

\* The lists of an arrangement are in its heap.
LEMMA ArrangedLists ==
  ASSUME NEW h, NEW st, NEW fi, NEW al, NEW L, Arranged(h, st, fi, al, L)
  PROVE  \A b \in al : /\ L[b] \in Seq(DOMAIN h)
                       /\ Len(L[b]) \in Nat
                       /\ \A c \in ToSet(L[b]) : c \in DOMAIN h
                       /\ st[b] = Null <=> L[b] = <<>>
                       /\ \A i, j \in 1..Len(L[b]) : L[b][i] = L[b][j] => i = j
<1> SUFFICES ASSUME NEW b \in al
             PROVE  /\ L[b] \in Seq(DOMAIN h)
                    /\ Len(L[b]) \in Nat
                    /\ \A c \in ToSet(L[b]) : c \in DOMAIN h
                    /\ st[b] = Null <=> L[b] = <<>>
                    /\ \A i, j \in 1..Len(L[b]) : L[b][i] = L[b][j] => i = j
  OBVIOUS
<1>1. ListOf(h, st[b], L[b]) /\ DOMAIN h \subseteq Chunks
  BY DEF Arranged
<1>2. L[b] \in Seq(DOMAIN h) /\ \A i, j \in 1..Len(L[b]) : L[b][i] = L[b][j] => i = j
  BY <1>1 DEF ListOf
<1>3. st[b] = Null <=> L[b] = <<>>
  BY <1>1, ListNull
<1> QED BY <1>2, <1>3, InList

\* Chain finds the lists of any arrangement of the memory.
LEMMA ArrangedChains ==
  ASSUME NEW L, Arranged(heap', start', finish', alive', L)
  PROVE  Memory' /\ \A b \in alive' : Chain(b)' = L[b]
<1>1. \A b \in alive' : Walk(heap', start'[b]) = L[b]
  <2> SUFFICES ASSUME NEW b \in alive' PROVE Walk(heap', start'[b]) = L[b]
    OBVIOUS
  <2>1. ListOf(heap', start'[b], L[b]) /\ DOMAIN heap' \subseteq Chunks
    BY DEF Arranged
  <2> QED BY <2>1, WalkOfList
<1>2. \A b \in alive' : Chain(b)' = L[b]
  BY <1>1, ChainWalk
<1> DEFINE M == Lists'
<1>3. \A b \in alive' : M[b] = L[b]
  BY <1>2 DEF Lists
<1> HIDE DEF M
<1>4. Arranged(heap', start', finish', alive', M)
  BY <1>3 DEF Arranged
<1> QED BY <1>2, <1>4 DEF Memory, M

\* What is stored in a chunk does not change the lists.
LEMMA ArrangedKeep ==
  ASSUME NEW h, NEW st, NEW fi, NEW al, NEW L, Arranged(h, st, fi, al, L),
         NEW g, DOMAIN g = DOMAIN h, \A x \in DOMAIN h : g[x].next = h[x].next
  PROVE  Arranged(g, st, fi, al, L)
<1>1. ASSUME NEW b \in al PROVE ListOf(g, st[b], L[b])
  <2>1. ListOf(h, st[b], L[b])
    BY DEF Arranged
  <2>2. \A c \in ToSet(L[b]) : c \in DOMAIN h
    BY ArrangedLists
  <2>3. \A c \in ToSet(L[b]) : c \in DOMAIN g /\ g[c].next = h[c].next
    BY <2>2
  <2> QED BY <2>1, <2>3, ListKept
<1> QED BY <1>1 DEF Arranged

\* A chunk is linked at the end of a list.
LEMMA ArrangedLink ==
  ASSUME NEW h, NEW st, NEW fi, NEW al, NEW L, Arranged(h, st, fi, al, L),
         NEW b \in al, NEW c \in Chunks \ DOMAIN h,
         NEW g, DOMAIN g = DOMAIN h \cup {c}, g[c].next = Null,
         \A x \in DOMAIN h : g[x].next = IF x = fi[b] /\ st[b] # Null THEN c ELSE h[x].next,
         NEW st2, st2[b] = IF st[b] = Null THEN c ELSE st[b],
         \A a \in al \ {b} : st2[a] = st[a],
         NEW fi2, fi2[b] = c, \A a \in al \ {b} : fi2[a] = fi[a],
         NEW M, M[b] = Append(L[b], c), \A a \in al \ {b} : M[a] = L[a]
  PROVE  Arranged(g, st2, fi2, al, M)
<1> DEFINE s == L[b]
<1>1. /\ DOMAIN h \subseteq Chunks
      /\ \A a \in al : ListOf(h, st[a], L[a])
      /\ \A x \in DOMAIN h : \E a \in al : x \in ToSet(L[a])
      /\ \A a, d \in al : a # d => ToSet(L[a]) \cap ToSet(L[d]) = {}
      /\ \A a \in al : L[a] # <<>> => fi[a] = L[a][Len(L[a])]
  BY DEF Arranged
<1>2. /\ \A a \in al : \A x \in ToSet(L[a]) : x \in DOMAIN h
      /\ s \in Seq(DOMAIN h) /\ Len(s) \in Nat /\ (st[b] = Null <=> s = <<>>)
  BY ArrangedLists
<1>3. s # <<>> => fi[b] = s[Len(s)] /\ s[Len(s)] \in ToSet(s)
  <2>1. s # <<>> => Len(s) \in 1..Len(s)
    BY <1>2, EmptySeq
  <2> QED BY <1>1, <1>2, <2>1, InList
<1>4. ListOf(g, st2[b], M[b])
  <2>1. \A x \in ToSet(s) : g[x].next = IF x = s[Len(s)] THEN c ELSE h[x].next
    <3> SUFFICES ASSUME NEW x \in ToSet(s)
                 PROVE  g[x].next = IF x = s[Len(s)] THEN c ELSE h[x].next
      OBVIOUS
    <3>1. s # <<>> /\ x \in DOMAIN h
      <4>1. x \in DOMAIN h
        BY <1>2
      <4>2. s # <<>>
        <5>1. PICK i \in 1..Len(s) : s[i] = x
          BY <1>2, InList
        <5>2. Len(s) # 0
          BY <1>2, <5>1
        <5> QED BY <1>2, <5>2, EmptySeq
      <4> QED BY <4>1, <4>2
    <3> QED BY <1>2, <1>3, <3>1
  <2> DEFINE first == st[b]
  <2>2. ListOf(h, first, s) /\ DOMAIN h \subseteq Chunks
    BY <1>1
  <2>3. c \in Chunks \ DOMAIN h /\ DOMAIN g = DOMAIN h \cup {c} /\ g[c].next = Null
    OBVIOUS
  <2> HIDE DEF s, first
  <2>4. ListOf(g, IF first = Null THEN c ELSE first, Append(s, c))
    BY ONLY <2>1, <2>2, <2>3, ListLinked
  <2>5. M[b] = Append(s, c) /\ st2[b] = IF first = Null THEN c ELSE first
    BY DEF s, first
  <2> QED BY <2>4, <2>5
<1>5. ASSUME NEW a \in al \ {b} PROVE ListOf(g, st2[a], M[a])
  <2>1. \A x \in ToSet(L[a]) : x \in DOMAIN g /\ g[x].next = h[x].next
    <3> SUFFICES ASSUME NEW x \in ToSet(L[a]) PROVE x \in DOMAIN g /\ g[x].next = h[x].next
      OBVIOUS
    <3>1. x \in DOMAIN h /\ x \notin ToSet(s)
      BY <1>1, <1>2
    <3>2. ~(x = fi[b] /\ st[b] # Null)
      BY <1>2, <1>3, <3>1
    <3> QED BY <3>1, <3>2
  <2>2. ListOf(g, st[a], L[a])
    BY <1>1, <2>1, ListKept
  <2> QED BY <2>2
<1>6. ToSet(M[b]) = ToSet(s) \cup {c}
  <2>1. /\ Append(s, c) \in Seq(Chunks) /\ Len(Append(s, c)) = Len(s) + 1
        /\ \A i \in 1..Len(s) : Append(s, c)[i] = s[i]
        /\ Append(s, c)[Len(s) + 1] = c
    <3>1. s \in Seq(Chunks)
      BY <1>1, <1>2, SeqMonotonic
    <3> HIDE DEF s
    <3> QED BY <3>1, AppendProperties
  <2>2. DOMAIN Append(s, c) = 1..(Len(s) + 1) /\ DOMAIN s = 1..Len(s)
    BY <1>2, <2>1, LenProperties
  <2> DEFINE t == Append(s, c)
  <2>3. M[b] = t
    OBVIOUS
  <2>4. \A i \in 1..(Len(s) + 1) : i \in 1..Len(s) \/ i = Len(s) + 1
    BY <1>2
  <2>5. 1..Len(s) \subseteq 1..(Len(s) + 1) /\ Len(s) + 1 \in 1..(Len(s) + 1)
    BY <1>2
  <2> DEFINE n == Len(s)
  <2>6. /\ DOMAIN t = 1..(n + 1) /\ DOMAIN s = 1..n
        /\ \A i \in 1..n : t[i] = s[i] /\ i \in 1..(n + 1)
        /\ t[n + 1] = c /\ n + 1 \in 1..(n + 1)
        /\ \A i \in 1..(n + 1) : i \in 1..n \/ i = n + 1
    BY <2>1, <2>2, <2>4, <2>5
  <2> HIDE DEF s, t, n
  <2>7. ASSUME NEW x \in ToSet(t) PROVE x \in ToSet(s) \cup {c}
    <3>1. PICK i \in 1..(n + 1) : t[i] = x
      BY <2>6 DEF ToSet
    <3> QED BY <2>6, <3>1 DEF ToSet
  <2>8. ASSUME NEW x \in ToSet(s) PROVE x \in ToSet(t)
    <3>1. PICK i \in 1..n : s[i] = x
      BY <2>6 DEF ToSet
    <3> QED BY <2>6, <3>1 DEF ToSet
  <2>9. c \in ToSet(t)
    BY <2>6 DEF ToSet
  <2> QED BY <2>3, <2>7, <2>8, <2>9
<1>7. \A x \in DOMAIN g : \E a \in al : x \in ToSet(M[a])
  <2> SUFFICES ASSUME NEW x \in DOMAIN g PROVE \E a \in al : x \in ToSet(M[a])
    OBVIOUS
  <2>1. CASE x = c
    BY <1>6, <2>1
  <2>2. CASE x # c
    <3>1. PICK a \in al : x \in ToSet(L[a])
      BY <1>1, <2>2
    <3> QED BY <1>6, <3>1
  <2> QED BY <2>1, <2>2
<1>8. \A a, d \in al : a # d => ToSet(M[a]) \cap ToSet(M[d]) = {}
  <2> SUFFICES ASSUME NEW a \in al, NEW d \in al, a # d PROVE ToSet(M[a]) \cap ToSet(M[d]) = {}
    OBVIOUS
  <2>1. ToSet(L[a]) \cap ToSet(L[d]) = {} /\ c \notin ToSet(L[a]) /\ c \notin ToSet(L[d])
    BY <1>1, <1>2
  <2>2. /\ a # b => M[a] = L[a]
        /\ d # b => M[d] = L[d]
    OBVIOUS
  <2>3. CASE a # b /\ d # b
    BY <2>1, <2>2, <2>3
  <2>4. CASE a = b
    <3>1. M[d] = L[d] /\ ToSet(M[a]) = ToSet(L[a]) \cup {c}
      BY <1>6, <2>2, <2>4
    <3> QED BY <2>1, <3>1
  <2>5. CASE d = b
    <3>1. M[a] = L[a] /\ ToSet(M[d]) = ToSet(L[d]) \cup {c}
      BY <1>6, <2>2, <2>5
    <3> QED BY <2>1, <3>1
  <2> QED BY <2>3, <2>4, <2>5
<1>9. \A a \in al : M[a] # <<>> => fi2[a] = M[a][Len(M[a])]
  <2>1. M[b][Len(M[b])] = c
    <3>1. s \in Seq(Chunks)
      BY <1>1, <1>2, SeqMonotonic
    <3>2. Append(s, c)[Len(Append(s, c))] = c
      <4> HIDE DEF s
      <4> QED BY <3>1, AppendProperties, LenProperties
    <3> QED BY <3>2
  <2> QED BY <1>1, <2>1
<1>10. \A a \in al : ListOf(g, st2[a], M[a])
  BY <1>4, <1>5
<1>11. DOMAIN g \subseteq Chunks
  BY <1>1
<1> QED BY <1>7, <1>8, <1>9, <1>10, <1>11 DEF Arranged

\* The chunks of a list are freed, and its buffer has none from then on or is gone.
LEMMA ArrangedFree ==
  ASSUME NEW h, NEW st, NEW fi, NEW al, NEW L, Arranged(h, st, fi, al, L),
         NEW b \in al,
         NEW g, DOMAIN g = DOMAIN h \ ToSet(L[b]), \A x \in DOMAIN g : g[x] = h[x],
         NEW al2, al2 \subseteq al, al \ {b} \subseteq al2,
         NEW st2, \A a \in al \ {b} : st2[a] = st[a], b \in al2 => st2[b] = Null,
         NEW fi2, \A a \in al \ {b} : fi2[a] = fi[a],
         NEW M, \A a \in al \ {b} : M[a] = L[a], b \in al2 => M[b] = <<>>
  PROVE  Arranged(g, st2, fi2, al2, M)
<1>1. /\ DOMAIN h \subseteq Chunks
      /\ \A a \in al : ListOf(h, st[a], L[a])
      /\ \A x \in DOMAIN h : \E a \in al : x \in ToSet(L[a])
      /\ \A a, d \in al : a # d => ToSet(L[a]) \cap ToSet(L[d]) = {}
      /\ \A a \in al : L[a] # <<>> => fi[a] = L[a][Len(L[a])]
  BY DEF Arranged
<1>2. \A a \in al : \A x \in ToSet(L[a]) : x \in DOMAIN h
  BY ArrangedLists
<1>3. ASSUME NEW a \in al \ {b} PROVE ListOf(g, st2[a], M[a])
  <2>1. \A x \in ToSet(L[a]) : x \in DOMAIN g /\ g[x].next = h[x].next
    BY <1>1, <1>2
  <2>2. ListOf(g, st[a], L[a])
    BY <1>1, <2>1, ListKept
  <2> QED BY <2>2
<1>4. b \in al2 => ListOf(g, st2[b], M[b])
  BY EmptyList
<1>5. \A a \in al2 : a = b \/ a \in al \ {b}
  OBVIOUS
<1>6. b \in al2 => ToSet(M[b]) = {}
  BY DEF ToSet
<1>7. \A x \in DOMAIN g : \E a \in al2 : x \in ToSet(M[a])
  <2> SUFFICES ASSUME NEW x \in DOMAIN g PROVE \E a \in al2 : x \in ToSet(M[a])
    OBVIOUS
  <2>1. PICK a \in al : x \in ToSet(L[a])
    BY <1>1
  <2>2. a \in al \ {b}
    BY <2>1
  <2> QED BY <2>1, <2>2
<1>8. \A a, d \in al2 : a # d => ToSet(M[a]) \cap ToSet(M[d]) = {}
  <2> SUFFICES ASSUME NEW a \in al2, NEW d \in al2, a # d PROVE ToSet(M[a]) \cap ToSet(M[d]) = {}
    OBVIOUS
  <2>1. CASE a = b \/ d = b
    BY <1>6, <2>1
  <2>2. CASE a # b /\ d # b
    <3>1. M[a] = L[a] /\ M[d] = L[d] /\ ToSet(L[a]) \cap ToSet(L[d]) = {}
      BY <1>1, <2>2
    <3> QED BY <3>1
  <2> QED BY <2>1, <2>2
<1>9. \A a \in al2 : M[a] # <<>> => fi2[a] = M[a][Len(M[a])]
  BY <1>1, <1>5
<1>10. \A a \in al2 : ListOf(g, st2[a], M[a])
  BY <1>3, <1>4, <1>5
<1>11. DOMAIN g \subseteq Chunks
  BY <1>1
<1> QED BY <1>7, <1>8, <1>9, <1>10, <1>11 DEF Arranged

\* A buffer without chunks joins.
LEMMA ArrangedNew ==
  ASSUME NEW h, NEW st, NEW fi, NEW al, NEW L, Arranged(h, st, fi, al, L),
         NEW b, b \notin al,
         NEW st2, \A a \in al : st2[a] = st[a], st2[b] = Null,
         NEW fi2, \A a \in al : fi2[a] = fi[a],
         NEW M, \A a \in al : M[a] = L[a], M[b] = <<>>
  PROVE  Arranged(h, st2, fi2, al \cup {b}, M)
<1>1. /\ DOMAIN h \subseteq Chunks
      /\ \A a \in al : ListOf(h, st[a], L[a])
      /\ \A x \in DOMAIN h : \E a \in al : x \in ToSet(L[a])
      /\ \A a, d \in al : a # d => ToSet(L[a]) \cap ToSet(L[d]) = {}
      /\ \A a \in al : L[a] # <<>> => fi[a] = L[a][Len(L[a])]
  BY DEF Arranged
<1>2. ListOf(h, st2[b], M[b])
  BY EmptyList
<1>3. ToSet(M[b]) = {}
  BY DEF ToSet
<1>4. \A x \in DOMAIN h : \E a \in al \cup {b} : x \in ToSet(M[a])
  BY <1>1
<1>5. \A a, d \in al \cup {b} : a # d => ToSet(M[a]) \cap ToSet(M[d]) = {}
  BY <1>1, <1>3
<1>6. \A a \in al \cup {b} : M[a] # <<>> => fi2[a] = M[a][Len(M[a])]
  BY <1>1
<1>7. \A a \in al \cup {b} : ListOf(h, st2[a], M[a])
  BY <1>1, <1>2
<1> QED BY <1>1, <1>4, <1>5, <1>6, <1>7 DEF Arranged

\* A list is freed and that of another buffer takes its place.
LEMMA ArrangedMove ==
  ASSUME NEW h, NEW st, NEW fi, NEW al, NEW L, Arranged(h, st, fi, al, L),
         NEW b \in al, NEW d \in al, d # b,
         NEW g, DOMAIN g = DOMAIN h \ ToSet(L[b]), \A x \in DOMAIN g : g[x] = h[x],
         NEW st2, \A a \in al \ {b, d} : st2[a] = st[a], st2[b] = st[d], st2[d] = Null,
         NEW fi2, \A a \in al \ {b, d} : fi2[a] = fi[a], fi2[b] = fi[d],
         NEW M, \A a \in al \ {b, d} : M[a] = L[a], M[b] = L[d], M[d] = <<>>
  PROVE  Arranged(g, st2, fi2, al, M)
<1>1. /\ DOMAIN h \subseteq Chunks
      /\ \A a \in al : ListOf(h, st[a], L[a])
      /\ \A x \in DOMAIN h : \E a \in al : x \in ToSet(L[a])
      /\ \A a, e \in al : a # e => ToSet(L[a]) \cap ToSet(L[e]) = {}
      /\ \A a \in al : L[a] # <<>> => fi[a] = L[a][Len(L[a])]
  BY DEF Arranged
<1>2. \A a \in al : \A x \in ToSet(L[a]) : x \in DOMAIN h
  BY ArrangedLists
<1>3. ASSUME NEW a \in al \ {b} PROVE ListOf(g, st[a], L[a])
  <2>1. \A x \in ToSet(L[a]) : x \in DOMAIN g /\ g[x].next = h[x].next
    BY <1>1, <1>2
  <2> QED BY <1>1, <2>1, ListKept
<1>4. ListOf(g, st2[d], M[d])
  BY EmptyList
<1>5. \A a \in al : a = b \/ a = d \/ a \in al \ {b, d}
  OBVIOUS
<1>6. ToSet(M[d]) = {}
  BY DEF ToSet
<1>7. \A x \in DOMAIN g : \E a \in al : x \in ToSet(M[a])
  <2> SUFFICES ASSUME NEW x \in DOMAIN g PROVE \E a \in al : x \in ToSet(M[a])
    OBVIOUS
  <2>1. PICK a \in al : x \in ToSet(L[a])
    BY <1>1
  <2>2. a # b
    BY <2>1
  <2> QED BY <1>5, <2>1, <2>2
<1>8. \A a, e \in al : a # e => ToSet(M[a]) \cap ToSet(M[e]) = {}
  <2> SUFFICES ASSUME NEW a \in al, NEW e \in al, a # e PROVE ToSet(M[a]) \cap ToSet(M[e]) = {}
    OBVIOUS
  <2>1. CASE a = d \/ e = d
    BY <1>6, <2>1
  <2>2. CASE a = b /\ e # d
    <3>1. M[a] = L[d] /\ M[e] = L[e] /\ ToSet(L[d]) \cap ToSet(L[e]) = {}
      BY <1>1, <2>2
    <3> QED BY <3>1
  <2>3. CASE e = b /\ a # d
    <3>1. M[e] = L[d] /\ M[a] = L[a] /\ ToSet(L[a]) \cap ToSet(L[d]) = {}
      BY <1>1, <2>3
    <3> QED BY <3>1
  <2>4. CASE a \in al \ {b, d} /\ e \in al \ {b, d}
    <3>1. M[e] = L[e] /\ M[a] = L[a] /\ ToSet(L[a]) \cap ToSet(L[e]) = {}
      BY <1>1, <2>4
    <3> QED BY <3>1
  <2> QED BY <2>1, <2>2, <2>3, <2>4
<1>9. \A a \in al : M[a] # <<>> => fi2[a] = M[a][Len(M[a])]
  BY <1>1, <1>5
<1>10. \A a \in al : ListOf(g, st2[a], M[a])
  BY <1>3, <1>4, <1>5
<1>11. DOMAIN g \subseteq Chunks
  BY <1>1
<1> QED BY <1>7, <1>8, <1>9, <1>10, <1>11 DEF Arranged

\* The first chunk of a list is freed.
LEMMA ArrangedPop ==
  ASSUME NEW h, NEW st, NEW fi, NEW al, NEW L, Arranged(h, st, fi, al, L),
         NEW b \in al, st[b] # Null,
         NEW g, DOMAIN g = DOMAIN h \ {st[b]}, \A x \in DOMAIN g : g[x] = h[x],
         NEW st2, \A a \in al \ {b} : st2[a] = st[a], st2[b] = h[st[b]].next,
         NEW M, \A a \in al \ {b} : M[a] = L[a], M[b] = Tail(L[b])
  PROVE  /\ Arranged(g, st2, fi, al, M)
         /\ ToSet(Tail(L[b])) = ToSet(L[b]) \ {st[b]} /\ st[b] \in ToSet(L[b])
<1> DEFINE s == L[b]
           c == st[b]
<1>1. /\ DOMAIN h \subseteq Chunks
      /\ \A a \in al : ListOf(h, st[a], L[a])
      /\ \A x \in DOMAIN h : \E a \in al : x \in ToSet(L[a])
      /\ \A a, d \in al : a # d => ToSet(L[a]) \cap ToSet(L[d]) = {}
      /\ \A a \in al : L[a] # <<>> => fi[a] = L[a][Len(L[a])]
  BY DEF Arranged
<1>2. /\ \A a \in al : \A x \in ToSet(L[a]) : x \in DOMAIN h
      /\ s \in Seq(DOMAIN h) /\ Len(s) \in Nat /\ s # <<>>
  BY ArrangedLists
<1>3. /\ ListOf(g, h[c].next, Tail(s))
      /\ ToSet(Tail(s)) = ToSet(s) \ {c}
      /\ c \in ToSet(s)
  <2>1. ListOf(h, c, s)
    BY <1>1
  <2>2. s # <<>>
    BY <1>2
  <2>3. DOMAIN g = DOMAIN h \ {c}
    OBVIOUS
  <2>4. \A x \in DOMAIN g : g[x] = h[x]
    OBVIOUS
  <2> HIDE DEF s, c
  <2>5. ListOf(g, h[c].next, Tail(s)) /\ ToSet(Tail(s)) = ToSet(s) \ {c} /\ c = s[1] /\ c \in ToSet(s)
    BY ONLY <2>1, <2>2, <2>3, <2>4, ListRest, Z3
  <2> QED BY <2>5
<1>4. ASSUME NEW a \in al \ {b} PROVE ListOf(g, st2[a], M[a])
  <2>1. ASSUME NEW x \in ToSet(L[a]) PROVE x \in DOMAIN g /\ g[x].next = h[x].next
    <3>1. x \in DOMAIN h /\ ToSet(L[a]) \cap ToSet(s) = {}
      BY <1>1, <1>2
    <3>2. x # c
      BY <1>3, <3>1
    <3> QED BY <3>1, <3>2
  <2>2. ListOf(g, st[a], L[a])
    BY <1>1, <2>1, ListKept
  <2> QED BY <2>2
<1>5. \A x \in DOMAIN g : \E a \in al : x \in ToSet(M[a])
  <2> SUFFICES ASSUME NEW x \in DOMAIN g PROVE \E a \in al : x \in ToSet(M[a])
    OBVIOUS
  <2>1. PICK a \in al : x \in ToSet(L[a])
    BY <1>1
  <2> QED BY <1>3, <2>1
<1>6. \A a, d \in al : a # d => ToSet(M[a]) \cap ToSet(M[d]) = {}
  <2> SUFFICES ASSUME NEW a \in al, NEW d \in al, a # d PROVE ToSet(M[a]) \cap ToSet(M[d]) = {}
    OBVIOUS
  <2>1. ToSet(L[a]) \cap ToSet(L[d]) = {}
    BY <1>1
  <2>2. ToSet(M[a]) \subseteq ToSet(L[a]) /\ ToSet(M[d]) \subseteq ToSet(L[d])
    BY <1>3
  <2> QED BY <2>1, <2>2
<1>7. \A a \in al : M[a] # <<>> => fi[a] = M[a][Len(M[a])]
  <2>1. Tail(s) # <<>> => fi[b] = Tail(s)[Len(Tail(s))]
    <3>1. fi[b] = s[Len(s)]
      BY <1>1, <1>2
    <3>2. /\ Tail(s) \in Seq(DOMAIN h) /\ Len(Tail(s)) = Len(s) - 1
          /\ \A i \in 1..Len(Tail(s)) : Tail(s)[i] = s[i + 1]
      <4> HIDE DEF s
      <4> QED BY <1>2, HeadTailProperties
    <3>3. Tail(s) # <<>> => Len(s) - 1 \in 1..Len(Tail(s))
      BY <1>2, <3>2, EmptySeq
    <3>4. (Len(s) - 1) + 1 = Len(s)
      BY <1>2
    <3> HIDE DEF s
    <3> QED BY <3>1, <3>2, <3>3, <3>4
  <2> QED BY <1>1, <2>1
<1>8. \A a \in al : ListOf(g, st2[a], M[a])
  BY <1>3, <1>4
<1>9. DOMAIN g \subseteq Chunks
  BY <1>1
<1>10. Arranged(g, st2, fi, al, M)
  BY <1>5, <1>6, <1>7, <1>8, <1>9 DEF Arranged
<1> QED BY <1>3, <1>10

-----------------------------------------------------------------------------
(* What the operations of a list do to the memory and to the contents      *)

HeapOK ==
  /\ DOMAIN heap \subseteq Chunks
  /\ heap \in [DOMAIN heap -> Chunk]
  /\ \A c \in DOMAIN heap :
       /\ heap[c].size <= Len(heap[c].data)
       /\ Len(heap[c].data) <= heap[c].capacity

PointersOK ==
  /\ alive \subseteq Buffers
  /\ start \in [Buffers -> Chunks \cup {Null}]
  /\ finish \in [Buffers -> Chunks \cup {Null}]

\* The heap, the buffers and the lists fit together.
Sound == HeapOK /\ PointersOK /\ Memory

\* The fields of a chunk.
LEMMA ChunkFields ==
  ASSUME HeapOK, NEW c \in DOMAIN heap
  PROVE  /\ heap[c] \in Chunk
         /\ heap[c].capacity \in Nat /\ heap[c].size \in Nat
         /\ heap[c].next \in Chunks \cup {Null} /\ heap[c].data \in Seq(Chars)
         /\ heap[c].size <= Len(heap[c].data) /\ Len(heap[c].data) <= heap[c].capacity
         /\ Len(heap[c].data) \in Nat
<1>1. heap[c] \in Chunk
  BY DEF HeapOK
<1>2. /\ heap[c].capacity \in Nat /\ heap[c].size \in Nat
      /\ heap[c].next \in Chunks \cup {Null} /\ heap[c].data \in Seq(Chars)
  BY <1>1 DEF Chunk
<1>3. Len(heap[c].data) \in Nat
  BY <1>2, LenProperties
<1> QED BY <1>1, <1>2, <1>3 DEF HeapOK

\* A record with the right fields is a chunk.
LEMMA ChunkMade ==
  ASSUME NEW n \in Nat, NEW m \in Nat, NEW c \in Chunks \cup {Null}, NEW s \in Seq(Chars)
  PROVE  [capacity |-> n, size |-> m, next |-> c, data |-> s] \in Chunk
BY DEF Chunk

\* What a chunk holds is as long as its size says.
LEMMA StoredType ==
  ASSUME HeapOK, NEW c \in DOMAIN heap
  PROVE  Stored(heap, c) \in Seq(Chars) /\ Len(Stored(heap, c)) = heap[c].size
<1> DEFINE d == heap[c].data
           n == heap[c].size
<1>1. d \in Seq(Chars) /\ n \in Nat /\ n <= Len(d)
  BY ChunkFields
<1>2. Stored(heap, c) = SubSeq(d, 1, n)
  BY DEF Stored
<1> HIDE DEF d, n
<1> QED BY <1>1, <1>2 DEF n

\* The lists in sound memory.
LEMMA SoundLists ==
  ASSUME Sound, NEW b \in alive
  PROVE  /\ b \in Buffers
         /\ Lists[b] = Chain(b)
         /\ Chain(b) \in Seq(DOMAIN heap)
         /\ \A c \in ToSet(Chain(b)) : c \in DOMAIN heap
         /\ \A i, j \in 1..Len(Chain(b)) : Chain(b)[i] = Chain(b)[j] => i = j
         /\ start[b] = Null <=> Chain(b) = <<>>
         /\ start[b] # Null => /\ start[b] = Chain(b)[1]
                               /\ finish[b] = Chain(b)[Len(Chain(b))]
                               /\ start[b] \in DOMAIN heap /\ finish[b] \in DOMAIN heap
<1>1. Lists[b] = Chain(b)
  BY DEF Lists
<1>2. Arranged(heap, start, finish, alive, Lists)
  BY DEF Sound, Memory
<1>3. /\ Chain(b) \in Seq(DOMAIN heap)
      /\ \A c \in ToSet(Chain(b)) : c \in DOMAIN heap
      /\ \A i, j \in 1..Len(Chain(b)) : Chain(b)[i] = Chain(b)[j] => i = j
      /\ start[b] = Null <=> Chain(b) = <<>>
  BY <1>1, <1>2, ArrangedLists
<1>4. /\ Chain(b) # <<>> => finish[b] = Chain(b)[Len(Chain(b))]
      /\ Chain(b) # <<>> => start[b] = Chain(b)[1]
  BY <1>1, <1>2 DEF Arranged, ListOf
<1> DEFINE s == Chain(b)
<1>5. s # <<>> => s[1] \in DOMAIN heap /\ s[Len(s)] \in DOMAIN heap
  <2>1. s \in Seq(DOMAIN heap)
    BY <1>3
  <2> HIDE DEF s
  <2>2. s # <<>> => 1 \in 1..Len(s) /\ Len(s) \in 1..Len(s)
    BY <2>1, EmptySeq, LenProperties
  <2> QED BY <2>1, <2>2, InList
<1> QED BY <1>1, <1>3, <1>4, <1>5 DEF Sound, PointersOK

\* The contents of a buffer are text.
LEMMA SoundContents ==
  ASSUME Sound, NEW b \in alive
  PROVE  /\ Contents(b) = TextIn(heap, Chain(b))
         /\ Contents(b) \in Seq(Chars)
         /\ \A c \in ToSet(Chain(b)) : Stored(heap, c) \in Seq(Chars)
<1>1. Chain(b) \in Seq(DOMAIN heap) /\ \A c \in ToSet(Chain(b)) : c \in DOMAIN heap
  BY SoundLists
<1>2. \A c \in ToSet(Chain(b)) : Stored(heap, c) \in Seq(Chars)
  BY <1>1, StoredType DEF Sound
<1>3. Contents(b) = TextIn(heap, Chain(b))
  BY ContentsText
<1>4. TextIn(heap, Chain(b)) \in Seq(Chars)
  BY <1>1, <1>2, TextType
<1> QED BY <1>2, <1>3, <1>4

\* A link leads to a chunk or to none.
LEMMA SoundNext ==
  ASSUME Sound, NEW c \in DOMAIN heap
  PROVE  heap[c].next \in DOMAIN heap \cup {Null}
<1>1. Arranged(heap, start, finish, alive, Lists)
  BY DEF Sound, Memory
<1>2. PICK b \in alive : c \in ToSet(Lists[b])
  BY <1>1 DEF Arranged
<1> DEFINE s == Lists[b]
<1>3. /\ s \in Seq(DOMAIN heap)
      /\ \A i \in 1..Len(s) : heap[s[i]].next = IF i = Len(s) THEN Null ELSE s[i + 1]
  BY <1>1 DEF Arranged, ListOf
<1>4. c \in ToSet(s)
  BY <1>2
<1> HIDE DEF s
<1>5. PICK i \in 1..Len(s) : s[i] = c
  BY <1>3, <1>4, InList
<1>6. Len(s) \in Nat
  BY <1>3, InList
<1>7. i # Len(s) => i + 1 \in 1..Len(s)
  BY <1>6
<1>8. i # Len(s) => s[i + 1] \in DOMAIN heap
  BY <1>3, <1>7, InList
<1> QED BY <1>3, <1>5, <1>8

\* The contents of a buffer are the same while its list is and what is stored there.
LEMMA SameContents ==
  ASSUME Sound, NEW a \in alive, Chain(a)' = Chain(a),
         \A c \in ToSet(Chain(a)) : Stored(heap', c) = Stored(heap, c)
  PROVE  Contents(a)' = Contents(a)
<1>1. Chain(a) \in Seq(DOMAIN heap)
  BY SoundLists
<1>2. TextIn(heap', Chain(a)) = TextIn(heap, Chain(a))
  BY <1>1, TextSame
<1> QED BY <1>2, ContentsText

\* A chunk is linked at the end of the list of b.
LEMMA LinkStep ==
  ASSUME Sound, NEW b \in alive, NEW c \in Chunks \ DOMAIN heap,
         NEW chunk \in Chunk, chunk.next = Null,
         chunk.size <= Len(chunk.data), Len(chunk.data) <= chunk.capacity,
         Link(b, c, chunk), alive' = alive
  PROVE  /\ Sound'
         /\ start'[b] # Null
         /\ DOMAIN heap \subseteq DOMAIN heap'
         /\ Contents(b)' = Contents(b) \o SubSeq(chunk.data, 1, chunk.size)
         /\ \A a \in alive \ {b} : Contents(a)' = Contents(a)
<1>1. /\ alive \subseteq Buffers /\ b \in Buffers /\ start \in [Buffers -> Chunks \cup {Null}]
      /\ finish \in [Buffers -> Chunks \cup {Null}] /\ DOMAIN heap \subseteq Chunks
  BY DEF Sound, PointersOK, HeapOK
<1>2. heap' = [x \in DOMAIN heap \cup {c} |->
                CASE x = c                               -> chunk
                  [] x = finish[b] /\ start[b] # Null    -> [heap[x] EXCEPT !.next = c]
                  [] OTHER                               -> heap[x]]
  BY DEF Link
<1>3. /\ start' = [start EXCEPT ![b] = IF start[b] = Null THEN c ELSE start[b]]
      /\ finish' = [finish EXCEPT ![b] = c]
  BY DEF Link
<1>4. DOMAIN heap' = DOMAIN heap \cup {c} /\ heap'[c] = chunk
  <2>1. DOMAIN heap' = DOMAIN heap \cup {c}
    BY <1>2
  <2>2. ~(c = finish[b] /\ start[b] # Null)
    BY SoundLists
  <2>3. heap'[c] = chunk
    BY <1>2, <2>2
  <2> QED BY <2>1, <2>3
<1>5. ASSUME NEW x \in DOMAIN heap
      PROVE  /\ heap'[x] \in Chunk
             /\ heap'[x].next = IF x = finish[b] /\ start[b] # Null THEN c ELSE heap[x].next
             /\ heap'[x].size = heap[x].size /\ heap'[x].data = heap[x].data
             /\ heap'[x].capacity = heap[x].capacity
  <2>1. x # c /\ heap[x] \in Chunk
    BY ChunkFields DEF Sound
  <2>2. CASE x = finish[b] /\ start[b] # Null
    <3>1. heap'[x] = [heap[x] EXCEPT !.next = c]
      BY <1>2, <2>1, <2>2
    <3>2. [heap[x] EXCEPT !.next = c] \in Chunk
      BY <2>1 DEF Chunk
    <3> QED BY <2>1, <2>2, <3>1, <3>2 DEF Chunk
  <2>3. CASE ~(x = finish[b] /\ start[b] # Null)
    <3>1. heap'[x] = heap[x]
      BY <1>2, <2>1, <2>3
    <3> QED BY <2>1, <2>3, <3>1
  <2> QED BY <2>2, <2>3
<1>6. HeapOK'
  <2>1. heap' = [x \in DOMAIN heap' |-> heap'[x]]
    BY <1>2
  <2>2. \A x \in DOMAIN heap' : /\ heap'[x] \in Chunk /\ heap'[x].size <= Len(heap'[x].data)
                                /\ Len(heap'[x].data) <= heap'[x].capacity
    <3> SUFFICES ASSUME NEW x \in DOMAIN heap'
                 PROVE  /\ heap'[x] \in Chunk /\ heap'[x].size <= Len(heap'[x].data)
                        /\ Len(heap'[x].data) <= heap'[x].capacity
      OBVIOUS
    <3>1. CASE x = c
      BY <1>4, <3>1
    <3>2. CASE x \in DOMAIN heap
      <4>1. heap[x].size <= Len(heap[x].data) /\ Len(heap[x].data) <= heap[x].capacity
        BY <3>2, ChunkFields DEF Sound
      <4> QED BY <1>5, <3>2, <4>1
    <3> QED BY <1>4, <3>1, <3>2
  <2>3. heap' \in [DOMAIN heap' -> Chunk]
    BY <2>1, <2>2
  <2> QED BY <1>1, <1>4, <2>2, <2>3 DEF HeapOK
<1>7. PointersOK'
  BY <1>1, <1>3 DEF PointersOK
<1> DEFINE M == [a \in alive |-> IF a = b THEN Append(Chain(b), c) ELSE Chain(a)]
<1>8. Arranged(heap', start', finish', alive, M)
  <2> DEFINE h == heap
             g == heap'
             L == Lists
  <2>1. Arranged(h, start, finish, alive, L)
    BY DEF Sound, Memory
  <2>2. /\ DOMAIN g = DOMAIN h \cup {c} /\ g[c].next = Null
        /\ \A x \in DOMAIN h : g[x].next = IF x = finish[b] /\ start[b] # Null THEN c ELSE h[x].next
    BY <1>4, <1>5
  <2>3. /\ start'[b] = IF start[b] = Null THEN c ELSE start[b]
        /\ \A a \in alive \ {b} : start'[a] = start[a]
        /\ finish'[b] = c /\ \A a \in alive \ {b} : finish'[a] = finish[a]
    BY <1>1, <1>3
  <2>4. M[b] = Append(L[b], c) /\ \A a \in alive \ {b} : M[a] = L[a]
    BY DEF Lists
  <2>5. c \in Chunks \ DOMAIN h
    OBVIOUS
  <2> HIDE DEF h, g, L, M
  <2>6. Arranged(g, start', finish', alive, M)
    BY ONLY <2>1, <2>2, <2>3, <2>4, <2>5, ArrangedLink, Z3
  <2> QED BY <2>6 DEF g
<1>9. Memory' /\ \A a \in alive : Chain(a)' = M[a]
  <2> HIDE DEF M
  <2> QED BY <1>8, ArrangedChains
<1>10. Chain(b)' = Append(Chain(b), c) /\ \A a \in alive \ {b} : Chain(a)' = Chain(a)
  BY <1>9
<1>11. \A x \in DOMAIN heap : Stored(heap', x) = Stored(heap, x)
  BY <1>5 DEF Stored
<1>12. ASSUME NEW a \in alive \ {b} PROVE Contents(a)' = Contents(a)
  <2>1. \A x \in ToSet(Chain(a)) : x \in DOMAIN heap
    BY SoundLists
  <2> QED BY <1>10, <1>11, <2>1, SameContents
<1>13. Contents(b)' = Contents(b) \o SubSeq(chunk.data, 1, chunk.size)
  <2> DEFINE s == Chain(b)
             g == heap'
  <2>1. s \in Seq(DOMAIN heap) /\ \A x \in ToSet(s) : x \in DOMAIN heap
    BY SoundLists
  <2>2. \A x \in ToSet(s) : Stored(heap, x) \in Seq(Chars) /\ Stored(g, x) = Stored(heap, x)
    BY <1>11, <2>1, SoundContents
  <2>3. Stored(g, c) = SubSeq(chunk.data, 1, chunk.size) /\ Stored(g, c) \in Seq(Chars)
    <3>1. Stored(g, c) = SubSeq(chunk.data, 1, chunk.size)
      BY <1>4 DEF Stored
    <3>2. chunk.data \in Seq(Chars) /\ chunk.size \in Nat
      BY DEF Chunk
    <3> QED BY <3>1, <3>2
  <2>4. Contents(b)' = TextIn(g, Append(s, c)) /\ Contents(b) = TextIn(heap, s)
    BY <1>10, ContentsText
  <2>5. s \in Seq(Chunks) /\ c \in Chunks
    BY <1>1, <2>1, SeqMonotonic
  <2> HIDE DEF s, g
  <2>6. \A x \in ToSet(s) : Stored(g, x) \in Seq(Chars)
    BY <2>2
  <2>7. TextIn(g, Append(s, c)) = TextIn(g, s) \o Stored(g, c)
    BY ONLY <2>3, <2>5, <2>6, TextAppend, ZenonT(30)
  <2>8. TextIn(g, s) = TextIn(heap, s)
    BY <2>2, <2>5, TextSame
  <2> QED BY <2>3, <2>4, <2>7, <2>8
<1>14. start'[b] # Null
  BY <1>1, <1>3, BufferAssumption DEF BufferAssumption
<1> QED BY <1>4, <1>6, <1>7, <1>9, <1>12, <1>13, <1>14 DEF Sound

\* Chunks are freed; what holds of those that stay.
LEMMA WithoutHeap ==
  ASSUME HeapOK, NEW S, heap' = Without(S)
  PROVE  /\ HeapOK'
         /\ DOMAIN heap' = DOMAIN heap \ S
         /\ \A x \in DOMAIN heap' : heap'[x] = heap[x]
         /\ \A x \in DOMAIN heap \ S : Stored(heap', x) = Stored(heap, x)
<1>1. heap' = [x \in DOMAIN heap \ S |-> heap[x]]
  BY DEF Without
<1>2. DOMAIN heap' = DOMAIN heap \ S /\ \A x \in DOMAIN heap' : heap'[x] = heap[x]
  BY <1>1
<1>3. \A x \in DOMAIN heap : heap[x] \in Chunk
  BY DEF HeapOK
<1>4. heap' \in [DOMAIN heap' -> Chunk]
  BY <1>1, <1>3
<1>5. HeapOK'
  BY <1>2, <1>4 DEF HeapOK
<1> QED BY <1>2, <1>5 DEF Stored

\* The list of b is freed.
LEMMA FreeStep ==
  ASSUME Sound, NEW b \in alive, heap' = Without(Reach(b)),
         alive' = alive \/ alive' = alive \ {b},
         start' = [start EXCEPT ![b] = Null],
         finish' = finish \/ finish' = [finish EXCEPT ![b] = Null]
  PROVE  /\ Sound'
         /\ b \in alive' => Contents(b)' = <<>>
         /\ \A a \in alive' \ {b} : Contents(a)' = Contents(a)
         /\ \A a \in alive \ {b} : start[a] # Null => start[a] \in DOMAIN heap'
<1>1. /\ alive \subseteq Buffers /\ b \in Buffers /\ start \in [Buffers -> Chunks \cup {Null}]
      /\ finish \in [Buffers -> Chunks \cup {Null}] /\ HeapOK
  BY DEF Sound, PointersOK
<1>2. /\ HeapOK' /\ DOMAIN heap' = DOMAIN heap \ Reach(b)
      /\ \A x \in DOMAIN heap' : heap'[x] = heap[x]
      /\ \A x \in DOMAIN heap \ Reach(b) : Stored(heap', x) = Stored(heap, x)
  BY <1>1, WithoutHeap
<1>3. PointersOK'
  BY <1>1 DEF PointersOK
<1> DEFINE M == [a \in alive |-> IF a = b THEN <<>> ELSE Chain(a)]
           L == Lists
<1>4. Arranged(heap, start, finish, alive, L) /\ L[b] = Chain(b)
      /\ \A a \in alive : L[a] = Chain(a)
  BY DEF Sound, Memory, Lists
<1>5. Arranged(heap', start', finish', alive', M)
  <2> DEFINE h == heap
             g == heap'
  <2>1. DOMAIN g = DOMAIN h \ ToSet(L[b]) /\ \A x \in DOMAIN g : g[x] = h[x]
    BY <1>2, <1>4 DEF Reach
  <2>2. /\ \A a \in alive \ {b} : start'[a] = start[a]
        /\ b \in alive' => start'[b] = Null
        /\ \A a \in alive \ {b} : finish'[a] = finish[a]
    BY <1>1
  <2>3. /\ \A a \in alive \ {b} : M[a] = L[a]
        /\ b \in alive' => M[b] = <<>>
        /\ alive' \subseteq alive /\ alive \ {b} \subseteq alive'
    BY <1>4
  <2>4. Arranged(h, start, finish, alive, L)
    BY <1>4
  <2> HIDE DEF h, g, L, M
  <2>5. Arranged(g, start', finish', alive', M)
    BY ONLY <2>1, <2>2, <2>3, <2>4, ArrangedFree
  <2> QED BY <2>5 DEF g
<1>6. Memory' /\ \A a \in alive' : Chain(a)' = M[a]
  <2> HIDE DEF M
  <2> QED BY <1>5, ArrangedChains
<1>7. ASSUME NEW a \in alive \ {b}
      PROVE  \A x \in ToSet(Chain(a)) : x \in DOMAIN heap \ Reach(b)
  <2>1. \A x \in ToSet(Chain(a)) : x \in DOMAIN heap
    BY SoundLists
  <2>2. ToSet(L[a]) \cap ToSet(L[b]) = {}
    BY <1>4 DEF Arranged
  <2>3. ToSet(Chain(a)) \cap Reach(b) = {}
    BY <1>4, <2>2 DEF Reach
  <2> QED BY <2>1, <2>3
<1>8. ASSUME NEW a \in alive' \ {b} PROVE Contents(a)' = Contents(a)
  <2>1. a \in alive \ {b}
    OBVIOUS
  <2>2. Chain(a)' = Chain(a)
    BY <1>6, <2>1
  <2>3. \A x \in ToSet(Chain(a)) : Stored(heap', x) = Stored(heap, x)
    BY <1>2, <1>7, <2>1
  <2> QED BY <2>1, <2>2, <2>3, SameContents
<1>9. ASSUME b \in alive' PROVE Contents(b)' = <<>>
  <2>1. Chain(b)' = <<>>
    BY <1>6, <1>9
  <2> QED BY <2>1, ContentsText, TextEmpty
<1>10. ASSUME NEW a \in alive \ {b}, start[a] # Null PROVE start[a] \in DOMAIN heap'
  <2>1. Chain(a) \in Seq(DOMAIN heap) /\ Chain(a) # <<>> /\ start[a] = Chain(a)[1]
    BY <1>10, SoundLists
  <2> DEFINE s == Chain(a)
  <2> HIDE DEF s
  <2>2. 1 \in 1..Len(s) /\ s \in Seq(DOMAIN heap)
    BY <2>1, EmptySeq, LenProperties DEF s
  <2>3. s[1] \in ToSet(s)
    BY <2>2, InList
  <2> QED BY <1>2, <1>7, <2>1, <2>3 DEF s
<1> QED BY <1>2, <1>3, <1>6, <1>8, <1>9, <1>10 DEF Sound

\* A buffer without text is made.
LEMMA NewStep ==
  ASSUME Sound, NEW b \in Buffers \ alive, heap' = heap,
         alive' = alive \cup {b},
         start' = [start EXCEPT ![b] = Null],
         NEW p \in Chunks \cup {Null}, finish' = [finish EXCEPT ![b] = p]
  PROVE  /\ Sound'
         /\ Contents(b)' = <<>>
         /\ \A a \in alive : Contents(a)' = Contents(a)
<1>1. /\ alive \subseteq Buffers /\ start \in [Buffers -> Chunks \cup {Null}]
      /\ finish \in [Buffers -> Chunks \cup {Null}] /\ HeapOK
  BY DEF Sound, PointersOK
<1>2. HeapOK'
  BY <1>1 DEF HeapOK
<1>3. PointersOK'
  BY <1>1 DEF PointersOK
<1> DEFINE M == [a \in alive \cup {b} |-> IF a = b THEN <<>> ELSE Chain(a)]
           L == Lists
           al == alive \cup {b}
<1>4. Arranged(heap', start', finish', al, M)
  <2>1. /\ \A a \in alive : start'[a] = start[a]
        /\ start'[b] = Null
        /\ \A a \in alive : finish'[a] = finish[a]
    BY <1>1
  <2>2. /\ \A a \in alive : M[a] = L[a]
        /\ M[b] = <<>>
    BY DEF Lists
  <2>3. Arranged(heap, start, finish, alive, L) /\ b \notin alive
    BY DEF Sound, Memory
  <2> HIDE DEF L, M
  <2>4. Arranged(heap, start', finish', alive \cup {b}, M)
    BY ONLY <2>1, <2>2, <2>3, ArrangedNew, Z3
  <2> QED BY <2>4
<1>5. Memory' /\ \A a \in al : Chain(a)' = M[a]
  <2> HIDE DEF M
  <2>1. Arranged(heap', start', finish', alive', M)
    BY <1>4
  <2>2. Memory' /\ \A a \in alive' : Chain(a)' = M[a]
    BY <2>1, ArrangedChains
  <2> QED BY <2>2
<1>6. ASSUME NEW a \in alive PROVE Contents(a)' = Contents(a)
  BY <1>5, SameContents
<1>7. Contents(b)' = <<>>
  <2>1. Chain(b)' = <<>>
    BY <1>5
  <2> QED BY <2>1, ContentsText, TextEmpty
<1> QED BY <1>2, <1>3, <1>5, <1>6, <1>7 DEF Sound

\* The list of b is freed and that of d becomes b's.
LEMMA MoveStep ==
  ASSUME Sound, NEW b \in alive, NEW d \in alive, d # b, heap' = Without(Reach(b)),
         alive' = alive,
         start' = [start EXCEPT ![b] = start[d], ![d] = Null],
         finish' = [finish EXCEPT ![b] = finish[d], ![d] = Null]
  PROVE  /\ Sound'
         /\ Contents(b)' = Contents(d)
         /\ Contents(d)' = <<>>
         /\ \A a \in alive \ {b, d} : Contents(a)' = Contents(a)
<1>1. /\ alive \subseteq Buffers /\ b \in Buffers /\ d \in Buffers
      /\ start \in [Buffers -> Chunks \cup {Null}]
      /\ finish \in [Buffers -> Chunks \cup {Null}] /\ HeapOK
  BY DEF Sound, PointersOK
<1>2. /\ HeapOK' /\ DOMAIN heap' = DOMAIN heap \ Reach(b)
      /\ \A x \in DOMAIN heap' : heap'[x] = heap[x]
      /\ \A x \in DOMAIN heap \ Reach(b) : Stored(heap', x) = Stored(heap, x)
  BY <1>1, WithoutHeap
<1>3. PointersOK'
  BY <1>1 DEF PointersOK
<1> DEFINE M == [a \in alive |-> IF a = b THEN Chain(d) ELSE IF a = d THEN <<>> ELSE Chain(a)]
           L == Lists
<1>4. Arranged(heap, start, finish, alive, L) /\ \A a \in alive : L[a] = Chain(a)
  BY DEF Sound, Memory, Lists
<1>5. Arranged(heap', start', finish', alive, M)
  <2> DEFINE h == heap
             g == heap'
             st2 == start'
             fi2 == finish'
  <2>1. DOMAIN g = DOMAIN h \ ToSet(L[b]) /\ \A x \in DOMAIN g : g[x] = h[x]
    BY <1>2, <1>4 DEF Reach
  <2>2. \A a \in alive \ {b, d} : st2[a] = start[a] /\ fi2[a] = finish[a]
    BY <1>1
  <2>3. st2[b] = start[d] /\ st2[d] = Null /\ fi2[b] = finish[d]
    BY <1>1
  <2>4. /\ \A a \in alive \ {b, d} : M[a] = L[a]
        /\ M[b] = L[d] /\ M[d] = <<>>
    BY <1>4
  <2>5. Arranged(h, start, finish, alive, L) /\ b \in alive /\ d \in alive /\ d # b
    BY <1>4
  <2> HIDE DEF h, g, st2, fi2, L, M
  <2>6. Arranged(g, st2, fi2, alive, M)
    BY ONLY <2>1, <2>2, <2>3, <2>4, <2>5, ArrangedMove, SMTT(30)
  <2> QED BY <2>6 DEF g, st2, fi2
<1>6. Memory' /\ \A a \in alive : Chain(a)' = M[a]
  <2> HIDE DEF M
  <2>1. Arranged(heap', start', finish', alive', M)
    BY <1>5
  <2>2. Memory' /\ \A a \in alive' : Chain(a)' = M[a]
    BY <2>1, ArrangedChains
  <2> QED BY <2>2
<1>7. ASSUME NEW a \in alive \ {b}
      PROVE  \A x \in ToSet(Chain(a)) : Stored(heap', x) = Stored(heap, x)
  <2>1. \A x \in ToSet(Chain(a)) : x \in DOMAIN heap
    BY SoundLists
  <2>2. ToSet(L[a]) \cap ToSet(L[b]) = {}
    BY <1>4 DEF Arranged
  <2>3. ToSet(Chain(a)) \cap Reach(b) = {}
    BY <1>4, <2>2 DEF Reach
  <2> QED BY <1>2, <2>1, <2>3
<1>8. ASSUME NEW a \in alive \ {b, d} PROVE Contents(a)' = Contents(a)
  <2>1. Chain(a)' = Chain(a)
    BY <1>6
  <2> QED BY <1>7, <2>1, SameContents
<1>9. Contents(b)' = Contents(d)
  <2>1. Contents(b)' = TextIn(heap', Chain(d)) /\ Contents(d) = TextIn(heap, Chain(d))
    BY <1>6, ContentsText
  <2>2. Chain(d) \in Seq(DOMAIN heap)
    BY SoundLists
  <2>3. \A x \in ToSet(Chain(d)) : Stored(heap', x) = Stored(heap, x)
    BY <1>7
  <2> QED BY <2>1, <2>2, <2>3, TextSame
<1>10. Contents(d)' = <<>>
  <2>1. Chain(d)' = <<>>
    BY <1>6
  <2> QED BY <2>1, ContentsText, TextEmpty
<1> QED BY <1>2, <1>3, <1>6, <1>8, <1>9, <1>10 DEF Sound

\* The first chunk of b is freed.
LEMMA PopStep ==
  ASSUME Sound, NEW b \in alive, start[b] # Null, heap' = Without({start[b]}),
         alive' = alive, finish' = finish,
         start' = [start EXCEPT ![b] = heap[start[b]].next]
  PROVE  /\ Sound'
         /\ Contents(b)' \in Seq(Chars)
         /\ Contents(b) = Stored(heap, start[b]) \o Contents(b)'
         /\ \A a \in alive \ {b} : Contents(a)' = Contents(a)
<1> DEFINE c == start[b]
<1>1. /\ alive \subseteq Buffers /\ b \in Buffers /\ start \in [Buffers -> Chunks \cup {Null}]
      /\ finish \in [Buffers -> Chunks \cup {Null}] /\ HeapOK
  BY DEF Sound, PointersOK
<1>2. c \in DOMAIN heap /\ Chain(b) # <<>> /\ Chain(b) \in Seq(DOMAIN heap) /\ c = Chain(b)[1]
  BY SoundLists
<1>3. /\ HeapOK' /\ DOMAIN heap' = DOMAIN heap \ {c}
      /\ \A x \in DOMAIN heap' : heap'[x] = heap[x]
      /\ \A x \in DOMAIN heap \ {c} : Stored(heap', x) = Stored(heap, x)
  BY <1>1, WithoutHeap
<1>4. heap[c].next \in Chunks \cup {Null}
  BY <1>1, <1>2, ChunkFields
<1>5. PointersOK'
  BY <1>1, <1>4 DEF PointersOK
<1> DEFINE M == [a \in alive |-> IF a = b THEN Tail(Chain(b)) ELSE Chain(a)]
           L == Lists
<1>6. Arranged(heap, start, finish, alive, L) /\ \A a \in alive : L[a] = Chain(a)
  BY DEF Sound, Memory, Lists
<1>7. Arranged(heap', start', finish, alive, M) /\ ToSet(Tail(L[b])) = ToSet(L[b]) \ {c} /\ c \in ToSet(L[b])
  <2> DEFINE h == heap
             g == heap'
             st2 == start'
             d == h[start[b]].next
  <2>1. DOMAIN g = DOMAIN h \ {start[b]} /\ \A x \in DOMAIN g : g[x] = h[x]
    BY <1>3
  <2>2. (\A a \in alive \ {b} : st2[a] = start[a]) /\ st2[b] = h[start[b]].next
    BY <1>1
  <2>3. (\A a \in alive \ {b} : M[a] = L[a]) /\ M[b] = Tail(L[b])
    BY <1>6
  <2>4. Arranged(h, start, finish, alive, L) /\ b \in alive /\ start[b] # Null
    BY <1>6
  <2> HIDE DEF h, g, st2, L, M
  <2>5. /\ Arranged(g, st2, finish, alive, M)
        /\ ToSet(Tail(L[b])) = ToSet(L[b]) \ {start[b]} /\ start[b] \in ToSet(L[b])
    BY ONLY <2>1, <2>2, <2>3, <2>4, ArrangedPop, Z3
  <2> QED BY <2>5 DEF g, st2
<1>8. Memory' /\ \A a \in alive : Chain(a)' = M[a]
  <2> HIDE DEF M
  <2>1. Arranged(heap', start', finish', alive', M)
    BY <1>7
  <2>2. Memory' /\ \A a \in alive' : Chain(a)' = M[a]
    BY <2>1, ArrangedChains
  <2> QED BY <2>2
<1>9. ToSet(Tail(Chain(b))) = ToSet(Chain(b)) \ {c} /\ c \in ToSet(Chain(b))
  BY <1>6, <1>7
<1>10. ASSUME NEW a \in alive \ {b} PROVE Contents(a)' = Contents(a)
  <2>1. Chain(a)' = Chain(a)
    BY <1>8
  <2>2. \A x \in ToSet(Chain(a)) : x \in DOMAIN heap
    BY SoundLists
  <2>3. ToSet(Chain(a)) \cap ToSet(Chain(b)) = {}
    BY <1>6 DEF Arranged
  <2>4. \A x \in ToSet(Chain(a)) : Stored(heap', x) = Stored(heap, x)
    BY <1>3, <1>9, <2>2, <2>3
  <2> QED BY <2>1, <2>4, SameContents
<1>11. Contents(b) = Stored(heap, c) \o Contents(b)'
  <2> DEFINE s == Chain(b)
             g == heap'
             t == Tail(s)
  <2>1. s \in Seq(DOMAIN heap) /\ s # <<>> /\ s[1] = c /\ \A x \in ToSet(s) : x \in DOMAIN heap
    BY <1>2, SoundLists
  <2>2. \A x \in ToSet(s) : Stored(heap, x) \in Seq(Chars)
    BY SoundContents
  <2>3. Contents(b)' = TextIn(g, t) /\ Contents(b) = TextIn(heap, s)
    BY <1>8, ContentsText
  <2>4. \A x \in ToSet(t) : Stored(g, x) = Stored(heap, x)
    BY <1>3, <1>9, <2>1
  <2> HIDE DEF s, g, c
  <2>5. t \in Seq(DOMAIN heap)
    BY <2>1, HeadTailProperties
  <2>6. TextIn(heap, s) = Stored(heap, s[1]) \o TextIn(heap, t)
    BY ONLY <2>1, <2>2, TextTail
  <2> HIDE DEF t
  <2>7. TextIn(g, t) = TextIn(heap, t)
    BY <2>4, <2>5, TextSame
  <2> QED BY <2>1, <2>3, <2>6, <2>7
<1>12. Sound'
  BY <1>3, <1>5, <1>8 DEF Sound
<1>13. Contents(b)' \in Seq(Chars)
  <2> DEFINE t == Tail(Chain(b))
             g == heap'
  <2>1. t \in Seq(DOMAIN heap)
    <3> DEFINE s == Chain(b)
    <3>1. s \in Seq(DOMAIN heap) /\ s # <<>>
      BY <1>2
    <3> HIDE DEF s
    <3>2. Tail(s) \in Seq(DOMAIN heap)
      BY <3>1, HeadTailProperties
    <3> QED BY <3>2 DEF s
  <2>2. \A x \in ToSet(t) : Stored(g, x) \in Seq(Chars)
    <3>1. \A x \in ToSet(Chain(b)) : x \in DOMAIN heap /\ Stored(heap, x) \in Seq(Chars)
      BY SoundLists, SoundContents
    <3> QED BY <1>3, <1>9, <3>1
  <2>3. Contents(b)' = TextIn(g, t)
    BY <1>8, ContentsText
  <2> HIDE DEF t, g
  <2> QED BY <2>1, <2>2, <2>3, TextType
<1> QED BY <1>10, <1>11, <1>12, <1>13

\* Characters are stored in the last chunk of b.
LEMMA StoreStep ==
  ASSUME Sound, NEW b \in alive, start[b] # Null, NEW s \in Seq(Chars), Len(s) <= Room(b),
         Store(b, s), alive' = alive, start' = start, finish' = finish
  PROVE  /\ Sound'
         /\ DOMAIN heap' = DOMAIN heap
         /\ Contents(b)' = Contents(b) \o s
         /\ \A a \in alive \ {b} : Contents(a)' = Contents(a)
<1> DEFINE f == finish[b]
           old == heap[f]
           new == [old EXCEPT !.size = old.size + Len(s),
                              !.data = SubSeq(old.data, 1, old.size) \o s]
<1>1. /\ Chain(b) \in Seq(DOMAIN heap) /\ f \in DOMAIN heap /\ Chain(b) # <<>>
      /\ f = Chain(b)[Len(Chain(b))]
      /\ \A i, j \in 1..Len(Chain(b)) : Chain(b)[i] = Chain(b)[j] => i = j
  BY SoundLists
<1>2. HeapOK /\ heap \in [DOMAIN heap -> Chunk]
  BY DEF Sound, HeapOK
<1>3. /\ old \in Chunk /\ old.capacity \in Nat /\ old.size \in Nat /\ old.data \in Seq(Chars)
      /\ old.size <= Len(old.data) /\ Len(old.data) <= old.capacity /\ Len(old.data) \in Nat
      /\ old.next \in Chunks \cup {Null}
  BY <1>1, <1>2, ChunkFields
<1>4. heap' = [heap EXCEPT ![f] = new]
  BY DEF Store
<1>5. /\ DOMAIN heap' = DOMAIN heap /\ heap'[f] = new
      /\ \A x \in DOMAIN heap \ {f} : heap'[x] = heap[x]
      /\ heap' = [x \in DOMAIN heap |-> heap'[x]]
  <2> HIDE DEF new, f
  <2> QED BY <1>1, <1>2, <1>4
<1> DEFINE d == SubSeq(old.data, 1, old.size)
<1>6. d \in Seq(Chars) /\ Len(d) = old.size /\ Len(s) \in Nat
  <2> HIDE DEF old
  <2> QED BY <1>3
<1>7. d \o s \in Seq(Chars) /\ Len(d \o s) = old.size + Len(s) /\ SubSeq(d \o s, 1, Len(d \o s)) = d \o s
  <2> HIDE DEF d
  <2> QED BY <1>6, ConcatProperties, SubSeqFull
<1>8. /\ new.capacity = old.capacity /\ new.size = old.size + Len(s) /\ new.next = old.next
      /\ new.data = d \o s /\ new \in Chunk
  <2> DEFINE e == d \o s
             n == old.size + Len(s)
  <2>1. n \in Nat /\ e \in Seq(Chars)
    <3> HIDE DEF old, d, new
    <3> QED BY <1>3, <1>6, <1>7
  <2>2. new = [old EXCEPT !.size = n, !.data = e]
    OBVIOUS
  <2> HIDE DEF e, n, old, new
  <2>3. new.capacity = old.capacity /\ new.size = n /\ new.next = old.next /\ new.data = e /\ new \in Chunk
    BY <1>3, <2>1, <2>2 DEF Chunk
  <2> QED BY <2>3 DEF e, n
<1>9. new.size <= Len(new.data) /\ Len(new.data) <= new.capacity
  <2>1. Len(s) <= old.capacity - old.size
    BY DEF Room
  <2> HIDE DEF new, old, d
  <2> QED BY <1>3, <1>6, <1>7, <1>8, <2>1
<1>10. HeapOK'
  <2> HIDE DEF new, f
  <2>1. heap' \in [DOMAIN heap' -> Chunk]
    <3>1. \A x \in DOMAIN heap : heap'[x] \in Chunk
      BY <1>2, <1>5, <1>8
    <3> QED BY <1>5, <3>1
  <2>2. \A x \in DOMAIN heap' : heap'[x].size <= Len(heap'[x].data) /\ Len(heap'[x].data) <= heap'[x].capacity
    <3> SUFFICES ASSUME NEW x \in DOMAIN heap'
                 PROVE  heap'[x].size <= Len(heap'[x].data) /\ Len(heap'[x].data) <= heap'[x].capacity
      OBVIOUS
    <3>1. CASE x = f
      BY <1>5, <1>9, <3>1
    <3>2. CASE x # f
      BY <1>2, <1>5, <3>2 DEF HeapOK
    <3> QED BY <3>1, <3>2
  <2> QED BY <1>2, <1>5, <2>1, <2>2 DEF HeapOK
<1>11. PointersOK'
  BY DEF Sound, PointersOK
<1>12. \A x \in DOMAIN heap : heap'[x].next = heap[x].next
  <2> HIDE DEF new, f
  <2> QED BY <1>5, <1>8 DEF f
<1>13. Memory' /\ \A a \in alive : Chain(a)' = Chain(a)
  <2> DEFINE L == Lists
             g == heap'
  <2>1. Arranged(heap, start, finish, alive, L) /\ \A a \in alive : L[a] = Chain(a)
    BY DEF Sound, Memory, Lists
  <2>2. DOMAIN g = DOMAIN heap /\ \A x \in DOMAIN heap : g[x].next = heap[x].next
    BY <1>5, <1>12
  <2> HIDE DEF L, g
  <2>3. Arranged(g, start, finish, alive, L)
    BY <2>1, <2>2, ArrangedKeep
  <2>4. Arranged(heap', start', finish', alive', L)
    BY <2>3 DEF g
  <2>5. Memory' /\ \A a \in alive' : Chain(a)' = L[a]
    BY <2>4, ArrangedChains
  <2> QED BY <2>1, <2>5
<1>14. \A x \in DOMAIN heap : Stored(heap', x) = IF x = f THEN Stored(heap, f) \o s ELSE Stored(heap, x)
  <2> SUFFICES ASSUME NEW x \in DOMAIN heap
               PROVE  Stored(heap', x) = IF x = f THEN Stored(heap, f) \o s ELSE Stored(heap, x)
    OBVIOUS
  <2>1. CASE x = f
    <3>1. Stored(heap', f) = SubSeq(new.data, 1, new.size) /\ Stored(heap, f) = d
      BY <1>5 DEF Stored
    <3>2. SubSeq(new.data, 1, new.size) = d \o s
      <4> HIDE DEF new, d, old
      <4> QED BY <1>7, <1>8
    <3> HIDE DEF new, d
    <3> QED BY <2>1, <3>1, <3>2
  <2>2. CASE x # f
    BY <1>5, <2>2 DEF Stored
  <2> QED BY <2>1, <2>2
<1>15. ASSUME NEW a \in alive \ {b} PROVE Contents(a)' = Contents(a)
  <2>1. \A x \in ToSet(Chain(a)) : x \in DOMAIN heap
    BY SoundLists
  <2>2. f \notin ToSet(Chain(a))
    <3>1. ToSet(Chain(a)) \cap ToSet(Chain(b)) = {}
      BY DEF Sound, Memory, Arranged, Lists
    <3>2. f \in ToSet(Chain(b))
      <4> DEFINE t == Chain(b)
      <4>1. t \in Seq(DOMAIN heap) /\ t # <<>> /\ f = t[Len(t)]
        BY <1>1
      <4> HIDE DEF t, f
      <4>2. Len(t) \in 1..Len(t)
        BY <4>1, EmptySeq, LenProperties
      <4>3. f \in ToSet(t)
        BY <4>1, <4>2, InList
      <4> QED BY <4>3 DEF t
    <3> QED BY <3>1, <3>2
  <2>3. \A x \in ToSet(Chain(a)) : Stored(heap', x) = Stored(heap, x)
    BY <1>14, <2>1, <2>2
  <2> QED BY <1>13, <2>3, SameContents
<1>16. Contents(b)' = Contents(b) \o s
  <2> DEFINE t == Chain(b)
             g == heap'
  <2>1. /\ t \in Seq(DOMAIN heap) /\ t # <<>> /\ f = t[Len(t)]
        /\ \A i, j \in 1..Len(t) : t[i] = t[j] => i = j
    BY <1>1
  <2>2. \A x \in ToSet(t) : Stored(heap, x) \in Seq(Chars)
    BY SoundContents
  <2>3. \A x \in ToSet(t) : Stored(g, x) = IF x = t[Len(t)] THEN Stored(heap, x) \o s ELSE Stored(heap, x)
    <3>1. \A x \in ToSet(t) : x \in DOMAIN heap
      BY SoundLists
    <3> QED BY <1>14, <2>1, <3>1
  <2>4. Contents(b)' = TextIn(g, t) /\ Contents(b) = TextIn(heap, t)
    BY <1>13, ContentsText
  <2>5. s \in Seq(Chars)
    OBVIOUS
  <2> HIDE DEF t, g, f
  <2>6. TextIn(g, t) = TextIn(heap, t) \o s
    BY ONLY <2>1, <2>2, <2>3, <2>5, TextStored
  <2> QED BY <2>4, <2>6
<1> QED BY <1>5, <1>10, <1>11, <1>13, <1>15, <1>16 DEF Sound

\* A step that leaves the lists alone.
LEMMA SameStep ==
  ASSUME Sound, UNCHANGED <<heap, start, finish, alive>>
  PROVE  Sound' /\ \A b : Contents(b)' = Contents(b)
BY DEF Sound, HeapOK, PointersOK, Memory, Lists, Contents, Chain, Follow

-----------------------------------------------------------------------------
(* The invariant                                                           *)

ControlOK ==
  /\ maxChunkSize \in [Buffers -> ChunkSizes \cup {0}]
  /\ text \in [Buffers -> Texts]
  /\ copies \subseteq alive
  /\ pc \in Loops \cup {"idle", "grow"}
  /\ op \in Loops \cup {"idle"}
  /\ target \in Buffers \cup {NoBuffer}
  /\ rest \in Texts
  /\ current \in Chunks \cup {Null}

PushLoops == {"char", "string", "stream", "badStream"}

\* What a loop may rely on: its buffer lives and, except when it calls allocate,
\* has a chunk; a copy has come to an allocated chunk.
Frames ==
  /\ pc = "idle" => op = "idle" /\ target = NoBuffer /\ rest = <<>>
  /\ pc # "idle" => target \in alive
  /\ pc \in Loops => op = pc
  /\ pc = "grow" => op \in PushLoops
  /\ pc \in PushLoops => start[target] # Null
  /\ op = "char" => Len(rest) = 1
  /\ op \in {"badStream", "copy"} => rest = <<>>
  /\ pc = "copy" => target \in copies /\ current \in DOMAIN heap \cup {Null}

Pending(b) == IF b = target THEN rest ELSE <<>>

\* b's contents and what is pending make its text, if it is no copy, and are never more.
Tells(b) ==
  /\ b \notin copies => Contents(b) \o Pending(b) = text[b]
  /\ Len(Contents(b)) + Len(Pending(b)) <= Len(text[b])

Told == \A b \in alive : Tells(b)
IInv == Sound /\ ControlOK /\ Frames /\ Told

\* TypeOK is what the parts of the invariant say of types.
LEMMA TypeParts ==
  TypeOK <=> HeapOK /\ PointersOK /\ ControlOK
BY DEF TypeOK, HeapOK, PointersOK, ControlOK

\* A text is a sequence of at most MaxText characters.
LEMMA TextsAre == \A s : s \in Texts <=> s \in Seq(Chars) /\ Len(s) <= MaxText
<1> SUFFICES ASSUME NEW s PROVE s \in Texts <=> s \in Seq(Chars) /\ Len(s) <= MaxText
  OBVIOUS
<1>1. ASSUME s \in Texts PROVE s \in Seq(Chars) /\ Len(s) <= MaxText
  <2>1. PICK n \in 0..MaxText : s \in [1..n -> Chars]
    BY <1>1 DEF Texts
  <2>2. n \in Nat /\ n <= MaxText
    BY <2>1, BufferAssumption DEF BufferAssumption
  <2>3. s \in Seq(Chars)
    BY <2>1, <2>2, SeqDef
  <2>4. Len(s) = n
    BY <2>1, <2>2, <2>3, LenProperties
  <2> QED BY <2>2, <2>3, <2>4
<1>2. ASSUME s \in Seq(Chars), Len(s) <= MaxText PROVE s \in Texts
  <2>1. Len(s) \in 0..MaxText /\ s \in [1..Len(s) -> Chars]
    BY <1>2, LenProperties, BufferAssumption DEF BufferAssumption
  <2> QED BY <2>1 DEF Texts
<1> QED BY <1>1, <1>2

\* The empty text.
LEMMA NoText == <<>> \in Texts /\ <<>> \in Seq(Chars) /\ Len(<<>>) = 0
<1>1. <<>> \in Seq(Chars) /\ Len(<<>>) = 0
  BY EmptySeq
<1>2. 0 <= MaxText
  BY BufferAssumption DEF BufferAssumption
<1> QED BY <1>1, <1>2, TextsAre

\* What is known of a buffer that lives.
LEMMA Alive ==
  ASSUME IInv, NEW b \in alive
  PROVE  /\ b \in Buffers /\ b # NoBuffer
         /\ Contents(b) \in Seq(Chars)
         /\ text[b] \in Texts /\ text[b] \in Seq(Chars)
         /\ Pending(b) \in Seq(Chars)
<1>1. b \in Buffers /\ b # NoBuffer
  BY BufferAssumption DEF IInv, Sound, PointersOK, BufferAssumption
<1>2. Contents(b) \in Seq(Chars)
  BY SoundContents DEF IInv
<1>3. text[b] \in Texts /\ rest \in Texts
  BY <1>1 DEF IInv, ControlOK
<1>4. Pending(b) \in Seq(Chars)
  BY <1>3, TextsAre, NoText DEF Pending
<1> QED BY <1>1, <1>2, <1>3, <1>4, TextsAre

\* Between calls nothing is pending.
LEMMA IdleParts ==
  ASSUME IInv, Idle
  PROVE  /\ op = "idle" /\ target = NoBuffer /\ rest = <<>>
         /\ \A b \in Buffers : Pending(b) = <<>>
<1>1. op = "idle" /\ target = NoBuffer /\ rest = <<>>
  BY DEF IInv, Frames, Idle
<1> QED BY <1>1 DEF Pending

\* Between calls a call that has no loop keeps it so.
LEMMA IdleStays ==
  ASSUME IInv, Idle, UNCHANGED loop
  PROVE  /\ Frames'
         /\ \A b \in Buffers : Pending(b)' = <<>>
         /\ pc' \in Loops \cup {"idle", "grow"} /\ op' \in Loops \cup {"idle"}
         /\ target' \in Buffers \cup {NoBuffer} /\ rest' \in Texts
         /\ current' \in Chunks \cup {Null}
<1>1. op = "idle" /\ target = NoBuffer /\ rest = <<>> /\ \A b \in Buffers : Pending(b) = <<>>
  BY IdleParts
<1>2. pc' = "idle" /\ op' = "idle" /\ target' = NoBuffer /\ rest' = <<>> /\ current' = current
  BY <1>1 DEF Idle, loop
<1>3. Frames'
  BY <1>2 DEF Frames, PushLoops, Loops
<1>4. \A b \in Buffers : Pending(b)' = <<>>
  BY <1>2 DEF Pending
<1> QED BY <1>2, <1>3, <1>4, NoText DEF IInv, ControlOK

\* The end of a loop.
LEMMA LoopEnds ==
  ASSUME End
  PROVE  /\ Frames'
         /\ \A b : Pending(b)' = <<>>
         /\ pc' \in Loops \cup {"idle", "grow"} /\ op' \in Loops \cup {"idle"}
         /\ target' \in Buffers \cup {NoBuffer} /\ rest' \in Texts
         /\ current' \in Chunks \cup {Null}
<1>1. pc' = "idle" /\ op' = "idle" /\ target' = NoBuffer /\ rest' = <<>> /\ current' = Null
  BY DEF End
<1>2. Frames'
  BY <1>1 DEF Frames, PushLoops, Loops
<1>3. \A b : Pending(b)' = <<>>
  BY <1>1 DEF Pending
<1> QED BY <1>1, <1>2, <1>3, NoText

\* A buffer tells its text as long as nothing of it changes.
LEMMA TellsStill ==
  ASSUME NEW b, Tells(b), Contents(b)' = Contents(b), Pending(b)' = Pending(b),
         text'[b] = text[b], b \in copies => b \in copies'
  PROVE  Tells(b)'
BY DEF Tells

\* A buffer that holds nothing of no text.
LEMMA TellsNothing ==
  ASSUME NEW b, Contents(b)' = <<>>, Pending(b)' = <<>>, text'[b] = <<>>
  PROVE  Tells(b)'
<1>1. Len(<<>>) = 0 /\ <<>> \o <<>> = <<>>
  OBVIOUS
<1> QED BY <1>1 DEF Tells

-----------------------------------------------------------------------------
(* The calls that have no loop                                             *)

\* A new buffer is empty: no other list changes.
LEMMA ConstructHolds ==
  ASSUME IInv, NEW b \in Buffers, NEW n \in ChunkSizes, Construct(b, n)
  PROVE  IInv'
<1>1. /\ Idle /\ b \notin alive /\ alive' = alive \cup {b} /\ UNCHANGED loop
      /\ heap' = heap /\ start' = [start EXCEPT ![b] = Null] /\ finish' = [finish EXCEPT ![b] = Null]
      /\ maxChunkSize' = [maxChunkSize EXCEPT ![b] = n] /\ text' = [text EXCEPT ![b] = <<>>]
      /\ copies' = copies \ {b}
  BY DEF Construct
<1>2. Sound' /\ Contents(b)' = <<>> /\ \A a \in alive : Contents(a)' = Contents(a)
  BY <1>1, NewStep DEF IInv
<1>3. Frames' /\ ControlOK'
  BY <1>1, IdleStays, NoText DEF IInv, ControlOK
<1>4. Told'
  <2> SUFFICES ASSUME NEW a \in alive' PROVE Tells(a)'
    BY DEF Told
  <2>1. alive \subseteq Buffers
    BY DEF IInv, Sound, PointersOK
  <2>2. a \in Buffers /\ Pending(a)' = <<>> /\ Pending(a) = <<>>
    BY <1>1, <2>1, IdleStays, IdleParts
  <2>3. CASE a = b
    <3>1. text'[a] = <<>>
      BY <1>1, <2>3 DEF IInv, ControlOK
    <3> QED BY <1>2, <2>2, <2>3, <3>1, TellsNothing
  <2>4. CASE a # b
    <3>1. a \in alive /\ text'[a] = text[a] /\ (a \in copies => a \in copies')
      BY <1>1, <2>2, <2>4 DEF IInv, ControlOK
    <3> QED BY <1>2, <2>2, <3>1, TellsStill DEF IInv, Told
  <2> QED BY <2>3, <2>4
<1> QED BY <1>2, <1>3, <1>4 DEF IInv

\* clear and the destructor free the list of the buffer and no other chunk.
LEMMA ClearHolds ==
  ASSUME IInv, NEW b \in Buffers, Clear(b) \/ Destroy(b)
  PROVE  IInv'
<1>1. /\ Idle /\ b \in alive /\ UNCHANGED loop
      /\ alive' = alive \/ alive' = alive \ {b}
      /\ heap' = Without(Reach(b)) /\ start' = [start EXCEPT ![b] = Null] /\ finish' = finish
      /\ maxChunkSize' = maxChunkSize /\ text' = [text EXCEPT ![b] = <<>>]
      /\ copies' = copies \ {b}
  BY DEF Clear, Destroy
<1>2. /\ Sound' /\ (b \in alive' => Contents(b)' = <<>>)
      /\ \A a \in alive' \ {b} : Contents(a)' = Contents(a)
  BY <1>1, FreeStep DEF IInv
<1>3. Frames' /\ ControlOK'
  BY <1>1, IdleStays, NoText DEF IInv, ControlOK
<1>4. Told'
  <2> SUFFICES ASSUME NEW a \in alive' PROVE Tells(a)'
    BY DEF Told
  <2>1. a \in alive /\ a \in Buffers
    BY <1>1 DEF IInv, Sound, PointersOK
  <2>2. Pending(a)' = <<>> /\ Pending(a) = <<>>
    BY <1>1, <2>1, IdleStays, IdleParts
  <2>3. CASE a = b
    <3>1. text'[a] = <<>>
      BY <1>1, <2>3 DEF IInv, ControlOK
    <3> QED BY <1>2, <2>2, <2>3, <3>1, TellsNothing
  <2>4. CASE a # b
    <3>1. text'[a] = text[a] /\ (a \in copies => a \in copies')
      BY <1>1, <2>1, <2>4 DEF IInv, ControlOK
    <3>2. Contents(a)' = Contents(a)
      BY <1>2, <2>4
    <3> QED BY <2>1, <2>2, <3>1, <3>2, TellsStill DEF IInv, Told
  <2> QED BY <2>3, <2>4
<1> QED BY <1>2, <1>3, <1>4 DEF IInv

\* popChunk takes the first chunk, and its characters from the front of the text.
LEMMA PopChunkHolds ==
  ASSUME IInv, NEW b \in Buffers, PopChunk(b)
  PROVE  IInv'
<1> DEFINE c == start[b]
           n == heap[c].size
<1>1. /\ Idle /\ b \in alive /\ c # Null /\ UNCHANGED loop /\ alive' = alive
      /\ heap' = Without({start[b]}) /\ start' = [start EXCEPT ![b] = heap[start[b]].next]
      /\ finish' = finish /\ maxChunkSize' = maxChunkSize /\ copies' = copies
      /\ text' = [text EXCEPT ![b] = SubSeq(text[b], heap[start[b]].size + 1, Len(text[b]))]
  BY DEF PopChunk
<1>2. /\ Sound' /\ Contents(b)' \in Seq(Chars)
      /\ Contents(b) = Stored(heap, c) \o Contents(b)'
      /\ \A a \in alive \ {b} : Contents(a)' = Contents(a)
  BY <1>1, PopStep DEF IInv
<1>3. c \in DOMAIN heap /\ HeapOK
  BY <1>1, SoundLists DEF IInv, Sound
<1>4. Stored(heap, c) \in Seq(Chars) /\ Len(Stored(heap, c)) = n /\ n \in Nat
  BY <1>3, StoredType, ChunkFields
<1>5. Contents(b) \in Seq(Chars) /\ text[b] \in Texts /\ text[b] \in Seq(Chars) /\ Tells(b)
      /\ Pending(b) = <<>> /\ Pending(b)' = <<>> /\ Len(text[b]) <= MaxText
  BY <1>1, Alive, IdleParts, IdleStays, TextsAre DEF IInv, Told
<1> DEFINE t == SubSeq(text[b], n + 1, Len(text[b]))
<1>6. t \in Texts /\ text'[b] = t
  <2>1. t \in Seq(Chars) /\ Len(t) <= MaxText
    <3> DEFINE u == text[b]
    <3>1. u \in Seq(Chars) /\ Len(u) <= MaxText /\ MaxText \in Nat
      BY <1>5, BufferAssumption DEF BufferAssumption
    <3> HIDE DEF u, n
    <3>2. SubSeq(u, n + 1, Len(u)) \in Seq(Chars) /\ Len(SubSeq(u, n + 1, Len(u))) <= MaxText
      BY <1>4, <3>1
    <3> QED BY <3>2 DEF u
  <2>2. text'[b] = t
    BY <1>1 DEF IInv, ControlOK
  <2> HIDE DEF t
  <2> QED BY <2>1, <2>2, TextsAre
<1>7. Frames' /\ ControlOK'
  <2> HIDE DEF t
  <2>1. text' \in [Buffers -> Texts]
    BY <1>1, <1>6 DEF IInv, ControlOK, t
  <2> QED BY <1>1, <2>1, IdleStays DEF IInv, ControlOK
<1>8. Tells(b)'
  <2> DEFINE s == Stored(heap, c)
             r == Contents(b)'
             u == text[b]
  <2>1. /\ s \in Seq(Chars) /\ Len(s) = n /\ n \in Nat /\ r \in Seq(Chars) /\ u \in Seq(Chars)
        /\ Contents(b) = s \o r /\ t = SubSeq(u, n + 1, Len(u))
    BY <1>2, <1>4, <1>5
  <2>2. b \notin copies => s \o r \o <<>> = u
    BY <1>5, <2>1 DEF Tells
  <2>3. Len(s \o r) + Len(<<>>) <= Len(u)
    BY <1>5, <2>1 DEF Tells
  <2> HIDE DEF s, r, u, t, n
  <2>4. /\ r \o <<>> = r /\ (s \o r) \o <<>> = s \o r /\ Len(s \o r) = n + Len(r)
        /\ SubSeq(s \o r, n + 1, Len(s \o r)) = r /\ Len(<<>>) = 0
    <3>1. s \o r \in Seq(Chars) /\ Len(s \o r) = n + Len(r) /\ SubSeq(s \o r, n + 1, Len(s \o r)) = r
      <4>1. s \in Seq(Chars) /\ r \in Seq(Chars)
        BY <2>1
      <4>2. /\ s \o r \in Seq(Chars) /\ Len(s \o r) = Len(s) + Len(r)
            /\ SubSeq(s \o r, Len(s) + 1, Len(s \o r)) = r
        BY ONLY <4>1, ConcatCut
      <4> QED BY <2>1, <4>2
    <3>2. \A x \in Seq(Chars) : x \o <<>> = x
      BY ConcatEmptySeq
    <3> QED BY <2>1, <3>1, <3>2, NoText
  <2>5. s \o r = u => t = r
    BY <2>1, <2>4
  <2>6. Len(r) <= Len(t)
    BY <2>1, <2>3, <2>4
  <2>7. (b \notin copies => r \o <<>> = t) /\ Len(r) + Len(<<>>) <= Len(t)
    <3>1. Len(r) \in Nat
      BY <2>1
    <3> QED BY <2>2, <2>4, <2>5, <2>6, <3>1
  <2> QED BY <1>1, <1>5, <1>6, <2>7 DEF Tells, r
<1>9. Told'
  <2> SUFFICES ASSUME NEW a \in alive' PROVE Tells(a)'
    BY DEF Told
  <2>1. a \in alive /\ a \in Buffers
    BY <1>1 DEF IInv, Sound, PointersOK
  <2>2. CASE a = b
    BY <1>8, <2>2
  <2>3. CASE a # b
    <3>1. text'[a] = text[a] /\ (a \in copies => a \in copies')
      BY <1>1, <2>1, <2>3 DEF IInv, ControlOK
    <3>2. Contents(a)' = Contents(a) /\ Pending(a)' = Pending(a)
      BY <1>1, <1>2, <2>1, <2>3, IdleStays, IdleParts
    <3> QED BY <2>1, <3>1, <3>2, TellsStill DEF IInv, Told
  <2> QED BY <2>2, <2>3
<1> QED BY <1>2, <1>7, <1>9 DEF IInv

\* pushChunk puts a full chunk at the end of the list.
LEMMA PushChunkHolds ==
  ASSUME IInv, NEW b \in Buffers, NEW s \in Texts, PushChunk(b, s)
  PROVE  IInv'
<1>1. /\ Idle /\ b \in alive /\ UNCHANGED loop /\ alive' = alive
      /\ maxChunkSize' = maxChunkSize /\ copies' = copies
      /\ Len(text[b] \o s) <= MaxText
      /\ text' = [text EXCEPT ![b] = text[b] \o s]
  BY DEF PushChunk
<1>2. PICK c \in Chunks \ DOMAIN heap : Link(b, c, FullChunk(s))
  BY DEF PushChunk
<1> DEFINE k == FullChunk(s)
<1>3. s \in Seq(Chars) /\ Len(s) \in Nat /\ SubSeq(s, 1, Len(s)) = s
  BY TextsAre, LenProperties, SubSeqFull
<1>4. k \in Chunk /\ k.next = Null /\ k.size = Len(s) /\ k.data = s /\ k.capacity = Len(s)
  <2>1. k.next = Null /\ k.size = Len(s) /\ k.data = s /\ k.capacity = Len(s)
    BY DEF FullChunk
  <2>2. k \in Chunk
    BY <1>3, ChunkMade DEF FullChunk
  <2> QED BY <2>1, <2>2
<1>5. /\ Sound' /\ Contents(b)' = Contents(b) \o s
      /\ \A a \in alive \ {b} : Contents(a)' = Contents(a)
  <2> HIDE DEF k
  <2>1. /\ Sound /\ b \in alive /\ c \in Chunks \ DOMAIN heap /\ alive' = alive /\ Link(b, c, k)
        /\ k \in Chunk /\ k.next = Null /\ k.size <= Len(k.data) /\ Len(k.data) <= k.capacity
    BY <1>1, <1>2, <1>3, <1>4 DEF k, IInv
  <2>2. /\ Sound' /\ Contents(b)' = Contents(b) \o SubSeq(k.data, 1, k.size)
        /\ \A a \in alive \ {b} : Contents(a)' = Contents(a)
    BY <2>1, LinkStep
  <2> QED BY <1>3, <1>4, <2>2
<1>6. Contents(b) \in Seq(Chars) /\ text[b] \in Seq(Chars) /\ Tells(b)
      /\ Pending(b) = <<>> /\ Pending(b)' = <<>>
  BY <1>1, Alive, IdleParts, IdleStays DEF IInv, Told
<1>7. text[b] \o s \in Texts /\ text'[b] = text[b] \o s
  <2>1. text[b] \o s \in Seq(Chars)
    BY <1>3, <1>6
  <2>2. text'[b] = text[b] \o s
    BY <1>1 DEF IInv, ControlOK
  <2> QED BY <1>1, <2>1, <2>2, TextsAre
<1>8. Frames' /\ ControlOK'
  <2>1. text' \in [Buffers -> Texts]
    BY <1>1, <1>7 DEF IInv, ControlOK
  <2> QED BY <1>1, <2>1, IdleStays DEF IInv, ControlOK
<1>9. Tells(b)'
  <2> DEFINE r == Contents(b)
             u == text[b]
  <2>1. r \in Seq(Chars) /\ u \in Seq(Chars)
    BY <1>6
  <2>2. (b \notin copies => r \o <<>> = u) /\ Len(r) + Len(<<>>) <= Len(u)
    BY <1>6 DEF Tells
  <2> HIDE DEF r, u
  <2>3. /\ r \o <<>> = r /\ (r \o s) \o <<>> = r \o s /\ Len(<<>>) = 0
        /\ Len(r \o s) = Len(r) + Len(s) /\ Len(u \o s) = Len(u) + Len(s)
        /\ Len(r) \in Nat /\ Len(u) \in Nat
    BY <1>3, <2>1
  <2>4. Len(r \o s) + Len(<<>>) <= Len(u \o s)
    BY <1>3, <2>2, <2>3
  <2>5. b \notin copies => (r \o s) \o <<>> = u \o s
    BY <2>2, <2>3
  <2> QED BY <1>1, <1>5, <1>6, <1>7, <2>4, <2>5 DEF Tells, r, u
<1>10. Told'
  <2> SUFFICES ASSUME NEW a \in alive' PROVE Tells(a)'
    BY DEF Told
  <2>1. a \in alive /\ a \in Buffers
    BY <1>1 DEF IInv, Sound, PointersOK
  <2>2. CASE a = b
    BY <1>9, <2>2
  <2>3. CASE a # b
    <3>1. text'[a] = text[a] /\ (a \in copies => a \in copies')
      BY <1>1, <2>1, <2>3 DEF IInv, ControlOK
    <3>2. Contents(a)' = Contents(a) /\ Pending(a)' = Pending(a)
      BY <1>1, <1>5, <2>1, <2>3, IdleStays, IdleParts
    <3> QED BY <2>1, <3>1, <3>2, TellsStill DEF IInv, Told
  <2> QED BY <2>2, <2>3
<1> QED BY <1>5, <1>8, <1>10 DEF IInv

\* A move assignment frees the list of the one buffer and gives it that of the other.
LEMMA MoveAssignHolds ==
  ASSUME IInv, NEW b \in Buffers, NEW d \in Buffers, MoveAssign(b, d)
  PROVE  IInv'
<1>1. /\ Idle /\ b \in alive /\ d \in alive /\ d # b /\ UNCHANGED loop /\ alive' = alive
      /\ heap' = Without(Reach(b))
      /\ start' = [start EXCEPT ![b] = start[d], ![d] = Null]
      /\ finish' = [finish EXCEPT ![b] = finish[d], ![d] = Null]
      /\ maxChunkSize' = [maxChunkSize EXCEPT ![b] = maxChunkSize[d]]
      /\ text' = [text EXCEPT ![b] = text[d], ![d] = <<>>]
      /\ copies' = IF d \in copies THEN (copies \ {d}) \cup {b} ELSE copies \ {b}
  BY DEF MoveAssign
<1>2. /\ Sound' /\ Contents(b)' = Contents(d) /\ Contents(d)' = <<>>
      /\ \A a \in alive \ {b, d} : Contents(a)' = Contents(a)
  BY <1>1, MoveStep DEF IInv
<1>3. \A a \in alive : a \in Buffers /\ Pending(a) = <<>> /\ Pending(a)' = <<>>
  BY <1>1, IdleStays, IdleParts DEF IInv, Sound, PointersOK
<1>4. /\ text'[b] = text[d] /\ text'[d] = <<>>
      /\ \A a \in alive \ {b, d} : text'[a] = text[a] /\ (a \in copies => a \in copies')
      /\ b \notin copies' => d \notin copies
  BY <1>1, <1>3 DEF IInv, ControlOK
<1>5. Frames' /\ ControlOK'
  <2>1. Frames' /\ text' \in [Buffers -> Texts] /\ copies' \subseteq alive'
    BY <1>1, IdleStays, NoText DEF IInv, ControlOK
  <2>2. maxChunkSize' \in [Buffers -> ChunkSizes \cup {0}]
    BY <1>1 DEF IInv, ControlOK
  <2> QED BY <1>1, <2>1, <2>2, IdleStays DEF ControlOK
<1>6. Told'
  <2> SUFFICES ASSUME NEW a \in alive' PROVE Tells(a)'
    BY DEF Told
  <2>1. a \in alive
    BY <1>1
  <2>2. CASE a = b
    <3>1. Tells(d)
      BY <1>1 DEF IInv, Told
    <3> QED BY <1>1, <1>2, <1>3, <1>4, <2>2, <3>1 DEF Tells
  <2>3. CASE a = d
    BY <1>1, <1>2, <1>3, <1>4, <2>3, TellsNothing
  <2>4. CASE a \in alive \ {b, d}
    <3>1. Tells(a) /\ Contents(a)' = Contents(a) /\ Pending(a)' = Pending(a)
      BY <1>2, <1>3, <2>4 DEF IInv, Told
    <3> QED BY <1>4, <2>4, <3>1, TellsStill
  <2> QED BY <2>1, <2>2, <2>3, <2>4
<1> QED BY <1>2, <1>5, <1>6 DEF IInv

\* A move construction from an empty buffer makes an empty buffer.
LEMMA MoveConstructHolds ==
  ASSUME ~Moving, IInv, NEW b \in Buffers, NEW d \in Buffers, MoveConstruct(b, d)
  PROVE  IInv'
<1>1. /\ Idle /\ b \notin alive /\ d \in alive /\ d # b /\ UNCHANGED loop
      /\ alive' = alive \cup {b} /\ heap' = heap /\ start[d] = Null
      /\ start' = [start EXCEPT ![b] = Null]
      /\ finish' = [finish EXCEPT ![b] = finish[d]]
      /\ maxChunkSize' = [maxChunkSize EXCEPT ![b] = maxChunkSize[d]]
      /\ text' = [text EXCEPT ![b] = text[d], ![d] = <<>>]
      /\ copies' = IF d \in copies THEN (copies \ {d}) \cup {b} ELSE copies \ {b}
  BY DEF MoveConstruct
<1>2. finish[d] \in Chunks \cup {Null}
  BY DEF IInv, Sound, PointersOK
<1>3. Sound' /\ Contents(b)' = <<>> /\ \A a \in alive : Contents(a)' = Contents(a)
  <2> DEFINE p == finish[d]
  <2>1. p \in Chunks \cup {Null} /\ finish' = [finish EXCEPT ![b] = p]
    BY <1>1, <1>2
  <2> HIDE DEF p
  <2> QED BY <1>1, <2>1, NewStep DEF IInv
<1>4. \A a \in alive' : a \in Buffers /\ Pending(a) = <<>> /\ Pending(a)' = <<>>
  <2>1. \A a \in alive' : a \in Buffers
    BY <1>1 DEF IInv, Sound, PointersOK
  <2> QED BY <1>1, <2>1, IdleStays, IdleParts
<1>5. /\ text'[b] = text[d] /\ text'[d] = <<>>
      /\ \A a \in alive \ {d} : text'[a] = text[a] /\ (a \in copies => a \in copies')
      /\ b \notin copies' => d \notin copies
  BY <1>1, <1>4 DEF IInv, ControlOK
<1>6. Contents(d) = <<>>
  <2>1. Chain(d) = <<>>
    BY <1>1, SoundLists DEF IInv
  <2> QED BY <2>1, ContentsText, TextEmpty
<1>7. Frames' /\ ControlOK'
  <2>1. Frames' /\ text' \in [Buffers -> Texts] /\ copies' \subseteq alive'
    BY <1>1, IdleStays, NoText DEF IInv, ControlOK
  <2>2. maxChunkSize' \in [Buffers -> ChunkSizes \cup {0}]
    BY <1>1 DEF IInv, ControlOK
  <2> QED BY <1>1, <2>1, <2>2, IdleStays DEF ControlOK
<1>8. Told'
  <2> SUFFICES ASSUME NEW a \in alive' PROVE Tells(a)'
    BY DEF Told
  <2>1. CASE a = b
    <3>1. Tells(d) /\ Pending(d) = <<>> /\ Pending(b)' = <<>>
      BY <1>1, <1>4, <2>1 DEF IInv, Told
    <3> QED BY <1>3, <1>5, <1>6, <2>1, <3>1 DEF Tells
  <2>2. CASE a = d
    BY <1>1, <1>3, <1>4, <1>5, <1>6, <2>2, TellsNothing
  <2>3. CASE a \in alive \ {d}
    <3>1. Tells(a) /\ Contents(a)' = Contents(a) /\ Pending(a)' = Pending(a)
      BY <1>3, <1>4, <2>3 DEF IInv, Told
    <3> QED BY <1>5, <2>3, <3>1, TellsStill
  <2> QED BY <1>1, <2>1, <2>2, <2>3
<1> QED BY <1>3, <1>7, <1>8 DEF IInv

-----------------------------------------------------------------------------
(* The pushes                                                              *)

\* A push begins: what it has to store is pending.
LEMMA BeginHolds ==
  ASSUME IInv, NEW b \in Buffers, NEW o \in PushLoops, NEW s \in Seq(Chars),
         o = "char" => Len(s) = 1, o = "badStream" => s = <<>>, Begin(b, o, s)
  PROVE  IInv'
<1>1. /\ Idle /\ b \in alive /\ Len(text[b] \o s) <= MaxText
      /\ pc' = (IF start[b] = Null THEN "grow" ELSE o) /\ op' = o /\ target' = b /\ rest' = s
      /\ text' = [text EXCEPT ![b] = text[b] \o s]
      /\ UNCHANGED <<heap, start, finish, alive>>
      /\ copies' = copies /\ maxChunkSize' = maxChunkSize /\ current' = current
  BY DEF Begin, list
<1>2. Sound' /\ \A a : Contents(a)' = Contents(a)
  BY <1>1, SameStep DEF IInv
<1>3. Contents(b) \in Seq(Chars) /\ text[b] \in Seq(Chars) /\ Tells(b) /\ Pending(b) = <<>>
  BY <1>1, Alive, IdleParts DEF IInv, Told
<1>4. /\ text[b] \o s \in Seq(Chars) /\ Len(text[b] \o s) = Len(text[b]) + Len(s)
      /\ Len(text[b]) \in Nat /\ Len(s) \in Nat /\ MaxText \in Nat
  <2> DEFINE u == text[b]
  <2>1. u \in Seq(Chars)
    BY <1>3
  <2> HIDE DEF u
  <2>2. u \o s \in Seq(Chars) /\ Len(u \o s) = Len(u) + Len(s) /\ Len(u) \in Nat /\ Len(s) \in Nat
    BY <2>1
  <2> QED BY <2>2, BufferAssumption DEF BufferAssumption, u
<1>5. text[b] \o s \in Texts /\ s \in Texts
  <2>1. Len(s) <= MaxText
    BY <1>1, <1>4
  <2> QED BY <1>1, <1>4, <2>1, TextsAre
<1>6. ControlOK'
  <2>1. text' \in [Buffers -> Texts]
    BY <1>1, <1>5 DEF IInv, ControlOK
  <2>2. o \in Loops
    BY DEF PushLoops, Loops
  <2> QED BY <1>1, <1>5, <2>1, <2>2 DEF IInv, ControlOK
<1>7. Frames'
  <2>1. pc' \in {"grow", o} /\ op' = o /\ o \in {"char", "string", "stream", "badStream"}
        /\ target' \in alive' /\ (pc' # "grow" => start'[target'] # Null)
    BY <1>1 DEF PushLoops
  <2>2. op' = "char" => Len(rest') = 1
    BY <1>1
  <2>3. op' \in {"badStream", "copy"} => rest' = <<>>
    BY <1>1, <2>1
  <2> QED BY <2>1, <2>2, <2>3 DEF Frames, PushLoops, Loops
<1>8. Tells(b)'
  <2> DEFINE r == Contents(b)
             u == text[b]
  <2>1. r \in Seq(Chars) /\ u \in Seq(Chars)
    BY <1>3
  <2>2. (b \notin copies => r \o <<>> = u) /\ Len(r) + Len(<<>>) <= Len(u)
    BY <1>3 DEF Tells
  <2>3. Pending(b)' = s /\ text'[b] = u \o s /\ Contents(b)' = r
    BY <1>1, <1>2 DEF Pending, IInv, ControlOK
  <2> HIDE DEF r, u
  <2>4. r \o <<>> = r /\ Len(<<>>) = 0 /\ Len(u \o s) = Len(u) + Len(s)
        /\ Len(r) \in Nat /\ Len(u) \in Nat /\ Len(s) \in Nat
    BY <2>1
  <2>5. Len(r) + Len(s) <= Len(u \o s)
    BY <2>2, <2>4
  <2>6. b \notin copies => r \o s = u \o s
    BY <2>2, <2>4
  <2> QED BY <1>1, <2>3, <2>5, <2>6 DEF Tells
<1>9. Told'
  <2> SUFFICES ASSUME NEW a \in alive' PROVE Tells(a)'
    BY DEF Told
  <2>1. a \in alive /\ a \in Buffers
    BY <1>1 DEF IInv, Sound, PointersOK
  <2>2. CASE a = b
    BY <1>8, <2>2
  <2>3. CASE a # b
    <3>1. text'[a] = text[a]
      BY <1>1, <2>1, <2>3 DEF IInv, ControlOK
    <3>2. Pending(a)' = Pending(a)
      BY <1>1, <2>1, <2>3, IdleParts DEF Pending
    <3> QED BY <1>1, <1>2, <2>1, <3>1, <3>2, TellsStill DEF IInv, Told
  <2> QED BY <2>2, <2>3
<1> QED BY <1>2, <1>6, <1>7, <1>9 DEF IInv

\* push( char ) begins with its one character pending.
LEMMA PushCharHolds ==
  ASSUME IInv, NEW b \in Buffers, NEW c \in Chars, PushChar(b, c)
  PROVE  IInv'
<1>1. <<c>> \in Seq(Chars) /\ Len(<<c>>) = 1 /\ "char" \in PushLoops
  BY DEF PushLoops
<1> QED BY <1>1, BeginHolds DEF PushChar

\* The pushes of strings and of streams begin with theirs, or with none.
LEMMA PushStringHolds ==
  ASSUME IInv, NEW b \in Buffers, NEW s \in Texts, PushString(b, s) \/ PushStream(b, s)
  PROVE  IInv'
<1>1. "string" \in PushLoops /\ "stream" \in PushLoops /\ "badStream" \in PushLoops
  BY DEF PushLoops
<1>2. s \in Seq(Chars) /\ <<>> \in Seq(Chars)
  BY TextsAre, NoText
<1>3. Begin(b, "string", s) \/ Begin(b, "stream", s) \/ Begin(b, "badStream", <<>>)
  BY DEF PushString, PushStream
<1> QED BY <1>1, <1>2, <1>3, BeginHolds

\* A push has a chunk for the rest of what it stores.
LEMMA AllocateHolds ==
  ASSUME IInv, Allocate
  PROVE  IInv'
<1>b. PICK b : b = target
  OBVIOUS
<1>k. PICK k : k = EmptyChunk(maxChunkSize[b])
  OBVIOUS
<1>1. /\ pc = "grow" /\ pc' = op /\ alive' = alive /\ maxChunkSize' = maxChunkSize /\ text' = text
      /\ copies' = copies /\ op' = op /\ target' = target /\ rest' = rest /\ current' = current
  BY DEF Allocate, ghost
<1>2. PICK c \in Chunks \ DOMAIN heap : Link(b, c, k)
  BY <1>b, <1>k DEF Allocate
<1>3. b \in alive /\ op \in PushLoops
  BY <1>b, <1>1 DEF IInv, Frames
<1>4. b \in Buffers /\ maxChunkSize[b] \in Nat
  <2>1. b \in Buffers /\ maxChunkSize[b] \in ChunkSizes \cup {0}
    BY <1>3 DEF IInv, Sound, PointersOK, ControlOK
  <2>2. \A n \in ChunkSizes : n \in Nat
    BY BufferAssumption DEF BufferAssumption
  <2> QED BY <2>1, <2>2
<1>5. k \in Chunk /\ k.next = Null /\ k.size = 0 /\ k.data = <<>> /\ k.capacity = maxChunkSize[b]
  <2>1. k.next = Null /\ k.size = 0 /\ k.data = <<>> /\ k.capacity = maxChunkSize[b]
    BY <1>k DEF EmptyChunk
  <2>2. k \in Chunk
    BY <1>k, <1>4, ChunkMade, NoText DEF EmptyChunk
  <2> QED BY <2>1, <2>2
<1>6. /\ Sound' /\ Contents(b)' = Contents(b) /\ start'[b] # Null
      /\ \A a \in alive \ {b} : Contents(a)' = Contents(a)
  <2>1. /\ Sound /\ b \in alive /\ c \in Chunks \ DOMAIN heap /\ alive' = alive /\ Link(b, c, k)
        /\ k \in Chunk /\ k.next = Null /\ k.size <= Len(k.data) /\ Len(k.data) <= k.capacity
    BY <1>1, <1>2, <1>3, <1>4, <1>5, NoText DEF IInv
  <2>2. /\ Sound' /\ Contents(b)' = Contents(b) \o SubSeq(k.data, 1, k.size) /\ start'[b] # Null
        /\ \A a \in alive \ {b} : Contents(a)' = Contents(a)
    BY <2>1, LinkStep
  <2>3. SubSeq(k.data, 1, k.size) = <<>>
    BY <1>5
  <2>4. Contents(b) \in Seq(Chars)
    BY <1>3, SoundContents DEF IInv
  <2>5. Contents(b) \o <<>> = Contents(b)
    BY <2>4, ConcatEmptySeq
  <2> QED BY <2>2, <2>3, <2>5
<1>7. ControlOK'
  <2>1. op \in Loops
    BY <1>3 DEF PushLoops, Loops
  <2> QED BY <1>1, <2>1 DEF IInv, ControlOK
<1>8. Frames'
  <2>1. /\ pc' = op /\ op' = op /\ op \in {"char", "string", "stream", "badStream"}
        /\ target' \in alive' /\ start'[target'] # Null /\ rest' = rest
    BY <1>b, <1>1, <1>3, <1>6 DEF PushLoops
  <2>2. (op = "char" => Len(rest) = 1) /\ (op = "badStream" => rest = <<>>)
    BY DEF IInv, Frames
  <2> QED BY <2>1, <2>2 DEF Frames, PushLoops, Loops
<1>9. Told'
  <2> SUFFICES ASSUME NEW a \in alive' PROVE Tells(a)'
    BY DEF Told
  <2>1. a \in alive /\ Contents(a)' = Contents(a) /\ Tells(a) /\ Pending(a)' = Pending(a)
    BY <1>1, <1>6 DEF IInv, Told, Pending
  <2> QED BY <1>1, <2>1, TellsStill
<1> QED BY <1>6, <1>7, <1>8, <1>9 DEF IInv

\* When no chunk can be had, what is not stored is not part of the text.
LEMMA AllocateFailsHolds ==
  ASSUME IInv, AllocateFails
  PROVE  IInv'
<1>b. PICK b : b = target
  OBVIOUS
<1>1. /\ pc = "grow" /\ End /\ UNCHANGED <<heap, start, finish, alive>>
      /\ maxChunkSize' = maxChunkSize /\ copies' = copies
      /\ text' = [text EXCEPT ![b] = SubSeq(text[b], 1, Len(text[b]) - Len(rest))]
  BY <1>b DEF AllocateFails, list
<1>2. Sound' /\ \A a : Contents(a)' = Contents(a)
  BY <1>1, SameStep DEF IInv
<1>3. b \in alive
  BY <1>b, <1>1 DEF IInv, Frames
<1>4. /\ b \in Buffers /\ Contents(b) \in Seq(Chars) /\ text[b] \in Seq(Chars) /\ Len(text[b]) <= MaxText
      /\ Tells(b) /\ Pending(b) = rest /\ rest \in Seq(Chars)
  <2>1. b \in Buffers /\ Contents(b) \in Seq(Chars) /\ text[b] \in Texts /\ Tells(b) /\ Pending(b) \in Seq(Chars)
    BY <1>3, Alive DEF IInv, Told
  <2> QED BY <1>b, <2>1, TextsAre DEF Pending
<1> DEFINE r == Contents(b)
           u == text[b]
           n == Len(u) - Len(rest)
           t == SubSeq(u, 1, n)
<1>5. /\ r \in Seq(Chars) /\ u \in Seq(Chars) /\ rest \in Seq(Chars) /\ Len(u) <= MaxText
      /\ b \notin copies => r \o rest = u
      /\ Len(r) + Len(rest) <= Len(u)
  BY <1>4 DEF Tells
<1>6. /\ t \in Seq(Chars) /\ Len(t) = n /\ Len(r) <= n /\ Len(t) <= MaxText
      /\ b \notin copies => t = r
  <2> HIDE DEF r, u
  <2>1. Len(r) \in Nat /\ Len(u) \in Nat /\ Len(rest) \in Nat /\ MaxText \in Nat
    BY <1>5, LenProperties, BufferAssumption DEF BufferAssumption
  <2>2. n \in Nat /\ n <= Len(u) /\ Len(r) <= n /\ n <= MaxText
    BY <1>5, <2>1
  <2>3. /\ Len(r \o rest) = Len(r) + Len(rest) /\ SubSeq(r \o rest, 1, Len(r)) = r
    BY <1>5, ConcatCut
  <2>4. b \notin copies => t = r
    <3> SUFFICES ASSUME b \notin copies PROVE t = r
      OBVIOUS
    <3>1. u = r \o rest
      BY <1>5
    <3>2. n = Len(r)
      BY <2>1, <2>3, <3>1
    <3> QED BY <2>3, <3>1, <3>2
  <2>5. t \in Seq(Chars) /\ Len(t) = n
    <3> HIDE DEF n
    <3> QED BY <1>5, <2>2
  <2> HIDE DEF n, t
  <2> QED BY <2>2, <2>4, <2>5
<1>7. t \in Texts /\ text'[b] = t
  <2>1. text'[b] = t
    BY <1>1, <1>4 DEF IInv, ControlOK
  <2> HIDE DEF t
  <2> QED BY <1>6, <2>1, TextsAre
<1>8. Frames' /\ ControlOK'
  <2> HIDE DEF t
  <2>1. text' \in [Buffers -> Texts]
    BY <1>1, <1>7 DEF IInv, ControlOK, t
  <2> QED BY <1>1, <2>1, LoopEnds DEF IInv, ControlOK
<1>9. Tells(b)'
  <2>1. Pending(b)' = <<>> /\ Contents(b)' = r
    BY <1>1, <1>2, LoopEnds
  <2> HIDE DEF r, t, u, n
  <2>2. r \o <<>> = r /\ Len(<<>>) = 0 /\ Len(r) \in Nat
    BY <1>5, ConcatEmptySeq, LenProperties, NoText
  <2>3. Len(r) + Len(<<>>) <= Len(t)
    BY <1>6, <2>2
  <2> QED BY <1>1, <1>6, <1>7, <2>1, <2>2, <2>3 DEF Tells
<1>10. Told'
  <2> SUFFICES ASSUME NEW a \in alive' PROVE Tells(a)'
    BY DEF Told
  <2>1. a \in alive /\ a \in Buffers
    BY <1>1 DEF IInv, Sound, PointersOK
  <2>2. CASE a = b
    BY <1>9, <2>2
  <2>3. CASE a # b
    <3>1. text'[a] = text[a]
      BY <1>1, <2>1, <2>3 DEF IInv, ControlOK
    <3>2. Pending(a)' = Pending(a)
      BY <1>b, <1>1, <2>3, LoopEnds DEF Pending
    <3> QED BY <1>1, <1>2, <2>1, <3>1, <3>2, TellsStill DEF IInv, Told
  <2> QED BY <2>2, <2>3
<1> QED BY <1>2, <1>8, <1>10 DEF IInv

\* The room in the last chunk of a push's buffer.
LEMMA RoomType ==
  ASSUME IInv, pc \in PushLoops
  PROVE  /\ target \in alive /\ target \in Buffers /\ start[target] # Null
         /\ Room(target) \in Nat
         /\ op = pc /\ rest \in Seq(Chars) /\ Len(rest) \in Nat
<1>1. target \in alive /\ start[target] # Null /\ op = pc
  <2>1. pc \in Loops /\ pc # "idle"
    BY DEF PushLoops, Loops
  <2> QED BY <2>1 DEF IInv, Frames
<1>2. finish[target] \in DOMAIN heap /\ target \in Buffers
  BY <1>1, SoundLists DEF IInv
<1>3. Room(target) \in Nat
  <2> DEFINE x == heap[finish[target]]
  <2>1. /\ x.capacity \in Nat /\ x.size \in Nat /\ Len(x.data) \in Nat
        /\ x.size <= Len(x.data) /\ Len(x.data) <= x.capacity
    BY <1>2, ChunkFields DEF IInv, Sound
  <2>2. Room(target) = x.capacity - x.size
    BY DEF Room
  <2> HIDE DEF x
  <2> QED BY <2>1, <2>2
<1>4. rest \in Seq(Chars)
  BY TextsAre DEF IInv, ControlOK
<1> QED BY <1>1, <1>2, <1>3, <1>4, LenProperties

\* A push stores the rest and ends.
LEMMA StoreEndsHolds ==
  ASSUME IInv, pc \in PushLoops, Len(rest) <= Room(target), Store(target, rest), End,
         UNCHANGED <<start, finish, alive, maxChunkSize, ghost>>
  PROVE  IInv'
<1>b. PICK b : b = target
  OBVIOUS
<1>s. PICK s : s = rest
  OBVIOUS
<1>1. /\ b \in alive /\ start[b] # Null /\ s \in Seq(Chars) /\ Len(s) <= Room(b) /\ Store(b, s)
      /\ alive' = alive /\ start' = start /\ finish' = finish
      /\ maxChunkSize' = maxChunkSize /\ text' = text /\ copies' = copies
  BY <1>b, <1>s, RoomType DEF ghost
<1>2. /\ Sound' /\ Contents(b)' = Contents(b) \o s
      /\ \A a \in alive \ {b} : Contents(a)' = Contents(a)
  BY <1>1, StoreStep DEF IInv
<1>3. Frames' /\ ControlOK'
  BY <1>1, LoopEnds DEF IInv, ControlOK
<1>4. Tells(b)'
  <2> DEFINE r == Contents(b)
             u == text[b]
  <2>1. r \in Seq(Chars) /\ u \in Seq(Chars)
    BY <1>1, Alive
  <2>2. (b \notin copies => r \o s = u) /\ Len(r) + Len(s) <= Len(u)
    BY <1>b, <1>s, <1>1 DEF IInv, Told, Tells, Pending
  <2> HIDE DEF r, u
  <2>3. /\ (r \o s) \o <<>> = r \o s /\ Len(<<>>) = 0 /\ Len(r \o s) = Len(r) + Len(s)
        /\ Len(r) \in Nat /\ Len(s) \in Nat
    <3>1. r \o s \in Seq(Chars) /\ Len(r \o s) = Len(r) + Len(s) /\ Len(r) \in Nat /\ Len(s) \in Nat
      BY <1>1, <2>1
    <3> QED BY <3>1, ConcatEmptySeq, NoText
  <2>4. Len(r \o s) + Len(<<>>) <= Len(u)
    BY <2>2, <2>3
  <2>5. b \notin copies => (r \o s) \o <<>> = u
    BY <2>2, <2>3
  <2>6. Pending(b)' = <<>>
    BY LoopEnds
  <2> QED BY <1>1, <1>2, <2>4, <2>5, <2>6 DEF Tells, r, u
<1>5. Told'
  <2> SUFFICES ASSUME NEW a \in alive' PROVE Tells(a)'
    BY DEF Told
  <2>1. CASE a = b
    BY <1>4, <2>1
  <2>2. CASE a # b
    <3>1. Pending(a)' = Pending(a)
      BY <1>b, <2>2, LoopEnds DEF Pending
    <3> QED BY <1>1, <1>2, <2>2, <3>1, TellsStill DEF IInv, Told
  <2> QED BY <2>1, <2>2
<1> QED BY <1>2, <1>3, <1>5 DEF IInv

\* A push fills the last chunk and goes on in a new one.
LEMMA StoreGrowsHolds ==
  ASSUME IInv, pc \in {"string", "stream"}, Room(target) <= Len(rest),
         Store(target, SubSeq(rest, 1, Room(target))),
         rest' = SubSeq(rest, Room(target) + 1, Len(rest)),
         Grow, UNCHANGED <<start, finish, alive, maxChunkSize, ghost>>
  PROVE  IInv'
<1>b. PICK b : b = target
  OBVIOUS
<1>n. PICK n : n = Room(b)
  OBVIOUS
<1>s. PICK s : s = SubSeq(rest, 1, n)
  OBVIOUS
<1>p. pc \in PushLoops
  BY DEF PushLoops
<1>1. /\ b \in alive /\ start[b] # Null /\ n \in Nat /\ Store(b, s) /\ op = pc
      /\ rest \in Seq(Chars) /\ Len(rest) \in Nat /\ n <= Len(rest)
      /\ rest' = SubSeq(rest, n + 1, Len(rest))
      /\ pc' = "grow" /\ op' = op /\ target' = target /\ current' = current
      /\ alive' = alive /\ start' = start /\ finish' = finish
      /\ maxChunkSize' = maxChunkSize /\ text' = text /\ copies' = copies
  BY <1>b, <1>n, <1>s, <1>p, RoomType DEF ghost, Grow
<1>2. /\ s \in Seq(Chars) /\ Len(s) = n /\ rest' \in Seq(Chars) /\ Len(rest') = Len(rest) - n
      /\ s \o rest' = rest
  <2> DEFINE q == rest
  <2>1. q \in Seq(Chars) /\ n \in Nat /\ n <= Len(q) /\ Len(q) \in Nat /\ s = SubSeq(q, 1, n)
    BY <1>s, <1>1
  <2> HIDE DEF q
  <2>2. /\ SubSeq(q, 1, n) \in Seq(Chars) /\ Len(SubSeq(q, 1, n)) = n
        /\ SubSeq(q, n + 1, Len(q)) \in Seq(Chars) /\ Len(SubSeq(q, n + 1, Len(q))) = Len(q) - n
    BY <2>1
  <2>3. SubSeq(q, 1, n) \o SubSeq(q, n + 1, Len(q)) = q
    <3>1. 1 \in 1..(Len(q) + 1) /\ n \in (1 - 1)..Len(q) /\ Len(q) \in n..Len(q)
      BY <2>1
    <3>2. SubSeq(q, 1, n) \o SubSeq(q, n + 1, Len(q)) = SubSeq(q, 1, Len(q))
      BY <2>1, <3>1, ConcatAdjacentSubSeq
    <3> QED BY <2>1, <3>2, SubSeqFull
  <2> QED BY <1>1, <2>1, <2>2, <2>3 DEF q
<1>3. /\ Sound' /\ Contents(b)' = Contents(b) \o s
      /\ \A a \in alive \ {b} : Contents(a)' = Contents(a)
  <2>1. /\ Sound /\ b \in alive /\ start[b] # Null /\ s \in Seq(Chars) /\ Len(s) <= Room(b)
        /\ Store(b, s) /\ alive' = alive /\ start' = start /\ finish' = finish
    <3>1. Len(s) <= Room(b)
      BY <1>n, <1>1, <1>2
    <3> QED BY <1>1, <1>2, <3>1 DEF IInv
  <2> QED BY <2>1, StoreStep
<1>4. ControlOK'
  <2>1. rest' \in Texts
    <3>1. Len(rest) <= MaxText /\ MaxText \in Nat
      BY TextsAre, BufferAssumption DEF IInv, ControlOK, BufferAssumption
    <3>2. Len(rest') <= MaxText
      BY <1>1, <1>2, <3>1
    <3> QED BY <1>2, <3>2, TextsAre
  <2> QED BY <1>1, <2>1 DEF IInv, ControlOK
<1>5. Frames'
  BY <1>b, <1>1 DEF Frames, PushLoops, Loops
<1>6. Tells(b)'
  <2> DEFINE r == Contents(b)
             u == text[b]
             q == rest
             t == rest'
  <2>1. r \in Seq(Chars) /\ u \in Seq(Chars) /\ s \in Seq(Chars) /\ t \in Seq(Chars) /\ s \o t = q
    BY <1>1, <1>2, Alive
  <2>2. (b \notin copies => r \o q = u) /\ Len(r) + Len(q) <= Len(u)
    BY <1>b, <1>1 DEF IInv, Told, Tells, Pending
  <2>3. Pending(b)' = t /\ Contents(b)' = r \o s /\ text'[b] = u /\ copies' = copies
    BY <1>b, <1>1, <1>3 DEF Pending
  <2> HIDE DEF r, u, q, t
  <2>4. /\ (r \o s) \o t = r \o (s \o t) /\ Len(r \o s) = Len(r) + Len(s)
        /\ Len(s \o t) = Len(s) + Len(t)
        /\ Len(r) \in Nat /\ Len(s) \in Nat /\ Len(t) \in Nat
    <3>1. (r \o s) \o t = r \o (s \o t)
      <4>1. r \in Seq(Chars) /\ s \in Seq(Chars) /\ t \in Seq(Chars)
        BY <2>1
      <4> QED BY ONLY <4>1, ConcatAssociative
    <3> QED BY <2>1, <3>1
  <2>5. Len(r \o s) + Len(t) <= Len(u)
    BY <2>1, <2>2, <2>4
  <2>6. b \notin copies => (r \o s) \o t = u
    BY <2>1, <2>2, <2>4
  <2> QED BY <2>3, <2>5, <2>6 DEF Tells
<1>7. Told'
  <2> SUFFICES ASSUME NEW a \in alive' PROVE Tells(a)'
    BY DEF Told
  <2>1. CASE a = b
    BY <1>6, <2>1
  <2>2. CASE a # b
    <3>1. Pending(a)' = Pending(a)
      BY <1>b, <1>1, <2>2 DEF Pending
    <3> QED BY <1>1, <1>3, <2>2, <3>1, TellsStill DEF IInv, Told
  <2> QED BY <2>1, <2>2
<1> QED BY <1>3, <1>4, <1>5, <1>7 DEF IInv

\* push( char ) stores its character or asks for a chunk.
LEMMA StoreCharHolds ==
  ASSUME IInv, StoreChar
  PROVE  IInv'
<1>1. /\ pc = "char" /\ pc \in PushLoops /\ UNCHANGED <<start, finish, alive, maxChunkSize, ghost>>
  BY DEF StoreChar, PushLoops
<1>2. op = "char" /\ Len(rest) = 1 /\ target \in alive /\ Room(target) \in Nat
  BY <1>1, RoomType DEF IInv, Frames
<1>3. CASE Room(target) = 0 /\ Grow /\ UNCHANGED <<heap, rest>>
  <2>1. /\ pc' = "grow" /\ op' = op /\ target' = target /\ current' = current /\ rest' = rest
        /\ UNCHANGED <<heap, start, finish, alive>>
        /\ maxChunkSize' = maxChunkSize /\ text' = text /\ copies' = copies
    BY <1>1, <1>3 DEF Grow, ghost
  <2>2. Sound' /\ \A a : Contents(a)' = Contents(a)
    BY <2>1, SameStep DEF IInv
  <2>3. ControlOK'
    BY <2>1 DEF IInv, ControlOK
  <2>4. Frames'
    BY <1>2, <2>1 DEF Frames, PushLoops, Loops
  <2>5. Told'
    <3> SUFFICES ASSUME NEW a \in alive' PROVE Tells(a)'
      BY DEF Told
    <3>1. Pending(a)' = Pending(a)
      BY <2>1 DEF Pending
    <3> QED BY <2>1, <2>2, <3>1, TellsStill DEF IInv, Told
  <2> QED BY <2>2, <2>3, <2>4, <2>5 DEF IInv
<1>4. CASE Room(target) # 0 /\ Store(target, rest) /\ End
  <2>1. Len(rest) <= Room(target)
    BY <1>2, <1>4
  <2> QED BY <1>1, <1>4, <2>1, StoreEndsHolds
<1> QED BY <1>3, <1>4 DEF StoreChar

\* A turn of the loops of strings and streams fills the last chunk or ends.
LEMMA StoreStringHolds ==
  ASSUME IInv, StoreString \/ StoreStream
  PROVE  IInv'
<1> DEFINE n == Room(target)
<1>1. pc \in {"string", "stream"} /\ pc \in PushLoops /\ UNCHANGED <<start, finish, alive, maxChunkSize, ghost>>
  BY DEF StoreString, StoreStream, PushLoops
<1>2. n \in Nat /\ Len(rest) \in Nat
  BY <1>1, RoomType
<1>3. \/ /\ n <= Len(rest)
         /\ Store(target, SubSeq(rest, 1, n))
         /\ rest' = SubSeq(rest, n + 1, Len(rest))
         /\ Grow
      \/ /\ Len(rest) <= n
         /\ Store(target, rest)
         /\ End
  BY <1>2 DEF StoreString, StoreStream
<1> QED BY <1>1, <1>3, StoreEndsHolds, StoreGrowsHolds

\* The end of a loop with nothing pending.
LEMMA EndsHolds ==
  ASSUME IInv, StoreNothing \/ CopyEnds
  PROVE  IInv'
<1>1. /\ pc \in {"badStream", "copy"} /\ End /\ UNCHANGED <<heap, start, finish, alive>>
      /\ maxChunkSize' = maxChunkSize /\ text' = text /\ copies' = copies
  BY DEF StoreNothing, CopyEnds, list, ghost
<1>2. rest = <<>>
  <2>1. op = pc
    BY <1>1 DEF IInv, Frames, Loops
  <2> QED BY <1>1, <2>1 DEF IInv, Frames
<1>3. Sound' /\ \A a : Contents(a)' = Contents(a)
  BY <1>1, SameStep DEF IInv
<1>4. Frames' /\ ControlOK'
  BY <1>1, LoopEnds DEF IInv, ControlOK
<1>5. Told'
  <2> SUFFICES ASSUME NEW a \in alive' PROVE Tells(a)'
    BY DEF Told
  <2>1. Pending(a)' = <<>> /\ Pending(a) = <<>>
    BY <1>1, <1>2, LoopEnds DEF Pending
  <2> QED BY <1>1, <1>3, <2>1, TellsStill DEF IInv, Told
<1> QED BY <1>3, <1>4, <1>5 DEF IInv

-----------------------------------------------------------------------------
(* The copies                                                              *)

\* A copy construction begins with an empty list.
LEMMA CopyConstructHolds ==
  ASSUME IInv, NEW b \in Buffers, NEW d \in Buffers, CopyConstruct(b, d)
  PROVE  IInv'
<1>1. /\ Idle /\ b \notin alive /\ d \in alive /\ d # b /\ alive' = alive \cup {b} /\ heap' = heap
      /\ start' = [start EXCEPT ![b] = Null] /\ finish' = [finish EXCEPT ![b] = Null]
      /\ maxChunkSize' = [maxChunkSize EXCEPT ![b] = maxChunkSize[d]]
      /\ text' = [text EXCEPT ![b] = text[d]] /\ copies' = copies \cup {b}
      /\ pc' = "copy" /\ op' = "copy" /\ target' = b /\ rest' = rest /\ current' = start'[d]
  BY DEF CopyConstruct, Copy
<1>2. Sound' /\ Contents(b)' = <<>> /\ \A a \in alive : Contents(a)' = Contents(a)
  BY <1>1, NewStep DEF IInv
<1>3. rest = <<>> /\ \A a \in Buffers : Pending(a) = <<>>
  BY <1>1, IdleParts
<1>4. current' \in DOMAIN heap' \cup {Null} /\ current' \in Chunks \cup {Null}
  <2>1. start'[d] = start[d]
    BY <1>1 DEF IInv, Sound, PointersOK
  <2>2. start[d] # Null => start[d] \in DOMAIN heap
    BY <1>1, SoundLists DEF IInv
  <2> QED BY <1>1, <2>1, <2>2 DEF IInv, Sound, PointersOK
<1>5. ControlOK'
  <2>1. /\ maxChunkSize' \in [Buffers -> ChunkSizes \cup {0}] /\ text' \in [Buffers -> Texts]
        /\ copies' \subseteq alive'
    BY <1>1 DEF IInv, ControlOK
  <2> QED BY <1>1, <1>3, <1>4, <2>1, NoText DEF ControlOK, Loops
<1>6. Frames'
  BY <1>1, <1>3, <1>4 DEF Frames, PushLoops, Loops
<1>7. Told'
  <2> SUFFICES ASSUME NEW a \in alive' PROVE Tells(a)'
    BY DEF Told
  <2>1. a \in Buffers /\ Pending(a)' = <<>> /\ Pending(a) = <<>>
    <3>1. a \in Buffers
      BY <1>1 DEF IInv, Sound, PointersOK
    <3> QED BY <1>1, <1>3, <3>1 DEF Pending
  <2>2. CASE a = b
    <3>1. text'[b] = text[d] /\ b \in copies' /\ Contents(b)' = <<>>
      BY <1>1, <1>2 DEF IInv, ControlOK
    <3>2. Len(<<>>) = 0 /\ Len(text[d]) \in Nat /\ Len(text[d]) >= 0
      BY <1>1, Alive, LenProperties, NoText
    <3>3. Len(<<>>) + Len(<<>>) <= Len(text[d])
      BY <3>2
    <3> QED BY <2>1, <2>2, <3>1, <3>3 DEF Tells
  <2>3. CASE a # b
    <3>1. a \in alive /\ text'[a] = text[a] /\ (a \in copies => a \in copies')
      BY <1>1, <2>1, <2>3 DEF IInv, ControlOK
    <3> QED BY <1>2, <2>1, <3>1, TellsStill DEF IInv, Told
  <2> QED BY <2>2, <2>3
<1> QED BY <1>2, <1>5, <1>6, <1>7 DEF IInv

\* A copy assignment, of a buffer to itself too, begins with an empty list.
LEMMA CopyAssignHolds ==
  ASSUME IInv, NEW b \in Buffers, NEW d \in Buffers, CopyAssign(b, d)
  PROVE  IInv'
<1>1. /\ Idle /\ b \in alive /\ d \in alive /\ alive' = alive /\ heap' = Without(Reach(b))
      /\ start' = [start EXCEPT ![b] = Null] /\ finish' = [finish EXCEPT ![b] = Null]
      /\ maxChunkSize' = [maxChunkSize EXCEPT ![b] = maxChunkSize[d]]
      /\ text' = [text EXCEPT ![b] = text[d]] /\ copies' = copies \cup {b}
      /\ pc' = "copy" /\ op' = "copy" /\ target' = b /\ rest' = rest /\ current' = start'[d]
  BY DEF CopyAssign, Copy
<1>2. /\ Sound' /\ (b \in alive' => Contents(b)' = <<>>)
      /\ \A a \in alive' \ {b} : Contents(a)' = Contents(a)
      /\ \A a \in alive \ {b} : start[a] # Null => start[a] \in DOMAIN heap'
  BY <1>1, FreeStep DEF IInv
<1>3. rest = <<>> /\ \A a \in Buffers : Pending(a) = <<>>
  BY <1>1, IdleParts
<1>4. current' \in DOMAIN heap' \cup {Null} /\ current' \in Chunks \cup {Null}
  <2>1. start'[d] = IF d = b THEN Null ELSE start[d]
    BY <1>1 DEF IInv, Sound, PointersOK
  <2>2. start'[d] \in Chunks \cup {Null}
    BY <2>1 DEF IInv, Sound, PointersOK
  <2> QED BY <1>1, <1>2, <2>1, <2>2
<1>5. ControlOK'
  <2>1. /\ maxChunkSize' \in [Buffers -> ChunkSizes \cup {0}] /\ text' \in [Buffers -> Texts]
        /\ copies' \subseteq alive'
    BY <1>1 DEF IInv, ControlOK
  <2> QED BY <1>1, <1>3, <1>4, <2>1, NoText DEF ControlOK, Loops
<1>6. Frames'
  BY <1>1, <1>3, <1>4 DEF Frames, PushLoops, Loops
<1>7. Told'
  <2> SUFFICES ASSUME NEW a \in alive' PROVE Tells(a)'
    BY DEF Told
  <2>1. a \in Buffers /\ Pending(a)' = <<>> /\ Pending(a) = <<>>
    <3>1. a \in Buffers
      BY <1>1 DEF IInv, Sound, PointersOK
    <3> QED BY <1>1, <1>3, <3>1 DEF Pending
  <2>2. CASE a = b
    <3>1. text'[b] = text[d] /\ b \in copies' /\ Contents(b)' = <<>>
      BY <1>1, <1>2 DEF IInv, ControlOK
    <3>2. Len(<<>>) = 0 /\ Len(text[d]) \in Nat /\ Len(text[d]) >= 0
      BY <1>1, Alive, LenProperties, NoText
    <3>3. Len(<<>>) + Len(<<>>) <= Len(text[d])
      BY <3>2
    <3> QED BY <2>1, <2>2, <3>1, <3>3 DEF Tells
  <2>3. CASE a # b
    <3>1. a \in alive /\ text'[a] = text[a] /\ (a \in copies => a \in copies')
      BY <1>1, <2>1, <2>3 DEF IInv, ControlOK
    <3>2. Contents(a)' = Contents(a)
      BY <1>2, <2>3
    <3> QED BY <2>1, <3>1, <3>2, TellsStill DEF IInv, Told
  <2> QED BY <2>2, <2>3
<1> QED BY <1>2, <1>5, <1>6, <1>7 DEF IInv

\* A turn of the copy links a chunk that counts no characters.
LEMMA CopyChunkHolds ==
  ASSUME IInv, CopyChunk
  PROVE  IInv'
<1>b. PICK b : b = target
  OBVIOUS
<1>k. PICK k : k = [EmptyChunk(heap[current].capacity) EXCEPT
                      !.data = SubSeq(heap[current].data, 1, heap[current].size)]
  OBVIOUS
<1>1. /\ pc = "copy" /\ current # Null /\ current' = heap[current].next /\ alive' = alive
      /\ maxChunkSize' = maxChunkSize /\ text' = text /\ copies' = copies
      /\ pc' = pc /\ op' = op /\ target' = target /\ rest' = rest
  BY DEF CopyChunk, ghost
<1>2. PICK c \in Chunks \ DOMAIN heap : Link(b, c, k)
  BY <1>b, <1>k DEF CopyChunk
<1>3. b \in alive /\ b \in copies /\ current \in DOMAIN heap /\ op = "copy" /\ rest = <<>>
  BY <1>b, <1>1 DEF IInv, Frames, Loops
<1>4. heap[current].next \in DOMAIN heap \cup {Null}
  BY <1>3, SoundNext DEF IInv
<1>5. k \in Chunk /\ k.next = Null /\ k.size = 0 /\ Len(k.data) \in Nat /\ Len(k.data) <= k.capacity
      /\ k.data \in Seq(Chars)
  <2> DEFINE x == heap[current]
             d == SubSeq(x.data, 1, x.size)
  <2>1. /\ x.capacity \in Nat /\ x.size \in Nat /\ x.data \in Seq(Chars) /\ Len(x.data) \in Nat
        /\ x.size <= Len(x.data) /\ Len(x.data) <= x.capacity
    BY <1>3, ChunkFields DEF IInv, Sound
  <2>2. d \in Seq(Chars) /\ Len(d) = x.size
    <3> HIDE DEF x
    <3> QED BY <2>1
  <2>3. k = [capacity |-> x.capacity, size |-> 0, next |-> Null, data |-> d]
    <3> DEFINE m == x.capacity
    <3>1. k = [EmptyChunk(m) EXCEPT !.data = d]
      BY <1>k
    <3> HIDE DEF d, m
    <3>2. k = [capacity |-> m, size |-> 0, next |-> Null, data |-> d]
      BY <3>1 DEF EmptyChunk
    <3> QED BY <3>2 DEF m
  <2> DEFINE m == x.capacity
  <2>4. m \in Nat /\ Len(d) <= m /\ Len(d) \in Nat
    BY <2>1, <2>2
  <2> HIDE DEF d, m
  <2>5. k = [capacity |-> m, size |-> 0, next |-> Null, data |-> d]
    BY <2>3 DEF m
  <2>6. k \in Chunk
    BY <2>2, <2>4, <2>5, ChunkMade
  <2> QED BY <2>2, <2>4, <2>5, <2>6
<1>6. /\ Sound' /\ Contents(b)' = Contents(b) /\ DOMAIN heap \subseteq DOMAIN heap'
      /\ \A a \in alive \ {b} : Contents(a)' = Contents(a)
  <2>1. /\ Sound /\ b \in alive /\ c \in Chunks \ DOMAIN heap /\ alive' = alive /\ Link(b, c, k)
        /\ k \in Chunk /\ k.next = Null /\ k.size <= Len(k.data) /\ Len(k.data) <= k.capacity
    BY <1>1, <1>2, <1>3, <1>5 DEF IInv
  <2>2. /\ Sound' /\ Contents(b)' = Contents(b) \o SubSeq(k.data, 1, k.size)
        /\ DOMAIN heap \subseteq DOMAIN heap'
        /\ \A a \in alive \ {b} : Contents(a)' = Contents(a)
    BY <2>1, LinkStep
  <2>3. SubSeq(k.data, 1, k.size) = <<>>
    BY <1>5
  <2>4. Contents(b) \in Seq(Chars)
    BY <1>3, SoundContents DEF IInv
  <2>5. Contents(b) \o <<>> = Contents(b)
    BY <2>4, ConcatEmptySeq
  <2> QED BY <2>2, <2>3, <2>5
<1>7. ControlOK'
  <2>1. current' \in Chunks \cup {Null}
    BY <1>1, <1>4 DEF IInv, Sound, HeapOK
  <2> QED BY <1>1, <2>1 DEF IInv, ControlOK
<1>8. Frames'
  <2>1. current' \in DOMAIN heap' \cup {Null}
    BY <1>1, <1>4, <1>6
  <2> QED BY <1>b, <1>1, <1>3, <2>1 DEF Frames, PushLoops, Loops
<1>9. Told'
  <2> SUFFICES ASSUME NEW a \in alive' PROVE Tells(a)'
    BY DEF Told
  <2>1. a \in alive /\ Contents(a)' = Contents(a) /\ Tells(a) /\ Pending(a)' = Pending(a)
    BY <1>1, <1>6 DEF IInv, Told, Pending
  <2> QED BY <1>1, <2>1, TellsStill
<1> QED BY <1>6, <1>7, <1>8, <1>9 DEF IInv

-----------------------------------------------------------------------------
(* The invariant holds, and what follows                                   *)

\* The invariant holds when no buffer has been made.
LEMMA InitHolds == Init => IInv
<1> SUFFICES ASSUME Init PROVE IInv
  OBVIOUS
<1>1. /\ heap = <<>> /\ alive = {} /\ start = [b \in Buffers |-> Null]
      /\ finish = [b \in Buffers |-> Null] /\ maxChunkSize = [b \in Buffers |-> 0]
      /\ text = [b \in Buffers |-> <<>>] /\ copies = {} /\ pc = "idle" /\ op = "idle"
      /\ target = NoBuffer /\ rest = <<>> /\ current = Null
  BY DEF Init
<1>2. DOMAIN heap = {}
  <2>1. DOMAIN <<>> = {}
    OBVIOUS
  <2> QED BY <1>1, <2>1
<1>3. HeapOK
  <2>1. <<>> = [x \in DOMAIN <<>> |-> <<>>[x]]
    OBVIOUS
  <2>2. heap \in [DOMAIN heap -> Chunk]
    BY <1>1, <1>2, <2>1
  <2> QED BY <1>2, <2>2 DEF HeapOK
<1>4. PointersOK /\ Told
  BY <1>1 DEF PointersOK, Told
<1>5. Memory
  BY <1>1, <1>2 DEF Memory, Arranged
<1>6. ControlOK
  <2>1. maxChunkSize \in [Buffers -> ChunkSizes \cup {0}]
    BY <1>1
  <2> QED BY <1>1, <2>1, NoText DEF ControlOK
<1>7. Frames
  BY <1>1 DEF Frames, Loops, PushLoops
<1> QED BY <1>3, <1>4, <1>5, <1>6, <1>7 DEF IInv, Sound

\* Every step keeps the invariant.
LEMMA NextHolds ==
  ASSUME ~Moving, IInv, [Next]_vars
  PROVE  IInv'
<1>1. ASSUME NEW b \in Buffers, NEW n \in ChunkSizes, Construct(b, n) PROVE IInv'
  BY <1>1, ConstructHolds
<1>2. ASSUME NEW b \in Buffers, Clear(b) \/ Destroy(b) PROVE IInv'
  BY <1>2, ClearHolds
<1>3. ASSUME NEW b \in Buffers, PopChunk(b) PROVE IInv'
  BY <1>3, PopChunkHolds
<1>4. ASSUME NEW b \in Buffers, NEW c \in Chars, PushChar(b, c) PROVE IInv'
  BY <1>4, PushCharHolds
<1>5. ASSUME NEW b \in Buffers, NEW s \in Texts, PushChunk(b, s) PROVE IInv'
  BY <1>5, PushChunkHolds
<1>6. ASSUME NEW b \in Buffers, NEW s \in Texts, PushString(b, s) \/ PushStream(b, s) PROVE IInv'
  BY <1>6, PushStringHolds
<1>7. ASSUME NEW b \in Buffers, NEW a \in Buffers, MoveAssign(b, a) PROVE IInv'
  BY <1>7, MoveAssignHolds
<1>8. ASSUME NEW b \in Buffers, NEW a \in Buffers, MoveConstruct(b, a) PROVE IInv'
  BY <1>8, MoveConstructHolds
<1>9. ASSUME NEW b \in Buffers, NEW a \in Buffers, CopyConstruct(b, a) PROVE IInv'
  BY <1>9, CopyConstructHolds
<1>10. ASSUME NEW b \in Buffers, NEW a \in Buffers, CopyAssign(b, a) PROVE IInv'
  BY <1>10, CopyAssignHolds
<1>11. CASE Allocate
  BY <1>11, AllocateHolds
<1>12. CASE AllocateFails
  BY <1>12, AllocateFailsHolds
<1>13. CASE StoreChar
  BY <1>13, StoreCharHolds
<1>14. CASE StoreString \/ StoreStream
  BY <1>14, StoreStringHolds
<1>15. CASE StoreNothing \/ CopyEnds
  BY <1>15, EndsHolds
<1>16. CASE CopyChunk
  BY <1>16, CopyChunkHolds
<1>17. CASE UNCHANGED vars
  <2>1. /\ UNCHANGED <<heap, start, finish, alive>> /\ maxChunkSize' = maxChunkSize
        /\ text' = text /\ copies' = copies /\ pc' = pc /\ op' = op /\ target' = target
        /\ rest' = rest /\ current' = current
    BY <1>17 DEF vars, list, ghost, loop
  <2>2. Sound' /\ \A a : Contents(a)' = Contents(a)
    BY <2>1, SameStep DEF IInv
  <2>3. ControlOK' /\ Frames'
    BY <2>1 DEF IInv, ControlOK, Frames
  <2>4. Told'
    BY <2>1, <2>2 DEF IInv, Told, Tells, Pending
  <2> QED BY <2>2, <2>3, <2>4 DEF IInv
<1> QED BY <1>1, <1>2, <1>3, <1>4, <1>5, <1>6, <1>7, <1>8, <1>9, <1>10, <1>11, <1>12,
           <1>13, <1>14, <1>15, <1>16, <1>17 DEF Next

\* The lists share out the heap, the loops have what they work on, and every
\* buffer tells its text.
THEOREM BufferInvariant == ASSUME ~Moving PROVE Spec => []IInv
<1>1. Init => IInv
  BY InitHolds
<1>2. IInv /\ [Next]_vars => IInv'
  BY NextHolds
<1> QED BY <1>1, <1>2, PTL DEF Spec

\* Every variable has its type, and no chunk is written past its end.
THEOREM BufferTypeCorrect == ASSUME ~Moving PROVE Spec => []TypeOK
<1>1. IInv => TypeOK
  BY TypeParts DEF IInv, Sound
<1> QED BY <1>1, BufferInvariant, PTL

\* Every allocated chunk is in the list of one buffer, once: none is leaked,
\* freed twice or used after it is freed.
THEOREM ChunksOwned == ASSUME ~Moving PROVE Spec => []OneOwner
<1>1. ASSUME IInv PROVE OneOwner
  <2>1. Arranged(heap, start, finish, alive, Lists) /\ \A b \in alive : Lists[b] = Chain(b)
    BY <1>1 DEF IInv, Sound, Memory, Lists
  <2>2. \A b \in alive : Reach(b) = ToSet(Lists[b])
    BY <2>1 DEF Reach
  <2>3. DOMAIN heap = UNION {Reach(b) : b \in alive}
    <3>1. \A c \in DOMAIN heap : \E b \in alive : c \in Reach(b)
      BY <2>1, <2>2 DEF Arranged
    <3>2. \A b \in alive : \A c \in Reach(b) : c \in DOMAIN heap
      BY <1>1, SoundLists DEF IInv, Reach
    <3> QED BY <3>1, <3>2
  <2>4. \A a, b \in alive : a # b => Reach(a) \cap Reach(b) = {}
    BY <2>1, <2>2 DEF Arranged
  <2>5. ASSUME NEW b \in alive PROVE IsInjective(Chain(b))
    <3>1. Chain(b) \in Seq(DOMAIN heap) /\ \A i, j \in 1..Len(Chain(b)) : Chain(b)[i] = Chain(b)[j] => i = j
      BY <1>1, SoundLists DEF IInv
    <3>2. DOMAIN Chain(b) = 1..Len(Chain(b))
      BY <3>1, LenProperties
    <3> QED BY <3>1, <3>2 DEF IsInjective
  <2> QED BY <2>3, <2>4, <2>5 DEF OneOwner
<1> QED BY <1>1, BufferInvariant, PTL

\* The next push goes to the end of the list.
THEOREM PushesAtTheEnd == ASSUME ~Moving PROVE Spec => []FinishIsLast
<1>1. ASSUME IInv PROVE FinishIsLast
  BY <1>1, SoundLists DEF IInv, FinishIsLast, Last
<1> QED BY <1>1, BufferInvariant, PTL

\* No text is lost, repeated or out of order, whatever sequence of calls made it
\* and wherever memory ran out.
THEOREM TextKept == ASSUME ~Moving PROVE Spec => []HoldsText
<1>1. IInv => HoldsText
  BY DEF IInv, Told, Tells, HoldsText, Pending
<1> QED BY <1>1, BufferInvariant, PTL

-----------------------------------------------------------------------------
(* Iterators                                                               *)

\* Without its first chunk a list is one of the same heap.
LEMMA ListTail ==
  ASSUME NEW h, NEW first, NEW s, ListOf(h, first, s), s # <<>>
  PROVE  /\ ListOf(h, h[first].next, Tail(s))
         /\ \A c \in ToSet(Tail(s)) : c \in ToSet(s)
         /\ first = s[1] /\ first \in ToSet(s)
<1> DEFINE g == [x \in DOMAIN h \ {first} |-> h[x]]
           t == Tail(s)
<1>1. DOMAIN g = DOMAIN h \ {first} /\ \A x \in DOMAIN g : g[x] = h[x]
  OBVIOUS
<1> HIDE DEF g
<1>2. ListOf(h, first, s) /\ s # <<>>
  OBVIOUS
<1>3. /\ ListOf(g, h[first].next, t)
      /\ ToSet(t) = ToSet(s) \ {first}
      /\ first = s[1] /\ first \in ToSet(s)
  BY ONLY <1>1, <1>2, ListRest, Z3
<1> HIDE DEF t
<1>4. t \in Seq(DOMAIN g)
  BY <1>3 DEF ListOf
<1>5. \A c \in ToSet(t) : c \in DOMAIN h /\ h[c].next = g[c].next
  BY <1>1, <1>4, InList
<1>6. ListOf(h, h[first].next, t)
  <2> DEFINE f == h[first].next
  <2>1. ListOf(g, f, t)
    BY <1>3
  <2> HIDE DEF f
  <2>2. ListOf(h, f, t)
    BY <1>5, <2>1, ListKept
  <2> QED BY <2>2 DEF f
<1> QED BY <1>3, <1>6 DEF t

\* Where an iterator of b may be
Places == [chunk : DOMAIN heap \cup {Null}, position : Nat]

\* A turn of the loop, which does nothing at the end
Moved(i) == IF i.chunk = Null THEN i ELSE Increment(i)

\* An iterator stays among the allocated chunks.
LEMMA IncrementPlace ==
  ASSUME Sound, NEW i \in Places
  PROVE  Moved(i) \in Places
<1>1. i.chunk \in DOMAIN heap \cup {Null} /\ i.position \in Nat
  BY DEF Places
<1>2. CASE i.chunk = Null
  BY <1>2 DEF Moved
<1>3. CASE i.chunk # Null
  <2>1. heap[i.chunk].next \in DOMAIN heap \cup {Null}
    BY <1>1, <1>3, SoundNext
  <2>2. [chunk |-> heap[i.chunk].next, position |-> 0] \in Places
    BY <2>1 DEF Places
  <2>3. [i EXCEPT !.position = i.position + 1] \in Places
    BY <1>1 DEF Places
  <2>4. Moved(i) = Increment(i)
    BY <1>3 DEF Moved
  <2> QED BY <2>2, <2>3, <2>4 DEF Increment
<1> QED BY <1>2, <1>3

\* The iterator i has read k - 1 characters of b's contents: those of the chunks
\* it has left, and those before its position.
ReadsOn(b, i, k) ==
  \E t, u : /\ ListOf(heap, i.chunk, t)
            /\ \A c \in ToSet(t) : c \in Reach(b)
            /\ u \in Seq(Chars)
            /\ Contents(b) = u \o TextIn(heap, t)
            /\ IF t = <<>> THEN k > Len(u)
                           ELSE /\ i.position < heap[i.chunk].size
                                /\ k = Len(u) + i.position + 1

\* The chunks of b hold text, and none is empty.
LEMMA FullChunks ==
  ASSUME Sound, NEW b \in alive, \A c \in Reach(b) : heap[c].size > 0, NEW c \in Reach(b)
  PROVE  /\ c \in DOMAIN heap /\ Stored(heap, c) \in Seq(Chars) /\ heap[c].size \in Nat \ {0}
         /\ Len(Stored(heap, c)) = heap[c].size /\ heap[c].size <= Len(heap[c].data)
         /\ heap[c].data \in Seq(Chars)
         /\ \A n \in 1..heap[c].size : Stored(heap, c)[n] = heap[c].data[n]
<1>1. c \in DOMAIN heap /\ HeapOK
  BY SoundLists DEF Reach, Sound
<1>2. Stored(heap, c) \in Seq(Chars) /\ Len(Stored(heap, c)) = heap[c].size
  BY <1>1, StoredType
<1>3. heap[c].size \in Nat /\ heap[c].data \in Seq(Chars) /\ heap[c].size <= Len(heap[c].data)
  BY <1>1, ChunkFields
<1>4. \A n \in 1..heap[c].size : Stored(heap, c)[n] = heap[c].data[n]
  <2> DEFINE d == heap[c].data
             m == heap[c].size
  <2>1. d \in Seq(Chars) /\ m \in Nat /\ m <= Len(d) /\ Len(d) \in Nat
    BY <1>3, LenProperties
  <2>2. Stored(heap, c) = SubSeq(d, 1, m)
    BY DEF Stored
  <2> HIDE DEF d, m
  <2>3. \A n \in 1..m : SubSeq(d, 1, m)[n] = d[n]
    BY <2>1
  <2> QED BY <2>2, <2>3 DEF d, m
<1> QED BY <1>1, <1>2, <1>3, <1>4

\* The text of a rest of a list.
LEMMA TextOfRest ==
  ASSUME Sound, NEW b \in alive, NEW first, NEW t, ListOf(heap, first, t),
         \A c \in ToSet(t) : c \in Reach(b)
  PROVE  /\ t \in Seq(DOMAIN heap)
         /\ \A c \in ToSet(t) : Stored(heap, c) \in Seq(Chars)
         /\ TextIn(heap, t) \in Seq(Chars)
<1>1. t \in Seq(DOMAIN heap)
  BY DEF ListOf
<1>2. \A c \in ToSet(t) : Stored(heap, c) \in Seq(Chars)
  BY SoundContents DEF Reach
<1> QED BY <1>1, <1>2, TextType

\* getIterator begins at the first character.
LEMMA ReadsFirst ==
  ASSUME Sound, NEW b \in alive, \A c \in Reach(b) : heap[c].size > 0
  PROVE  /\ [chunk |-> start[b], position |-> 0] \in Places
         /\ ReadsOn(b, [chunk |-> start[b], position |-> 0], 1)
<1> DEFINE i == [chunk |-> start[b], position |-> 0]
           s == Chain(b)
<1>1. /\ ListOf(heap, start[b], s) /\ (start[b] = Null <=> s = <<>>)
      /\ (start[b] # Null => start[b] \in DOMAIN heap /\ start[b] = s[1])
      /\ s \in Seq(DOMAIN heap)
  <2>1. /\ Lists[b] = s /\ (start[b] = Null <=> s = <<>>) /\ s \in Seq(DOMAIN heap)
        /\ (start[b] # Null => start[b] \in DOMAIN heap /\ start[b] = s[1])
    BY SoundLists
  <2>2. ListOf(heap, start[b], Lists[b])
    BY DEF Sound, Memory, Arranged
  <2> HIDE DEF s
  <2> QED BY <2>1, <2>2
<1>2. i \in Places
  BY <1>1 DEF Places
<1>3. \A c \in ToSet(s) : c \in Reach(b)
  BY DEF Reach
<1>4. <<>> \in Seq(Chars) /\ Contents(b) = <<>> \o TextIn(heap, s) /\ Len(<<>>) = 0
  <2>1. Contents(b) = TextIn(heap, s) /\ Contents(b) \in Seq(Chars)
    BY SoundContents
  <2> QED BY <2>1, ConcatEmptySeq, NoText
<1>5. IF s = <<>> THEN 1 > Len(<<>>)
                  ELSE i.position < heap[i.chunk].size /\ 1 = Len(<<>>) + i.position + 1
  <2>1. CASE s = <<>>
    BY <1>4, <2>1
  <2>2. CASE s # <<>>
    <3>1. start[b] \in Reach(b)
      <4>1. 1 \in 1..Len(s)
        <5> HIDE DEF s
        <5> QED BY <1>1, <2>2, EmptySeq, LenProperties
      <4> HIDE DEF s
      <4>2. s[1] \in ToSet(s)
        BY <1>1, <4>1, InList
      <4> QED BY <1>1, <1>3, <2>2, <4>2
    <3>2. heap[start[b]].size > 0
      BY <3>1
    <3> QED BY <1>4, <2>2, <3>2
  <2> QED BY <2>1, <2>2
<1>6. ListOf(heap, i.chunk, s)
  BY <1>1
<1> HIDE DEF i, s
<1>7. ReadsOn(b, i, 1)
  BY <1>3, <1>4, <1>5, <1>6 DEF ReadsOn
<1> QED BY <1>2, <1>7 DEF i

\* What the iterator shows is the next character, if there is one.
LEMMA ReadsNow ==
  ASSUME Sound, NEW b \in alive, \A c \in Reach(b) : heap[c].size > 0,
         NEW i \in Places, NEW k \in Nat \ {0}, ReadsOn(b, i, k)
  PROVE  /\ i.chunk # Null <=> k <= Len(Contents(b))
         /\ i.chunk # Null => Character(i) = Contents(b)[k]
<1>1. PICK t, u : /\ ListOf(heap, i.chunk, t)
                  /\ \A c \in ToSet(t) : c \in Reach(b)
                  /\ u \in Seq(Chars)
                  /\ Contents(b) = u \o TextIn(heap, t)
                  /\ IF t = <<>> THEN k > Len(u)
                                 ELSE /\ i.position < heap[i.chunk].size
                                      /\ k = Len(u) + i.position + 1
  BY DEF ReadsOn
<1>2. i.chunk = Null <=> t = <<>>
  BY <1>1, ListNull DEF Sound, HeapOK
<1>3. i.position \in Nat
  BY DEF Places
<1>4. CASE t = <<>>
  <2>1. Contents(b) = u
    BY <1>1, <1>4, TextEmpty, ConcatEmptySeq
  <2>2. Len(u) \in Nat /\ k > Len(u)
    BY <1>1, <1>4, LenProperties
  <2>3. ~(k <= Len(u))
    BY <2>2
  <2> QED BY <1>2, <1>4, <2>1, <2>3
<1>5. CASE t # <<>>
  <2> DEFINE c == i.chunk
             p == i.position
             x == Stored(heap, c)
             y == TextIn(heap, Tail(t))
             C == Contents(b)
  <2>1. c = t[1] /\ c \in Reach(b)
    BY <1>1, <1>5, ListTail
  <2>2. /\ x \in Seq(Chars) /\ Len(x) = heap[c].size /\ heap[c].size <= Len(heap[c].data)
        /\ heap[c].size \in Nat /\ heap[c].data \in Seq(Chars)
        /\ \A n \in 1..heap[c].size : x[n] = heap[c].data[n]
    BY <2>1, FullChunks
  <2>3. /\ t \in Seq(DOMAIN heap) /\ \A d \in ToSet(t) : Stored(heap, d) \in Seq(Chars)
    BY <1>1, TextOfRest
  <2>4. TextIn(heap, t) = x \o y
    <3>1. TextIn(heap, t) = Stored(heap, t[1]) \o TextIn(heap, Tail(t))
      BY ONLY <1>5, <2>3, TextTail
    <3> QED BY <2>1, <3>1
  <2>5. y \in Seq(Chars)
    <3> DEFINE first == heap[c].next
               r == Tail(t)
    <3>1. ListOf(heap, first, r) /\ \A d \in ToSet(r) : d \in Reach(b)
      BY <1>1, <1>5, ListTail
    <3> HIDE DEF first, r
    <3>2. TextIn(heap, r) \in Seq(Chars)
      BY <3>1, TextOfRest
    <3> QED BY <3>2 DEF r
  <2>6. C = u \o (x \o y) /\ k = Len(u) + p + 1 /\ p < Len(x) /\ u \in Seq(Chars)
    BY <1>1, <1>5, <2>2, <2>4
  <2>7. Character(i) = heap[c].data[p + 1]
    <3>1. p < Len(heap[c].data)
      <4> DEFINE n == heap[c].size
                 l == Len(heap[c].data)
      <4>1. p < n /\ n <= l /\ p \in Nat /\ n \in Nat /\ l \in Nat
        BY <1>3, <2>2, <2>6, LenProperties
      <4> HIDE DEF n, l, p
      <4>2. p < l
        BY <4>1
      <4> QED BY <4>2 DEF l
    <3> QED BY <3>1 DEF Character
  <2>8. p + 1 \in 1..heap[c].size
    BY <1>3, <2>2, <2>6
  <2>9. x[p + 1] = heap[c].data[p + 1]
    BY <2>2, <2>8
  <2> HIDE DEF x, y, C, c
  <2>10. k <= Len(C) /\ C[k] = x[p + 1]
    <3> HIDE DEF p
    <3>1. /\ x \o y \in Seq(Chars) /\ Len(x \o y) = Len(x) + Len(y)
          /\ Len(x) \in Nat /\ Len(y) \in Nat /\ Len(u) \in Nat
          /\ \A n \in 1..Len(x) : (x \o y)[n] = x[n]
      <4>1. x \in Seq(Chars) /\ y \in Seq(Chars)
        BY <2>2, <2>5
      <4> QED BY ONLY <4>1, ConcatProperties, LenProperties
    <3> DEFINE z == x \o y
    <3>2. z \in Seq(Chars) /\ C = u \o z
      BY <2>6, <3>1
    <3> HIDE DEF z
    <3>3. Len(C) = Len(u) + Len(z) /\ \A n \in 1..Len(z) : C[Len(u) + n] = z[n]
      BY <2>6, <3>2
    <3>4. p + 1 \in 1..Len(x) /\ p + 1 \in 1..Len(z) /\ k = Len(u) + (p + 1)
      BY <1>3, <2>6, <3>1 DEF p, z
    <3>5. k <= Len(C)
      BY <3>1, <3>3, <3>4
    <3>6. C[k] = z[p + 1] /\ z[p + 1] = x[p + 1]
      BY <3>1, <3>3, <3>4 DEF z
    <3> QED BY <3>5, <3>6
  <2> QED BY <1>2, <1>5, <2>7, <2>9, <2>10 DEF C, c
<1> QED BY <1>4, <1>5

\* An increment reads on.
LEMMA ReadsNext ==
  ASSUME Sound, NEW b \in alive, \A c \in Reach(b) : heap[c].size > 0,
         NEW i \in Places, NEW k \in Nat \ {0}, ReadsOn(b, i, k)
  PROVE  ReadsOn(b, Moved(i), k + 1)
<1>1. PICK t, u : /\ ListOf(heap, i.chunk, t)
                  /\ \A c \in ToSet(t) : c \in Reach(b)
                  /\ u \in Seq(Chars)
                  /\ Contents(b) = u \o TextIn(heap, t)
                  /\ IF t = <<>> THEN k > Len(u)
                                 ELSE /\ i.position < heap[i.chunk].size
                                      /\ k = Len(u) + i.position + 1
  BY DEF ReadsOn
<1>2. i.chunk = Null <=> t = <<>>
  BY <1>1, ListNull DEF Sound, HeapOK
<1>3. i.position \in Nat /\ Len(u) \in Nat
  BY <1>1, LenProperties DEF Places
<1>4. CASE t = <<>>
  <2>1. Moved(i) = i
    BY <1>2, <1>4 DEF Moved
  <2>2. k + 1 > Len(u)
    BY <1>1, <1>3, <1>4
  <2> QED BY <1>1, <1>4, <2>1, <2>2 DEF ReadsOn
<1>5. CASE t # <<>> /\ ~(i.position + 1 >= heap[i.chunk].size)
  <2> DEFINE j == [i EXCEPT !.position = i.position + 1]
  <2>1. Moved(i) = j
    BY <1>2, <1>5 DEF Moved, Increment
  <2>2. j.chunk = i.chunk /\ j.position = i.position + 1
    BY DEF Places
  <2>3. heap[i.chunk].size \in Nat
    BY <1>1, <1>5, ListTail, FullChunks
  <2> HIDE DEF j
  <2>4. j.position < heap[j.chunk].size /\ k + 1 = Len(u) + j.position + 1
    <3> DEFINE n == heap[i.chunk].size
               p == i.position
               l == Len(u)
    <3>1. ~(p + 1 >= n) /\ k = l + p + 1 /\ n \in Nat /\ p \in Nat /\ l \in Nat
      BY <1>1, <1>3, <1>5, <2>3
    <3>2. heap[j.chunk].size = n /\ j.position = p + 1
      BY <2>2
    <3> HIDE DEF n, p, l
    <3>3. p + 1 < n /\ k + 1 = l + (p + 1) + 1
      BY <3>1
    <3> QED BY <3>2, <3>3 DEF l
  <2>5. ReadsOn(b, j, k + 1)
    BY <1>1, <1>5, <2>2, <2>4 DEF ReadsOn
  <2> QED BY <2>1, <2>5
<1>6. CASE t # <<>> /\ i.position + 1 >= heap[i.chunk].size
  <2> DEFINE c == i.chunk
             first == heap[c].next
             j == [chunk |-> first, position |-> 0]
             x == Stored(heap, c)
             r == Tail(t)
             y == TextIn(heap, r)
             v == u \o x
  <2>1. Moved(i) = j
    BY <1>2, <1>6 DEF Moved, Increment
  <2>2. c = t[1] /\ c \in Reach(b) /\ ListOf(heap, first, r) /\ \A d \in ToSet(r) : d \in Reach(b)
    BY <1>1, <1>6, ListTail
  <2>3. x \in Seq(Chars) /\ Len(x) = heap[c].size /\ heap[c].size \in Nat
    BY <2>2, FullChunks
  <2>4. t \in Seq(DOMAIN heap) /\ \A d \in ToSet(t) : Stored(heap, d) \in Seq(Chars)
    BY <1>1, TextOfRest
  <2>5. TextIn(heap, t) = x \o y
    <3>1. t # <<>>
      BY <1>6
    <3>2. TextIn(heap, t) = Stored(heap, t[1]) \o TextIn(heap, Tail(t))
      BY ONLY <2>4, <3>1, TextTail
    <3> QED BY <2>2, <3>2
  <2>6. y \in Seq(Chars)
    <3> HIDE DEF first, r
    <3> QED BY <2>2, TextOfRest
  <2>7. Contents(b) = v \o y /\ v \in Seq(Chars) /\ Len(v) = Len(u) + heap[c].size
    <3>1. Contents(b) = u \o (x \o y)
      BY <1>1, <2>5
    <3>2. u \in Seq(Chars) /\ x \in Seq(Chars) /\ y \in Seq(Chars)
      BY <1>1, <2>3, <2>6
    <3> HIDE DEF x, y
    <3>3. (u \o x) \o y = u \o (x \o y)
      BY ONLY <3>2, ConcatAssociative
    <3>4. u \o x \in Seq(Chars) /\ Len(u \o x) = Len(u) + Len(x)
      BY <3>2
    <3> QED BY <2>3, <3>1, <3>3, <3>4
  <2>8. k + 1 = Len(v) + 1
    <3> DEFINE n == heap[c].size
               p == i.position
               l == Len(u)
    <3>1. p < n /\ k = l + p + 1 /\ p + 1 >= n /\ n \in Nat /\ p \in Nat /\ l \in Nat
      BY <1>1, <1>3, <1>6, <2>3
    <3>2. Len(v) = l + n
      BY <2>7
    <3> HIDE DEF n, p, l, v
    <3> QED BY <3>1, <3>2
  <2>9. IF r = <<>> THEN k + 1 > Len(v)
                    ELSE j.position < heap[j.chunk].size /\ k + 1 = Len(v) + j.position + 1
    <3>1. Len(v) \in Nat
      BY <1>3, <2>3, <2>7
    <3>2. CASE r = <<>>
      BY <2>8, <3>1, <3>2
    <3>3. CASE r # <<>>
      <4>1. first \in ToSet(r)
        <5> HIDE DEF r, first
        <5> QED BY <2>2, <3>3, ListTail
      <4>2. heap[first].size > 0
        BY <2>2, <4>1
      <4>3. j.position = 0 /\ j.chunk = first
        OBVIOUS
      <4> HIDE DEF j, v, first
      <4> QED BY <2>8, <3>1, <3>3, <4>2, <4>3
    <3> QED BY <3>2, <3>3
  <2>10. ListOf(heap, j.chunk, r)
    BY <2>2
  <2>11. Contents(b) = v \o TextIn(heap, r) /\ v \in Seq(Chars)
    BY <2>7
  <2> HIDE DEF j, r, v, y
  <2>12. ReadsOn(b, j, k + 1)
    BY <2>2, <2>9, <2>10, <2>11 DEF ReadsOn
  <2> QED BY <2>1, <2>12
<1> QED BY <1>4, <1>5, <1>6

\* f takes d and then, again and again, a step.
Iterates(f, D, d, step, n) ==
  f \in [1..n -> D] /\ \A k \in 1..n : f[k] = IF k = 1 THEN d ELSE step[f[k - 1]]

\* What takes d and then, again and again, a step, can be done n times.
LEMMA IterationExists ==
  ASSUME NEW D, NEW d \in D, NEW step \in [D -> D], NEW n \in Nat
  PROVE  \E f : Iterates(f, D, d, step, n)
<1> DEFINE Does(m, f) == f \in [1..m -> D] /\ \A k \in 1..m : f[k] = IF k = 1 THEN d ELSE step[f[k - 1]]
           T == {m \in Nat : \E f : Does(m, f)}
<1>1. 0 \in T
  <2>1. Does(0, [k \in 1..0 |-> d])
    OBVIOUS
  <2> HIDE DEF Does
  <2> QED BY <2>1
<1>2. ASSUME NEW m \in Nat, m \in T PROVE m + 1 \in T
  <2>1. PICK f : Does(m, f)
    BY <1>2
  <2> DEFINE g == [k \in 1..(m + 1) |-> IF k <= m THEN f[k] ELSE IF k = 1 THEN d ELSE step[f[k - 1]]]
  <2>2. /\ f \in [1..m -> D]
        /\ \A k \in 1..m : f[k] = IF k = 1 THEN d ELSE step[f[k - 1]]
    BY <2>1
  <2>3. /\ DOMAIN g = 1..(m + 1) /\ g = [k \in 1..(m + 1) |-> g[k]]
        /\ \A k \in 1..(m + 1) :
             g[k] = IF k <= m THEN f[k] ELSE IF k = 1 THEN d ELSE step[f[k - 1]]
    OBVIOUS
  <2> HIDE DEF g
  <2>4. ASSUME NEW k \in 1..(m + 1)
        PROVE  g[k] \in D /\ g[k] = IF k = 1 THEN d ELSE step[g[k - 1]]
    <3>1. k # 1 => k - 1 \in 1..m /\ k - 1 \in 1..(m + 1)
      OBVIOUS
    <3>2. k # 1 => g[k - 1] = f[k - 1] /\ f[k - 1] \in D /\ step[f[k - 1]] \in D
      <4>1. k # 1 => k - 1 <= m
        OBVIOUS
      <4> QED BY <2>2, <2>3, <3>1, <4>1
    <3>3. g[k] = IF k = 1 THEN d ELSE step[f[k - 1]]
      <4>1. k <= m => k \in 1..m
        OBVIOUS
      <4> QED BY <2>2, <2>3, <4>1
    <3> QED BY <3>2, <3>3
  <2>5. Does(m + 1, g)
    <3>1. g \in [1..(m + 1) -> D]
      BY <2>3, <2>4
    <3> QED BY <2>4, <3>1
  <2> HIDE DEF Does
  <2> QED BY <2>5
<1>3. n \in T
  <2> HIDE DEF T
  <2> QED BY <1>1, <1>2, SetInduction
<1> QED BY <1>3 DEF Iterates

\* In sound memory without an empty chunk in its list, the iterator of a buffer
\* with no more than MaxText characters reads them.
LEMMA IteratorLemma ==
  ASSUME Sound, NEW b \in alive, \A c \in Reach(b) : heap[c].size > 0,
         Len(Contents(b)) <= MaxText
  PROVE  Iterated(b) = Contents(b)
<1> DEFINE N == MaxText + Cardinality(Chunks)
           C == Contents(b)
           first == [chunk |-> start[b], position |-> 0]
           Runs(f) == f = [k \in 1..N |-> IF k = 1 THEN [chunk |-> start[b], position |-> 0]
                                          ELSE IF f[k - 1].chunk = Null THEN f[k - 1]
                                          ELSE Increment(f[k - 1])]
           it == CHOOSE f : Runs(f)
<1>1. N \in Nat /\ Len(C) \in Nat /\ Len(C) <= N /\ C \in Seq(Chars) /\ DOMAIN C = 1..Len(C)
  <2>1. Cardinality(Chunks) \in Nat /\ MaxText \in Nat
    BY BufferAssumption, FS_CardinalityType DEF BufferAssumption
  <2>2. C \in Seq(Chars)
    BY SoundContents
  <2>3. Len(C) \in Nat /\ DOMAIN C = 1..Len(C)
    BY <2>2, LenProperties
  <2>4. Len(C) <= MaxText
    OBVIOUS
  <2> HIDE DEF C
  <2> QED BY <2>1, <2>2, <2>3, <2>4
<1>2. first \in Places /\ ReadsOn(b, first, 1)
  BY ReadsFirst
<1>3. Iterated(b) = [k \in 1..Cardinality({k \in DOMAIN it : it[k].chunk # Null}) |-> Character(it[k])]
  BY DEF Iterated
<1> HIDE DEF N
<1>4. \E f : Runs(f)
  <2>1. \A i \in Places : Moved(i) \in Places
    BY IncrementPlace
  <2>2. PICK f : /\ f \in [1..N -> Places]
                 /\ \A k \in 1..N : f[k] = IF k = 1 THEN first ELSE Moved(f[k - 1])
    <3> DEFINE step == [i \in Places |-> Moved(i)]
    <3>1. step \in [Places -> Places] /\ \A i \in Places : step[i] = Moved(i)
      BY <2>1
    <3>2. N \in Nat /\ first \in Places
      BY <1>1, <1>2
    <3> HIDE DEF first, step
    <3>3. PICK f : Iterates(f, Places, first, step, N)
      BY ONLY <3>1, <3>2, IterationExists
    <3>4. /\ f \in [1..N -> Places]
          /\ \A k \in 1..N : f[k] = IF k = 1 THEN first ELSE step[f[k - 1]]
      BY <3>3 DEF Iterates
    <3>5. \A k \in 1..N : k # 1 => f[k - 1] \in Places
      BY <3>2, <3>4
    <3>6. \A k \in 1..N : f[k] = IF k = 1 THEN first ELSE Moved(f[k - 1])
      BY <3>1, <3>5, <3>4
    <3> QED BY <3>6, <3>4
  <2> DEFINE e(k) == IF k = 1 THEN [chunk |-> start[b], position |-> 0]
                     ELSE IF f[k - 1].chunk = Null THEN f[k - 1]
                     ELSE Increment(f[k - 1])
             w == [k \in 1..N |-> e(k)]
  <2>3. \A k \in 1..N : f[k] = e(k)
    BY <2>2 DEF Moved
  <2> HIDE DEF e
  <2>4. f = w
    BY <2>2, <2>3
  <2> QED BY <2>4 DEF e
<1>5. Runs(it)
  <2> HIDE DEF Runs
  <2> QED BY <1>4
<1>6. DOMAIN it = 1..N /\ \A k \in 1..N : it[k] = IF k = 1 THEN first ELSE Moved(it[k - 1])
  <2> DEFINE e(k) == IF k = 1 THEN [chunk |-> start[b], position |-> 0]
                     ELSE IF it[k - 1].chunk = Null THEN it[k - 1]
                     ELSE Increment(it[k - 1])
  <2>1. it = [k \in 1..N |-> e(k)]
    BY <1>5
  <2> HIDE DEF it, e
  <2>2. DOMAIN it = 1..N /\ \A k \in 1..N : it[k] = e(k)
    BY <2>1
  <2> QED BY <2>2 DEF e, Moved
<1> HIDE DEF it, first, C
<1>7. \A k \in 1..N : it[k] \in Places /\ ReadsOn(b, it[k], k)
  <2> DEFINE Holds(n) == n \in 1..N => it[n] \in Places /\ ReadsOn(b, it[n], n)
             T == {n \in Nat : Holds(n)}
  <2>1. Holds(0)
    OBVIOUS
  <2>2. ASSUME NEW n \in Nat, Holds(n) PROVE Holds(n + 1)
    <3> SUFFICES ASSUME n + 1 \in 1..N PROVE it[n + 1] \in Places /\ ReadsOn(b, it[n + 1], n + 1)
      OBVIOUS
    <3>1. CASE n = 0
      BY <1>2, <1>6, <3>1
    <3>2. CASE n # 0
      <4>1. n \in 1..N /\ n \in Nat \ {0} /\ n + 1 # 1 /\ (n + 1) - 1 = n
        BY <1>1, <3>2
      <4>2. it[n] \in Places /\ ReadsOn(b, it[n], n)
        BY <2>2, <4>1
      <4>3. it[n + 1] = Moved(it[n])
        BY <1>6, <4>1
      <4>4. Moved(it[n]) \in Places
        BY <4>2, IncrementPlace
      <4>5. ReadsOn(b, Moved(it[n]), n + 1)
        BY <4>1, <4>2, ReadsNext
      <4> QED BY <4>3, <4>4, <4>5
    <3> QED BY <3>1, <3>2
  <2>3. Nat \subseteq T
    <3> HIDE DEF Holds
    <3>1. 0 \in T /\ \A n \in Nat : n \in T => n + 1 \in T
      BY <2>1, <2>2
    <3> QED BY <3>1, SetInduction
  <2> QED BY <1>1, <2>3
<1>8. \A k \in 1..N : /\ it[k].chunk # Null <=> k <= Len(C)
                      /\ it[k].chunk # Null => Character(it[k]) = C[k]
  <2> SUFFICES ASSUME NEW k \in 1..N
               PROVE  /\ it[k].chunk # Null <=> k <= Len(C)
                      /\ it[k].chunk # Null => Character(it[k]) = C[k]
    OBVIOUS
  <2>1. it[k] \in Places /\ ReadsOn(b, it[k], k) /\ k \in Nat \ {0}
    BY <1>1, <1>7
  <2> QED BY <2>1, ReadsNow DEF C
<1>9. {k \in DOMAIN it : it[k].chunk # Null} = 1..Len(C)
  BY <1>1, <1>6, <1>8
<1>10. Iterated(b) = [k \in 1..Len(C) |-> Character(it[k])]
  BY <1>1, <1>3, <1>9, CountTo
<1>11. C = [k \in 1..Len(C) |-> Character(it[k])]
  <2>1. \A k \in 1..Len(C) : k \in 1..N /\ Character(it[k]) = C[k]
    BY <1>1, <1>8
  <2>2. C = [k \in 1..Len(C) |-> C[k]]
    BY <1>1
  <2> QED BY <2>1, <2>2
<1> QED BY <1>10, <1>11 DEF C

\* A deserializer that follows the iterator, as TestSerializer and the tests do,
\* reads what getString would give, if no chunk in the list is empty.
THEOREM IteratorReads == ASSUME ~Moving PROVE Spec => []IteratorReadsText
<1>1. ASSUME IInv PROVE IteratorReadsText
  <2> SUFFICES ASSUME NEW b \in alive, \A c \in Reach(b) : heap[c].size > 0
               PROVE  Iterated(b) = Contents(b)
    BY DEF IteratorReadsText
  <2>1. Len(Contents(b)) <= MaxText
    <3>1. Len(Contents(b)) + Len(Pending(b)) <= Len(text[b])
      BY <1>1 DEF IInv, Told, Tells
    <3>2. Contents(b) \in Seq(Chars) /\ b \in Buffers
      BY <1>1, SoundContents, SoundLists DEF IInv
    <3>3. text[b] \in Texts /\ Pending(b) \in Texts
      BY <1>1, <3>2, NoText DEF IInv, ControlOK, Pending
    <3>4. Len(text[b]) <= MaxText /\ text[b] \in Seq(Chars) /\ Pending(b) \in Seq(Chars)
      BY <3>3, TextsAre
    <3>5. Len(Contents(b)) \in Nat /\ Len(Pending(b)) \in Nat /\ Len(text[b]) \in Nat /\ MaxText \in Nat
      BY <3>2, <3>4, LenProperties, BufferAssumption DEF BufferAssumption
    <3> QED BY <3>1, <3>4, <3>5
  <2> QED BY <1>1, <2>1, IteratorLemma DEF IInv
<1> QED BY <1>1, BufferInvariant, PTL
=============================================================================
