--------------------------- MODULE SequenceLemmas ---------------------------
(***************************************************************************)
(* Facts about FlattenSeq and IsPrefix of SequencesExt.                    *)
(*                                                                         *)
(* FlattenSeq is a recursive function; what it computes is proved by       *)
(* induction over the sets of numbers below, since a non-empty set of      *)
(* naturals has a least element.                                           *)
(***************************************************************************)
EXTENDS SequencesExt, SequenceTheorems, WellFoundedInduction, TLAPS

-----------------------------------------------------------------------------
(* Induction                                                               *)

\* Natural numbers are well founded.
LEMMA LeastElement ==
  ASSUME NEW T \in SUBSET Nat, T # {}
  PROVE  \E n \in T : \A m \in T : n <= m
<1> DEFINE R == OpToRel(<, Nat)
<1>1. IsWellFoundedOn(R, Nat)
  BY NatLessThanWellFounded
<1>2. \E x \in T : \A y \in T : ~ (<<y, x>> \in R)
  <2> HIDE DEF R
  <2> QED BY <1>1, WFMin
<1>3. \A x, y \in Nat : <<x, y>> \in R <=> x < y
  BY DEF OpToRel
<1> HIDE DEF R
<1>4. PICK x \in T : \A y \in T : ~ (<<y, x>> \in R)
  BY <1>2
<1>5. ASSUME NEW y \in T PROVE x <= y
  <2>1. ~ (y < x)
    BY <1>3, <1>4
  <2> QED BY <2>1
<1> QED BY <1>5

\* A set with 0 and every successor of its members has every natural number.
LEMMA SetInduction ==
  ASSUME NEW S, 0 \in S, \A n \in Nat : n \in S => n + 1 \in S
  PROVE  Nat \subseteq S
<1> DEFINE T == Nat \ S
<1> SUFFICES ASSUME T # {} PROVE FALSE
  OBVIOUS
<1>1. PICK n \in T : \A m \in T : n <= m
  BY LeastElement
<1> QED BY <1>1, n - 1 \in Nat

-----------------------------------------------------------------------------
(* FlattenSeq                                                              *)

\* f[i] is the concatenation of the first i elements of s.
Flattens(f, s) ==
  f = [i \in 1..Len(s) |-> IF i = 1 THEN s[i] ELSE f[i - 1] \o s[i]]

\* The function FlattenSeq defines by recursion exists.
LEMMA FlattensExists ==
  ASSUME NEW S, NEW s \in Seq(Seq(S))
  PROVE  \E f : Flattens(f, s)
<1> DEFINE Upto(n, f) == f = [i \in 1..n |-> IF i = 1 THEN s[i] ELSE f[i - 1] \o s[i]]
           T == {n \in Nat : \E f : Upto(n, f)}
<1>1. 0 \in T
  <2>1. Upto(0, [i \in 1..0 |-> s])
    OBVIOUS
  <2> QED BY <2>1
<1>2. ASSUME NEW n \in Nat, n \in T PROVE n + 1 \in T
  <2>1. PICK f : Upto(n, f)
    BY <1>2
  <2> DEFINE g == [i \in 1..(n + 1) |-> IF i <= n THEN f[i]
                                        ELSE IF i = 1 THEN s[i] ELSE f[i - 1] \o s[i]]
  <2>2. ASSUME NEW i \in 1..(n + 1)
        PROVE  g[i] = IF i = 1 THEN s[i] ELSE g[i - 1] \o s[i]
    <3>1. i # 1 => i - 1 \in 1..n
      OBVIOUS
    <3>2. i # 1 => g[i - 1] = f[i - 1]
      BY <3>1
    <3>3. i <= n => f[i] = IF i = 1 THEN s[i] ELSE f[i - 1] \o s[i]
      <4> DEFINE e(j) == IF j = 1 THEN s[j] ELSE f[j - 1] \o s[j]
      <4>1. f = [j \in 1..n |-> e(j)]
        BY <2>1
      <4>2. i <= n => f[i] = e(i)
        <5> HIDE DEF e
        <5> QED BY <4>1
      <4> QED BY <4>2
    <3> QED BY <3>2, <3>3
  <2>3. g = [i \in 1..(n + 1) |-> IF i = 1 THEN s[i] ELSE g[i - 1] \o s[i]]
    <3> DEFINE h == [i \in 1..(n + 1) |-> IF i = 1 THEN s[i] ELSE g[i - 1] \o s[i]]
    <3>1. \A i \in 1..(n + 1) : g[i] = h[i]
      BY <2>2
    <3>2. g = [i \in 1..(n + 1) |-> g[i]] /\ h = [i \in 1..(n + 1) |-> h[i]]
      OBVIOUS
    <3> HIDE DEF g, h
    <3>3. g = h
      BY <3>1, <3>2
    <3> QED BY <3>3 DEF h
  <2>4. Upto(n + 1, g)
    BY <2>3
  <2>5. \E h : Upto(n + 1, h)
    <3> HIDE DEF g, Upto
    <3> QED BY <2>4
  <2> HIDE DEF Upto
  <2> QED BY <2>5
<1>3. Len(s) \in T
  <2> HIDE DEF T
  <2> QED BY <1>1, <1>2, SetInduction, LenProperties
<1> QED BY <1>3 DEF Flattens

\* FlattenSeq is the last value of that function.
LEMMA FlattenUnfold ==
  ASSUME NEW S, NEW s \in Seq(Seq(S)), s # <<>>
  PROVE  \E f : Flattens(f, s) /\ FlattenSeq(s) = f[Len(s)]
<1> DEFINE f == CHOOSE f : Flattens(f, s)
<1>1. Flattens(f, s)
  BY FlattensExists
<1>2. Len(s) # 0
  BY EmptySeq
<1>3. FlattenSeq(s) = f[Len(s)]
  BY <1>2 DEF FlattenSeq, Flattens
<1> QED BY <1>1, <1>3

\* What it is at each index, a sequence like the elements of s
LEMMA FlattensValue ==
  ASSUME NEW S, NEW s \in Seq(Seq(S)), NEW f, Flattens(f, s)
  PROVE  \A i \in 1..Len(s) : /\ f[i] = IF i = 1 THEN s[i] ELSE f[i - 1] \o s[i]
                              /\ f[i] \in Seq(S)
<1> DEFINE e(i) == IF i = 1 THEN s[i] ELSE f[i - 1] \o s[i]
<1>1. f = [i \in 1..Len(s) |-> e(i)]
  BY DEF Flattens
<1>2. \A i \in 1..Len(s) : f[i] = e(i)
  <2> HIDE DEF e
  <2> QED BY <1>1
<1> DEFINE Holds(n) == n \in 1..Len(s) => f[n] \in Seq(S)
           T == {n \in Nat : Holds(n)}
<1>3. Holds(0)
  OBVIOUS
<1>4. ASSUME NEW n \in Nat, Holds(n) PROVE Holds(n + 1)
  <2>1. CASE n + 1 \in 1..Len(s)
    <3>1. s[n + 1] \in Seq(S)
      BY <2>1, ElementOfSeq
    <3>2. CASE n = 0
      BY <1>2, <2>1, <3>1, <3>2
    <3>3. CASE n # 0
      <4>1. n \in 1..Len(s) /\ n + 1 # 1 /\ (n + 1) - 1 = n
        BY <2>1, <3>3, LenProperties
      <4>2. f[n] \in Seq(S) /\ f[n + 1] = f[n] \o s[n + 1]
        BY <1>2, <1>4, <2>1, <4>1
      <4>3. f[n] \o s[n + 1] \in Seq(S)
        BY <3>1, <4>2, ConcatProperties
      <4> QED BY <4>2, <4>3
    <3> QED BY <3>2, <3>3
  <2> QED BY <2>1
<1>5. Nat \subseteq T
  <2> HIDE DEF Holds
  <2>1. 0 \in T /\ \A n \in Nat : n \in T => n + 1 \in T
    BY <1>3, <1>4
  <2> QED BY <2>1, SetInduction
<1> QED BY <1>2, <1>5, LenProperties

\* Nothing gives nothing.
LEMMA FlattenEmpty == FlattenSeq(<<>>) = <<>>
BY EmptySeq DEF FlattenSeq

\* The elements of a sequence of sequences over S are over S.
LEMMA FlattenType ==
  ASSUME NEW S, NEW s \in Seq(Seq(S))
  PROVE  FlattenSeq(s) \in Seq(S)
<1>1. CASE s = <<>>
  BY <1>1, FlattenEmpty, EmptySeq
<1>2. CASE s # <<>>
  <2>1. PICK f : Flattens(f, s) /\ FlattenSeq(s) = f[Len(s)]
    BY <1>2, FlattenUnfold
  <2>2. Len(s) \in 1..Len(s)
    BY <1>2, EmptySeq
  <2> QED BY <2>1, <2>2, FlattensValue
<1> QED BY <1>1, <1>2

\* The last sequence comes at the end.
LEMMA FlattenAppend ==
  ASSUME NEW S, NEW s \in Seq(Seq(S)), NEW x \in Seq(S)
  PROVE  FlattenSeq(Append(s, x)) = FlattenSeq(s) \o x
<1> DEFINE t == Append(s, x)
<1>1. /\ t \in Seq(Seq(S)) /\ t # <<>> /\ Len(s) \in Nat
      /\ Len(t) = Len(s) + 1
      /\ \A i \in 1..Len(s) : t[i] = s[i]
      /\ t[Len(s) + 1] = x
  BY AppendProperties, LenProperties
<1> HIDE DEF t
<1>2. PICK g : Flattens(g, t) /\ FlattenSeq(t) = g[Len(t)]
  BY <1>1, FlattenUnfold
<1>3. \A i \in 1..Len(t) : /\ g[i] = IF i = 1 THEN t[i] ELSE g[i - 1] \o t[i]
                           /\ g[i] \in Seq(S)
  BY <1>1, <1>2, FlattensValue
<1>4. CASE s = <<>>
  <2>1. Len(s) = 0
    BY <1>4, EmptySeq
  <2>2. FlattenSeq(t) = x
    BY <1>1, <1>2, <1>3, <2>1
  <2> QED BY <1>4, <2>2, FlattenEmpty, ConcatEmptySeq DEF t
<1>5. CASE s # <<>>
  <2>1. Len(s) \in Nat \ {0}
    BY <1>5, EmptySeq
  <2>2. PICK f : Flattens(f, s) /\ FlattenSeq(s) = f[Len(s)]
    BY <1>5, FlattenUnfold
  <2>3. \A i \in 1..Len(s) : f[i] = IF i = 1 THEN s[i] ELSE f[i - 1] \o s[i]
    BY <2>2, FlattensValue
  <2> DEFINE Holds(n) == n \in 1..Len(s) => g[n] = f[n]
             T == {n \in Nat : Holds(n)}
  <2>4. Holds(0)
    OBVIOUS
  <2>5. ASSUME NEW n \in Nat, Holds(n) PROVE Holds(n + 1)
    <3>1. CASE n + 1 \in 1..Len(s)
      <4>1. n + 1 \in 1..Len(t) /\ t[n + 1] = s[n + 1]
        BY <1>1, <3>1
      <4>2. CASE n = 0
        BY <1>3, <2>3, <3>1, <4>1, <4>2
      <4>3. CASE n # 0
        <5>1. n \in 1..Len(s) /\ n + 1 # 1 /\ (n + 1) - 1 = n
          BY <1>1, <3>1, <4>3
        <5>2. g[n] = f[n]
          BY <2>5, <5>1
        <5> QED BY <1>3, <2>3, <3>1, <4>1, <5>1, <5>2
      <4> QED BY <4>2, <4>3
    <3> QED BY <3>1
  <2>6. Nat \subseteq T
    <3> HIDE DEF Holds
    <3>1. 0 \in T /\ \A n \in Nat : n \in T => n + 1 \in T
      BY <2>4, <2>5
    <3> QED BY <3>1, SetInduction
  <2>7. g[Len(s)] = f[Len(s)]
    BY <2>1, <2>6
  <2>8. g[Len(t)] = g[Len(s)] \o x
    <3>1. Len(t) \in 1..Len(t) /\ Len(t) # 1 /\ Len(t) - 1 = Len(s) /\ t[Len(t)] = x
      BY <1>1, <2>1
    <3> QED BY <1>3, <3>1
  <2> QED BY <1>2, <2>2, <2>7, <2>8 DEF t
<1> QED BY <1>4, <1>5

\* The first sequence comes first.
LEMMA FlattenHead ==
  ASSUME NEW S, NEW s \in Seq(Seq(S)), s # <<>>
  PROVE  FlattenSeq(s) = Head(s) \o FlattenSeq(Tail(s))
<1> DEFINE t == Tail(s)
<1>1. /\ t \in Seq(Seq(S)) /\ Len(s) \in Nat \ {0} /\ Len(t) = Len(s) - 1
      /\ \A i \in 1..Len(t) : t[i] = s[i + 1]
      /\ Head(s) = s[1] /\ s[1] \in Seq(S)
  BY HeadTailProperties, EmptySeq, ElementOfSeq
<1> HIDE DEF t
<1>2. PICK f : Flattens(f, s) /\ FlattenSeq(s) = f[Len(s)]
  BY FlattenUnfold
<1>3. \A i \in 1..Len(s) : f[i] = IF i = 1 THEN s[i] ELSE f[i - 1] \o s[i]
  BY <1>2, FlattensValue
<1>4. CASE t = <<>>
  <2>1. Len(s) = 1
    BY <1>1, <1>4, EmptySeq
  <2>2. FlattenSeq(s) = s[1]
    <3>1. 1 \in 1..Len(s)
      BY <2>1
    <3> QED BY <1>2, <1>3, <2>1, <3>1
  <2>3. s[1] \o <<>> = s[1]
    BY <1>1, ConcatEmptySeq
  <2> QED BY <1>1, <1>4, <2>2, <2>3, FlattenEmpty DEF t
<1>5. CASE t # <<>>
  <2>1. Len(t) \in Nat \ {0}
    BY <1>1, <1>5, EmptySeq
  <2>2. PICK g : Flattens(g, t) /\ FlattenSeq(t) = g[Len(t)]
    BY <1>1, <1>5, FlattenUnfold
  <2>3. \A i \in 1..Len(t) : /\ g[i] = IF i = 1 THEN t[i] ELSE g[i - 1] \o t[i]
                             /\ g[i] \in Seq(S)
    BY <1>1, <2>2, FlattensValue
  <2> DEFINE Holds(n) == n \in 1..Len(t) => f[n + 1] = s[1] \o g[n]
             T == {n \in Nat : Holds(n)}
  <2>4. Holds(0)
    OBVIOUS
  <2>5. ASSUME NEW n \in Nat, Holds(n) PROVE Holds(n + 1)
    <3>1. CASE n + 1 \in 1..Len(t)
      <4>1. /\ n + 2 \in 1..Len(s) /\ n + 2 # 1 /\ (n + 2) - 1 = n + 1 /\ (n + 1) + 1 = n + 2
            /\ t[n + 1] = s[n + 2] /\ s[n + 2] \in Seq(S)
        BY <1>1, <3>1, ElementOfSeq
      <4>2. f[n + 2] = f[n + 1] \o s[n + 2]
        BY <1>3, <4>1
      <4>3. CASE n = 0
        <5>1. f[1] = s[1] /\ g[1] = s[2]
          BY <1>1, <1>3, <2>3, <3>1, <4>1, <4>3
        <5>2. f[n + 2] = s[1] \o g[n + 1]
          <6>1. n + 2 = 2 /\ n + 1 = 1
            BY <4>3
          <6> QED BY <4>1, <4>2, <5>1, <6>1, Zenon
        <5> QED BY <4>1, <5>2, Zenon
      <4>4. CASE n # 0
        <5>1. n \in 1..Len(t) /\ n + 1 # 1 /\ (n + 1) - 1 = n
          BY <1>1, <3>1, <4>4
        <5>2. f[n + 1] = s[1] \o g[n]
          BY <2>5, <5>1
        <5>3. g[n + 1] = g[n] \o s[n + 2] /\ g[n] \in Seq(S)
          BY <2>3, <3>1, <4>1, <5>1
        <5>4. ASSUME NEW a \in Seq(S), NEW b \in Seq(S), NEW c \in Seq(S)
              PROVE  (a \o b) \o c = a \o (b \o c)
          BY ConcatAssociative, SMTT(20)
        <5>5. (s[1] \o g[n]) \o s[n + 2] = s[1] \o (g[n] \o s[n + 2])
          <6>1. s[1] \in Seq(S) /\ g[n] \in Seq(S) /\ s[n + 2] \in Seq(S)
            BY <1>1, <4>1, <5>3
          <6> QED BY <5>4, <6>1, Zenon
        <5>6. f[n + 2] = s[1] \o g[n + 1]
          BY <4>2, <5>2, <5>3, <5>5, Zenon
        <5> QED BY <4>1, <5>6
      <4> QED BY <4>3, <4>4
    <3> QED BY <3>1
  <2>6. Nat \subseteq T
    <3> HIDE DEF Holds
    <3>1. 0 \in T /\ \A n \in Nat : n \in T => n + 1 \in T
      BY <2>4, <2>5
    <3> QED BY <3>1, SetInduction
  <2>7. f[Len(t) + 1] = s[1] \o g[Len(t)]
    <3> HIDE DEF Holds
    <3>1. Holds(Len(t)) /\ Len(t) \in 1..Len(t)
      BY <2>1, <2>6
    <3> QED BY <3>1, Zenon DEF Holds
  <2>8. Len(t) + 1 = Len(s)
    BY <1>1
  <2> QED BY <1>1, <1>2, <2>2, <2>7, <2>8 DEF t
<1> QED BY <1>4, <1>5

-----------------------------------------------------------------------------
(* IsPrefix                                                                *)

\* A prefix is as long as it is, and agrees as far as it goes.
LEMMA PrefixPointwise ==
  ASSUME NEW S, NEW s \in Seq(S), NEW t \in Seq(S)
  PROVE  IsPrefix(s, t) <=> /\ Len(s) <= Len(t)
                            /\ \A i \in 1..Len(s) : s[i] = t[i]
<1>1. SubSeq(s, 1, Len(s)) = s /\ Len(s) \in Nat /\ Len(t) \in Nat
  BY SubSeqFull, LenProperties
<1>2. ASSUME Len(s) <= Len(t)
      PROVE  /\ SubSeq(t, 1, Len(s)) \in Seq(S)
             /\ Len(SubSeq(t, 1, Len(s))) = Len(s)
             /\ \A i \in 1..Len(s) : SubSeq(t, 1, Len(s))[i] = t[i]
  <2>1. \A i \in 1..Len(s) : t[i] \in S
    BY <1>1, <1>2, ElementOfSeq
  <2>2. /\ SubSeq(t, 1, Len(s)) \in Seq(S)
        /\ Len(SubSeq(t, 1, Len(s))) = IF 1 <= Len(s) THEN Len(s) - 1 + 1 ELSE 0
        /\ \A i \in 1..(Len(s) - 1 + 1) : SubSeq(t, 1, Len(s))[i] = t[1 + i - 1]
    BY <1>1, <2>1, SubSeqProperties
  <2> QED BY <1>1, <2>2
<1>3. ASSUME Len(s) <= Len(t), \A i \in 1..Len(s) : s[i] = t[i]
      PROVE  s = SubSeq(t, 1, Len(s))
  BY <1>2, <1>3, SeqEqual
<1> QED BY <1>1, <1>2, <1>3 DEF IsPrefix

\* What follows does not matter.
LEMMA PrefixConcat ==
  ASSUME NEW S, NEW s \in Seq(S), NEW t \in Seq(S), NEW u \in Seq(S), IsPrefix(s, t)
  PROVE  IsPrefix(s, t \o u)
<1>1. /\ t \o u \in Seq(S)
      /\ Len(t \o u) = Len(t) + Len(u)
      /\ \A i \in 1..(Len(t) + Len(u)) :
           (t \o u)[i] = IF i <= Len(t) THEN t[i] ELSE u[i - Len(t)]
  BY ConcatProperties
<1>2. Len(s) \in Nat /\ Len(t) \in Nat /\ Len(u) \in Nat
  BY LenProperties
<1>3. Len(s) <= Len(t) /\ \A i \in 1..Len(s) : s[i] = t[i]
  BY PrefixPointwise
<1> DEFINE v == t \o u
<1> HIDE DEF v
<1>4. Len(s) <= Len(v) /\ \A i \in 1..Len(s) : s[i] = v[i]
  BY <1>1, <1>2, <1>3 DEF v
<1> QED BY <1>1, <1>4, PrefixPointwise DEF v

\* A sequence begins with its first part.
LEMMA PrefixOfConcat ==
  ASSUME NEW S, NEW s \in Seq(S), NEW t \in Seq(S)
  PROVE  IsPrefix(s, s \o t)
<1>1. IsPrefix(s, s)
  BY PrefixPointwise, LenProperties
<1> QED BY <1>1, PrefixConcat

\* The beginning of a beginning is one.
LEMMA PrefixTransitive ==
  ASSUME NEW S, NEW s \in Seq(S), NEW t \in Seq(S), NEW u \in Seq(S),
         IsPrefix(s, t), IsPrefix(t, u)
  PROVE  IsPrefix(s, u)
BY PrefixPointwise, LenProperties

-----------------------------------------------------------------------------
(* SubSeq                                                                  *)

\* A piece of a sequence, from one cut to another
LEMMA Piece ==
  ASSUME NEW S, NEW s \in Seq(S), NEW a \in 0..Len(s), NEW b \in a..Len(s)
  PROVE  /\ SubSeq(s, a + 1, b) \in Seq(S)
         /\ Len(SubSeq(s, a + 1, b)) = b - a
         /\ \A i \in 1..(b - a) : SubSeq(s, a + 1, b)[i] = s[a + i]
OBVIOUS

\* What is left after a cut is the next piece and what is left after it.
LEMMA CutAgain ==
  ASSUME NEW S, NEW s \in Seq(S), NEW a \in 0..Len(s), NEW b \in a..Len(s)
  PROVE  SubSeq(s, a + 1, Len(s)) = SubSeq(s, a + 1, b) \o SubSeq(s, b + 1, Len(s))
<1>1. Len(s) \in Nat
  BY LenProperties
<1>2. a + 1 \in 1..(Len(s) + 1) /\ b \in ((a + 1) - 1)..Len(s) /\ Len(s) \in b..Len(s)
  BY <1>1
<1> QED BY <1>2, ConcatAdjacentSubSeq

\* What was put together comes apart at the cut.
LEMMA ConcatCut ==
  ASSUME NEW S, NEW s \in Seq(S), NEW t \in Seq(S)
  PROVE  /\ s \o t \in Seq(S) /\ Len(s \o t) = Len(s) + Len(t)
         /\ SubSeq(s \o t, 1, Len(s)) = s
         /\ SubSeq(s \o t, Len(s) + 1, Len(s \o t)) = t
         /\ s \o <<>> = s
<1>1. s \o t \in Seq(S) /\ Len(s \o t) = Len(s) + Len(t)
  OBVIOUS
<1>2. SubSeq(s \o t, 1, Len(s)) = s
  OBVIOUS
<1>3. SubSeq(s \o t, Len(s) + 1, Len(s \o t)) = t
  OBVIOUS
<1>4. s \o <<>> = s
  BY ConcatEmptySeq
<1> QED BY <1>1, <1>2, <1>3, <1>4

=============================================================================
