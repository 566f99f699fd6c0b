------------------------------ MODULE Wire_proofs ------------------------------
(***************************************************************************)
(* Proofs about module Wire, and so about module Addresses, for texts of   *)
(* any length over any characters: Address::parse takes the grammar and    *)
(* nothing else, Display writes an address as it was read, flat names and  *)
(* instance addresses are kept, cache keys take out the pluses, and the    *)
(* Python mirror reads what a node writes.                                 *)
(*                                                                         *)
(* What a flattened or folded sequence is follows from its definition by   *)
(* induction, of which SetInduction is the form that needs no operator as  *)
(* a parameter.                                                            *)
(***************************************************************************)
EXTENDS Wire, Sequences, FiniteSetTheorems, SequenceTheorems, TLAPS

-----------------------------------------------------------------------------
(* Induction.                                                              *)

\* A set with 0, and with each number's successor, has every number: the numbers
\* below one it had not would, moved down by one, be fewer than they are.
LEMMA SetInduction ==
    ASSUME NEW S, 0 \in S, \A n \in Nat : n \in S => n + 1 \in S
    PROVE  Nat \subseteq S
<1> SUFFICES ASSUME NEW n \in Nat, n \notin S PROVE FALSE
  OBVIOUS
<1> DEFINE T == {k \in 0..n : k \notin S}
           f == [k \in T |-> k - 1]
<1>1. IsFiniteSet(T)
  <2>1. IsFiniteSet(0..n)
    BY FS_Interval
  <2>2. QED
    BY <2>1, FS_Subset
<1>2. n \in T
  OBVIOUS
<1>3. /\ IsFiniteSet(T \ {n}) /\ Cardinality(T \ {n}) = Cardinality(T) - 1
      /\ Cardinality(T) \in Nat
  BY <1>1, <1>2, FS_RemoveElement, FS_CardinalityType
<1>4. \A k \in T : k - 1 \in T \ {n}
  OBVIOUS
<1>5. f \in [T -> T \ {n}]
  BY <1>4
<1>6. \A x, y \in T : x # y => f[x] # f[y]
  OBVIOUS
<1>7. Cardinality(T \ {n}) < Cardinality(T)
  BY <1>3
<1> HIDE DEF T, f
<1>8. QED
  BY <1>1, <1>3, <1>5, <1>6, <1>7, FS_PigeonHole

\* A set of numbers that is not empty has a least one.
LEMMA LeastExists ==
    ASSUME NEW S \in SUBSET Nat, S # {}
    PROVE  Addr!Min(S) \in S /\ \A y \in S : Addr!Min(S) <= y
<1>1. PICK n \in S : TRUE
  OBVIOUS
<1> DEFINE A == {k \in Nat : (\E y \in S : y <= k) => \E x \in S : \A y \in S : x <= y}
<1>2. 0 \in A
  OBVIOUS
<1>3. ASSUME NEW k \in Nat, k \in A PROVE k + 1 \in A
  <2>1. CASE \E y \in S : y <= k
    BY <1>3, <2>1
  <2>2. CASE ~ \E y \in S : y <= k
    <3>1. \A y \in S : k + 1 <= y
      BY <2>2
    <3>2. QED
      BY <3>1
  <2>3. QED
    BY <2>1, <2>2
<1>4. n \in A
  <2> HIDE DEF A
  <2> QED
    BY <1>1, <1>2, <1>3, SetInduction
<1>5. \E x \in S : \A y \in S : x <= y
  BY <1>1, <1>4
<1>6. QED
  BY <1>5, Zenon DEF Addr!Min

\* The greatest of the first n numbers is n.
LEMMA GreatestIs ==
    ASSUME NEW T \in SUBSET Nat, NEW n \in T, \A y \in T : y <= n
    PROVE  Addr!Max(T) = n
<1>1. \A y \in T : n >= y
  OBVIOUS
<1>2. Addr!Max(T) \in T /\ \A y \in T : Addr!Max(T) >= y
  BY <1>1, Zenon DEF Addr!Max
<1>3. PICK m : m = Addr!Max(T)
  OBVIOUS
<1>4. m \in T /\ m >= n
  BY <1>2, <1>3
<1>5. m = n
  BY <1>4
<1>6. QED
  BY <1>3, <1>5

\* A set of sequences with the empty one, and with each one's continuations, has
\* every sequence.
LEMMA SeqInduction ==
    ASSUME NEW X, NEW A, <<>> \in A, \A s \in Seq(X), x \in X : s \in A => Append(s, x) \in A
    PROVE  Seq(X) \subseteq A
<1> DEFINE N == {n \in Nat : \A s \in Seq(X) : Len(s) = n => s \in A}
<1>1. 0 \in N
  BY EmptySeq
<1>2. ASSUME NEW n \in Nat, n \in N PROVE n + 1 \in N
  <2> SUFFICES ASSUME NEW s \in Seq(X), Len(s) = n + 1 PROVE s \in A
    OBVIOUS
  <2>1. s # <<>>
    OBVIOUS
  <2>2. PICK t \in Seq(X), x \in X : s = Append(t, x)
    BY <2>1, SequenceEmptyOrAppend
  <2>3. Len(t) = n
    BY <2>2, AppendProperties
  <2>4. t \in A
    BY <1>2, <2>3
  <2>5. QED
    BY <2>2, <2>4
<1> HIDE DEF N
<1>3. Nat \subseteq N
  BY <1>1, <1>2, SetInduction
<1>4. ASSUME NEW s \in Seq(X) PROVE s \in A
  <2>1. Len(s) \in N
    BY <1>3
  <2>2. QED
    BY <2>1 DEF N
<1>5. QED
  BY <1>4
-----------------------------------------------------------------------------
(* Sequences.                                                              *)

LEMMA Appends ==
    ASSUME NEW X, NEW s \in Seq(X), NEW x \in X
    PROVE  /\ Append(s, x) \in Seq(X) /\ Len(Append(s, x)) = Len(s) + 1 /\ Len(s) \in Nat
           /\ Append(s, x)[Len(s) + 1] = x /\ \A k \in 1..Len(s) : Append(s, x)[k] = s[k]
           /\ SubSeq(Append(s, x), 1, Len(s)) = s
OBVIOUS

LEMMA SliceAppend ==
    ASSUME NEW X, NEW s \in Seq(X), NEW m \in 1..Len(s) + 1, NEW n \in Nat, m - 1 <= n, n < Len(s)
    PROVE  /\ SubSeq(s, m, n) \in Seq(X) /\ Len(SubSeq(s, m, n)) = n - m + 1
           /\ SubSeq(s, m, n + 1) = Append(SubSeq(s, m, n), s[n + 1])
OBVIOUS

LEMMA Whole == ASSUME NEW X, NEW s \in Seq(X) PROVE SubSeq(s, 1, Len(s)) = s
OBVIOUS

\* The function that FlattenSeq takes its value from.
Flattening(h, s, n) == \A k \in 1..n : h[k] = IF k = 1 THEN s[k] ELSE h[k - 1] \o s[k]

LEMMA FlattenExists ==
    ASSUME NEW X, NEW s \in Seq(Seq(X)), NEW n \in 0..Len(s)
    PROVE  \E h \in [1..n -> Seq(X)] : Flattening(h, s, n)
<1> DEFINE A == {m \in Nat : m <= Len(s) => \E h \in [1..m -> Seq(X)] : Flattening(h, s, m)}
<1>1. 0 \in A
  <2>1. 1..0 = {}
    OBVIOUS
  <2>2. [k \in {} |-> <<>>] \in [1..0 -> Seq(X)]
    BY <2>1
  <2>3. Flattening([k \in {} |-> <<>>], s, 0)
    BY <2>1 DEF Flattening
  <2>4. QED
    BY <2>2, <2>3
<1>2. ASSUME NEW m \in Nat, m \in A PROVE m + 1 \in A
  <2> SUFFICES ASSUME m + 1 <= Len(s) PROVE \E g \in [1..m + 1 -> Seq(X)] : Flattening(g, s, m + 1)
    OBVIOUS
  <2>1. PICK h \in [1..m -> Seq(X)] : Flattening(h, s, m)
    <3>1. m <= Len(s)
      OBVIOUS
    <3>2. QED
      BY <1>2, <3>1
  <2>2. PICK last \in Seq(X) : last = IF m = 0 THEN s[1] ELSE h[m] \o s[m + 1]
    <3>1. m + 1 \in DOMAIN s /\ s[m + 1] \in Seq(X)
      OBVIOUS
    <3>2. CASE m = 0
      BY <3>1, <3>2
    <3>3. CASE m # 0
      <4>1. h[m] \in Seq(X)
        BY <2>1, <3>3
      <4>2. h[m] \o s[m + 1] \in Seq(X)
        BY <3>1, <4>1, ConcatProperties
      <4>3. QED
        BY <3>3, <4>2
    <3>4. QED
      BY <3>2, <3>3
  <2>3. PICK g : g = [k \in 1..m + 1 |-> IF k = m + 1 THEN last ELSE h[k]]
    OBVIOUS
  <2>4. g \in [1..m + 1 -> Seq(X)] /\ g[m + 1] = last /\ \A k \in 1..m : g[k] = h[k]
    BY <2>3
  <2>5. ASSUME NEW k \in 1..m + 1 PROVE g[k] = IF k = 1 THEN s[k] ELSE g[k - 1] \o s[k]
    <3>1. CASE k = m + 1
      <4>1. m # 0 => g[m] = h[m]
        BY <2>4
      <4>2. QED
        BY <2>2, <2>4, <3>1, <4>1
    <3>2. CASE k # m + 1
      <4>1. k \in 1..m /\ (k # 1 => k - 1 \in 1..m)
        BY <3>2
      <4>2. h[k] = IF k = 1 THEN s[k] ELSE h[k - 1] \o s[k]
        BY <2>1, <4>1 DEF Flattening
      <4>3. QED
        BY <2>4, <4>1, <4>2
    <3>3. QED
      BY <3>1, <3>2
  <2>6. Flattening(g, s, m + 1)
    BY <2>5 DEF Flattening
  <2>7. QED
    BY <2>4, <2>6
<1>3. n \in A
  <2> HIDE DEF A
  <2>1. n \in Nat
    OBVIOUS
  <2>2. QED
    BY <1>1, <1>2, <2>1, SetInduction
<1>4. n <= Len(s)
  OBVIOUS
<1>5. QED
  BY <1>3, <1>4

LEMMA FlattenBy ==
    ASSUME NEW X, NEW s \in Seq(Seq(X)), Len(s) # 0
    PROVE  \E h : Addr!FlattenSeq(s) = h[Len(s)] /\ Flattening(h, s, Len(s))
<1> DEFINE P(h) == h = [k \in 1..Len(s) |-> IF k = 1 THEN s[k] ELSE h[k - 1] \o s[k]]
<1>1. Addr!FlattenSeq(s) = (CHOOSE h : P(h))[Len(s)]
  BY Zenon DEF Addr!FlattenSeq
<1>2. P(CHOOSE h : P(h))
  <2>1. PICK g \in [1..Len(s) -> Seq(X)] : Flattening(g, s, Len(s))
    <3>1. Len(s) \in 0..Len(s)
      OBVIOUS
    <3>2. QED
      BY <3>1, FlattenExists
  <2>2. P(g)
    BY <2>1 DEF Flattening
  <2> HIDE DEF P
  <2>3. QED
    BY <2>2
<1>3. PICK h : h = CHOOSE g : P(g)
  OBVIOUS
<1>4. Addr!FlattenSeq(s) = h[Len(s)] /\ P(h)
  <2> HIDE DEF P
  <2> QED
    BY <1>1, <1>2, <1>3
<1>5. \A k \in 1..Len(s) : h[k] = IF k = 1 THEN s[k] ELSE h[k - 1] \o s[k]
  BY <1>4
<1>6. QED
  BY <1>4, <1>5 DEF Flattening

LEMMA FlattenEmpty == Addr!FlattenSeq(<<>>) = <<>>
BY DEF Addr!FlattenSeq

\* A sequence is flattened element by element.
LEMMA FlattenStep ==
    ASSUME NEW X, NEW s \in Seq(Seq(X)), NEW x \in Seq(X)
    PROVE  Addr!FlattenSeq(s) \in Seq(X) /\ Addr!FlattenSeq(Append(s, x)) = Addr!FlattenSeq(s) \o x
<1>1. PICK t : t = Append(s, x)
  OBVIOUS
<1>2. PICK n : n = Len(s)
  OBVIOUS
<1>3. /\ t \in Seq(Seq(X)) /\ Len(t) = n + 1 /\ n \in Nat
      /\ t[n + 1] = x /\ \A k \in 1..n : t[k] = s[k]
  BY <1>1, <1>2, Appends
<1>4. PICK g : Addr!FlattenSeq(t) = g[n + 1] /\ Flattening(g, t, n + 1)
  <2>1. Len(t) # 0
    BY <1>3
  <2>2. QED
    BY <1>3, <2>1, FlattenBy
<1>5. \A k \in 1..n + 1 : g[k] = IF k = 1 THEN t[k] ELSE g[k - 1] \o t[k]
  BY <1>4 DEF Flattening
<1>6. CASE n = 0
  <2>1. s = <<>>
    BY <1>2, <1>6, EmptySeq
  <2>2. Addr!FlattenSeq(s) = <<>>
    BY <2>1, FlattenEmpty
  <2>3. g[1] = x
    <3>1. 1 \in 1..n + 1
      BY <1>6
    <3>2. QED
      BY <1>3, <1>5, <1>6, <3>1
  <2>4. <<>> \o x = x /\ <<>> \in Seq(X) /\ n + 1 = 1
    BY <1>6, ConcatEmptySeq
  <2>5. QED
    BY <1>1, <1>4, <2>2, <2>3, <2>4
<1>7. CASE n # 0
  <2>1. PICK h : Addr!FlattenSeq(s) = h[n] /\ Flattening(h, s, n)
    BY <1>2, <1>7, FlattenBy
  <2>2. \A k \in 1..n : h[k] = IF k = 1 THEN s[k] ELSE h[k - 1] \o s[k]
    BY <2>1 DEF Flattening
  <2> DEFINE A == {k \in Nat : k + 1 <= n => g[k + 1] = h[k + 1] /\ h[k + 1] \in Seq(X)}
  <2>3. 0 \in A
    <3>1. 1 \in 1..n /\ 1 \in 1..n + 1 /\ s[1] \in Seq(X)
      BY <1>2, <1>3, <1>7
    <3>2. g[1] = t[1] /\ h[1] = s[1] /\ t[1] = s[1]
      BY <1>3, <1>5, <2>2, <3>1
    <3>3. QED
      BY <3>1, <3>2
  <2>4. ASSUME NEW k \in Nat, k \in A PROVE k + 1 \in A
    <3> SUFFICES ASSUME k + 2 <= n PROVE g[k + 2] = h[k + 2] /\ h[k + 2] \in Seq(X)
      OBVIOUS
    <3>1. k + 2 \in 1..n /\ k + 2 \in 1..n + 1 /\ s[k + 2] \in Seq(X) /\ k + 2 # 1 /\ (k + 2) - 1 = k + 1
      BY <1>2, <1>3
    <3>2. g[k + 2] = g[k + 1] \o t[k + 2] /\ h[k + 2] = h[k + 1] \o s[k + 2] /\ t[k + 2] = s[k + 2]
      BY <1>3, <1>5, <2>2, <3>1
    <3>3. g[k + 1] = h[k + 1] /\ h[k + 1] \in Seq(X)
      <4>1. k + 1 <= n
        BY <1>3
      <4>2. QED
        BY <2>4, <4>1
    <3>4. QED
      BY <3>1, <3>2, <3>3, ConcatProperties
  <2>5. n - 1 \in A
    <3> HIDE DEF A
    <3>1. n - 1 \in Nat
      BY <1>3, <1>7
    <3>2. QED
      BY <2>3, <2>4, <3>1, SetInduction
  <2>6. g[n] = h[n] /\ h[n] \in Seq(X)
    BY <1>3, <2>5
  <2>7. g[n + 1] = g[n] \o x
    <3>1. n + 1 \in 1..n + 1 /\ n + 1 # 1 /\ (n + 1) - 1 = n
      BY <1>3, <1>7
    <3>2. QED
      BY <1>3, <1>5, <3>1
  <2>8. QED
    BY <1>1, <1>4, <2>1, <2>6, <2>7
<1>8. QED
  BY <1>6, <1>7

-----------------------------------------------------------------------------
(* Segments, and how an address is written.                                *)

Chars == Addr!Chars
Segments == Addr!Segments

LEMMA Marks == "." \in Chars /\ "[" \in Chars /\ "]" \in Chars /\ "+" \in Chars
BY DEF Chars, Addr!Chars

LEMMA OneTyped == ASSUME NEW X, NEW x \in X PROVE <<x>> \in Seq(X) /\ Len(<<x>>) = 1 /\ <<x>>[1] = x
OBVIOUS

LEMMA ShowTyped ==
    ASSUME NEW s \in Segments
    PROVE  Addr!Show(s) \in Seq(Chars)
<1>1. s.name \in Seq(Chars) /\ s.key \in Seq(Chars) \cup {NoKey}
  BY DEF Segments, Addr!Segments, Chars
<1>2. CASE s.key = NoKey
  BY <1>1, <1>2 DEF Addr!Show
<1>3. CASE s.key # NoKey
  <2>1. <<"[">> \in Seq(Chars) /\ <<"]">> \in Seq(Chars) /\ s.key \in Seq(Chars)
    BY <1>1, <1>3, Marks, OneTyped
  <2>2. s.name \o <<"[">> \in Seq(Chars)
    BY <1>1, <2>1, ConcatProperties
  <2>3. s.name \o <<"[">> \o s.key \in Seq(Chars)
    BY <2>1, <2>2, ConcatProperties
  <2>4. s.name \o <<"[">> \o s.key \o <<"]">> \in Seq(Chars)
    BY <2>1, <2>3, ConcatProperties
  <2>5. QED
    BY <1>3, <2>4 DEF Addr!Show
<1>4. QED
  BY <1>2, <1>3

\* What Display flattens.
Part(s, n) == (IF n > 1 THEN <<".">> ELSE <<>>) \o Addr!Show(s)
Parts(a) == [n \in DOMAIN a |-> Part(a[n], n)]

LEMMA PartTyped ==
    ASSUME NEW s \in Segments, NEW n \in Nat
    PROVE  Part(s, n) \in Seq(Chars)
<1>1. Addr!Show(s) \in Seq(Chars) /\ <<".">> \in Seq(Chars) /\ <<>> \in Seq(Chars)
  BY ShowTyped, Marks, OneTyped, EmptySeq
<1>2. (IF n > 1 THEN <<".">> ELSE <<>>) \in Seq(Chars)
  BY <1>1
<1>3. QED
  BY <1>1, <1>2, ConcatProperties DEF Part

LEMMA PartsTyped ==
    ASSUME NEW a \in Seq(Segments)
    PROVE  Parts(a) \in Seq(Seq(Chars)) /\ Len(Parts(a)) = Len(a)
<1>1. \A n \in 1..Len(a) : Part(a[n], n) \in Seq(Chars)
  BY PartTyped
<1>2. DOMAIN a = 1..Len(a) /\ Len(a) \in Nat
  OBVIOUS
<1>3. Parts(a) \in [1..Len(a) -> Seq(Chars)]
  BY <1>1, <1>2 DEF Parts
<1>4. QED
  BY <1>2, <1>3

LEMMA PartsAppend ==
    ASSUME NEW a \in Seq(Segments), NEW s \in Segments
    PROVE  Parts(Append(a, s)) = Append(Parts(a), Part(s, Len(a) + 1))
<1>1. PICK b : b = Append(a, s)
  OBVIOUS
<1>2. b \in Seq(Segments) /\ Len(b) = Len(a) + 1 /\ b[Len(a) + 1] = s /\ \A k \in 1..Len(a) : b[k] = a[k]
  BY <1>1, AppendProperties
<1>3. PICK p : p = Parts(a)
  OBVIOUS
<1>4. PICK q : q = Parts(b)
  OBVIOUS
<1>5. PICK x \in Seq(Chars) : x = Part(s, Len(a) + 1)
  BY PartTyped
<1>6. p \in Seq(Seq(Chars)) /\ Len(p) = Len(a) /\ q \in Seq(Seq(Chars)) /\ Len(q) = Len(a) + 1
  BY <1>2, <1>3, <1>4, PartsTyped
<1>7. q[Len(a) + 1] = x
  BY <1>2, <1>4, <1>5 DEF Parts
<1>8. \A k \in 1..Len(a) : q[k] = p[k]
  BY <1>2, <1>3, <1>4 DEF Parts
<1>9. /\ Append(p, x) \in Seq(Seq(Chars)) /\ Len(Append(p, x)) = Len(a) + 1
      /\ \A k \in 1..Len(a) : Append(p, x)[k] = p[k] /\ Append(p, x)[Len(a) + 1] = x
  BY <1>6, AppendProperties
<1>10. \A k \in 1..Len(q) : q[k] = Append(p, x)[k]
  <2> SUFFICES ASSUME NEW k \in 1..Len(a) + 1 PROVE q[k] = Append(p, x)[k]
    BY <1>6
  <2>1. Append(p, x)[Len(a) + 1] = x
    BY <1>6, AppendProperties
  <2>2. CASE k = Len(a) + 1
    BY <1>7, <2>1, <2>2
  <2>3. CASE k # Len(a) + 1
    BY <1>8, <1>9, <2>3
  <2>4. QED
    BY <2>2, <2>3
<1>11. q = Append(p, x)
  <2>1. q \in Seq(Seq(Chars)) /\ Append(p, x) \in Seq(Seq(Chars)) /\ Len(q) = Len(Append(p, x))
    BY <1>6, <1>9
  <2>2. QED
    BY <1>10, <2>1, SeqEqual
<1>12. QED
  BY <1>1, <1>3, <1>4, <1>5, <1>11

LEMMA DisplayIs == ASSUME NEW a PROVE Addr!Display(a) = Addr!FlattenSeq(Parts(a))
BY DEF Addr!Display, Parts, Part

\* An address is written segment by segment (Display, wire.rs:217-230).
LEMMA DisplayAppend ==
    ASSUME NEW a \in Seq(Segments), NEW s \in Segments
    PROVE  /\ Addr!Display(a) \in Seq(Chars)
           /\ Addr!Display(Append(a, s)) =
                IF a = <<>> THEN Addr!Show(s) ELSE Addr!Display(a) \o <<".">> \o Addr!Show(s)
<1>1. PICK p \in Seq(Seq(Chars)) : p = Parts(a) /\ Len(p) = Len(a)
  BY PartsTyped
<1>2. PICK x \in Seq(Chars) : x = Part(s, Len(a) + 1)
  BY PartTyped
<1>3. Addr!Display(a) = Addr!FlattenSeq(p) /\ Addr!Display(Append(a, s)) = Addr!FlattenSeq(Append(p, x))
  <2>1. Parts(Append(a, s)) = Append(p, x)
    BY <1>1, <1>2, PartsAppend
  <2>2. QED
    BY <1>1, <2>1, DisplayIs
<1>4. Addr!FlattenSeq(p) \in Seq(Chars) /\ Addr!FlattenSeq(Append(p, x)) = Addr!FlattenSeq(p) \o x
  BY FlattenStep
<1>5. PICK w \in Seq(Chars) : w = Addr!Show(s)
  BY ShowTyped
<1>6. PICK d \in Seq(Chars) : d = Addr!Display(a)
  BY <1>3, <1>4
<1>7. CASE a = <<>>
  <2>1. p = <<>> /\ Len(a) + 1 = 1
    BY <1>1, <1>7, EmptySeq
  <2>2. d = <<>>
    BY <1>3, <1>6, <2>1, FlattenEmpty
  <2>3. x = <<>> \o w
    BY <1>2, <1>5, <2>1 DEF Part
  <2>4. x = w /\ d \o x = w
    BY <2>2, <2>3, ConcatEmptySeq
  <2>5. QED
    BY <1>3, <1>4, <1>5, <1>6, <1>7, <2>4
<1>8. CASE a # <<>>
  <2>1. Len(a) + 1 > 1
    BY <1>8
  <2>2. x = <<".">> \o w
    BY <1>2, <1>5, <2>1 DEF Part
  <2>3. <<".">> \in Seq(Chars)
    BY Marks, OneTyped
  <2>4. d \o x = (d \o <<".">>) \o w
    BY <2>2, <2>3, ConcatAssociative, SMTT(40)
  <2>5. QED
    BY <1>3, <1>4, <1>5, <1>6, <1>8, <2>4
<1>9. QED
  BY <1>7, <1>8
-----------------------------------------------------------------------------
(* Parsing a segment.                                                      *)

FirstOpen(raw) == Addr!SelectInSeq(raw, LAMBDA c : c = "[")

LEMMA FirstOpenIs ==
    ASSUME NEW raw \in Seq(Chars)
    PROVE  \/ FirstOpen(raw) = 0 /\ \A k \in 1..Len(raw) : raw[k] # "["
           \/ /\ FirstOpen(raw) \in 1..Len(raw) /\ raw[FirstOpen(raw)] = "["
              /\ \A k \in 1..Len(raw) : raw[k] = "[" => FirstOpen(raw) <= k
<1> DEFINE I == {k \in 1..Len(raw) : raw[k] = "["}
<1>1. FirstOpen(raw) = IF I # {} THEN Addr!Min(I) ELSE 0
  BY DEF FirstOpen, Addr!SelectInSeq
<1>2. I \in SUBSET Nat
  OBVIOUS
<1>3. CASE I = {}
  BY <1>1, <1>3
<1>4. CASE I # {}
  <2>1. Addr!Min(I) \in I /\ \A y \in I : Addr!Min(I) <= y
    <3> HIDE DEF I
    <3> QED
      BY <1>2, <1>4, LeastExists
  <2>2. FirstOpen(raw) = Addr!Min(I)
    BY <1>1, <1>4
  <2>3. QED
    BY <2>1, <2>2
<1>5. QED
  BY <1>3, <1>4

\* The texts that are segments (parse_segment, wire.rs:192-215).
Wellformed(raw) ==
    /\ raw # <<>> /\ raw[1] # "["
    /\ (\E k \in 1..Len(raw) : raw[k] = "[") => raw[Len(raw)] = "]"

\* A text cut at its first bracket, and before its last character.
LEMMA CutAt ==
    ASSUME NEW X, NEW raw \in Seq(X), NEW p \in 1..Len(raw), p < Len(raw)
    PROVE  /\ SubSeq(raw, 1, p - 1) \in Seq(X) /\ Len(SubSeq(raw, 1, p - 1)) = p - 1
           /\ SubSeq(raw, p + 1, Len(raw) - 1) \in Seq(X)
           /\ SubSeq(raw, 1, p - 1) \o <<raw[p]>> \o SubSeq(raw, p + 1, Len(raw) - 1) \o <<raw[Len(raw)]>> = raw
<1>1. PICK n \in Nat : n = Len(raw)
  OBVIOUS
<1>2. SubSeq(raw, 1, n) = SubSeq(raw, 1, n - 1) \o <<raw[n]>> /\ SubSeq(raw, 1, n) = raw
  <2>1. 1 \in 1..Len(raw) /\ n \in 1..Len(raw)
    BY <1>1
  <2>2. QED
    BY <1>1, <2>1, SubSeqRecursiveSecond, SubSeqFull
<1>3. SubSeq(raw, 1, n - 1) = SubSeq(raw, 1, p) \o SubSeq(raw, p + 1, n - 1)
  <2>1. 1 \in 1..Len(raw) + 1 /\ p \in 1 - 1..Len(raw) /\ n - 1 \in p..Len(raw)
    BY <1>1
  <2>2. QED
    BY <2>1, ConcatAdjacentSubSeq
<1>4. SubSeq(raw, 1, p) = SubSeq(raw, 1, p - 1) \o <<raw[p]>>
  <2>1. 1 \in 1..Len(raw) /\ p \in 1..Len(raw)
    OBVIOUS
  <2>2. QED
    BY <2>1, SubSeqRecursiveSecond
<1>5. /\ SubSeq(raw, 1, p - 1) \in Seq(X) /\ Len(SubSeq(raw, 1, p - 1)) = p - 1
      /\ SubSeq(raw, p + 1, Len(raw) - 1) \in Seq(X)
  OBVIOUS
<1>6. QED
  BY <1>1, <1>2, <1>3, <1>4, <1>5

\* parse_segment takes those and nothing else, and what it reads is written as it was.
LEMMA ParseSegmentIs ==
    ASSUME NEW raw \in Seq(Chars), NoKey \notin Seq(Chars)
    PROVE  /\ Addr!Ok(Addr!ParseSegment(raw)) <=> Wellformed(raw)
           /\ ~Addr!Ok(Addr!ParseSegment(raw)) => Addr!ParseSegment(raw) \in [error : Addr!Errors]
           /\ Addr!Ok(Addr!ParseSegment(raw)) =>
                /\ Addr!ParseSegment(raw) \in Segments /\ Addr!ParseSegment(raw).name # <<>>
                /\ Addr!Show(Addr!ParseSegment(raw)) = raw
                /\ Addr!ParseSegment(raw).key = NoKey =>
                     (\A k \in 1..Len(raw) : raw[k] # "[") /\ Addr!ParseSegment(raw) = Addr!Segment(raw, NoKey)
                /\ Addr!ParseSegment(raw).key # NoKey =>
                     \E p \in 2..Len(raw) - 1 :
                        /\ raw[p] = "[" /\ \A k \in 1..p - 1 : raw[k] # "["
                        /\ Addr!ParseSegment(raw) =
                             Addr!Segment(SubSeq(raw, 1, p - 1), SubSeq(raw, p + 1, Len(raw) - 1))
<1>1. PICK p : p = FirstOpen(raw)
  OBVIOUS
<1>2. PICK s : s = Addr!ParseSegment(raw)
  OBVIOUS
<1>3. s = IF raw = <<>> THEN Addr!Error("EmptySegment")
          ELSE IF p = 0 THEN Addr!Segment(raw, NoKey)
          ELSE IF p = 1 THEN Addr!Error("EmptyName")
          ELSE IF raw[Len(raw)] # "]" THEN Addr!Error("Unbalanced")
          ELSE Addr!Segment(SubSeq(raw, 1, p - 1), SubSeq(raw, p + 1, Len(raw) - 1))
  BY <1>1, <1>2 DEF Addr!ParseSegment, FirstOpen, Addr!Last
<1>4. \/ p = 0 /\ \A k \in 1..Len(raw) : raw[k] # "["
      \/ p \in 1..Len(raw) /\ raw[p] = "[" /\ \A k \in 1..Len(raw) : raw[k] = "[" => p <= k
  BY <1>1, FirstOpenIs
<1>5. ASSUME NEW e \in Addr!Errors, s = Addr!Error(e), ~Wellformed(raw) PROVE ~Addr!Ok(s) /\ s \in [error : Addr!Errors]
  BY <1>5 DEF Addr!Error, Addr!Ok
<1>6. {"EmptySegment", "EmptyName", "Unbalanced"} \subseteq Addr!Errors
  BY DEF Addr!Errors
<1>7. ASSUME NEW name \in Seq(Chars), NEW key \in Seq(Chars) \cup {NoKey}, s = Addr!Segment(name, key)
      PROVE  Addr!Ok(s) /\ s \in Segments /\ s.name = name /\ s.key = key
  <2>1. s = [name |-> name, key |-> key]
    BY <1>7 DEF Addr!Segment
  <2>2. DOMAIN s = {"name", "key"}
    BY <2>1
  <2>3. QED
    BY <2>1, <2>2 DEF Addr!Ok, Segments, Addr!Segments, Chars
<1>8. CASE raw = <<>>
  <2>1. s = Addr!Error("EmptySegment") /\ ~Wellformed(raw)
    BY <1>3, <1>8 DEF Wellformed
  <2>2. QED
    BY <1>2, <1>5, <1>6, <1>8, <2>1
<1>9. CASE raw # <<>> /\ p = 0
  <2>1. s = Addr!Segment(raw, NoKey) /\ \A k \in 1..Len(raw) : raw[k] # "["
    BY <1>3, <1>4, <1>9
  <2>2. Addr!Ok(s) /\ s \in Segments /\ s.name = raw /\ s.key = NoKey
    BY <1>7, <2>1
  <2>3. Wellformed(raw)
    BY <1>9, <2>1 DEF Wellformed
  <2>4. Addr!Show(s) = raw
    BY <2>2 DEF Addr!Show
  <2>5. QED
    BY <1>2, <1>9, <2>1, <2>2, <2>3, <2>4
<1>10. CASE raw # <<>> /\ p = 1
  <2>1. s = Addr!Error("EmptyName") /\ ~Wellformed(raw)
    BY <1>3, <1>4, <1>10 DEF Wellformed
  <2>2. QED
    BY <1>2, <1>5, <1>6, <2>1
<1>11. CASE raw # <<>> /\ p \notin {0, 1} /\ raw[Len(raw)] # "]"
  <2>1. s = Addr!Error("Unbalanced") /\ ~Wellformed(raw)
    BY <1>3, <1>4, <1>11 DEF Wellformed
  <2>2. QED
    BY <1>2, <1>5, <1>6, <2>1
<1>12. CASE raw # <<>> /\ p \notin {0, 1} /\ raw[Len(raw)] = "]"
  <2>1. /\ p \in 2..Len(raw) - 1 /\ p \in 1..Len(raw) /\ p < Len(raw)
        /\ raw[p] = "[" /\ \A k \in 1..p - 1 : raw[k] # "["
    <3>1. p \in 1..Len(raw) /\ raw[p] = "[" /\ p # Len(raw)
      BY <1>4, <1>12
    <3>2. QED
      BY <1>4, <1>12, <3>1
  <2>2. PICK name : name = SubSeq(raw, 1, p - 1)
    OBVIOUS
  <2>3. PICK key : key = SubSeq(raw, p + 1, Len(raw) - 1)
    OBVIOUS
  <2>4. name \in Seq(Chars) /\ Len(name) = p - 1 /\ key \in Seq(Chars) /\ name \o <<"[">> \o key \o <<"]">> = raw
    BY <1>12, <2>1, <2>2, <2>3, CutAt
  <2>5. s = Addr!Segment(name, key)
    BY <1>3, <1>12, <2>2, <2>3
  <2>6. Addr!Ok(s) /\ s \in Segments /\ s.name = name /\ s.key = key
    BY <1>7, <2>4, <2>5
  <2>7. key # NoKey /\ name # <<>>
    BY <2>1, <2>4
  <2>8. Addr!Show(s) = raw
    BY <2>4, <2>6, <2>7 DEF Addr!Show
  <2>9. Wellformed(raw)
    BY <1>4, <1>12 DEF Wellformed
  <2>10. QED
    BY <1>2, <2>1, <2>2, <2>3, <2>5, <2>6, <2>7, <2>8, <2>9
<1>13. QED
  BY <1>8, <1>9, <1>10, <1>11, <1>12
-----------------------------------------------------------------------------
(* Brackets and cuts, of any text.                                         *)

Count(t, c, n) == Cardinality({k \in 1..n : t[k] = c})
DepthOf(t, n) == Count(t, "[", n) - Count(t, "]", n)
CutsOf(t) == {0, Len(t) + 1} \cup {k \in 1..Len(t) : t[k] = "." /\ DepthOf(t, k) = 0}
Adjacent(t, m, n) == m \in CutsOf(t) /\ n \in CutsOf(t) /\ m < n /\ \A k \in CutsOf(t) : ~(m < k /\ k < n)
FineAt(t, m, n) == n > m + 1 /\ t[m + 1] # "[" /\ ((\E k \in m + 1..n - 1 : t[k] = "[") => t[n - 1] = "]")
GrammarOf(t) ==
    /\ t # <<>> /\ DepthOf(t, Len(t)) = 0
    /\ \A k \in 1..Len(t) : DepthOf(t, k) >= 0
    /\ \A m, n : Adjacent(t, m, n) => FineAt(t, m, n)

LEMMA CountStep ==
    ASSUME NEW t, NEW c, NEW n \in Nat
    PROVE  /\ Count(t, c, 0) = 0 /\ Count(t, c, n) \in 0..n
           /\ Count(t, c, n + 1) = IF t[n + 1] = c THEN Count(t, c, n) + 1 ELSE Count(t, c, n)
<1> DEFINE S(m) == {k \in 1..m : t[k] = c}
<1>1. S(0) = {}
  OBVIOUS
<1>2. IsFiniteSet(1..n) /\ Cardinality(1..n) = n
  BY FS_Interval
<1>3. IsFiniteSet(S(n)) /\ Cardinality(S(n)) <= n
  <2>1. S(n) \subseteq 1..n
    OBVIOUS
  <2> HIDE DEF S
  <2>2. QED
    BY <1>2, <2>1, FS_Subset
<1>4. Cardinality(S(n)) \in Nat
  BY <1>3, FS_CardinalityType
<1>5. n + 1 \notin S(n)
  OBVIOUS
<1>6. S(n + 1) = IF t[n + 1] = c THEN S(n) \cup {n + 1} ELSE S(n)
  OBVIOUS
<1> HIDE DEF S
<1>7. Cardinality(S(n) \cup {n + 1}) = Cardinality(S(n)) + 1
  BY <1>3, <1>5, FS_AddElement
<1>8. Cardinality(S(0)) = 0
  BY <1>1, FS_EmptySet
<1>9. QED
  BY <1>3, <1>4, <1>6, <1>7, <1>8 DEF Count, S

LEMMA DepthStep ==
    ASSUME NEW t, NEW n \in Nat
    PROVE  /\ DepthOf(t, 0) = 0 /\ DepthOf(t, n) \in -n..n
           /\ DepthOf(t, n + 1) = IF t[n + 1] = "[" THEN DepthOf(t, n) + 1
                                  ELSE IF t[n + 1] = "]" THEN DepthOf(t, n) - 1 ELSE DepthOf(t, n)
<1>1. /\ Count(t, "[", 0) = 0 /\ Count(t, "[", n) \in 0..n
      /\ Count(t, "[", n + 1) = IF t[n + 1] = "[" THEN Count(t, "[", n) + 1 ELSE Count(t, "[", n)
  BY CountStep
<1>2. /\ Count(t, "]", 0) = 0 /\ Count(t, "]", n) \in 0..n
      /\ Count(t, "]", n + 1) = IF t[n + 1] = "]" THEN Count(t, "]", n) + 1 ELSE Count(t, "]", n)
  BY CountStep
<1>3. QED
  BY <1>1, <1>2 DEF DepthOf

LEMMA TextsGrammar == ASSUME text \in Seq(Chars) PROVE Addr!Grammatical <=> GrammarOf(text)
<1>1. \A n : Addr!Depth(n) = DepthOf(text, n)
  BY DEF Addr!Depth, DepthOf, Count, Addr!Cardinality, Cardinality
<1>2. Addr!Cuts = CutsOf(text)
  BY <1>1 DEF Addr!Cuts, CutsOf
<1>3. \A m, n : Addr!SegmentOK(m, n) <=> FineAt(text, m, n)
  BY DEF Addr!SegmentOK, FineAt
<1>4. QED
  BY <1>1, <1>2, <1>3 DEF Addr!Grammatical, GrammarOf, Adjacent

\* What is between two cuts is a segment just if it parses as one.
LEMMA FineIs ==
    ASSUME NEW t \in Seq(Chars), NEW c \in Nat, NEW j \in Nat, c <= j, j <= Len(t)
    PROVE  Wellformed(SubSeq(t, c + 1, j)) <=> FineAt(t, c, j + 1)
<1>1. PICK s : s = SubSeq(t, c + 1, j)
  OBVIOUS
<1>2. s \in Seq(Chars) /\ Len(s) = j - c /\ \A k \in 1..j - c : s[k] = t[c + k]
  BY <1>1, SMTT(40)
<1>3. s # <<>> <=> j + 1 > c + 1
  BY <1>2, EmptySeq
<1>4. j > c => s[1] = t[c + 1] /\ s[Len(s)] = t[j]
  BY <1>2
<1>5. (\E k \in 1..Len(s) : s[k] = "[") <=> (\E k \in c + 1..(j + 1) - 1 : t[k] = "[")
  <2>1. ASSUME NEW k \in 1..Len(s), s[k] = "[" PROVE \E l \in c + 1..(j + 1) - 1 : t[l] = "["
    <3>1. c + k \in c + 1..(j + 1) - 1 /\ t[c + k] = "["
      BY <1>2, <2>1
    <3>2. QED
      BY <3>1
  <2>2. ASSUME NEW l \in c + 1..(j + 1) - 1, t[l] = "[" PROVE \E k \in 1..Len(s) : s[k] = "["
    <3>1. l - c \in 1..j - c /\ c + (l - c) = l
      BY <1>2
    <3>2. s[l - c] = "["
      BY <1>2, <2>2, <3>1
    <3>3. QED
      BY <1>2, <3>1, <3>2
  <2>3. QED
    BY <2>1, <2>2
<1>6. (j + 1) - 1 = j
  OBVIOUS
<1>7. CASE j > c
  BY <1>1, <1>3, <1>4, <1>5, <1>6, <1>7 DEF Wellformed, FineAt
<1>8. CASE ~(j > c)
  BY <1>1, <1>3, <1>8 DEF Wellformed, FineAt
<1>9. QED
  BY <1>7, <1>8
-----------------------------------------------------------------------------
(* The parser's loop, after the first j characters of a text.              *)

Written(segs, cur) == IF segs = <<>> THEN cur ELSE Addr!Display(segs) \o <<".">> \o cur

\* The last cut, and what has been read since.
Since(t, j, cur, segs, c) ==
    /\ c \in CutsOf(t) /\ c <= j /\ \A k \in CutsOf(t) : ~(c < k /\ k <= j)
    /\ cur = SubSeq(t, c + 1, j)
    /\ c = 0 <=> segs = <<>>

Scan(t, j, d, cur, segs) ==
    /\ d = DepthOf(t, j) /\ d >= 0 /\ \A k \in 1..j : DepthOf(t, k) >= 0
    /\ \A m, n : Adjacent(t, m, n) /\ n <= j => FineAt(t, m, n)
    /\ \E c \in Nat : Since(t, j, cur, segs, c)
    /\ SubSeq(t, 1, j) = Written(segs, cur)

LEMMA CutsFacts ==
    ASSUME NEW t \in Seq(Chars)
    PROVE  /\ CutsOf(t) \subseteq 0..Len(t) + 1 /\ 0 \in CutsOf(t) /\ Len(t) + 1 \in CutsOf(t) /\ Len(t) \in Nat
           /\ \A k \in 1..Len(t) : k \in CutsOf(t) <=> t[k] = "." /\ DepthOf(t, k) = 0
<1>1. Len(t) \in Nat
  OBVIOUS
<1>2. QED
  BY <1>1 DEF CutsOf

LEMMA ScanStart ==
    ASSUME NEW t \in Seq(Chars)
    PROVE  Scan(t, 0, 0, <<>>, <<>>)
<1>1. DepthOf(t, 0) = 0
  BY DepthStep
<1>2. CutsOf(t) \subseteq 0..Len(t) + 1 /\ 0 \in CutsOf(t)
  BY CutsFacts
<1>3. SubSeq(t, 1, 0) = <<>>
  BY SubSeqEmpty
<1>4. Since(t, 0, <<>>, <<>>, 0)
  BY <1>2, <1>3 DEF Since
<1>5. ASSUME NEW m, NEW n, Adjacent(t, m, n), n <= 0 PROVE FALSE
  BY <1>2, <1>5 DEF Adjacent
<1>6. QED
  BY <1>1, <1>3, <1>4, <1>5 DEF Scan, Written

\* A character that ends no segment.
LEMMA ScanPush ==
    ASSUME NEW t \in Seq(Chars), NEW j \in Nat, j < Len(t), NEW d, NEW cur \in Seq(Chars), NEW segs \in Seq(Segments),
           Scan(t, j, d, cur, segs), NEW e, e = DepthOf(t, j + 1), e >= 0, j + 1 \notin CutsOf(t)
    PROVE  Scan(t, j + 1, e, Append(cur, t[j + 1]), segs)
<1>1. PICK c \in Nat : Since(t, j, cur, segs, c)
  BY DEF Scan
<1>2. CutsOf(t) \subseteq 0..Len(t) + 1 /\ Len(t) \in Nat
  BY CutsFacts
<1>3. PICK x \in Chars : x = t[j + 1]
  OBVIOUS
<1>4. PICK w \in Seq(Chars) : w = Append(cur, x)
  BY AppendProperties
<1>5. Since(t, j + 1, w, segs, c)
  <2>1. c <= j + 1 /\ \A k \in CutsOf(t) : ~(c < k /\ k <= j + 1)
    BY <1>1, <1>2 DEF Since
  <2>2. w = SubSeq(t, c + 1, j + 1)
    <3>1. c + 1 \in 1..Len(t) + 1 /\ (c + 1) - 1 <= j
      BY <1>1, <1>2 DEF Since
    <3>2. SubSeq(t, c + 1, j + 1) = Append(SubSeq(t, c + 1, j), t[j + 1])
      BY <3>1, SliceAppend, ZenonT(60)
    <3>3. QED
      BY <1>1, <1>3, <1>4, <3>2 DEF Since
  <2>3. QED
    BY <1>1, <2>1, <2>2 DEF Since
<1>6. ASSUME NEW m, NEW n, Adjacent(t, m, n), n <= j + 1 PROVE FineAt(t, m, n)
  <2>1. n \in CutsOf(t) /\ n # j + 1
    BY <1>6 DEF Adjacent
  <2>2. n <= j
    BY <1>2, <1>6, <2>1
  <2>3. QED
    BY <1>6, <2>2 DEF Scan
<1>7. SubSeq(t, 1, j + 1) = Written(segs, w)
  <2>1. 1 \in 1..Len(t) + 1 /\ 1 - 1 <= j
    OBVIOUS
  <2>2. SubSeq(t, 1, j) \in Seq(Chars) /\ SubSeq(t, 1, j + 1) = Append(SubSeq(t, 1, j), x)
    BY <1>3, <2>1, SliceAppend
  <2>3. CASE segs = <<>>
    BY <1>4, <2>2, <2>3 DEF Scan, Written
  <2>4. CASE segs # <<>>
    <3>1. PICK h \in Seq(Chars) : h = Addr!Display(segs) \o <<".">>
      <4>1. PICK s \in Segments : TRUE
        BY <2>4
      <4>2. Addr!Display(segs) \in Seq(Chars) /\ <<".">> \in Seq(Chars)
        BY <4>1, DisplayAppend, Marks, OneTyped
      <4>3. QED
        BY <4>2, ConcatProperties
    <3>2. <<x>> \in Seq(Chars) /\ h \o cur \in Seq(Chars)
      BY OneTyped, ConcatProperties
    <3>3. Append(h \o cur, x) = (h \o cur) \o <<x>> /\ w = cur \o <<x>>
      BY <1>4, <3>2, AppendIsConcat
    <3>4. (h \o cur) \o <<x>> = h \o (cur \o <<x>>)
      BY <3>2, ConcatAssociative, SMTT(40)
    <3>5. SubSeq(t, 1, j) = h \o cur
      BY <2>4, <3>1 DEF Scan, Written
    <3>6. QED
      BY <2>2, <2>4, <3>1, <3>3, <3>4, <3>5 DEF Written
  <2>5. QED
    BY <2>3, <2>4
<1>8. \A k \in 1..j + 1 : DepthOf(t, k) >= 0
  BY DEF Scan
<1>9. QED
  BY <1>3, <1>4, <1>5, <1>6, <1>7, <1>8 DEF Scan

\* The cut that comes next, with the last one.
LEMMA NextCut ==
    ASSUME NEW t \in Seq(Chars), NEW j \in Nat, j <= Len(t), j + 1 \in CutsOf(t), NEW cur \in Seq(Chars), NEW segs,
           NEW c \in Nat, Since(t, j, cur, segs, c)
    PROVE  /\ Adjacent(t, c, j + 1)
           /\ Wellformed(cur) <=> FineAt(t, c, j + 1)
           /\ \A m : Adjacent(t, m, j + 1) => m = c
<1>1. CutsOf(t) \subseteq 0..Len(t) + 1 /\ Len(t) \in Nat
  BY CutsFacts
<1>2. c \in CutsOf(t) /\ c <= j /\ (\A k \in CutsOf(t) : ~(c < k /\ k <= j)) /\ cur = SubSeq(t, c + 1, j)
  BY DEF Since
<1>3. Adjacent(t, c, j + 1)
  BY <1>1, <1>2 DEF Adjacent
<1>4. Wellformed(cur) <=> FineAt(t, c, j + 1)
  BY <1>2, FineIs
<1>5. ASSUME NEW m, Adjacent(t, m, j + 1) PROVE m = c
  <2>1. m \in CutsOf(t) /\ m < j + 1 /\ \A k \in CutsOf(t) : ~(m < k /\ k < j + 1)
    BY <1>5 DEF Adjacent
  <2>2. m \in Nat /\ m <= j
    BY <1>1, <2>1
  <2>3. ~(c < m) /\ ~(m < c)
    BY <1>2, <2>1, <2>2
  <2>4. QED
    BY <2>2, <2>3
<1>6. QED
  BY <1>3, <1>4, <1>5

\* A dot outside of brackets ends a segment.
LEMMA ScanDot ==
    ASSUME NEW t \in Seq(Chars), NEW j \in Nat, j < Len(t), NEW cur \in Seq(Chars), NEW segs \in Seq(Segments),
           NoKey \notin Seq(Chars), Scan(t, j, 0, cur, segs), t[j + 1] = ".",
           NEW s, s = Addr!ParseSegment(cur), Addr!Ok(s)
    PROVE  Scan(t, j + 1, 0, <<>>, Append(segs, s))
<1>1. PICK c \in Nat : Since(t, j, cur, segs, c)
  BY DEF Scan
<1>2. CutsOf(t) \subseteq 0..Len(t) + 1 /\ Len(t) \in Nat
  BY CutsFacts
<1>3. Wellformed(cur) /\ s \in Segments /\ Addr!Show(s) = cur
  BY ParseSegmentIs
<1>4. DepthOf(t, j + 1) = 0
  BY DepthStep DEF Scan
<1>5. j + 1 \in CutsOf(t)
  <2>1. j + 1 \in 1..Len(t)
    BY <1>2
  <2>2. QED
    BY <1>4, <2>1 DEF CutsOf
<1>6. FineAt(t, c, j + 1) /\ \A m : Adjacent(t, m, j + 1) => m = c
  BY <1>1, <1>3, <1>5, NextCut
<1>7. ASSUME NEW m, NEW n, Adjacent(t, m, n), n <= j + 1 PROVE FineAt(t, m, n)
  <2>1. CASE n = j + 1
    BY <1>6, <1>7, <2>1
  <2>2. CASE n # j + 1
    <3>1. n <= j
      BY <1>2, <1>7, <2>2 DEF Adjacent
    <3>2. QED
      BY <1>7, <3>1 DEF Scan
  <2>3. QED
    BY <2>1, <2>2
<1>8. PICK after \in Seq(Segments) : after = Append(segs, s)
  BY <1>3, AppendProperties
<1>9. after # <<>>
  BY <1>3, <1>8, AppendProperties
<1>10. Since(t, j + 1, <<>>, after, j + 1)
  <2>1. <<>> = SubSeq(t, (j + 1) + 1, j + 1)
    BY SubSeqEmpty
  <2>2. \A k \in CutsOf(t) : ~(j + 1 < k /\ k <= j + 1)
    BY <1>2
  <2>3. QED
    BY <1>5, <1>9, <2>1, <2>2 DEF Since
<1>11. SubSeq(t, 1, j + 1) = Written(after, <<>>)
  <2>1. SubSeq(t, 1, j) \in Seq(Chars) /\ SubSeq(t, 1, j + 1) = Append(SubSeq(t, 1, j), ".")
    <3>1. 1 \in 1..Len(t) + 1 /\ 1 - 1 <= j
      OBVIOUS
    <3>2. QED
      BY <3>1, SliceAppend
  <2>2. SubSeq(t, 1, j) = Addr!Display(after)
    BY <1>3, <1>8, DisplayAppend DEF Scan, Written
  <2>3. Append(SubSeq(t, 1, j), ".") = SubSeq(t, 1, j) \o <<".">> /\ SubSeq(t, 1, j) \o <<".">> \in Seq(Chars)
    BY <2>1, Marks, OneTyped, AppendIsConcat, ConcatProperties
  <2>4. (SubSeq(t, 1, j) \o <<".">>) \o <<>> = SubSeq(t, 1, j) \o <<".">>
    BY <2>3, ConcatEmptySeq
  <2>5. QED
    BY <1>9, <2>1, <2>2, <2>3, <2>4 DEF Written
<1>12. \A k \in 1..j + 1 : DepthOf(t, k) >= 0
  BY <1>4 DEF Scan
<1>13. Scan(t, j + 1, 0, <<>>, after)
  BY <1>4, <1>7, <1>10, <1>11, <1>12 DEF Scan
<1>14. QED
  BY <1>8, <1>13

\* What is no segment is no part of an address.
LEMMA NoSegment ==
    ASSUME NEW t \in Seq(Chars), NEW j \in Nat, j <= Len(t), NEW cur \in Seq(Chars), NEW segs, NEW d,
           NoKey \notin Seq(Chars), Scan(t, j, d, cur, segs), j + 1 \in CutsOf(t),
           ~Addr!Ok(Addr!ParseSegment(cur))
    PROVE  ~GrammarOf(t)
<1>1. PICK c \in Nat : Since(t, j, cur, segs, c)
  BY DEF Scan
<1>2. Adjacent(t, c, j + 1) /\ (Wellformed(cur) <=> FineAt(t, c, j + 1))
  BY <1>1, NextCut
<1>3. ~FineAt(t, c, j + 1)
  BY <1>2, ParseSegmentIs
<1>4. QED
  BY <1>2, <1>3 DEF GrammarOf

\* A text without marks is all one name.
Unmarked(t) == \A k \in 1..Len(t) : t[k] \notin {".", "[", "]"}

LEMMA UnmarkedFacts ==
    ASSUME NEW t \in Seq(Chars), Unmarked(t), t # <<>>
    PROVE  GrammarOf(t) /\ CutsOf(t) = {0, Len(t) + 1} /\ Wellformed(t)
<1>1. Len(t) \in Nat \ {0}
  BY EmptySeq
<1>2. \A k \in 1..Len(t) : t[k] \notin {".", "[", "]"}
  BY DEF Unmarked
<1>3. CutsOf(t) = {0, Len(t) + 1}
  BY <1>2 DEF CutsOf
<1>4. \A n \in 0..Len(t) : DepthOf(t, n) = 0
  <2> DEFINE A == {n \in Nat : n <= Len(t) => DepthOf(t, n) = 0}
  <2>1. 0 \in A
    BY DepthStep
  <2>2. ASSUME NEW n \in Nat, n \in A PROVE n + 1 \in A
    <3> SUFFICES ASSUME n + 1 <= Len(t) PROVE DepthOf(t, n + 1) = 0
      OBVIOUS
    <3>1. DepthOf(t, n) = 0 /\ n + 1 \in 1..Len(t)
      BY <1>1, <2>2
    <3>2. t[n + 1] \notin {"[", "]"}
      BY <1>2, <3>1
    <3>3. QED
      BY <3>1, <3>2, DepthStep
  <2>3. Nat \subseteq A
    <3> HIDE DEF A
    <3> QED
      BY <2>1, <2>2, SetInduction
  <2>4. QED
    BY <1>1, <2>3
<1>5. Wellformed(t)
  BY <1>1, <1>2 DEF Wellformed
<1>6. FineAt(t, 0, Len(t) + 1)
  <2>1. SubSeq(t, 0 + 1, Len(t)) = t
    BY SubSeqFull
  <2>2. 0 <= Len(t) /\ Len(t) <= Len(t)
    BY <1>1
  <2>3. QED
    BY <1>1, <1>5, <2>1, <2>2, FineIs
<1>7. ASSUME NEW m, NEW n, Adjacent(t, m, n) PROVE FineAt(t, m, n)
  <2>1. m = 0 /\ n = Len(t) + 1
    BY <1>1, <1>3, <1>7 DEF Adjacent
  <2>2. QED
    BY <1>6, <2>1
<1>8. QED
  BY <1>1, <1>3, <1>4, <1>5, <1>7 DEF GrammarOf

LEMMA NoOpenNoClose ==
    ASSUME NEW t \in Seq(Chars), \A k \in 1..Len(t) : t[k] # "[", \A k \in 1..Len(t) : DepthOf(t, k) >= 0
    PROVE  \A k \in 1..Len(t) : t[k] # "]" /\ DepthOf(t, k) = 0
<1>1. Len(t) \in Nat
  OBVIOUS
<1> DEFINE A == {n \in Nat : n <= Len(t) => DepthOf(t, n) = 0 /\ \A k \in 1..n : t[k] # "]" /\ DepthOf(t, k) = 0}
<1>2. 0 \in A
  BY DepthStep
<1>3. ASSUME NEW n \in Nat, n \in A PROVE n + 1 \in A
  <2> SUFFICES ASSUME n + 1 <= Len(t)
               PROVE  DepthOf(t, n + 1) = 0 /\ \A k \in 1..n + 1 : t[k] # "]" /\ DepthOf(t, k) = 0
    OBVIOUS
  <2>1. DepthOf(t, n) = 0 /\ n + 1 \in 1..Len(t) /\ \A k \in 1..n : t[k] # "]" /\ DepthOf(t, k) = 0
    BY <1>1, <1>3
  <2>2. t[n + 1] # "[" /\ DepthOf(t, n + 1) >= 0
    BY <2>1
  <2>3. t[n + 1] # "]" /\ DepthOf(t, n + 1) = 0
    <3>1. DepthOf(t, n + 1) = IF t[n + 1] = "]" THEN DepthOf(t, n) - 1 ELSE DepthOf(t, n)
      BY <2>2, DepthStep
    <3>2. QED
      BY <2>1, <2>2, <3>1
  <2>4. QED
    BY <2>1, <2>3
<1>4. Nat \subseteq A
  <2> HIDE DEF A
  <2> QED
    BY <1>2, <1>3, SetInduction
<1>5. QED
  BY <1>1, <1>4

\* What the whole of the loop has read, with the last segment.
LEMMA ScanEnds ==
    ASSUME NEW t \in Seq(Chars), t # <<>>, NEW cur \in Seq(Chars), NEW segs \in Seq(Segments),
           NoKey \notin Seq(Chars), Scan(t, Len(t), 0, cur, segs),
           NEW s, s = Addr!ParseSegment(cur), Addr!Ok(s)
    PROVE  /\ GrammarOf(t) /\ Append(segs, s) \in Seq(Segments) /\ Append(segs, s) # <<>>
           /\ Addr!Display(Append(segs, s)) = t
           /\ Append(segs, s) = Addr!Flat(t) <=> Unmarked(t)
<1>1. PICK c \in Nat : Since(t, Len(t), cur, segs, c)
  BY DEF Scan
<1>2. CutsOf(t) \subseteq 0..Len(t) + 1 /\ Len(t) + 1 \in CutsOf(t) /\ Len(t) \in Nat
  BY CutsFacts
<1>3. /\ Wellformed(cur) /\ s \in Segments /\ Addr!Show(s) = cur
      /\ s.key = NoKey => (\A k \in 1..Len(cur) : cur[k] # "[") /\ s = Addr!Segment(cur, NoKey)
      /\ s.key # NoKey => \E p \in 2..Len(cur) - 1 : cur[p] = "["
  <2>1. Addr!Ok(Addr!ParseSegment(cur))
    OBVIOUS
  <2>2. QED
    BY <2>1, ParseSegmentIs
<1>4. FineAt(t, c, Len(t) + 1) /\ \A m : Adjacent(t, m, Len(t) + 1) => m = c
  BY <1>1, <1>2, <1>3, NextCut, SMTT(40)
<1>5. ASSUME NEW m, NEW n, Adjacent(t, m, n) PROVE FineAt(t, m, n)
  <2>1. CASE n = Len(t) + 1
    BY <1>4, <1>5, <2>1
  <2>2. CASE n # Len(t) + 1
    <3>1. n <= Len(t)
      BY <1>2, <1>5, <2>2 DEF Adjacent
    <3>2. QED
      BY <1>5, <3>1 DEF Scan
  <2>3. QED
    BY <2>1, <2>2
<1>6. GrammarOf(t)
  BY <1>5 DEF GrammarOf, Scan
<1>7. Append(segs, s) \in Seq(Segments) /\ Append(segs, s) # <<>> /\ Len(Append(segs, s)) = Len(segs) + 1
      /\ Append(segs, s)[Len(segs) + 1] = s
  BY <1>3, AppendProperties
<1>8. Addr!Display(Append(segs, s)) = t
  <2>1. SubSeq(t, 1, Len(t)) = t
    BY SubSeqFull
  <2>2. Addr!Display(Append(segs, s)) = Written(segs, cur)
    BY <1>3, DisplayAppend DEF Written
  <2>3. QED
    BY <2>1, <2>2 DEF Scan
<1>9. ASSUME segs = <<>> PROVE c = 0 /\ cur = t
  <2>1. c = 0 /\ cur = SubSeq(t, 0 + 1, Len(t))
    BY <1>1, <1>9 DEF Since
  <2>2. QED
    BY <2>1, SubSeqFull
<1>10. ASSUME Unmarked(t) PROVE Append(segs, s) = Addr!Flat(t)
  <2>1. CutsOf(t) = {0, Len(t) + 1}
    BY <1>10, UnmarkedFacts
  <2>2. segs = <<>>
    BY <1>1, <1>2, <2>1 DEF Since
  <2>3. cur = t
    BY <1>9, <2>2
  <2>4. s.key = NoKey
    BY <1>3, <1>10, <2>3 DEF Unmarked
  <2>5. s = Addr!Segment(t, NoKey)
    BY <1>3, <2>3, <2>4
  <2>6. QED
    BY <2>2, <2>5 DEF Addr!Flat
<1>11. ASSUME Append(segs, s) = Addr!Flat(t) PROVE Unmarked(t)
  <2>1. Len(Append(segs, s)) = 1 /\ Append(segs, s)[1] = Addr!Segment(t, NoKey)
    BY <1>11 DEF Addr!Flat
  <2>2. Len(segs) = 0 /\ segs = <<>>
    BY <1>7, <2>1, EmptySeq
  <2>3. s = Addr!Segment(t, NoKey)
    BY <1>7, <2>1, <2>2
  <2>4. s.key = NoKey
    BY <2>3 DEF Addr!Segment
  <2>5. c = 0 /\ cur = t
    BY <1>9, <2>2
  <2>6. \A k \in 1..Len(t) : t[k] # "["
    BY <1>3, <2>4, <2>5
  <2>7. \A k \in 1..Len(t) : t[k] # "]" /\ DepthOf(t, k) = 0
    BY <2>6, NoOpenNoClose DEF Scan
  <2>8. ASSUME NEW k \in 1..Len(t), t[k] = "." PROVE FALSE
    <3>1. k \in CutsOf(t)
      BY <2>7, <2>8 DEF CutsOf
    <3>2. QED
      BY <1>1, <2>5, <3>1 DEF Since
  <2>9. QED
    BY <2>6, <2>7, <2>8 DEF Unmarked
<1>12. QED
  BY <1>6, <1>7, <1>8, <1>10, <1>11
-----------------------------------------------------------------------------
(* The parser.                                                             *)

\* What a result says of its text.
Faithful(t, r) ==
    /\ Addr!Ok(r) <=> GrammarOf(t)
    /\ Addr!Ok(r) => r.address \in Seq(Segments) /\ r.address # <<>> /\ Addr!Display(r.address) = t
    /\ t # <<>> => ((Addr!Ok(r) /\ r.address = Addr!Flat(t)) <=> Unmarked(t))

WInv ==
    /\ text \in Seq(Chars) /\ i \in 1..Len(text) + 1
    /\ current \in Seq(Chars) /\ segments \in Seq(Segments)
    /\ depth \in -1..Len(text) /\ (depth < 0 => parsed = Addr!Error("Unbalanced"))
    /\ Len(current) < i /\ Len(segments) < i
    /\ \A n \in DOMAIN segments : segments[n].name # <<>>
    /\ parsed = NoKey => Scan(text, i - 1, depth, current, segments)
    /\ parsed # NoKey => Faithful(text, parsed)

LEMMA Failed ==
    ASSUME Addr!AddressesAssumption, NEW t \in Seq(Chars), NEW r \in [error : Addr!Errors], ~GrammarOf(t)
    PROVE  r # NoKey /\ Faithful(t, r)
<1>1. r # NoKey
  BY DEF Addr!AddressesAssumption, Addr!Results
<1>2. ~Addr!Ok(r)
  BY DEF Addr!Ok
<1>3. t # <<>> => ~Unmarked(t)
  BY UnmarkedFacts
<1>4. QED
  BY <1>1, <1>2, <1>3 DEF Faithful

LEMMA Succeeded ==
    ASSUME Addr!AddressesAssumption, NEW t \in Seq(Chars), NEW a \in Seq(Segments), a # <<>>, t # <<>>,
           GrammarOf(t), Addr!Display(a) = t, a = Addr!Flat(t) <=> Unmarked(t)
    PROVE  [address |-> a] # NoKey /\ Faithful(t, [address |-> a])
<1>1. PICK r : r = [address |-> a]
  OBVIOUS
<1>2. r.address = a /\ DOMAIN r = {"address"}
  BY <1>1
<1>3. r \in Addr!Results
  BY <1>1 DEF Addr!Results, Segments
<1>4. r # NoKey
  BY <1>3 DEF Addr!AddressesAssumption
<1>5. Addr!Ok(r)
  BY <1>2 DEF Addr!Ok
<1>6. QED
  BY <1>1, <1>2, <1>4, <1>5 DEF Faithful

LEMMA NoKeyIs == ASSUME Addr!AddressesAssumption PROVE NoKey \notin Seq(Chars)
BY DEF Addr!AddressesAssumption, Chars

LEMMA InitW == ASSUME Addr!AddressesAssumption, Addr!Init PROVE WInv
<1>1. text \in Seq(Chars)
  <2>1. text \in Addr!SeqOf(Chars, MaxLen)
    BY DEF Addr!Init, Chars
  <2>2. PICK m \in Nat : text \in [1..m -> Chars]
    <3>1. MaxLen \in Nat
      BY DEF Addr!AddressesAssumption
    <3>2. QED
      BY <2>1, <3>1 DEF Addr!SeqOf
  <2>3. QED
    BY <2>2
<1>2. i = 1 /\ depth = 0 /\ current = <<>> /\ segments = <<>> /\ parsed = NoKey
  BY DEF Addr!Init
<1>3. Scan(text, 0, 0, <<>>, <<>>)
  BY <1>1, ScanStart
<1>4. Len(text) \in Nat /\ Len(<<>>) = 0 /\ <<>> \in Seq(Chars) /\ <<>> \in Seq(Segments)
  BY <1>1, EmptySeq
<1>5. QED
  BY <1>1, <1>2, <1>3, <1>4 DEF WInv

\* The character that is read.
LEMMA ReadingFacts ==
    ASSUME WInv, Addr!Reading
    PROVE  /\ parsed = NoKey /\ i - 1 \in Nat /\ i - 1 < Len(text) /\ (i - 1) + 1 = i /\ Len(text) \in Nat
           /\ i \in 1..Len(text) /\ text[i] \in Chars /\ depth \in 0..Len(text)
           /\ Scan(text, i - 1, depth, current, segments)
           /\ depth = DepthOf(text, i - 1)
           /\ DepthOf(text, i) = IF text[i] = "[" THEN depth + 1 ELSE IF text[i] = "]" THEN depth - 1 ELSE depth
           /\ DepthOf(text, i) \in -1..Len(text)
<1>1. parsed = NoKey /\ i <= Len(text) /\ Len(text) \in Nat /\ i \in 1..Len(text) + 1 /\ text \in Seq(Chars)
  BY DEF Addr!Reading, WInv
<1>2. i - 1 \in Nat /\ i - 1 < Len(text) /\ (i - 1) + 1 = i /\ i \in 1..Len(text) /\ text[i] \in Chars
  BY <1>1
<1>3. Scan(text, i - 1, depth, current, segments)
  BY <1>1 DEF WInv
<1>4. depth = DepthOf(text, i - 1) /\ depth >= 0
  BY <1>3 DEF Scan
<1>5. DepthOf(text, i) = IF text[i] = "[" THEN depth + 1 ELSE IF text[i] = "]" THEN depth - 1 ELSE depth
  BY <1>2, <1>4, DepthStep
<1>6. DepthOf(text, i) \in -i..i /\ depth \in -(i - 1)..i - 1
  BY <1>2, <1>4, DepthStep
<1>7. QED
  BY <1>1, <1>2, <1>3, <1>4, <1>5, <1>6

\* A character joins the segment.
LEMMA Pushes ==
    ASSUME Addr!AddressesAssumption, WInv, Addr!Reading, i \notin CutsOf(text), DepthOf(text, i) >= 0,
           depth' = DepthOf(text, i), current' = Append(current, text[i]), i' = i + 1,
           UNCHANGED <<text, segments, parsed>>
    PROVE  WInv'
<1>1. Scan(text, i, depth', Append(current, text[i]), segments)
  BY ReadingFacts, ScanPush DEF WInv
<1>2. current' \in Seq(Chars) /\ Len(current') = Len(current) + 1
  BY ReadingFacts, AppendProperties DEF WInv
<1>3. i' - 1 = i /\ i' \in 1..Len(text) + 1 /\ Len(current) \in Nat /\ Len(segments) \in Nat
  BY ReadingFacts DEF WInv
<1>4. depth' \in -1..Len(text) /\ ~(depth' < 0)
  BY ReadingFacts
<1>5. QED
  BY <1>1, <1>2, <1>3, <1>4, ReadingFacts DEF WInv

LEMMA NoCut ==
    ASSUME WInv, Addr!Reading, text[i] = "." => depth # 0
    PROVE  i \notin CutsOf(text)
BY ReadingFacts DEF CutsOf

LEMMA OpenW == ASSUME Addr!AddressesAssumption, WInv, Addr!Open PROVE WInv'
<1>1. /\ Addr!Reading /\ text[i] = "[" /\ depth' = depth + 1
      /\ current' = Append(current, text[i]) /\ i' = i + 1 /\ UNCHANGED <<text, segments, parsed>>
  BY DEF Addr!Open, Addr!Push, Addr!Next1
<1>2. depth' = DepthOf(text, i) /\ DepthOf(text, i) >= 0
  BY <1>1, ReadingFacts
<1>3. i \notin CutsOf(text)
  BY <1>1, NoCut
<1>4. QED
  BY <1>1, <1>2, <1>3, Pushes

LEMMA OtherW == ASSUME Addr!AddressesAssumption, WInv, Addr!Other PROVE WInv'
<1>1. /\ Addr!Reading /\ text[i] \notin {"[", "]"} /\ (text[i] = "." => depth # 0) /\ depth' = depth
      /\ current' = Append(current, text[i]) /\ i' = i + 1 /\ UNCHANGED <<text, segments, parsed>>
  BY DEF Addr!Other, Addr!Push, Addr!Next1
<1>2. depth' = DepthOf(text, i) /\ DepthOf(text, i) >= 0
  BY <1>1, ReadingFacts, SMTT(40)
<1>3. i \notin CutsOf(text)
  BY <1>1, NoCut
<1>4. QED
  BY <1>1, <1>2, <1>3, Pushes

LEMMA CloseW == ASSUME Addr!AddressesAssumption, WInv, Addr!Close PROVE WInv'
<1>1. /\ Addr!Reading /\ text[i] = "]" /\ depth' = depth - 1 /\ i' = i + 1 /\ UNCHANGED <<text, segments>>
  BY DEF Addr!Close, Addr!Next1
<1>2. depth' = DepthOf(text, i)
  BY <1>1, ReadingFacts
<1>3. CASE ~(depth' < 0)
  <2>1. current' = Append(current, text[i]) /\ parsed' = parsed
    BY <1>3 DEF Addr!Close, Addr!Push
  <2>2. DepthOf(text, i) >= 0
    BY <1>2, <1>3, ReadingFacts, <1>1
  <2>3. i \notin CutsOf(text)
    BY <1>1, NoCut
  <2>4. QED
    BY <1>1, <1>2, <2>1, <2>2, <2>3, Pushes
<1>4. CASE depth' < 0
  <2>1. parsed' = Addr!Error("Unbalanced") /\ current' = current
    BY <1>4 DEF Addr!Close
  <2>2. ~GrammarOf(text)
    <3>1. i \in 1..Len(text) /\ ~(DepthOf(text, i) >= 0)
      BY <1>1, <1>2, <1>4, ReadingFacts
    <3>2. QED
      BY <3>1 DEF GrammarOf
  <2>3. parsed' \in [error : Addr!Errors]
    BY <2>1 DEF Addr!Error, Addr!Errors
  <2>4. parsed' # NoKey /\ Faithful(text, parsed')
    BY <2>2, <2>3, Failed DEF WInv
  <2>5. depth' \in -1..Len(text) /\ i' \in 1..Len(text) + 1
    BY <1>1, <1>2, ReadingFacts, SMTT(40)
  <2>6. Len(current) < i' /\ Len(segments) < i'
    BY <1>1 DEF WInv
  <2>7. QED
    BY <1>1, <2>1, <2>4, <2>5, <2>6 DEF WInv
<1>5. QED
  BY <1>3, <1>4

LEMMA DotW == ASSUME Addr!AddressesAssumption, WInv, Addr!Dot PROVE WInv'
<1>1. /\ Addr!Reading /\ text[i] = "." /\ depth = 0 /\ i' = i + 1 /\ UNCHANGED <<text, depth>>
  BY DEF Addr!Dot, Addr!Next1
<1>2. PICK s : s = Addr!ParseSegment(current)
  OBVIOUS
<1>3. Scan(text, i - 1, 0, current, segments)
  BY <1>1, ReadingFacts
<1>4. i' - 1 = i /\ i' \in 1..Len(text) + 1 /\ 0 \in -1..Len(text) /\ ~(0 < 0)
  BY <1>1, ReadingFacts
<1>5. /\ text \in Seq(Chars) /\ current \in Seq(Chars) /\ segments \in Seq(Segments)
      /\ Len(current) \in Nat /\ Len(segments) \in Nat /\ Len(current) < i /\ Len(segments) < i
      /\ \A n \in DOMAIN segments : segments[n].name # <<>>
  BY DEF WInv
<1>6. CASE Addr!Ok(s)
  <2>1. segments' = Append(segments, s) /\ current' = <<>> /\ parsed' = parsed
    BY <1>2, <1>6 DEF Addr!Dot
  <2>2. Scan(text, i, 0, <<>>, Append(segments, s))
    BY <1>1, <1>2, <1>3, <1>5, <1>6, ReadingFacts, NoKeyIs, ScanDot
  <2>3. s \in Segments /\ s.name # <<>>
    BY <1>2, <1>5, <1>6, NoKeyIs, ParseSegmentIs
  <2>4. PICK after : after = Append(segments, s)
    OBVIOUS
  <2>5. /\ after \in Seq(Segments) /\ Len(after) = Len(segments) + 1 /\ after[Len(segments) + 1] = s
        /\ \A n \in 1..Len(segments) : after[n] = segments[n]
    BY <1>5, <2>3, <2>4, AppendProperties
  <2>6. \A n \in DOMAIN after : after[n].name # <<>>
    <3> SUFFICES ASSUME NEW n \in 1..Len(segments) + 1 PROVE after[n].name # <<>>
      BY <2>5
    <3>1. CASE n = Len(segments) + 1
      BY <2>3, <2>5, <3>1
    <3>2. CASE n # Len(segments) + 1
      BY <1>5, <2>5, <3>2
    <3>3. QED
      BY <3>1, <3>2
  <2>7. <<>> \in Seq(Chars) /\ Len(<<>>) = 0
    BY EmptySeq
  <2>8. Len(current') < i' /\ Len(after) < i'
    BY <1>1, <1>5, <2>1, <2>5, <2>7, ReadingFacts
  <2>9. QED
    BY <1>1, <1>4, <1>5, <2>1, <2>2, <2>4, <2>5, <2>6, <2>7, <2>8, ReadingFacts DEF WInv
<1>7. CASE ~Addr!Ok(s)
  <2>1. parsed' = s /\ UNCHANGED <<segments, current>>
    BY <1>2, <1>7 DEF Addr!Dot
  <2>2. i \in CutsOf(text)
    BY <1>1, ReadingFacts DEF CutsOf
  <2>3. ~GrammarOf(text)
    BY <1>2, <1>3, <1>5, <1>7, <2>2, ReadingFacts, NoKeyIs, NoSegment, <1>1
  <2>4. s \in [error : Addr!Errors]
    BY <1>2, <1>5, <1>7, NoKeyIs, ParseSegmentIs
  <2>5. parsed' # NoKey /\ Faithful(text, parsed')
    BY <1>5, <2>1, <2>3, <2>4, Failed
  <2>6. Len(current) < i' /\ Len(segments) < i'
    BY <1>1, <1>5, ReadingFacts
  <2>7. QED
    BY <1>1, <1>4, <1>5, <2>1, <2>5, <2>6 DEF WInv
<1>8. QED
  BY <1>6, <1>7

LEMMA FinishW == ASSUME Addr!AddressesAssumption, WInv, Addr!Finish PROVE WInv'
<1>1. parsed = NoKey /\ i > Len(text) /\ UNCHANGED <<text, i, depth, current, segments>>
  BY DEF Addr!Finish
<1>2. PICK s : s = Addr!ParseSegment(current)
  OBVIOUS
<1>3. parsed' = IF text = <<>> THEN Addr!Error("Empty")
                ELSE IF depth # 0 THEN Addr!Error("Unbalanced")
                ELSE IF Addr!Ok(s) THEN [address |-> Append(segments, s)] ELSE s
  BY <1>2 DEF Addr!Finish
<1>4. /\ text \in Seq(Chars) /\ current \in Seq(Chars) /\ segments \in Seq(Segments) /\ Len(text) \in Nat
      /\ i - 1 = Len(text) /\ Scan(text, Len(text), depth, current, segments) /\ ~(depth < 0)
  <2>1. text \in Seq(Chars) /\ current \in Seq(Chars) /\ segments \in Seq(Segments) /\ Len(text) \in Nat
    BY DEF WInv
  <2>2. i - 1 = Len(text) /\ Scan(text, i - 1, depth, current, segments) /\ depth \in -1..Len(text)
    BY <1>1, <2>1 DEF WInv
  <2>3. QED
    BY <2>1, <2>2 DEF Scan
<1>5. parsed' # NoKey /\ Faithful(text, parsed')
  <2>1. ASSUME NEW e \in Addr!Errors PROVE Addr!Error(e) \in [error : Addr!Errors]
    BY DEF Addr!Error
  <2>2. "Empty" \in Addr!Errors /\ "Unbalanced" \in Addr!Errors
    BY DEF Addr!Errors
  <2>3. CASE text = <<>>
    <3>1. ~GrammarOf(text)
      BY <2>3 DEF GrammarOf
    <3>2. QED
      BY <1>3, <1>4, <2>1, <2>2, <2>3, <3>1, Failed
  <2>4. CASE text # <<>> /\ depth # 0
    <3>1. ~GrammarOf(text)
      BY <1>4, <2>4 DEF GrammarOf, Scan
    <3>2. QED
      BY <1>3, <1>4, <2>1, <2>2, <2>4, <3>1, Failed
  <2>5. CASE text # <<>> /\ depth = 0 /\ Addr!Ok(s)
    <3>1. PICK a : a = Append(segments, s)
      OBVIOUS
    <3>2. GrammarOf(text) /\ a \in Seq(Segments) /\ a # <<>> /\ Addr!Display(a) = text /\ (a = Addr!Flat(text) <=> Unmarked(text))
      BY <1>2, <1>4, <2>5, <3>1, NoKeyIs, ScanEnds
    <3>3. parsed' = [address |-> a]
      BY <1>3, <2>5, <3>1
    <3>4. QED
      BY <1>4, <2>5, <3>2, <3>3, Succeeded
  <2>6. CASE text # <<>> /\ depth = 0 /\ ~Addr!Ok(s)
    <3>1. Len(text) + 1 \in CutsOf(text) /\ Len(text) <= Len(text)
      BY <1>4 DEF CutsOf
    <3>2. ~GrammarOf(text)
      BY <1>2, <1>4, <2>6, <3>1, NoKeyIs, NoSegment
    <3>3. s \in [error : Addr!Errors]
      BY <1>2, <1>4, <2>6, NoKeyIs, ParseSegmentIs
    <3>4. QED
      BY <1>3, <1>4, <2>6, <3>2, <3>3, Failed
  <2>7. QED
    BY <2>3, <2>4, <2>5, <2>6
<1>6. QED
  BY <1>1, <1>4, <1>5 DEF WInv

LEMMA NextW == ASSUME Addr!AddressesAssumption, WInv, [Addr!Next]_(Addr!vars) PROVE WInv'
<1>1. CASE Addr!Next
  BY <1>1, OpenW, CloseW, DotW, OtherW, FinishW DEF Addr!Next
<1>2. CASE UNCHANGED Addr!vars
  BY <1>2 DEF Addr!vars, WInv
<1>3. QED
  BY <1>1, <1>2

LEMMA AddressesW == ASSUME WInv PROVE AddressesAreRead
<1>1. text \in Seq(Chars) /\ DOMAIN text = 1..Len(text)
  BY DEF WInv
<1>2. Addr!TypeOK
  BY DEF WInv, Addr!TypeOK, Chars
<1>3. Addr!Grammatical <=> GrammarOf(text)
  BY <1>1, TextsGrammar
<1>4. Addr!ParsesTheGrammar
  BY <1>3 DEF WInv, Faithful, Addr!ParsesTheGrammar
<1>5. Addr!DisplayInverts
  BY DEF WInv, Faithful, Addr!DisplayInverts, Addr!Parsed, Addr!Found
<1>6. Addr!FlatSurvives
  BY <1>1 DEF WInv, Faithful, Addr!FlatSurvives, Addr!Found, Unmarked
<1>7. QED
  BY <1>2, <1>4, <1>5, <1>6 DEF AddressesAreRead

\* Of any text, however long, and over any characters: Address::parse takes it just
\* if it is an address, what it reads is written as it was, and a name survives
\* as a flat address just if it has no dot and no bracket (wire.rs:71-115, 192-230).
THEOREM ParserReads == ASSUME Addr!AddressesAssumption PROVE Addr!Spec => []AddressesAreRead
<1>1. Addr!Init => WInv
  BY InitW
<1>2. WInv /\ [Addr!Next]_(Addr!vars) => WInv'
  BY NextW
<1>3. WInv => AddressesAreRead
  BY AddressesW
<1>4. QED
  BY <1>1, <1>2, <1>3, PTL DEF Addr!Spec
-----------------------------------------------------------------------------
(* Folds.                                                                  *)

LEMMA GreatestExists ==
    ASSUME NEW N \in Nat, NEW T \in SUBSET (1..N), T # {}
    PROVE  Addr!Max(T) \in T /\ \A y \in T : y <= Addr!Max(T)
<1> DEFINE U == {m \in Nat : \A y \in T : y <= m}
<1>1. N \in U
  OBVIOUS
<1>2. PICK m \in U : \A l \in U : m <= l
  <2> HIDE DEF U
  <2>1. U \in SUBSET Nat
    BY DEF U
  <2>2. QED
    BY <1>1, <2>1, LeastExists
<1>3. m \in T
  <2> SUFFICES ASSUME m \notin T PROVE FALSE
    OBVIOUS
  <2>1. PICK y \in T : TRUE
    OBVIOUS
  <2>2. m - 1 \in Nat
    BY <1>2, <2>1
  <2>3. m - 1 \in U
    BY <1>2, <2>2
  <2>4. QED
    BY <1>2, <2>2, <2>3
<1>4. \A y \in T : y <= m
  BY <1>2
<1>5. Addr!Max(T) = m
  BY <1>3, <1>4, GreatestIs
<1>6. QED
  BY <1>3, <1>4, <1>5

\* The function a fold takes its value from: of every set of places, the last taken first.
Folding(h, f, base, n) ==
    \A T \in SUBSET (1..n) : h[T] = IF T = {} THEN base ELSE f[<<h[T \ {Addr!Max(T)}], Addr!Max(T)>>]

Folds(A, f, base, n) == \E h \in [SUBSET (1..n) -> A] : Folding(h, f, base, n)

LEMMA FoldExists ==
    ASSUME NEW A, NEW base \in A, NEW N \in Nat, NEW f \in [A \X (1..N) -> A]
    PROVE  \E h \in [SUBSET (1..N) -> A] : Folding(h, f, base, N)
<1> DEFINE B == {n \in Nat : n <= N => Folds(A, f, base, n)}
<1>1. 0 \in B
  <2>1. SUBSET (1..0) = {{}}
    OBVIOUS
  <2>2. PICK h : h = [T \in SUBSET (1..0) |-> base]
    OBVIOUS
  <2>3. h \in [SUBSET (1..0) -> A] /\ h[{}] = base
    BY <2>1, <2>2
  <2>4. Folding(h, f, base, 0)
    BY <2>1, <2>3 DEF Folding
  <2>5. Folds(A, f, base, 0)
    BY <2>3, <2>4 DEF Folds
  <2>6. QED
    BY <2>5
<1>2. ASSUME NEW n \in Nat, n \in B PROVE n + 1 \in B
  <2> SUFFICES ASSUME n + 1 <= N PROVE Folds(A, f, base, n + 1)
    OBVIOUS
  <2>1. PICK h \in [SUBSET (1..n) -> A] : Folding(h, f, base, n)
    <3>1. n <= N
      OBVIOUS
    <3>2. Folds(A, f, base, n)
      BY <1>2, <3>1
    <3>3. QED
      BY <3>2 DEF Folds
  <2>2. PICK g : g = [T \in SUBSET (1..n + 1) |-> IF n + 1 \in T THEN f[<<h[T \ {n + 1}], n + 1>>] ELSE h[T]]
    OBVIOUS
  <2>3. ASSUME NEW T \in SUBSET (1..n + 1)
        PROVE  /\ T \ {n + 1} \in SUBSET (1..n) /\ (n + 1 \notin T => T \in SUBSET (1..n))
               /\ g[T] = IF n + 1 \in T THEN f[<<h[T \ {n + 1}], n + 1>>] ELSE h[T]
               /\ g[T] \in A
    <3>1. T \ {n + 1} \in SUBSET (1..n) /\ (n + 1 \notin T => T \in SUBSET (1..n))
      OBVIOUS
    <3>2. g[T] = IF n + 1 \in T THEN f[<<h[T \ {n + 1}], n + 1>>] ELSE h[T]
      BY <2>2
    <3>3. h[T \ {n + 1}] \in A /\ n + 1 \in 1..N
      BY <3>1
    <3>4. f[<<h[T \ {n + 1}], n + 1>>] \in A
      BY <3>3
    <3>5. n + 1 \notin T => h[T] \in A
      BY <3>1
    <3>6. QED
      BY <3>1, <3>2, <3>4, <3>5
  <2>4. g \in [SUBSET (1..n + 1) -> A]
    BY <2>2, <2>3
  <2>5. ASSUME NEW T \in SUBSET (1..n + 1)
        PROVE  g[T] = IF T = {} THEN base ELSE f[<<g[T \ {Addr!Max(T)}], Addr!Max(T)>>]
    <3>1. CASE n + 1 \in T
      <4>1. Addr!Max(T) = n + 1
        <5>1. T \in SUBSET Nat /\ \A y \in T : y <= n + 1
          OBVIOUS
        <5>2. QED
          BY <3>1, <5>1, GreatestIs
      <4>2. T \ {n + 1} \in SUBSET (1..n + 1) /\ n + 1 \notin T \ {n + 1}
        OBVIOUS
      <4>3. g[T \ {n + 1}] = h[T \ {n + 1}]
        BY <2>3, <4>2
      <4>4. QED
        BY <2>3, <3>1, <4>1, <4>3
    <3>2. CASE n + 1 \notin T
      <4>1. T \in SUBSET (1..n) /\ g[T] = h[T]
        BY <2>3, <3>2
      <4>2. h[T] = IF T = {} THEN base ELSE f[<<h[T \ {Addr!Max(T)}], Addr!Max(T)>>]
        BY <2>1, <4>1 DEF Folding
      <4>3. T \ {Addr!Max(T)} \in SUBSET (1..n + 1) /\ n + 1 \notin T \ {Addr!Max(T)}
        BY <3>2
      <4>4. g[T \ {Addr!Max(T)}] = h[T \ {Addr!Max(T)}]
        BY <2>3, <4>3
      <4>5. QED
        BY <4>1, <4>2, <4>4
    <3>3. QED
      BY <3>1, <3>2
  <2>6. Folding(g, f, base, n + 1)
    BY <2>5 DEF Folding
  <2>7. QED
    BY <2>4, <2>6 DEF Folds
<1>3. Nat \subseteq B
  <2> HIDE DEF B
  <2> QED
    BY <1>1, <1>2, SetInduction
<1>4. Folds(A, f, base, N)
  <2>1. N \in B
    BY <1>3
  <2>2. N <= N
    OBVIOUS
  <2>3. QED
    BY <2>1, <2>2
<1>5. QED
  BY <1>4 DEF Folds
-----------------------------------------------------------------------------
(* Cache keys.                                                             *)

\* A key in pieces, one at least.
Pieces == Seq(Seq(Chars)) \ {<<>>}

LEMMA PiecesFacts ==
    ASSUME NEW p \in Pieces
    PROVE  /\ Addr!Front(p) \in Seq(Seq(Chars)) /\ Addr!Last(p) \in Seq(Chars)
           /\ p = Append(Addr!Front(p), Addr!Last(p))
<1>1. PICK q \in Seq(Seq(Chars)), x \in Seq(Chars) : p = Append(q, x)
  BY SequenceEmptyOrAppend DEF Pieces
<1>2. Len(p) = Len(q) + 1 /\ p[Len(q) + 1] = x /\ SubSeq(p, 1, Len(q)) = q /\ Len(q) \in Nat
  BY <1>1, Appends
<1>3. Addr!Last(p) = x /\ Addr!Front(p) = q
  BY <1>2 DEF Addr!Last, Addr!Front
<1>4. QED
  BY <1>1, <1>3

LEMMA SplitTyped ==
    ASSUME NEW p \in Pieces, NEW c \in Chars
    PROVE  Addr!Split(p, c) \in Pieces
<1>1. p \in Seq(Seq(Chars)) /\ <<>> \in Seq(Chars)
  BY EmptySeq DEF Pieces
<1>2. Append(p, <<>>) \in Seq(Seq(Chars)) /\ Append(p, <<>>) # <<>>
  BY <1>1, AppendProperties
<1>3. PICK q \in Seq(Seq(Chars)), x \in Seq(Chars) : q = Addr!Front(p) /\ x = Append(Addr!Last(p), c)
  BY PiecesFacts, AppendProperties
<1>4. Append(q, x) \in Seq(Seq(Chars)) /\ Append(q, x) # <<>>
  <2>1. PICK y : y = Append(q, x)
    OBVIOUS
  <2>2. y \in Seq(Seq(Chars)) /\ Len(y) = Len(q) + 1 /\ Len(q) \in Nat
    BY <2>1, Appends
  <2>3. y # <<>>
    BY <2>2
  <2>4. QED
    BY <2>1, <2>2, <2>3
<1>5. QED
  BY <1>2, <1>3, <1>4 DEF Addr!Split, Pieces

\* What the fold over a key has made of its first n characters.
LEMMA SplitRun ==
    ASSUME NEW s \in Seq(Chars)
    PROVE  \E r \in [0..Len(s) -> Pieces] :
             /\ r[0] = << <<>> >> /\ Addr!FoldLeft(Addr!Split, << <<>> >>, s) = r[Len(s)]
             /\ \A n \in 1..Len(s) : r[n] = Addr!Split(r[n - 1], s[n])
<1>1. PICK base : base = << <<>> >>
  OBVIOUS
<1>2. base \in Pieces
  <2>1. <<>> \in Seq(Chars)
    BY EmptySeq
  <2>2. base \in Seq(Seq(Chars)) /\ Len(base) = 1
    BY <1>1, <2>1, OneTyped
  <2>3. QED
    BY <2>2, EmptySeq DEF Pieces
<1>3. PICK N \in Nat : N = Len(s) /\ DOMAIN s = 1..N
  OBVIOUS
<1> DEFINE P(h) == h = [T \in SUBSET DOMAIN s |->
                          IF T = {} THEN base ELSE Addr!Split(h[T \ {Addr!Max(T)}], s[Addr!Max(T)])]
           f == [p \in Pieces \X (1..N) |-> Addr!Split(p[1], s[p[2]])]
<1>4. Addr!FoldLeft(Addr!Split, base, s) = (CHOOSE h : P(h))[DOMAIN s]
  BY Zenon DEF Addr!FoldLeft, Addr!MapThenFoldSet
<1>5. f \in [Pieces \X (1..N) -> Pieces] /\ \A p \in Pieces, k \in 1..N : f[<<p, k>>] = Addr!Split(p, s[k])
  <2>1. \A p \in Pieces, k \in 1..N : Addr!Split(p, s[k]) \in Pieces
    BY <1>3, SplitTyped
  <2>2. \A p \in Pieces \X (1..N) : Addr!Split(p[1], s[p[2]]) \in Pieces
    BY <2>1
  <2>3. QED
    BY <2>2
<1> HIDE DEF f
<1>6. PICK g \in [SUBSET (1..N) -> Pieces] : Folding(g, f, base, N)
  BY <1>2, <1>5, FoldExists
<1>7. ASSUME NEW T \in SUBSET (1..N)
      PROVE  g[T] = IF T = {} THEN base ELSE Addr!Split(g[T \ {Addr!Max(T)}], s[Addr!Max(T)])
  <2>1. g[T] = IF T = {} THEN base ELSE f[<<g[T \ {Addr!Max(T)}], Addr!Max(T)>>]
    BY <1>6 DEF Folding
  <2>2. T # {} => Addr!Max(T) \in 1..N
    BY GreatestExists
  <2>3. T \ {Addr!Max(T)} \in SUBSET (1..N) /\ g[T \ {Addr!Max(T)}] \in Pieces
    OBVIOUS
  <2>4. QED
    BY <1>5, <2>1, <2>2, <2>3
<1>8. P(CHOOSE h : P(h))
  <2>1. g = [T \in SUBSET (1..N) |-> g[T]]
    OBVIOUS
  <2>2. P(g)
    BY <1>3, <1>7, <2>1
  <2> HIDE DEF P
  <2>3. QED
    BY <2>2
<1>9. PICK h : h = CHOOSE k : P(k)
  OBVIOUS
<1>10. Addr!FoldLeft(Addr!Split, base, s) = h[1..N] /\ P(h)
  <2> HIDE DEF P
  <2> QED
    BY <1>3, <1>4, <1>8, <1>9
<1>11. \A T \in SUBSET (1..N) : h[T] = IF T = {} THEN base ELSE Addr!Split(h[T \ {Addr!Max(T)}], s[Addr!Max(T)])
  BY <1>3, <1>10
<1>12. h[1..0] = base
  <2>1. 1..0 = {} /\ {} \in SUBSET (1..N)
    OBVIOUS
  <2>2. QED
    BY <1>11, <2>1
<1>13. ASSUME NEW n \in 1..N PROVE h[1..n] = Addr!Split(h[1..n - 1], s[n])
  <2>1. 1..n \in SUBSET (1..N) /\ 1..n # {} /\ (1..n) \ {n} = 1..n - 1
    BY SMTT(40)
  <2>2. Addr!Max(1..n) = n
    <3>1. 1..n \in SUBSET Nat /\ n \in 1..n /\ \A y \in 1..n : y <= n
      OBVIOUS
    <3>2. QED
      BY <3>1, GreatestIs
  <2>3. QED
    BY <1>11, <2>1, <2>2
<1>14. \A n \in 0..N : h[1..n] \in Pieces
  <2> DEFINE B == {n \in Nat : n <= N => h[1..n] \in Pieces}
  <2>1. 0 \in B
    BY <1>2, <1>12
  <2>2. ASSUME NEW n \in Nat, n \in B PROVE n + 1 \in B
    <3> SUFFICES ASSUME n + 1 <= N PROVE h[1..n + 1] \in Pieces
      OBVIOUS
    <3>1. n + 1 \in 1..N /\ (n + 1) - 1 = n /\ h[1..n] \in Pieces /\ s[n + 1] \in Chars
      BY <1>3, <2>2
    <3>2. h[1..n + 1] = Addr!Split(h[1..n], s[n + 1])
      BY <1>13, <3>1
    <3>3. QED
      BY <3>1, <3>2, SplitTyped
  <2>3. Nat \subseteq B
    <3> HIDE DEF B
    <3> QED
      BY <2>1, <2>2, SetInduction
  <2>4. QED
    BY <2>3
<1>15. PICK r : r = [n \in 0..N |-> h[1..n]]
  OBVIOUS
<1>16. r \in [0..N -> Pieces] /\ r[0] = base /\ r[N] = h[1..N]
  BY <1>12, <1>14, <1>15
<1>17. \A n \in 1..N : r[n] = Addr!Split(r[n - 1], s[n])
  BY <1>13, <1>15
<1>18. QED
  BY <1>1, <1>3, <1>10, <1>16, <1>17

\* What Without keeps of an element.
Kept(x, e) == IF x = e THEN <<>> ELSE <<x>>
AllKept(s, e) == [n \in DOMAIN s |-> Kept(s[n], e)]

LEMMA KeptTyped == ASSUME NEW X, NEW x \in X, NEW e PROVE Kept(x, e) \in Seq(X)
BY OneTyped, EmptySeq DEF Kept

LEMMA AllKeptTyped ==
    ASSUME NEW X, NEW s \in Seq(X), NEW e
    PROVE  AllKept(s, e) \in Seq(Seq(X)) /\ Len(AllKept(s, e)) = Len(s)
<1>1. \A n \in 1..Len(s) : Kept(s[n], e) \in Seq(X)
  BY KeptTyped
<1>2. DOMAIN s = 1..Len(s) /\ Len(s) \in Nat
  OBVIOUS
<1>3. AllKept(s, e) \in [1..Len(s) -> Seq(X)]
  BY <1>1, <1>2 DEF AllKept
<1>4. QED
  BY <1>2, <1>3

LEMMA AllKeptAppend ==
    ASSUME NEW X, NEW s \in Seq(X), NEW x \in X, NEW e
    PROVE  AllKept(Append(s, x), e) = Append(AllKept(s, e), Kept(x, e))
<1>1. PICK t : t = Append(s, x)
  OBVIOUS
<1>2. t \in Seq(X) /\ Len(t) = Len(s) + 1 /\ t[Len(s) + 1] = x /\ \A k \in 1..Len(s) : t[k] = s[k]
  BY <1>1, Appends
<1>3. PICK p \in Seq(Seq(X)) : p = AllKept(s, e) /\ Len(p) = Len(s)
  BY AllKeptTyped
<1>4. PICK q \in Seq(Seq(X)) : q = AllKept(t, e) /\ Len(q) = Len(s) + 1
  BY <1>2, AllKeptTyped
<1>5. PICK y \in Seq(X) : y = Kept(x, e)
  BY KeptTyped
<1>6. PICK u : u = Append(p, y)
  OBVIOUS
<1>7. /\ u \in Seq(Seq(X)) /\ Len(u) = Len(s) + 1 /\ Len(s) \in Nat
      /\ u[Len(s) + 1] = y /\ \A k \in 1..Len(s) : u[k] = p[k]
  BY <1>3, <1>6, Appends
<1>8. q[Len(s) + 1] = y
  BY <1>2, <1>4, <1>5 DEF AllKept
<1>9. \A k \in 1..Len(s) : q[k] = p[k]
  BY <1>2, <1>3, <1>4 DEF AllKept
<1>10. \A k \in 1..Len(q) : q[k] = u[k]
  <2> SUFFICES ASSUME NEW k \in 1..Len(s) + 1 PROVE q[k] = u[k]
    BY <1>4
  <2>1. CASE k = Len(s) + 1
    BY <1>7, <1>8, <2>1
  <2>2. CASE k # Len(s) + 1
    <3>1. k \in 1..Len(s)
      BY <1>7, <2>2
    <3>2. q[k] = p[k] /\ u[k] = p[k]
      BY <1>7, <1>9, <3>1
    <3>3. QED
      BY <3>2
  <2>3. QED
    BY <2>1, <2>2
<1>11. q = u
  BY <1>4, <1>7, <1>10, SeqEqual
<1>12. QED
  BY <1>1, <1>3, <1>4, <1>5, <1>6, <1>11

LEMMA WithoutIs == ASSUME NEW s, NEW e PROVE Addr!Without(s, e) = Addr!FlattenSeq(AllKept(s, e))
BY DEF Addr!Without, AllKept, Kept

LEMMA WithoutEmpty == ASSUME NEW e PROVE Addr!Without(<<>>, e) = <<>>
<1>1. AllKept(<<>>, e) = <<>>
  BY DEF AllKept
<1>2. QED
  BY <1>1, WithoutIs, FlattenEmpty

LEMMA WithoutStep ==
    ASSUME NEW X, NEW s \in Seq(X), NEW x \in X, NEW e
    PROVE  Addr!Without(s, e) \in Seq(X) /\ Addr!Without(Append(s, x), e) = Addr!Without(s, e) \o Kept(x, e)
<1>1. PICK p \in Seq(Seq(X)) : p = AllKept(s, e)
  BY AllKeptTyped
<1>2. PICK y \in Seq(X) : y = Kept(x, e)
  BY KeptTyped
<1>3. AllKept(Append(s, x), e) = Append(p, y)
  BY <1>1, <1>2, AllKeptAppend
<1>4. Addr!FlattenSeq(p) \in Seq(X) /\ Addr!FlattenSeq(Append(p, y)) = Addr!FlattenSeq(p) \o y
  BY FlattenStep
<1>5. QED
  BY <1>1, <1>2, <1>3, <1>4, WithoutIs

\* Empty pieces flatten to nothing, and none of them is left.
LEMMA FlattenWithout ==
    ASSUME NEW X, NEW s \in Seq(Seq(X))
    PROVE  /\ Addr!Without(s, <<>>) \in Seq(Seq(X))
           /\ Addr!FlattenSeq(Addr!Without(s, <<>>)) = Addr!FlattenSeq(s)
           /\ \A n \in DOMAIN Addr!Without(s, <<>>) : Addr!Without(s, <<>>)[n] # <<>>
<1> DEFINE Good(t) == /\ Addr!Without(t, <<>>) \in Seq(Seq(X))
                      /\ Addr!FlattenSeq(Addr!Without(t, <<>>)) = Addr!FlattenSeq(t)
                      /\ \A n \in DOMAIN Addr!Without(t, <<>>) : Addr!Without(t, <<>>)[n] # <<>>
           A == {t \in Seq(Seq(X)) : Good(t)}
<1>1. <<>> \in A
  <2>1. Addr!Without(<<>>, <<>>) = <<>> /\ <<>> \in Seq(Seq(X))
    BY WithoutEmpty, EmptySeq
  <2>2. DOMAIN <<>> = {}
    OBVIOUS
  <2>3. QED
    BY <2>1, <2>2
<1>2. ASSUME NEW t \in Seq(Seq(X)), NEW x \in Seq(X), t \in A PROVE Append(t, x) \in A
  <2>1. PICK w \in Seq(Seq(X)) : w = Addr!Without(t, <<>>)
    BY WithoutStep
  <2>2. Addr!FlattenSeq(w) = Addr!FlattenSeq(t) /\ \A n \in DOMAIN w : w[n] # <<>>
    BY <1>2, <2>1
  <2>3. PICK u \in Seq(Seq(X)) : u = Append(t, x)
    BY Appends
  <2>4. Addr!Without(u, <<>>) = w \o Kept(x, <<>>)
    BY <2>1, <2>3, WithoutStep, ZenonT(60)
  <2>5. Addr!FlattenSeq(u) = Addr!FlattenSeq(t) \o x /\ Addr!FlattenSeq(t) \in Seq(X)
    BY <2>3, FlattenStep
  <2>6. CASE x = <<>>
    <3>1. Addr!Without(u, <<>>) = w
      BY <2>4, <2>6, ConcatEmptySeq DEF Kept
    <3>2. Addr!FlattenSeq(u) = Addr!FlattenSeq(t)
      BY <2>5, <2>6, ConcatEmptySeq
    <3>3. Good(u)
      BY <2>2, <3>1, <3>2
    <3>4. QED
      BY <2>3, <3>3
  <2>7. CASE x # <<>>
    <3>1. PICK v : v = Append(w, x)
      OBVIOUS
    <3>2. Kept(x, <<>>) = <<x>>
      BY <2>7 DEF Kept
    <3>3. Addr!Without(u, <<>>) = v
      BY <2>4, <3>1, <3>2, AppendIsConcat
    <3>4. /\ v \in Seq(Seq(X)) /\ Len(v) = Len(w) + 1 /\ Len(w) \in Nat
          /\ v[Len(w) + 1] = x /\ \A k \in 1..Len(w) : v[k] = w[k]
      BY <3>1, Appends
    <3>5. Addr!FlattenSeq(v) = Addr!FlattenSeq(u)
      BY <2>2, <2>5, <3>1, FlattenStep
    <3>6. \A n \in DOMAIN v : v[n] # <<>>
      <4> SUFFICES ASSUME NEW n \in 1..Len(w) + 1 PROVE v[n] # <<>>
        BY <3>4
      <4>1. CASE n = Len(w) + 1
        BY <2>7, <3>4, <4>1
      <4>2. CASE n # Len(w) + 1
        <5>1. n \in 1..Len(w) /\ n \in DOMAIN w
          BY <3>4, <4>2, SMTT(40)
        <5>2. v[n] = w[n] /\ w[n] # <<>>
          BY <2>2, <3>4, <5>1
        <5>3. QED
          BY <5>2
      <4>3. QED
        BY <4>1, <4>2
    <3>7. Good(u)
      BY <3>3, <3>4, <3>5, <3>6
    <3>8. QED
      BY <2>3, <3>7
  <2>8. QED
    BY <2>6, <2>7
<1>3. Seq(Seq(X)) \subseteq A
  <2> HIDE DEF A
  <2> QED
    BY <1>1, <1>2, SeqInduction
<1>4. Good(s)
  <2> HIDE DEF Good
  <2> QED
    BY <1>3
<1>5. QED
  BY <1>4

\* The pieces of a key that is split, put together, are the key but for the pluses.
LEMMA SplitKeeps ==
    ASSUME NEW p \in Pieces, NEW c \in Chars
    PROVE  /\ Addr!FlattenSeq(p) \in Seq(Chars)
           /\ Addr!FlattenSeq(Addr!Split(p, c)) = Addr!FlattenSeq(p) \o Kept(c, "+")
<1>1. p \in Seq(Seq(Chars)) /\ <<>> \in Seq(Chars)
  BY EmptySeq DEF Pieces
<1>2. Addr!FlattenSeq(p) \in Seq(Chars)
  BY <1>1, FlattenStep
<1>3. CASE c = "+"
  <2>1. Addr!Split(p, c) = Append(p, <<>>) /\ Kept(c, "+") = <<>>
    BY <1>3 DEF Addr!Split, Kept
  <2>2. Addr!FlattenSeq(Append(p, <<>>)) = Addr!FlattenSeq(p) \o <<>>
    BY <1>1, FlattenStep
  <2>3. QED
    BY <1>2, <2>1, <2>2
<1>4. CASE c # "+"
  <2>1. PICK q \in Seq(Seq(Chars)), x \in Seq(Chars) : q = Addr!Front(p) /\ x = Addr!Last(p) /\ p = Append(q, x)
    BY PiecesFacts
  <2>2. Addr!Split(p, c) = Append(q, Append(x, c)) /\ Kept(c, "+") = <<c>>
    BY <1>4, <2>1 DEF Addr!Split, Kept
  <2>3. PICK f \in Seq(Chars) : f = Addr!FlattenSeq(q)
    BY <2>1, FlattenStep
  <2>4. Addr!FlattenSeq(p) = f \o x
    BY <2>1, <2>3, FlattenStep
  <2>5. PICK y \in Seq(Chars) : y = Append(x, c) /\ y = x \o <<c>>
    BY Appends, AppendIsConcat
  <2>6. Addr!FlattenSeq(Append(q, y)) = f \o y
    BY <2>3, FlattenStep
  <2>7. f \o (x \o <<c>>) = (f \o x) \o <<c>>
    <3>1. <<c>> \in Seq(Chars)
      BY OneTyped
    <3>2. QED
      BY <3>1, ConcatAssociative
  <2>8. QED
    BY <1>2, <2>2, <2>4, <2>5, <2>6, <2>7
<1>5. QED
  BY <1>2, <1>3, <1>4

\* cache_keys of a key: no piece is empty, and together they are the key but for the
\* pluses (wire.rs:51-58).
LEMMA KeysCompose ==
    ASSUME NEW key \in Seq(Chars), NEW p, p = Addr!FoldLeft(Addr!Split, << <<>> >>, key)
    PROVE  /\ Addr!FlattenSeq(Addr!Without(p, <<>>)) = Addr!Without(key, "+")
           /\ \A n \in DOMAIN Addr!Without(p, <<>>) : Addr!Without(p, <<>>)[n] # <<>>
<1>1. PICK N \in Nat : N = Len(key)
  OBVIOUS
<1>2. PICK r \in [0..N -> Pieces] :
        /\ r[0] = << <<>> >> /\ p = r[N]
        /\ \A n \in 1..N : r[n] = Addr!Split(r[n - 1], key[n])
  BY <1>1, SplitRun
<1> DEFINE B == {n \in Nat : n <= N => Addr!FlattenSeq(r[n]) = Addr!Without(SubSeq(key, 1, n), "+")}
<1>3. 0 \in B
  <2>1. SubSeq(key, 1, 0) = <<>>
    BY SubSeqEmpty
  <2>2. Addr!FlattenSeq(<< <<>> >>) = <<>>
    <3>1. <<>> \in Seq(Chars) /\ <<>> \in Seq(Seq(Chars))
      BY EmptySeq
    <3>2. Addr!FlattenSeq(Append(<<>>, <<>>)) = Addr!FlattenSeq(<<>>) \o <<>>
      BY <3>1, FlattenStep
    <3>3. Append(<<>>, <<>>) = << <<>> >>
      BY <3>1, AppendIsConcat, ConcatEmptySeq
    <3>4. QED
      BY <3>2, <3>3, FlattenEmpty
  <2>3. QED
    BY <1>2, <2>1, <2>2, WithoutEmpty
<1>4. ASSUME NEW n \in Nat, n \in B PROVE n + 1 \in B
  <2> SUFFICES ASSUME n + 1 <= N PROVE Addr!FlattenSeq(r[n + 1]) = Addr!Without(SubSeq(key, 1, n + 1), "+")
    OBVIOUS
  <2>1. /\ n + 1 \in 1..N /\ (n + 1) - 1 = n /\ n \in 0..N /\ r[n] \in Pieces /\ key[n + 1] \in Chars
        /\ n <= N /\ n < Len(key)
    BY <1>1
  <2>2. r[n + 1] = Addr!Split(r[n], key[n + 1])
    BY <1>2, <2>1
  <2>3. Addr!FlattenSeq(r[n]) = Addr!Without(SubSeq(key, 1, n), "+")
    BY <1>4, <2>1
  <2>4. Addr!FlattenSeq(r[n + 1]) = Addr!FlattenSeq(r[n]) \o Kept(key[n + 1], "+")
    BY <2>1, <2>2, SplitKeeps
  <2>5. SubSeq(key, 1, n) \in Seq(Chars) /\ SubSeq(key, 1, n + 1) = Append(SubSeq(key, 1, n), key[n + 1])
    <3>1. 1 \in 1..Len(key) + 1 /\ 1 - 1 <= n
      BY <1>1
    <3>2. QED
      BY <2>1, <3>1, SliceAppend
  <2>6. QED
    BY <2>1, <2>3, <2>4, <2>5, WithoutStep, ZenonT(60)
<1>5. Addr!FlattenSeq(r[N]) = Addr!Without(key, "+")
  <2>1. N \in B
    <3> HIDE DEF B
    <3> QED
      BY <1>3, <1>4, SetInduction
  <2>2. N <= N
    OBVIOUS
  <2>3. Addr!FlattenSeq(r[N]) = Addr!Without(SubSeq(key, 1, N), "+")
    BY <2>1, <2>2
  <2>4. SubSeq(key, 1, N) = key
    BY <1>1, Whole
  <2>5. QED
    BY <2>3, <2>4
<1>6. r[N] \in Seq(Seq(Chars))
  BY DEF Pieces
<1>7. QED
  BY <1>2, <1>5, <1>6, FlattenWithout
-----------------------------------------------------------------------------
(* Instance addresses.                                                     *)

\* The organism of an address is its first segment with a key, or its first.
LEMMA OrganismIs ==
    ASSUME NEW a \in Seq(Segments), a # <<>>
    PROVE  /\ Addr!OrganismIndex(a) \in 1..Len(a)
           /\ \A k \in 1..Addr!OrganismIndex(a) - 1 : a[k].key = NoKey
           /\ a[Addr!OrganismIndex(a)].key = NoKey =>
                Addr!OrganismIndex(a) = 1 /\ \A k \in 1..Len(a) : a[k].key = NoKey
<1> DEFINE I == {k \in 1..Len(a) : a[k].key # NoKey}
<1>1. Addr!OrganismIndex(a) = IF I = {} THEN 1 ELSE Addr!Min(I)
  <2>1. Addr!OrganismIndex(a) = LET keyed == IF I # {} THEN Addr!Min(I) ELSE 0 IN IF keyed = 0 THEN 1 ELSE keyed
    BY DEF Addr!OrganismIndex, Addr!SelectInSeq
  <2>2. I # {} => Addr!Min(I) # 0
    <3>1. I \in SUBSET Nat /\ 0 \notin I
      OBVIOUS
    <3> HIDE DEF I
    <3>2. QED
      BY <3>1, LeastExists
  <2>3. QED
    BY <2>1, <2>2
<1>2. I # {} => Addr!Min(I) \in I /\ \A y \in I : Addr!Min(I) <= y
  <2>1. I \in SUBSET Nat
    OBVIOUS
  <2> HIDE DEF I
  <2>2. QED
    BY <2>1, LeastExists
<1>3. CASE I = {}
  <2>1. \A k \in 1..Len(a) : a[k].key = NoKey
    BY <1>3
  <2>2. 1 \in 1..Len(a)
    OBVIOUS
  <2>3. QED
    BY <1>1, <1>3, <2>1, <2>2
<1>4. CASE I # {}
  <2>1. PICK m \in 1..Len(a) : m = Addr!OrganismIndex(a) /\ a[m].key # NoKey /\ \A y \in I : m <= y
    BY <1>1, <1>2, <1>4
  <2>2. \A k \in 1..m - 1 : a[k].key = NoKey
    <3> SUFFICES ASSUME NEW k \in 1..m - 1, a[k].key # NoKey PROVE FALSE
      OBVIOUS
    <3>1. k \in I
      OBVIOUS
    <3>2. QED
      BY <2>1, <3>1
  <2>3. QED
    BY <2>1, <2>2
<1>5. QED
  BY <1>3, <1>4

\* What is after the organism does not move it.
LEMMA OrganismKept ==
    ASSUME NEW a \in Seq(Segments), a # <<>>
    PROVE  Addr!OrganismIndex(SubSeq(a, 1, Addr!OrganismIndex(a))) = Addr!OrganismIndex(a)
<1> DEFINE m == Addr!OrganismIndex(a)
           b == SubSeq(a, 1, m)
<1>1. /\ m \in 1..Len(a) /\ \A k \in 1..m - 1 : a[k].key = NoKey
      /\ a[m].key = NoKey => m = 1
  BY OrganismIs
<1> HIDE DEF m
<1>2. b \in Seq(Segments) /\ Len(b) = m /\ \A k \in 1..m : b[k] = a[k]
  BY <1>1
<1> HIDE DEF b
<1>3. b # <<>>
  BY <1>1, <1>2
<1>4. PICK n : n = Addr!OrganismIndex(b)
  OBVIOUS
<1>5. n \in 1..m /\ (b[n].key = NoKey => \A k \in 1..m : b[k].key = NoKey)
  BY <1>2, <1>3, <1>4, OrganismIs
<1>6. n = m
  <2>1. CASE a[m].key = NoKey
    BY <1>1, <1>5, <2>1
  <2>2. CASE a[m].key # NoKey
    <3> SUFFICES ASSUME n # m PROVE FALSE
      OBVIOUS
    <3>1. n \in 1..m - 1 /\ m \in 1..m
      BY <1>1, <1>5
    <3>2. b[n] = a[n] /\ a[n].key = NoKey
      BY <1>1, <1>2, <1>5, <3>1
    <3>3. b[m].key = NoKey /\ b[m] = a[m]
      BY <1>2, <1>5, <3>1, <3>2
    <3>4. QED
      BY <2>2, <3>3
  <2>3. QED
    BY <2>1, <2>2
<1>7. QED
  BY <1>4, <1>6 DEF b, m

LEMMA Regroup ==
    ASSUME NEW X, NEW d \in Seq(X), NEW r \in Seq(X), NEW x \in Seq(X)
    PROVE  (d \o r) \o x = d \o (r \o x) /\ r \o x \in Seq(X)
BY ConcatAssociative, ConcatProperties, SMTT(40)

LEMMA PrefixOf ==
    ASSUME NEW X, NEW s \in Seq(X), NEW r \in Seq(X)
    PROVE  Addr!IsPrefix(s, s \o r)
<1>0. PICK t : t = s \o r
  OBVIOUS
<1>1. t \in Seq(X) /\ Len(t) = Len(s) + Len(r) /\ \A k \in 1..Len(s) : t[k] = s[k]
  BY <1>0, ConcatProperties
<1>2. Len(s) \in Nat /\ Len(r) \in Nat /\ Len(s) <= Len(t)
  BY <1>1
<1>3. SubSeq(t, 1, Len(s)) = s
  BY <1>1, <1>2
<1>4. SubSeq(s, 1, Len(s)) = s
  BY Whole
<1>5. QED
  BY <1>0, <1>1, <1>2, <1>3, <1>4 DEF Addr!IsPrefix

\* The first segments of an address are written at its start.
LEMMA DisplayPrefix ==
    ASSUME NEW a \in Seq(Segments), NEW n \in 0..Len(a)
    PROVE  Addr!IsPrefix(Addr!Display(SubSeq(a, 1, n)), Addr!Display(a))
<1> DEFINE Starts(t, k) == \E r \in Seq(Chars) : Addr!Display(t) = Addr!Display(SubSeq(t, 1, k)) \o r
           A == {t \in Seq(Segments) : \A k \in 0..Len(t) : Starts(t, k)}
<1>1. ASSUME NEW t \in Seq(Segments) PROVE Starts(t, Len(t))
  <2>1. SubSeq(t, 1, Len(t)) = t
    BY Whole
  <2>2. Addr!Display(t) \in Seq(Chars)
    <3>1. Parts(t) \in Seq(Seq(Chars))
      BY PartsTyped
    <3>2. <<>> \in Seq(Chars)
      BY EmptySeq
    <3>3. QED
      BY <3>1, <3>2, FlattenStep, DisplayIs
  <2>3. Addr!Display(t) = Addr!Display(t) \o <<>> /\ <<>> \in Seq(Chars)
    BY <2>2, ConcatEmptySeq, EmptySeq
  <2>4. QED
    BY <2>1, <2>3
<1>2. <<>> \in A
  <2>1. <<>> \in Seq(Segments) /\ Len(<<>>) = 0
    BY EmptySeq
  <2>2. Starts(<<>>, Len(<<>>))
    BY <1>1, <2>1
  <2> HIDE DEF Starts
  <2>3. QED
    BY <2>1, <2>2
<1>3. ASSUME NEW t \in Seq(Segments), NEW s \in Segments, t \in A PROVE Append(t, s) \in A
  <2>0. PICK u : u = Append(t, s)
    OBVIOUS
  <2>1. u \in Seq(Segments) /\ u = Append(t, s) /\ Len(u) = Len(t) + 1 /\ \A k \in 1..Len(t) : u[k] = t[k]
    BY <2>0, Appends
  <2>2. ASSUME NEW k \in 0..Len(t) PROVE Starts(u, k)
    <3>1. PICK r \in Seq(Chars) : Addr!Display(t) = Addr!Display(SubSeq(t, 1, k)) \o r
      BY <1>3
    <3>2. SubSeq(u, 1, k) = SubSeq(t, 1, k) /\ SubSeq(t, 1, k) \in Seq(Segments)
      BY <2>1
    <3>3. PICK x \in Seq(Chars) : x = Part(s, Len(t) + 1)
      BY PartTyped
    <3>4. Addr!Display(u) = Addr!Display(t) \o x
      <4>1. PICK p \in Seq(Seq(Chars)) : p = Parts(t)
        BY PartsTyped
      <4>2. Parts(u) = Append(p, x)
        BY <2>1, <3>3, <4>1, PartsAppend
      <4>3. QED
        BY <4>1, <4>2, FlattenStep, DisplayIs
    <3>5. PICK d \in Seq(Chars) : d = Addr!Display(SubSeq(t, 1, k))
      BY <3>2, DisplayAppend, <1>3
    <3>6. (d \o r) \o x = d \o (r \o x) /\ r \o x \in Seq(Chars)
      BY Regroup
    <3>7. QED
      BY <3>1, <3>2, <3>4, <3>5, <3>6
  <2>3. \A k \in 0..Len(u) : Starts(u, k)
    <3> SUFFICES ASSUME NEW k \in 0..Len(t) + 1 PROVE Starts(u, k)
      BY <2>1
    <3>1. Starts(u, Len(t) + 1)
      BY <1>1, <2>1
    <3> HIDE DEF Starts
    <3>2. QED
      BY <2>2, <3>1
  <2> HIDE DEF Starts
  <2>4. QED
    BY <2>1, <2>3
<1>4. a \in A
  <2> HIDE DEF A
  <2>1. Seq(Segments) \subseteq A
    BY <1>2, <1>3, SeqInduction
  <2>2. QED
    BY <2>1
<1>5. PICK r \in Seq(Chars) : Addr!Display(a) = Addr!Display(SubSeq(a, 1, n)) \o r
  BY <1>4
<1>6. PICK b : b = SubSeq(a, 1, n)
  OBVIOUS
<1>7. b \in Seq(Segments)
  BY <1>6
<1>8. Addr!Display(b) \in Seq(Chars)
  <2>1. Parts(b) \in Seq(Seq(Chars)) /\ <<>> \in Seq(Chars)
    BY <1>7, PartsTyped, EmptySeq
  <2>2. QED
    BY <2>1, FlattenStep, DisplayIs
<1>9. QED
  BY <1>5, <1>6, <1>8, PrefixOf

\* An address's instance address has all of it that tells instances apart (wire.rs:184-189).
LEMMA InstanceOf ==
    ASSUME NEW a \in Seq(Segments), a # <<>>, NEW b, b = Addr!InstanceAddress(a)
    PROVE  /\ Addr!Organism(b) = Addr!Organism(a) /\ Addr!InstanceKey(b) = Addr!InstanceKey(a)
           /\ Addr!Namespace(b) = Addr!Namespace(a) /\ Addr!CacheKeys(b) = Addr!CacheKeys(a)
           /\ Addr!Node(b) = Addr!Node(a) /\ Addr!Target(b) = Addr!Organism(a)
           /\ Addr!Buffer(b) = NoKey
           /\ Addr!IsPrefix(Addr!Display(b), Addr!Display(a))
<1>1. PICK m : m = Addr!OrganismIndex(a)
  OBVIOUS
<1>2. b = SubSeq(a, 1, m)
  BY <1>1 DEF Addr!InstanceAddress
<1>3. /\ b \in Seq(Segments) /\ m \in 1..Len(a) /\ Len(b) = m /\ \A k \in 1..m : b[k] = a[k]
      /\ Addr!OrganismIndex(b) = m
  <2>1. m \in 1..Len(a)
    BY <1>1, OrganismIs
  <2>2. b \in Seq(Segments) /\ Len(b) = m /\ \A k \in 1..m : b[k] = a[k]
    BY <1>2, <2>1
  <2>3. QED
    BY <1>1, <1>2, <2>1, <2>2, OrganismKept
<1>4. b[m] = a[m] /\ b[1] = a[1] /\ Addr!Last(b) = a[m]
  <2>1. m \in 1..m /\ 1 \in 1..m
    BY <1>3
  <2>2. QED
    BY <1>3, <2>1 DEF Addr!Last
<1>5. Addr!Organism(b) = Addr!Organism(a) /\ Addr!InstanceKey(b) = Addr!InstanceKey(a)
  BY <1>1, <1>3, <1>4 DEF Addr!Organism, Addr!InstanceKey
<1>6. Addr!Namespace(b) = Addr!Namespace(a) /\ Addr!Node(b) = Addr!Node(a)
  BY <1>1, <1>3, <1>4 DEF Addr!Namespace, Addr!Node
<1>7. Addr!CacheKeys(b) = Addr!CacheKeys(a)
  BY <1>5 DEF Addr!CacheKeys
<1>8. Addr!Target(b) = Addr!Organism(a)
  BY <1>1, <1>4 DEF Addr!Target, Addr!Organism
<1>9. Addr!Buffer(b) = NoKey
  BY <1>3 DEF Addr!Buffer
<1>10. Addr!IsPrefix(Addr!Display(b), Addr!Display(a))
  <2>1. m \in 0..Len(a)
    BY <1>3
  <2>2. QED
    BY <1>2, <2>1, DisplayPrefix
<1>11. QED
  BY <1>5, <1>6, <1>7, <1>8, <1>9, <1>10

LEMMA InstanceW == ASSUME Addr!AddressesAssumption, WInv PROVE InstanceIsKept
<1> SUFFICES ASSUME Addr!Parsed PROVE InstanceIsKept
  BY DEF InstanceIsKept, Addr!InstanceIsKept, Addr!CacheKeysCompose
<1>1. PICK a \in Seq(Segments) : a = Addr!Found /\ a # <<>> /\ Addr!Display(a) = text
  BY DEF WInv, Faithful, Addr!Parsed, Addr!Found
<1>2. Addr!InstanceIsKept
  BY <1>1, InstanceOf DEF Addr!InstanceIsKept
<1>3. ASSUME Addr!InstanceKey(a) # NoKey
      PROVE  /\ Addr!FlattenSeq(Addr!CacheKeys(a)) = Addr!Without(Addr!InstanceKey(a), "+")
             /\ \A n \in DOMAIN Addr!CacheKeys(a) : Addr!CacheKeys(a)[n] # <<>>
  <2>1. PICK m \in 1..Len(a) : m = Addr!OrganismIndex(a)
    BY <1>1, OrganismIs
  <2>2. a[m] \in Segments
    OBVIOUS
  <2>3. PICK key \in Seq(Chars) : key = Addr!InstanceKey(a)
    BY <1>3, <2>1, <2>2 DEF Addr!InstanceKey, Segments, Addr!Segments, Chars
  <2>4. PICK p : p = Addr!FoldLeft(Addr!Split, << <<>> >>, key)
    OBVIOUS
  <2>5. Addr!CacheKeys(a) = Addr!Without(p, <<>>)
    BY <1>3, <2>3, <2>4 DEF Addr!CacheKeys
  <2>6. QED
    BY <2>3, <2>4, <2>5, KeysCompose
<1>4. Addr!CacheKeysCompose
  BY <1>1, <1>3 DEF Addr!CacheKeysCompose
<1>5. QED
  BY <1>2, <1>4 DEF InstanceIsKept

\* Of any text that is read as an address: its instance address has the namespace,
\* organism and keys of the whole and is a beginning of its text, and its cache
\* keys are its key's text but for the pluses (wire.rs:51-58, 184-189).
THEOREM InstancesAreKept == ASSUME Addr!AddressesAssumption PROVE Addr!Spec => []InstanceIsKept
<1>1. Addr!Init => WInv
  BY InitW
<1>2. WInv /\ [Addr!Next]_(Addr!vars) => WInv'
  BY NextW
<1>3. WInv => InstanceIsKept
  BY InstanceW
<1>4. QED
  BY <1>1, <1>2, <1>3, PTL DEF Addr!Spec
-----------------------------------------------------------------------------
(* The Python mirror.                                                      *)

MirrorStates ==
    {st \in [segments : Seq(Segments), name : Seq(Chars), key : Seq(Chars) \cup {NoKey},
             inside : BOOLEAN, failed : BOOLEAN] :
       st.inside => st.key \in Seq(Chars)}

\* States that have not failed, outside of a key and inside of it.
Outside(segs, name, key) ==
    [segments |-> segs, name |-> name, key |-> key, inside |-> FALSE, failed |-> FALSE]
Inside(segs, name, key) ==
    [segments |-> segs, name |-> name, key |-> key, inside |-> TRUE, failed |-> FALSE]

LEMMA MirrorOpens ==
    ASSUME NEW segs, NEW name, NEW key
    PROVE  Addr!MirrorChar(Outside(segs, name, key), "[") = Inside(segs, name, <<>>)
BY DEF Outside, Inside, Addr!MirrorChar

LEMMA MirrorCloses ==
    ASSUME NEW segs, NEW name, NEW key
    PROVE  Addr!MirrorChar(Inside(segs, name, key), "]") = Outside(segs, name, key)
BY DEF Outside, Inside, Addr!MirrorChar

LEMMA MirrorDots ==
    ASSUME NEW segs, NEW name, NEW key, name # <<>>
    PROVE  Addr!MirrorChar(Outside(segs, name, key), ".") =
             Outside(Append(segs, Addr!Segment(name, key)), <<>>, NoKey)
BY DEF Outside, Inside, Addr!MirrorChar

LEMMA MirrorNames ==
    ASSUME NEW segs, NEW name, NEW key, NEW c, c \notin {"[", "]", "."}
    PROVE  Addr!MirrorChar(Outside(segs, name, key), c) = Outside(segs, Append(name, c), key)
BY DEF Outside, Inside, Addr!MirrorChar

LEMMA MirrorKeys ==
    ASSUME NEW segs, NEW name, NEW key, NEW c, c \notin {"[", "]"}
    PROVE  Addr!MirrorChar(Inside(segs, name, key), c) = Inside(segs, name, Append(key, c))
BY DEF Outside, Inside, Addr!MirrorChar

LEMMA MirrorTyped ==
    ASSUME NEW st \in MirrorStates, NEW c \in Chars
    PROVE  Addr!MirrorChar(st, c) \in MirrorStates
<1>1. /\ st.segments \in Seq(Segments) /\ st.name \in Seq(Chars) /\ st.key \in Seq(Chars) \cup {NoKey}
      /\ st.inside \in BOOLEAN /\ st.failed \in BOOLEAN /\ (st.inside => st.key \in Seq(Chars))
      /\ st = [segments |-> st.segments, name |-> st.name, key |-> st.key, inside |-> st.inside, failed |-> st.failed]
  BY DEF MirrorStates
<1>2. ASSUME NEW s \in Seq(Segments), NEW n \in Seq(Chars), NEW k \in Seq(Chars) \cup {NoKey},
             NEW b \in BOOLEAN, NEW f \in BOOLEAN, b => k \in Seq(Chars)
      PROVE  [segments |-> s, name |-> n, key |-> k, inside |-> b, failed |-> f] \in MirrorStates
  BY <1>2 DEF MirrorStates
<1>3. <<>> \in Seq(Chars)
  BY EmptySeq
<1>4. CASE st.failed
  BY <1>4 DEF Addr!MirrorChar
<1>5. CASE ~st.failed /\ c = "["
  <2>1. CASE st.inside
    <3>1. Addr!MirrorChar(st, c) = [segments |-> st.segments, name |-> st.name, key |-> st.key, inside |-> TRUE, failed |-> TRUE]
      BY <1>1, <1>5, <2>1 DEF Addr!MirrorChar
    <3>2. TRUE \in BOOLEAN /\ st.key \in Seq(Chars)
      BY <1>1, <2>1
    <3>3. QED
      BY <1>1, <1>2, <3>1, <3>2
  <2>2. CASE ~st.inside
    <3>1. Addr!MirrorChar(st, c) = [segments |-> st.segments, name |-> st.name, key |-> <<>>, inside |-> TRUE, failed |-> st.failed]
      BY <1>1, <1>5, <2>2 DEF Addr!MirrorChar
    <3>2. QED
      BY <1>1, <1>2, <1>3, <3>1, ZenonT(60)
  <2>3. QED
    BY <2>1, <2>2
<1>6. CASE ~st.failed /\ c = "]"
  <2>1. PICK f \in BOOLEAN : Addr!MirrorChar(st, c) =
          [segments |-> st.segments, name |-> st.name, key |-> st.key, inside |-> FALSE, failed |-> f]
    BY <1>1, <1>6 DEF Addr!MirrorChar
  <2>2. PICK s \in Seq(Segments), n \in Seq(Chars), k \in Seq(Chars) \cup {NoKey} :
          s = st.segments /\ n = st.name /\ k = st.key
    BY <1>1
  <2>3. FALSE \in BOOLEAN
    OBVIOUS
  <2>4. [segments |-> s, name |-> n, key |-> k, inside |-> FALSE, failed |-> f] \in MirrorStates
    BY <1>2, <2>3
  <2>5. QED
    BY <2>1, <2>2, <2>4
<1>7. CASE ~st.failed /\ c = "." /\ ~st.inside
  <2>1. PICK s : s = Append(st.segments, Addr!Segment(st.name, st.key))
    OBVIOUS
  <2>2. s \in Seq(Segments)
    <3>1. Addr!Segment(st.name, st.key) \in Segments
      BY <1>1 DEF Addr!Segment, Segments, Addr!Segments, Chars
    <3>2. QED
      BY <1>1, <2>1, <3>1, Appends
  <2>3. \E f \in BOOLEAN : Addr!MirrorChar(st, c) =
          [segments |-> s, name |-> <<>>, key |-> NoKey, inside |-> FALSE, failed |-> f]
    BY <1>1, <1>7, <2>1 DEF Addr!MirrorChar
  <2>4. QED
    BY <1>2, <1>3, <2>2, <2>3
<1>8. CASE ~st.failed /\ c \notin {"[", "]"} /\ (c = "." => st.inside)
  <2>1. CASE st.inside
    <3>1. PICK k \in Seq(Chars) : k = Append(st.key, c)
      BY <1>1, <2>1, Appends
    <3>2. Addr!MirrorChar(st, c) = [segments |-> st.segments, name |-> st.name, key |-> k, inside |-> st.inside, failed |-> st.failed]
      BY <1>1, <1>8, <2>1, <3>1 DEF Addr!MirrorChar
    <3>3. QED
      BY <1>1, <1>2, <3>2
  <2>2. CASE ~st.inside
    <3>1. PICK n \in Seq(Chars) : n = Append(st.name, c)
      BY <1>1, Appends
    <3>2. Addr!MirrorChar(st, c) = [segments |-> st.segments, name |-> n, key |-> st.key, inside |-> st.inside, failed |-> st.failed]
      BY <1>1, <1>8, <2>2, <3>1 DEF Addr!MirrorChar
    <3>3. QED
      BY <1>1, <1>2, <3>2
  <2>3. QED
    BY <2>1, <2>2
<1>9. QED
  BY <1>4, <1>5, <1>6, <1>7, <1>8

\* The states of the mirror's loop over a text.
Turns(t, r) ==
    /\ r[0] = Addr!MirrorStart /\ Addr!FoldLeft(Addr!MirrorChar, Addr!MirrorStart, t) = r[Len(t)]
    /\ \A n \in 1..Len(t) : r[n] = Addr!MirrorChar(r[n - 1], t[n])

Run(t) == CHOOSE r : Turns(t, r)

LEMMA MirrorRuns == ASSUME NEW s \in Seq(Chars) PROVE Turns(s, Run(s))
<1>1. PICK base : base = Addr!MirrorStart
  OBVIOUS
<1>2. base \in MirrorStates
  <2>1. <<>> \in Seq(Chars) /\ <<>> \in Seq(Segments)
    BY EmptySeq
  <2>2. QED
    BY <1>1, <2>1 DEF Addr!MirrorStart, MirrorStates
<1>3. PICK N \in Nat : N = Len(s) /\ DOMAIN s = 1..N
  OBVIOUS
<1> DEFINE P(h) == h = [T \in SUBSET DOMAIN s |->
                          IF T = {} THEN base ELSE Addr!MirrorChar(h[T \ {Addr!Max(T)}], s[Addr!Max(T)])]
           f == [p \in MirrorStates \X (1..N) |-> Addr!MirrorChar(p[1], s[p[2]])]
<1>4. Addr!FoldLeft(Addr!MirrorChar, base, s) = (CHOOSE h : P(h))[DOMAIN s]
  BY Zenon DEF Addr!FoldLeft, Addr!MapThenFoldSet
<1>5. /\ f \in [MirrorStates \X (1..N) -> MirrorStates]
      /\ \A st \in MirrorStates, k \in 1..N : f[<<st, k>>] = Addr!MirrorChar(st, s[k])
  <2>1. \A st \in MirrorStates, k \in 1..N : Addr!MirrorChar(st, s[k]) \in MirrorStates
    BY <1>3, MirrorTyped
  <2>2. \A p \in MirrorStates \X (1..N) : Addr!MirrorChar(p[1], s[p[2]]) \in MirrorStates
    BY <2>1
  <2>3. QED
    BY <2>2
<1> HIDE DEF f
<1>6. PICK g \in [SUBSET (1..N) -> MirrorStates] : Folding(g, f, base, N)
  BY <1>2, <1>5, FoldExists
<1>7. ASSUME NEW T \in SUBSET (1..N)
      PROVE  g[T] = IF T = {} THEN base ELSE Addr!MirrorChar(g[T \ {Addr!Max(T)}], s[Addr!Max(T)])
  <2>1. g[T] = IF T = {} THEN base ELSE f[<<g[T \ {Addr!Max(T)}], Addr!Max(T)>>]
    BY <1>6 DEF Folding
  <2>2. T # {} => Addr!Max(T) \in 1..N
    BY GreatestExists
  <2>3. T \ {Addr!Max(T)} \in SUBSET (1..N) /\ g[T \ {Addr!Max(T)}] \in MirrorStates
    OBVIOUS
  <2>4. QED
    BY <1>5, <2>1, <2>2, <2>3
<1>8. P(CHOOSE h : P(h))
  <2>1. g = [T \in SUBSET (1..N) |-> g[T]]
    OBVIOUS
  <2>2. P(g)
    BY <1>3, <1>7, <2>1
  <2> HIDE DEF P
  <2>3. QED
    BY <2>2
<1>9. PICK h : h = CHOOSE k : P(k)
  OBVIOUS
<1>10. Addr!FoldLeft(Addr!MirrorChar, base, s) = h[1..N] /\ P(h)
  <2> HIDE DEF P
  <2> QED
    BY <1>3, <1>4, <1>8, <1>9
<1>11. \A T \in SUBSET (1..N) :
         h[T] = IF T = {} THEN base ELSE Addr!MirrorChar(h[T \ {Addr!Max(T)}], s[Addr!Max(T)])
  BY <1>3, <1>10
<1>12. h[1..0] = base
  <2>1. 1..0 = {} /\ {} \in SUBSET (1..N)
    OBVIOUS
  <2>2. QED
    BY <1>11, <2>1
<1>13. ASSUME NEW n \in 1..N PROVE h[1..n] = Addr!MirrorChar(h[1..n - 1], s[n])
  <2>1. 1..n \in SUBSET (1..N) /\ 1..n # {} /\ (1..n) \ {n} = 1..n - 1
    OBVIOUS
  <2>2. Addr!Max(1..n) = n
    <3>1. 1..n \in SUBSET Nat /\ n \in 1..n /\ \A y \in 1..n : y <= n
      OBVIOUS
    <3>2. QED
      BY <3>1, GreatestIs
  <2>3. QED
    BY <1>11, <2>1, <2>2
<1>14. PICK r : r = [n \in 0..N |-> h[1..n]]
  OBVIOUS
<1>15. r[0] = base /\ r[N] = h[1..N] /\ \A n \in 1..N : r[n] = Addr!MirrorChar(r[n - 1], s[n])
  BY <1>12, <1>13, <1>14
<1>16. Turns(s, r)
  BY <1>1, <1>3, <1>10, <1>15 DEF Turns
<1>17. QED
  BY <1>16, Zenon DEF Run

NoOpen(raw) == \A k \in 1..Len(raw) : raw[k] # "["
OneOpen(raw, p) == p \in 1..Len(raw) /\ raw[p] = "[" /\ \A k \in 1..Len(raw) : raw[k] = "[" => k = p

\* A segment whose key, if it has one, has no bracket of its own.
Plain(s) == s.key # NoKey => NoOpen(s.key)

\* The mirror keeps up with the parser for as long as the keys are plain: at depth 1
\* it is inside of the key whose name it has, at a closing bracket just out of it.
Follows(st, d, cur, segs) ==
    (\A n \in DOMAIN segs : Plain(segs[n])) =>
        /\ NoOpen(cur) => d = 0 /\ st = Outside(segs, cur, NoKey)
        /\ \A p : OneOpen(cur, p) =>
             /\ d \in {0, 1}
             /\ d = 1 => st = Inside(segs, SubSeq(cur, 1, p - 1), SubSeq(cur, p + 1, Len(cur)))
             /\ d = 0 /\ cur[Len(cur)] = "]" =>
                  st = Outside(segs, SubSeq(cur, 1, p - 1), SubSeq(cur, p + 1, Len(cur) - 1))

LEMMA FollowsStart == Follows(Addr!MirrorStart, 0, <<>>, <<>>)
<1>1. 1..Len(<<>>) = {}
  OBVIOUS
<1>2. Addr!MirrorStart = Outside(<<>>, <<>>, NoKey)
  BY DEF Addr!MirrorStart, Outside
<1>3. QED
  BY <1>1, <1>2 DEF Follows, OneOpen

LEMMA Slices ==
    ASSUME NEW X, NEW s \in Seq(X), NEW x \in X, NEW p \in 1..Len(s)
    PROVE  /\ SubSeq(Append(s, x), 1, p - 1) = SubSeq(s, 1, p - 1)
           /\ SubSeq(Append(s, x), p + 1, Len(s)) = SubSeq(s, p + 1, Len(s))
           /\ SubSeq(Append(s, x), p + 1, Len(s) + 1) = Append(SubSeq(s, p + 1, Len(s)), x)
<1>1. PICK t : t = Append(s, x)
  OBVIOUS
<1>2. /\ t \in Seq(X) /\ Len(t) = Len(s) + 1 /\ t[Len(s) + 1] = x /\ Len(s) \in Nat
      /\ \A k \in 1..Len(s) : t[k] = s[k]
  BY <1>1, Appends
<1>3. SubSeq(t, 1, p - 1) = SubSeq(s, 1, p - 1)
  BY <1>2
<1>4. SubSeq(t, p + 1, Len(s)) = SubSeq(s, p + 1, Len(s))
  BY <1>2
<1>5. SubSeq(t, p + 1, Len(s) + 1) = Append(SubSeq(t, p + 1, Len(s)), t[Len(s) + 1])
  <2>1. p + 1 \in 1..Len(t) + 1 /\ (p + 1) - 1 <= Len(s) /\ Len(s) < Len(t)
    BY <1>2
  <2>2. QED
    BY <1>2, <2>1, SliceAppend, ZenonT(60)
<1>6. QED
  BY <1>1, <1>2, <1>3, <1>4, <1>5

\* A character that joins the segment.
LEMMA FollowsPush ==
    ASSUME NEW cur \in Seq(Chars), NEW c \in Chars, NEW d \in Nat, NEW e \in Nat, NEW st, NEW segs,
           e = IF c = "[" THEN d + 1 ELSE IF c = "]" THEN d - 1 ELSE d,
           c = "." => d # 0, Follows(st, d, cur, segs)
    PROVE  Follows(Addr!MirrorChar(st, c), e, Append(cur, c), segs)
<1> SUFFICES ASSUME \A n \in DOMAIN segs : Plain(segs[n])
             PROVE  Follows(Addr!MirrorChar(st, c), e, Append(cur, c), segs)
  BY DEF Follows
<1>1. PICK u : u = Append(cur, c)
  OBVIOUS
<1>2. PICK n \in Nat : n = Len(cur)
  OBVIOUS
<1>3. /\ u \in Seq(Chars) /\ Len(u) = n + 1 /\ u[n + 1] = c /\ SubSeq(u, 1, n) = cur
      /\ \A k \in 1..n : u[k] = cur[k]
  BY <1>1, <1>2, Appends
<1>4. /\ NoOpen(cur) => d = 0 /\ st = Outside(segs, cur, NoKey)
      /\ \A p : OneOpen(cur, p) =>
           /\ d \in {0, 1}
           /\ d = 1 => st = Inside(segs, SubSeq(cur, 1, p - 1), SubSeq(cur, p + 1, n))
  BY <1>2 DEF Follows
<1>5. ASSUME NoOpen(u) PROVE e = 0 /\ Addr!MirrorChar(st, c) = Outside(segs, u, NoKey)
  <2>1. c # "[" /\ NoOpen(cur)
    <3>1. n + 1 \in 1..n + 1 /\ \A k \in 1..n : k \in 1..n + 1
      OBVIOUS
    <3>2. QED
      BY <1>2, <1>3, <1>5, <3>1 DEF NoOpen
  <2>2. d = 0 /\ st = Outside(segs, cur, NoKey)
    BY <1>4, <2>1
  <2>3. c \notin {"[", "]", "."} /\ e = 0
    BY <2>1, <2>2
  <2>4. QED
    BY <1>1, <2>2, <2>3, MirrorNames
<1>6. ASSUME NEW p, OneOpen(u, p)
      PROVE  /\ e \in {0, 1}
             /\ e = 1 => Addr!MirrorChar(st, c) = Inside(segs, SubSeq(u, 1, p - 1), SubSeq(u, p + 1, n + 1))
             /\ e = 0 /\ u[n + 1] = "]" =>
                  Addr!MirrorChar(st, c) = Outside(segs, SubSeq(u, 1, p - 1), SubSeq(u, p + 1, n))
  <2>0. PICK name, key, closed :
          name = SubSeq(u, 1, p - 1) /\ key = SubSeq(u, p + 1, n + 1) /\ closed = SubSeq(u, p + 1, n)
    OBVIOUS
  <2> SUFFICES /\ e \in {0, 1}
               /\ e = 1 => Addr!MirrorChar(st, c) = Inside(segs, name, key)
               /\ e = 0 /\ u[n + 1] = "]" => Addr!MirrorChar(st, c) = Outside(segs, name, closed)
    BY <2>0
  <2>1. p \in 1..n + 1 /\ u[p] = "[" /\ \A k \in 1..n + 1 : u[k] = "[" => k = p
    BY <1>3, <1>6 DEF OneOpen
  <2>2. CASE p = n + 1
    <3>1. c = "["
      BY <1>3, <2>1, <2>2
    <3>2. NoOpen(cur)
      <4> SUFFICES ASSUME NEW k \in 1..n, cur[k] = "[" PROVE FALSE
        BY <1>2 DEF NoOpen
      <4>1. u[k] = "[" /\ k \in 1..n + 1
        BY <1>3
      <4>2. QED
        BY <2>1, <2>2, <4>1
    <3>3. d = 0 /\ st = Outside(segs, cur, NoKey) /\ e = 1
      BY <1>4, <3>1, <3>2
    <3>4. Addr!MirrorChar(st, c) = Inside(segs, cur, <<>>)
      BY <3>1, <3>3, MirrorOpens
    <3>5. name = cur /\ key = <<>>
      BY <1>3, <2>0, <2>2, SubSeqEmpty
    <3>6. QED
      BY <3>3, <3>4, <3>5
  <2>3. CASE p # n + 1
    <3>1. p \in 1..n /\ n + 1 \in 1..n + 1
      BY <2>1, <2>3
    <3>2. c # "["
      BY <1>3, <2>1, <2>3, <3>1
    <3>3. OneOpen(cur, p)
      <4>1. cur[p] = "["
        BY <1>3, <2>1, <3>1
      <4>2. ASSUME NEW k \in 1..n, cur[k] = "[" PROVE k = p
        <5>1. u[k] = "[" /\ k \in 1..n + 1
          BY <1>3, <4>2
        <5>2. QED
          BY <2>1, <5>1
      <4>3. QED
        BY <1>2, <3>1, <4>1, <4>2 DEF OneOpen
    <3>4. name = SubSeq(cur, 1, p - 1) /\ closed = SubSeq(cur, p + 1, n) /\ key = Append(closed, c)
      BY <1>1, <1>2, <2>0, <3>1, Slices, ZenonT(60)
    <3>5. CASE d = 0
      <4>1. c # "]" /\ e = 0 /\ u[n + 1] # "]"
        BY <1>3, <3>2, <3>5
      <4>2. QED
        BY <4>1
    <3>6. CASE d # 0
      <4>1. d = 1 /\ st = Inside(segs, name, closed)
        BY <1>4, <3>3, <3>4, <3>6
      <4>2. CASE c = "]"
        <5>1. e = 0
          BY <4>1, <4>2
        <5>2. Addr!MirrorChar(st, c) = Outside(segs, name, closed)
          BY <4>1, <4>2, MirrorCloses
        <5>3. QED
          BY <5>1, <5>2
      <4>3. CASE c # "]"
        <5>1. e = 1
          BY <3>2, <4>1, <4>3
        <5>2. Addr!MirrorChar(st, c) = Inside(segs, name, key)
          BY <3>2, <3>4, <4>1, <4>3, MirrorKeys
        <5>3. QED
          BY <5>1, <5>2
      <4>4. QED
        BY <4>2, <4>3
    <3>7. QED
      BY <3>5, <3>6
  <2>4. QED
    BY <2>2, <2>3
<1>7. Follows(Addr!MirrorChar(st, c), e, u, segs)
  <2>1. Len(u) - 1 = n
    BY <1>3
  <2>2. QED
    BY <1>3, <1>5, <1>6, <2>1 DEF Follows
<1>8. QED
  BY <1>1, <1>7

\* At the end of a segment that is one, the mirror holds it.
LEMMA FollowsSegment ==
    ASSUME NEW cur \in Seq(Chars), NEW st, NEW segs, Addr!Ok(Addr!ParseSegment(cur)),
           NoKey \notin Seq(Chars), Follows(st, 0, cur, segs),
           Plain(Addr!ParseSegment(cur)), \A n \in DOMAIN segs : Plain(segs[n])
    PROVE  \E name, key : /\ name # <<>> /\ Addr!ParseSegment(cur) = Addr!Segment(name, key)
                          /\ st = Outside(segs, name, key)
<1>0. PICK s : s = Addr!ParseSegment(cur)
  OBVIOUS
<1>1. s \in Segments /\ s.name # <<>> /\ Plain(s)
  BY <1>0, ParseSegmentIs
<1>2. s = Addr!Segment(s.name, s.key)
  BY <1>1 DEF Segments, Addr!Segments, Addr!Segment
<1>3. CASE s.key = NoKey
  <2>1. NoOpen(cur) /\ s = Addr!Segment(cur, NoKey)
    BY <1>0, <1>3, ParseSegmentIs DEF NoOpen
  <2>2. s.name = cur
    BY <2>1 DEF Addr!Segment
  <2>3. st = Outside(segs, cur, NoKey)
    BY <2>1 DEF Follows
  <2>4. QED
    BY <1>0, <1>1, <1>2, <1>3, <2>2, <2>3
<1>4. CASE s.key # NoKey
  <2>1. PICK p \in 2..Len(cur) - 1 :
          /\ cur[p] = "[" /\ \A k \in 1..p - 1 : cur[k] # "["
          /\ s = Addr!Segment(SubSeq(cur, 1, p - 1), SubSeq(cur, p + 1, Len(cur) - 1))
    BY <1>0, <1>4, ParseSegmentIs
  <2>2. cur[Len(cur)] = "]"
    <3>1. Wellformed(cur) /\ p \in 1..Len(cur)
      BY ParseSegmentIs
    <3>2. QED
      BY <2>1, <3>1 DEF Wellformed
  <2>3. s.name = SubSeq(cur, 1, p - 1) /\ s.key = SubSeq(cur, p + 1, Len(cur) - 1)
    BY <2>1 DEF Addr!Segment
  <2>4. PICK key : key = SubSeq(cur, p + 1, Len(cur) - 1)
    OBVIOUS
  <2>5. /\ key \in Seq(Chars) /\ Len(key) = Len(cur) - 1 - p /\ Len(cur) \in Nat
        /\ \A k \in 1..Len(cur) - 1 - p : key[k] = cur[p + k]
    BY <2>4
  <2>6. NoOpen(key)
    BY <1>1, <1>4, <2>3, <2>4 DEF Plain
  <2>7. ASSUME NEW k \in 1..Len(cur), cur[k] = "[" PROVE k = p
    <3>1. ~(k < p)
      BY <2>1, <2>7
    <3>2. k # Len(cur)
      BY <2>2, <2>7
    <3>3. ~(p < k)
      <4> SUFFICES ASSUME p < k PROVE FALSE
        OBVIOUS
      <4>0. p \in Nat /\ k \in Nat /\ Len(cur) \in Nat /\ k <= Len(cur)
        BY <2>5
      <4>1. k - p \in 1..Len(cur) - 1 - p /\ p + (k - p) = k
        BY <3>2, <4>0
      <4>2. key[k - p] = cur[k]
        BY <2>5, <4>1
      <4>3. key[k - p] # "["
        BY <2>5, <2>6, <4>1 DEF NoOpen
      <4>4. QED
        BY <2>7, <4>2, <4>3
    <3>4. QED
      BY <2>5, <3>1, <3>3
  <2>8. OneOpen(cur, p)
    BY <2>1, <2>7 DEF OneOpen
  <2>9. st = Outside(segs, SubSeq(cur, 1, p - 1), SubSeq(cur, p + 1, Len(cur) - 1))
    BY <2>2, <2>8 DEF Follows
  <2>10. st = Outside(segs, s.name, s.key)
    BY <2>3, <2>9
  <2>11. QED
    BY <1>0, <1>1, <1>2, <2>10
<1>5. QED
  BY <1>3, <1>4

LEMMA PlainAppend ==
    ASSUME NEW segs \in Seq(Segments), NEW s \in Segments, \A n \in DOMAIN Append(segs, s) : Plain(Append(segs, s)[n])
    PROVE  Plain(s) /\ \A n \in DOMAIN segs : Plain(segs[n])
<1>1. PICK t : t = Append(segs, s)
  OBVIOUS
<1>2. /\ t \in Seq(Segments) /\ Len(t) = Len(segs) + 1 /\ Len(segs) \in Nat
      /\ t[Len(segs) + 1] = s /\ \A k \in 1..Len(segs) : t[k] = segs[k]
  BY <1>1, Appends
<1>3. \A n \in 1..Len(segs) + 1 : Plain(t[n])
  BY <1>1, <1>2
<1>4. Plain(s)
  <2>1. Len(segs) + 1 \in 1..Len(segs) + 1
    BY <1>2
  <2>2. QED
    BY <1>2, <1>3, <2>1
<1>5. ASSUME NEW n \in 1..Len(segs) PROVE Plain(segs[n])
  <2>1. n \in 1..Len(segs) + 1 /\ t[n] = segs[n]
    BY <1>2
  <2>2. QED
    BY <1>3, <2>1
<1>6. QED
  BY <1>4, <1>5

\* A dot outside of brackets.
LEMMA FollowsDot ==
    ASSUME NEW cur \in Seq(Chars), NEW st, NEW segs \in Seq(Segments), Addr!Ok(Addr!ParseSegment(cur)),
           NoKey \notin Seq(Chars), Follows(st, 0, cur, segs)
    PROVE  Follows(Addr!MirrorChar(st, "."), 0, <<>>, Append(segs, Addr!ParseSegment(cur)))
<1>1. PICK s : s = Addr!ParseSegment(cur)
  OBVIOUS
<1>2. s \in Segments
  BY <1>1, ParseSegmentIs
<1>3. PICK after : after = Append(segs, s)
  OBVIOUS
<1>4. ASSUME \A n \in DOMAIN after : Plain(after[n])
      PROVE  Addr!MirrorChar(st, ".") = Outside(after, <<>>, NoKey)
  <2>1. Plain(s) /\ \A n \in DOMAIN segs : Plain(segs[n])
    BY <1>2, <1>3, <1>4, PlainAppend
  <2>2. PICK name, key : name # <<>> /\ s = Addr!Segment(name, key) /\ st = Outside(segs, name, key)
    BY <1>1, <2>1, FollowsSegment
  <2>3. Addr!MirrorChar(st, ".") = Outside(Append(segs, s), <<>>, NoKey)
    BY <2>2, MirrorDots
  <2>4. QED
    BY <1>3, <2>3
<1>5. ~ \E p : OneOpen(<<>>, p)
  BY DEF OneOpen
<1>6. Follows(Addr!MirrorChar(st, "."), 0, <<>>, after)
  BY <1>4, <1>5 DEF Follows
<1>7. QED
  BY <1>1, <1>3, <1>6

\* The mirror beside the parser: it keeps up while the text is read, and reads the
\* same address at the end.
MInv ==
    /\ WInv
    /\ parsed = NoKey => Follows(Run(text)[i - 1], depth, current, segments)
    /\ parsed # NoKey => MirrorReadsAddresses

LEMMA PlainIs ==
    ASSUME NEW s \in Segments, s.key # NoKey => "[" \notin Addr!Range(s.key)
    PROVE  Plain(s)
<1> SUFFICES ASSUME s.key # NoKey PROVE NoOpen(s.key)
  BY DEF Plain
<1>1. PICK key \in Seq(Chars) : key = s.key
  BY DEF Segments, Addr!Segments, Chars
<1>2. "[" \notin {key[k] : k \in DOMAIN key}
  BY <1>1 DEF Addr!Range
<1>3. DOMAIN key = 1..Len(key)
  OBVIOUS
<1>4. QED
  BY <1>1, <1>2, <1>3 DEF NoOpen

LEMMA InitM == ASSUME Addr!AddressesAssumption, Addr!Init PROVE MInv
<1>1. WInv /\ i - 1 = 0 /\ depth = 0 /\ current = <<>> /\ segments = <<>> /\ parsed = NoKey
  BY InitW DEF Addr!Init
<1>2. Run(text)[0] = Addr!MirrorStart
  BY <1>1, MirrorRuns DEF WInv, Turns
<1>3. QED
  BY <1>1, <1>2, FollowsStart DEF MInv

\* One turn of the mirror's loop beside one of the parser's.
LEMMA TurnIs ==
    ASSUME WInv, Addr!Reading
    PROVE  Run(text)[i] = Addr!MirrorChar(Run(text)[i - 1], text[i])
BY ReadingFacts, MirrorRuns DEF WInv, Turns

LEMMA PushM ==
    ASSUME MInv, Addr!Reading, text[i] = "." => depth # 0, DepthOf(text, i) >= 0,
           depth' = DepthOf(text, i), current' = Append(current, text[i]), i' = i + 1,
           UNCHANGED <<text, segments, parsed>>
    PROVE  Follows(Run(text')[i' - 1], depth', current', segments')
<1>1. WInv /\ parsed = NoKey /\ Follows(Run(text)[i - 1], depth, current, segments)
  BY DEF MInv, Addr!Reading
<1>2. PICK st : st = Run(text)[i - 1]
  OBVIOUS
<1>3. PICK c \in Chars : c = text[i]
  BY <1>1, ReadingFacts
<1>4. PICK e : e = DepthOf(text, i)
  OBVIOUS
<1>5. /\ current \in Seq(Chars) /\ depth \in Nat /\ e \in Nat
      /\ e = IF c = "[" THEN depth + 1 ELSE IF c = "]" THEN depth - 1 ELSE depth
  <2>1. current \in Seq(Chars) /\ depth \in 0..Len(text) /\ e \in -1..Len(text) /\ e >= 0 /\ Len(text) \in Nat
    BY <1>1, <1>4, ReadingFacts DEF WInv
  <2>2. QED
    BY <1>1, <1>3, <1>4, <2>1, ReadingFacts
<1>6. (c = "." => depth # 0) /\ Follows(st, depth, current, segments)
  BY <1>1, <1>2, <1>3
<1>7. Follows(Addr!MirrorChar(st, c), e, Append(current, c), segments)
  BY <1>5, <1>6, FollowsPush
<1>8. i' - 1 = i /\ Run(text)[i] = Addr!MirrorChar(st, c)
  BY <1>1, <1>2, <1>3, TurnIs, ReadingFacts
<1>9. QED
  BY <1>3, <1>4, <1>7, <1>8

LEMMA OpenM == ASSUME Addr!AddressesAssumption, MInv, Addr!Open PROVE MInv'
<1>1. WInv /\ WInv'
  BY OpenW DEF MInv
<1>2. /\ Addr!Reading /\ text[i] = "[" /\ depth' = depth + 1
      /\ current' = Append(current, text[i]) /\ i' = i + 1 /\ UNCHANGED <<text, segments, parsed>>
  BY DEF Addr!Open, Addr!Push, Addr!Next1
<1>3. depth' = DepthOf(text, i) /\ DepthOf(text, i) >= 0
  BY <1>1, <1>2, ReadingFacts
<1>4. Follows(Run(text')[i' - 1], depth', current', segments')
  BY <1>2, <1>3, PushM
<1>5. parsed' = NoKey
  BY <1>1, <1>2, ReadingFacts
<1>6. QED
  BY <1>1, <1>4, <1>5 DEF MInv

LEMMA OtherM == ASSUME Addr!AddressesAssumption, MInv, Addr!Other PROVE MInv'
<1>1. WInv /\ WInv'
  BY OtherW DEF MInv
<1>2. /\ Addr!Reading /\ text[i] \notin {"[", "]"} /\ (text[i] = "." => depth # 0) /\ depth' = depth
      /\ current' = Append(current, text[i]) /\ i' = i + 1 /\ UNCHANGED <<text, segments, parsed>>
  BY DEF Addr!Other, Addr!Push, Addr!Next1
<1>3. depth' = DepthOf(text, i) /\ DepthOf(text, i) >= 0
  BY <1>1, <1>2, ReadingFacts, SMTT(40)
<1>4. Follows(Run(text')[i' - 1], depth', current', segments')
  BY <1>2, <1>3, PushM
<1>5. parsed' = NoKey
  BY <1>1, <1>2, ReadingFacts
<1>6. QED
  BY <1>1, <1>4, <1>5 DEF MInv

LEMMA CloseM == ASSUME Addr!AddressesAssumption, MInv, Addr!Close PROVE MInv'
<1>1. WInv /\ WInv'
  BY CloseW DEF MInv
<1>2. /\ Addr!Reading /\ text[i] = "]" /\ depth' = depth - 1 /\ i' = i + 1 /\ UNCHANGED <<text, segments>>
  BY DEF Addr!Close, Addr!Next1
<1>3. depth' = DepthOf(text, i)
  BY <1>1, <1>2, ReadingFacts
<1>4. CASE ~(depth' < 0)
  <2>1. current' = Append(current, text[i]) /\ parsed' = parsed
    BY <1>4 DEF Addr!Close, Addr!Push
  <2>2. DepthOf(text, i) >= 0
    BY <1>1, <1>2, <1>3, <1>4, ReadingFacts
  <2>3. Follows(Run(text')[i' - 1], depth', current', segments')
    BY <1>2, <1>3, <2>1, <2>2, PushM
  <2>4. parsed' = NoKey
    BY <1>1, <1>2, <2>1, ReadingFacts
  <2>5. QED
    BY <1>1, <2>3, <2>4 DEF MInv
<1>5. CASE depth' < 0
  <2>1. parsed' = Addr!Error("Unbalanced")
    BY <1>5 DEF Addr!Close
  <2>2. ~Addr!Ok(parsed')
    BY <2>1 DEF Addr!Error, Addr!Ok
  <2>3. MirrorReadsAddresses'
    BY <2>2 DEF MirrorReadsAddresses, Addr!MirrorReadsAddresses, Addr!Parsed
  <2>4. parsed' # NoKey
    <3>1. Addr!Error("Unbalanced") \in Addr!Results
      BY DEF Addr!Error, Addr!Results, Addr!Errors
    <3>2. QED
      BY <2>1, <3>1 DEF Addr!AddressesAssumption
  <2>5. QED
    BY <1>1, <2>3, <2>4 DEF MInv
<1>6. QED
  BY <1>4, <1>5

\* A segment that is none ends the parse with its error.
LEMMA SegmentFails ==
    ASSUME Addr!AddressesAssumption, NEW raw \in Seq(Chars), ~Addr!Ok(Addr!ParseSegment(raw))
    PROVE  Addr!ParseSegment(raw) # NoKey
<1>1. PICK r \in [error : Addr!Errors] : r = Addr!ParseSegment(raw)
  BY NoKeyIs, ParseSegmentIs
<1>2. r \in Addr!Results
  BY DEF Addr!Results
<1>3. QED
  BY <1>1, <1>2 DEF Addr!AddressesAssumption

LEMMA DotM == ASSUME Addr!AddressesAssumption, MInv, Addr!Dot PROVE MInv'
<1>1. WInv /\ WInv' /\ parsed = NoKey /\ Follows(Run(text)[i - 1], depth, current, segments)
  BY DotW DEF MInv, Addr!Dot, Addr!Reading
<1>2. /\ Addr!Reading /\ text[i] = "." /\ depth = 0 /\ i' = i + 1 /\ UNCHANGED <<text, depth>>
  BY DEF Addr!Dot, Addr!Next1
<1>3. current \in Seq(Chars) /\ segments \in Seq(Segments)
  BY <1>1 DEF WInv
<1>4. CASE Addr!Ok(Addr!ParseSegment(current))
  <2>1. segments' = Append(segments, Addr!ParseSegment(current)) /\ current' = <<>> /\ parsed' = parsed
    BY <1>4 DEF Addr!Dot
  <2>2. PICK st : st = Run(text)[i - 1]
    OBVIOUS
  <2>3. Follows(st, 0, current, segments)
    BY <1>1, <1>2, <2>2
  <2>4. Follows(Addr!MirrorChar(st, "."), 0, <<>>, segments')
    BY <1>3, <1>4, <2>1, <2>3, NoKeyIs, FollowsDot
  <2>5. i' - 1 = i /\ Run(text)[i] = Addr!MirrorChar(st, ".")
    BY <1>1, <1>2, <2>2, TurnIs, ReadingFacts
  <2>6. QED
    BY <1>1, <1>2, <2>1, <2>4, <2>5 DEF MInv
<1>5. CASE ~Addr!Ok(Addr!ParseSegment(current))
  <2>1. parsed' = Addr!ParseSegment(current)
    BY <1>5 DEF Addr!Dot
  <2>2. parsed' # NoKey
    BY <1>3, <1>5, <2>1, SegmentFails
  <2>3. MirrorReadsAddresses'
    BY <1>5, <2>1 DEF MirrorReadsAddresses, Addr!MirrorReadsAddresses, Addr!Parsed
  <2>4. QED
    BY <1>1, <2>2, <2>3 DEF MInv
<1>6. QED
  BY <1>4, <1>5

\* At the end of the text the mirror adds the segment it holds.
LEMMA MirrorEnds ==
    ASSUME NEW t \in Seq(Chars), NEW cur \in Seq(Chars), NEW segs \in Seq(Segments),
           NoKey \notin Seq(Chars), Addr!Ok(Addr!ParseSegment(cur)), Follows(Run(t)[Len(t)], 0, cur, segs),
           Plain(Addr!ParseSegment(cur)), \A n \in DOMAIN segs : Plain(segs[n])
    PROVE  Addr!MirrorParse(t) = [address |-> Append(segs, Addr!ParseSegment(cur))]
<1>1. PICK st : st = Run(t)[Len(t)]
  OBVIOUS
<1>2. Follows(st, 0, cur, segs)
  BY <1>1
<1>3. PICK name, key : name # <<>> /\ Addr!ParseSegment(cur) = Addr!Segment(name, key) /\ st = Outside(segs, name, key)
  BY <1>2, FollowsSegment
<1>4. PICK s \in Segments : s = Addr!ParseSegment(cur)
  BY ParseSegmentIs
<1>5. PICK all : all = Append(segs, s)
  OBVIOUS
<1>6. all # <<>>
  <2>1. all \in Seq(Segments) /\ Len(all) = Len(segs) + 1 /\ Len(segs) \in Nat
    BY <1>5, Appends
  <2>2. QED
    BY <2>1
<1>7. st.name = name /\ st.segments = segs /\ st.key = key /\ ~st.failed /\ ~st.inside
  BY <1>3 DEF Outside
<1>8. Addr!FoldLeft(Addr!MirrorChar, Addr!MirrorStart, t) = st
  BY <1>1, MirrorRuns DEF Turns
<1>9. Append(st.segments, Addr!Segment(st.name, st.key)) = all
  BY <1>3, <1>4, <1>5, <1>7
<1>10. QED
  BY <1>3, <1>4, <1>5, <1>6, <1>7, <1>8, <1>9 DEF Addr!MirrorParse

LEMMA FinishM == ASSUME Addr!AddressesAssumption, MInv, Addr!Finish PROVE MInv'
<1>1. WInv /\ WInv' /\ parsed = NoKey /\ Follows(Run(text)[i - 1], depth, current, segments)
  BY FinishW DEF MInv, Addr!Finish
<1>2. i > Len(text) /\ UNCHANGED <<text, i, depth, current, segments>>
  BY DEF Addr!Finish
<1>3. /\ text \in Seq(Chars) /\ current \in Seq(Chars) /\ segments \in Seq(Segments)
      /\ i - 1 = Len(text)
  BY <1>1, <1>2 DEF WInv
<1>4. parsed' = IF text = <<>> THEN Addr!Error("Empty")
                ELSE IF depth # 0 THEN Addr!Error("Unbalanced")
                ELSE IF Addr!Ok(Addr!ParseSegment(current))
                THEN [address |-> Append(segments, Addr!ParseSegment(current))] ELSE Addr!ParseSegment(current)
  BY DEF Addr!Finish
<1>5. parsed' # NoKey /\ MirrorReadsAddresses'
  <2>1. ASSUME NEW e \in Addr!Errors, parsed' = Addr!Error(e) PROVE parsed' # NoKey /\ ~Addr!Ok(parsed')
    <3>1. Addr!Error(e) \in Addr!Results
      BY DEF Addr!Error, Addr!Results
    <3>2. QED
      BY <2>1, <3>1 DEF Addr!AddressesAssumption, Addr!Error, Addr!Ok
  <2>2. ~Addr!Ok(parsed') => MirrorReadsAddresses'
    BY DEF MirrorReadsAddresses, Addr!MirrorReadsAddresses, Addr!Parsed
  <2>3. "Empty" \in Addr!Errors /\ "Unbalanced" \in Addr!Errors
    BY DEF Addr!Errors
  <2>4. CASE text = <<>>
    BY <1>4, <2>1, <2>2, <2>3, <2>4
  <2>5. CASE text # <<>> /\ depth # 0
    BY <1>4, <2>1, <2>2, <2>3, <2>5
  <2>6. CASE text # <<>> /\ depth = 0 /\ ~Addr!Ok(Addr!ParseSegment(current))
    BY <1>3, <1>4, <2>2, <2>6, SegmentFails
  <2>7. CASE text # <<>> /\ depth = 0 /\ Addr!Ok(Addr!ParseSegment(current))
    <3>1. PICK s \in Segments : s = Addr!ParseSegment(current)
      BY <1>3, <2>7, NoKeyIs, ParseSegmentIs
    <3>2. PICK a : a = Append(segments, s)
      OBVIOUS
    <3>3. a \in Seq(Segments)
      BY <1>3, <3>2, Appends
    <3>4. parsed' = [address |-> a]
      BY <1>4, <2>7, <3>1, <3>2
    <3>5. parsed'.address = a /\ DOMAIN parsed' = {"address"}
      BY <3>4
    <3>6. parsed' # NoKey
      <4>1. [address |-> a] \in Addr!Results
        BY <3>3 DEF Addr!Results, Segments
      <4>2. QED
        BY <3>4, <4>1 DEF Addr!AddressesAssumption
    <3>7. ASSUME \A n \in DOMAIN a : a[n].key # NoKey => "[" \notin Addr!Range(a[n].key)
          PROVE  Addr!MirrorParse(text) = [address |-> a]
      <4>1. \A n \in DOMAIN a : a[n] \in Segments
        BY <3>3
      <4>2. \A n \in DOMAIN a : Plain(a[n])
        BY <3>7, <4>1, PlainIs
      <4>3. Plain(s) /\ \A n \in DOMAIN segments : Plain(segments[n])
        BY <1>3, <3>2, <4>2, PlainAppend
      <4>4. Follows(Run(text)[Len(text)], 0, current, segments)
        BY <1>1, <1>3, <2>7
      <4>5. QED
        BY <1>3, <2>7, <3>1, <3>2, <4>3, <4>4, NoKeyIs, MirrorEnds
    <3>8. Addr!Ok([address |-> a]) /\ [address |-> a].address = a
      BY <3>4, <3>5 DEF Addr!Ok
    <3>9. MirrorReadsAddresses'
      BY <1>2, <3>5, <3>7, <3>8 DEF MirrorReadsAddresses, Addr!MirrorReadsAddresses, Addr!Found
    <3>10. QED
      BY <3>6, <3>9
  <2>8. QED
    BY <2>4, <2>5, <2>6, <2>7
<1>6. QED
  BY <1>1, <1>5 DEF MInv

LEMMA NextM == ASSUME Addr!AddressesAssumption, MInv, [Addr!Next]_(Addr!vars) PROVE MInv'
<1>1. CASE Addr!Next
  BY <1>1, OpenM, CloseM, DotM, OtherM, FinishM DEF Addr!Next
<1>2. CASE UNCHANGED Addr!vars
  <2>1. WInv'
    BY <1>2, NextW DEF MInv
  <2>2. UNCHANGED <<text, i, depth, current, segments, parsed>>
    BY <1>2 DEF Addr!vars
  <2>3. MirrorReadsAddresses => MirrorReadsAddresses'
    BY <2>2 DEF MirrorReadsAddresses, Addr!MirrorReadsAddresses, Addr!Parsed, Addr!Found
  <2>4. QED
    BY <2>1, <2>2, <2>3 DEF MInv
<1>3. QED
  BY <1>1, <1>2

LEMMA MirrorM == ASSUME MInv PROVE MirrorReadsAddresses
BY DEF MInv, MirrorReadsAddresses, Addr!MirrorReadsAddresses, Addr!Parsed

\* Of any text: what Address::parse reads, if no key has a bracket of its own, the
\* Python mirror reads as the same address (rust_pipeline_federation.py:47).
THEOREM MirrorAgrees == ASSUME Addr!AddressesAssumption PROVE Addr!Spec => []MirrorReadsAddresses
<1>1. Addr!Init => MInv
  BY InitM
<1>2. MInv /\ [Addr!Next]_(Addr!vars) => MInv'
  BY NextM
<1>3. MInv => MirrorReadsAddresses
  BY MirrorM
<1>4. QED
  BY <1>1, <1>2, <1>3, PTL DEF Addr!Spec
=============================================================================
