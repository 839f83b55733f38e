--------------------------- MODULE SequenceLemmas ---------------------------
(***************************************************************************)
(* Induction over the naturals, and the sequences that FlattenSeq makes of *)
(* sequences.                                                              *)
(***************************************************************************)
EXTENDS Naturals, SequencesExt, SequenceTheorems, FiniteSetTheorems, TLAPS

-----------------------------------------------------------------------------
\* Induction over the naturals, for sets of them: if n were missing from P, adding one would map
\* the members of P up to n into those of them that are not 0, which are fewer.

LEMMA SetInduction ==
  ASSUME NEW P, 0 \in P, \A n \in Nat : n \in P => n + 1 \in P
  PROVE  Nat \subseteq P
<1> SUFFICES ASSUME NEW n \in Nat, n \notin P PROVE FALSE
  OBVIOUS
<1> DEFINE Q == {k \in 0..n : k \in P}
           R == Q \ {0}
           f == [k \in Q |-> k + 1]
<1>1. IsFiniteSet(Q) /\ Q \subseteq 0..n
  <2>1. IsFiniteSet(0..n)
    BY FS_Interval
  <2> QED
    BY <2>1, FS_Subset
<1>2. 0 \in Q
  OBVIOUS
<1>3. IsFiniteSet(R) /\ Cardinality(R) = Cardinality(Q) - 1 /\ Cardinality(Q) \in Nat
  BY <1>1, <1>2, FS_RemoveElement, FS_CardinalityType
<1>4. f \in [Q -> R]
  OBVIOUS
<1>5. \A x, y \in Q : x /= y => f[x] /= f[y]
  OBVIOUS
<1> QED
  <2> HIDE DEF Q, R, f
  <2>1. Cardinality(R) < Cardinality(Q)
    BY <1>3
  <2> QED
    BY <1>1, <1>3, <1>4, <1>5, <2>1, FS_PigeonHole

-----------------------------------------------------------------------------
\* FlattenSeq puts one sequence after the other.

Flat(seqs, g, k) == IF k = 1 THEN seqs[k] ELSE g[k - 1] \o seqs[k]

IsFlat(seqs, g, n) == g = [k \in 1..n |-> Flat(seqs, g, k)]

LEMMA FlatExists ==
  ASSUME NEW seqs, NEW n \in Nat
  PROVE  \E g : IsFlat(seqs, g, n)
<1> DEFINE P == {m \in Nat : \E g : IsFlat(seqs, g, m)}
<1>1. 0 \in P
  <2> DEFINE g == [k \in 1..0 |-> seqs[k]]
  <2>1. 1..0 = {}
    OBVIOUS
  <2>2. IsFlat(seqs, g, 0)
    BY <2>1 DEF IsFlat
  <2> QED
    BY <2>2
<1>2. \A m \in Nat : m \in P => m + 1 \in P
  <2> SUFFICES ASSUME NEW m \in Nat, NEW g, IsFlat(seqs, g, m)
               PROVE  \E h : IsFlat(seqs, h, m + 1)
    OBVIOUS
  <2> DEFINE h == [k \in 1..m + 1 |-> Flat(seqs, g, k)]
  <2>1. \A k \in 1..m : h[k] = g[k]
    BY DEF IsFlat
  <2>2. \A k \in 1..m + 1 : Flat(seqs, h, k) = Flat(seqs, g, k)
    <3> SUFFICES ASSUME NEW k \in 1..m + 1 PROVE Flat(seqs, h, k) = Flat(seqs, g, k)
      OBVIOUS
    <3>1. k = 1 \/ k - 1 \in 1..m
      OBVIOUS
    <3> HIDE DEF h
    <3> QED
      BY <2>1, <3>1 DEF Flat
  <2>3. IsFlat(seqs, h, m + 1)
    BY <2>2 DEF IsFlat
  <2> QED
    BY <2>3
<1>3. Nat \subseteq P
  <2> HIDE DEF P
  <2> QED
    BY <1>1, <1>2, SetInduction
<1> QED
  BY <1>3

FlatOf(seqs) == CHOOSE g : IsFlat(seqs, g, Len(seqs))

\* FlattenSeq, one sequence after another.
LEMMA FlattenSteps ==
  ASSUME NEW seqs, Len(seqs) \in Nat
  PROVE  /\ Len(seqs) = 0 => FlattenSeq(seqs) = seqs
         /\ Len(seqs) > 0 => FlattenSeq(seqs) = FlatOf(seqs)[Len(seqs)]
         /\ Len(seqs) > 0 => FlatOf(seqs)[1] = seqs[1]
         /\ \A k \in 1..Len(seqs) - 1 :
              FlatOf(seqs)[k + 1] = FlatOf(seqs)[k] \o seqs[k + 1]
<1> DEFINE n == Len(seqs)
           g == FlatOf(seqs)
<1>1. IsFlat(seqs, g, n)
  BY FlatExists DEF FlatOf
<1>2. n = 0 => FlattenSeq(seqs) = seqs
  BY DEF FlattenSeq
<1>3. n > 0 => FlattenSeq(seqs) = g[n]
  BY DEF FlattenSeq, FlatOf, IsFlat, Flat
<1>4. n \in Nat
  OBVIOUS
<1> HIDE DEF g, n
<1>5. \A k \in 1..n : g[k] = Flat(seqs, g, k)
  BY <1>1 DEF IsFlat
<1>6. n > 0 => g[1] = seqs[1]
  BY <1>4, <1>5 DEF Flat
<1>7. ASSUME NEW k \in 1..n - 1 PROVE g[k + 1] = g[k] \o seqs[k + 1]
  <2> DEFINE m == k + 1
  <2>1. m \in 1..n /\ m /= 1 /\ m - 1 = k
    BY <1>4
  <2>2. g[m] = Flat(seqs, g, m)
    BY <1>5, <2>1
  <2> HIDE DEF m
  <2>3. g[m] = g[k] \o seqs[m]
    BY <2>1, <2>2 DEF Flat
  <2> QED
    BY <2>3 DEF m
<1> QED
  BY <1>2, <1>3, <1>6, <1>7 DEF n, g

\* FlattenSeq, one sequence after another.
LEMMA FlattenTexts ==
  ASSUME NEW S, NEW seqs \in Seq(Seq(S))
  PROVE  \E h \in [0..Len(seqs) -> Seq(S)] :
           /\ h[0] = <<>> /\ h[Len(seqs)] = FlattenSeq(seqs)
           /\ \A k \in 1..Len(seqs) : h[k] = h[k - 1] \o seqs[k]
<1> DEFINE n == Len(seqs)
           g == FlatOf(seqs)
           h == [k \in 0..n |-> IF k = 0 THEN <<>> ELSE g[k]]
<1>0. n \in Nat /\ \A k \in 1..n : seqs[k] \in Seq(S)
  OBVIOUS
<1>1. /\ n = 0 => FlattenSeq(seqs) = seqs
      /\ n > 0 => FlattenSeq(seqs) = g[n] /\ g[1] = seqs[1]
      /\ \A k \in 1..n - 1 : g[k + 1] = g[k] \o seqs[k + 1]
  BY <1>0, FlattenSteps
<1>2. n = 0 => seqs = <<>>
  OBVIOUS
<1> HIDE DEF g, n
<1>3. h[0] = <<>> /\ \A k \in 1..n : h[k] = g[k]
  BY <1>0
<1>4. h[n] = FlattenSeq(seqs)
  BY <1>0, <1>1, <1>2, <1>3
<1> HIDE DEF h
<1>5. ASSUME NEW k \in 1..n, h[k - 1] \in Seq(S)
      PROVE  h[k] = h[k - 1] \o seqs[k] /\ h[k] \in Seq(S)
  <2>1. CASE k = 1
    <3>1. h[k] = seqs[1] /\ h[k - 1] = <<>> /\ seqs[1] \in Seq(S)
      BY <1>0, <1>1, <1>3, <2>1
    <3>2. h[k - 1] \o seqs[k] = seqs[1]
      BY <2>1, <3>1
    <3> QED
      BY <2>1, <3>1, <3>2
  <2>2. CASE k /= 1
    <3> DEFINE j == k - 1
    <3>1. j \in 1..n - 1 /\ j \in 1..n /\ j + 1 = k
      BY <1>0, <2>2
    <3>2. h[j] \in Seq(S)
      BY <1>5
    <3> HIDE DEF j
    <3>3. h[k] = h[j] \o seqs[k] /\ seqs[k] \in Seq(S)
      BY <1>0, <1>1, <1>3, <3>1
    <3>4. h[k] \in Seq(S)
      BY <3>2, <3>3
    <3> QED
      BY <3>3, <3>4 DEF j
  <2> QED
    BY <2>1, <2>2
<1> DEFINE P == {m \in Nat : m <= n => h[m] \in Seq(S)}
<1>6. 0 \in P
  <2>1. h[0] \in Seq(S)
    BY <1>3
  <2> QED
    BY <1>0, <2>1
<1>7. \A m \in Nat : m \in P => m + 1 \in P
  <2> SUFFICES ASSUME NEW m \in Nat, m + 1 <= n, h[m] \in Seq(S) PROVE h[m + 1] \in Seq(S)
    BY <1>0
  <2> DEFINE x == m + 1
  <2>1. x \in 1..n /\ x - 1 = m
    BY <1>0
  <2> HIDE DEF x
  <2>2. h[x] \in Seq(S)
    BY <1>5, <2>1
  <2> QED
    BY <2>2 DEF x
<1>8. Nat \subseteq P
  <2> HIDE DEF P
  <2> QED
    BY <1>6, <1>7, SetInduction
<1>9. \A k \in 0..n : h[k] \in Seq(S)
  BY <1>0, <1>8
<1>10. ASSUME NEW k \in 1..n PROVE h[k] = h[k - 1] \o seqs[k]
  <2>1. k - 1 \in 0..n
    BY <1>0
  <2> HIDE DEF P
  <2> QED
    BY <1>5, <1>9, <2>1
<1>11. h \in [0..n -> Seq(S)]
  BY <1>9 DEF h
<1> QED
  BY <1>3, <1>4, <1>10, <1>11 DEF n

LEMMA FlattenType ==
  ASSUME NEW S, NEW seqs \in Seq(Seq(S))
  PROVE  FlattenSeq(seqs) \in Seq(S)
<1>1. Len(seqs) \in 0..Len(seqs)
  OBVIOUS
<1>2. PICK h \in [0..Len(seqs) -> Seq(S)] : h[Len(seqs)] = FlattenSeq(seqs)
  BY FlattenTexts
<1> QED
  BY <1>1, <1>2

LEMMA ConsOf ==
  ASSUME NEW S, NEW e \in S, NEW s \in Seq(S)
  PROVE  /\ <<e>> \o s \in Seq(S) /\ <<e>> \o s # <<>> /\ Len(<<e>> \o s) = Len(s) + 1
         /\ Head(<<e>> \o s) = e /\ Tail(<<e>> \o s) = s
<1>1. <<e>> \o s \in Seq(S) /\ Len(<<e>> \o s) = Len(s) + 1
  OBVIOUS
<1>2. <<e>> \o s # <<>> /\ Head(<<e>> \o s) = e
  BY <1>1
<1>3. Tail(<<e>> \o s) \in Seq(S) /\ Len(Tail(<<e>> \o s)) = Len(s)
  BY <1>1
<1>4. \A i \in 1..Len(s) : Tail(<<e>> \o s)[i] = s[i]
  BY <1>1
<1>5. Tail(<<e>> \o s) = s
  BY <1>3, <1>4
<1> QED
  BY <1>1, <1>2, <1>5

LEMMA Assoc ==
  ASSUME NEW S, NEW s \in Seq(S), NEW t \in Seq(S), NEW u \in Seq(S)
  PROVE  (s \o t) \o u = s \o (t \o u)
BY ConcatAssociative

LEMMA Uncons ==
  ASSUME NEW S, NEW s \in Seq(S), s # <<>>
  PROVE  /\ Head(s) \in S /\ Tail(s) \in Seq(S) /\ Len(s) = Len(Tail(s)) + 1
         /\ s[1] = Head(s) /\ \A i \in 1..Len(Tail(s)) : s[i + 1] = Tail(s)[i]
OBVIOUS

\* FlattenSeq from the front.
LEMMA FlattenHead ==
  ASSUME NEW S, NEW seqs \in Seq(Seq(S)), seqs # <<>>
  PROVE  FlattenSeq(seqs) = Head(seqs) \o FlattenSeq(Tail(seqs))
<1> DEFINE n == Len(Tail(seqs))
<1>0. /\ Head(seqs) \in Seq(S) /\ Tail(seqs) \in Seq(Seq(S)) /\ Len(seqs) = n + 1 /\ n \in Nat
      /\ seqs[1] = Head(seqs) /\ \A i \in 1..n : seqs[i + 1] = Tail(seqs)[i]
      /\ \A i \in 1..n : Tail(seqs)[i] \in Seq(S)
  OBVIOUS
<1>1. PICK h :
        /\ h \in [0..Len(seqs) -> Seq(S)] /\ h[0] = <<>> /\ h[Len(seqs)] = FlattenSeq(seqs)
        /\ \A k \in 1..Len(seqs) : h[k] = h[k - 1] \o seqs[k]
  <2>1. \E h \in [0..Len(seqs) -> Seq(S)] :
          /\ h[0] = <<>> /\ h[Len(seqs)] = FlattenSeq(seqs)
          /\ \A k \in 1..Len(seqs) : h[k] = h[k - 1] \o seqs[k]
    BY FlattenTexts
  <2> QED
    BY <2>1
<1>2. PICK g :
        /\ g \in [0..n -> Seq(S)] /\ g[0] = <<>> /\ g[n] = FlattenSeq(Tail(seqs))
        /\ \A k \in 1..n : g[k] = g[k - 1] \o Tail(seqs)[k]
  <2>1. \E g \in [0..n -> Seq(S)] :
          /\ g[0] = <<>> /\ g[n] = FlattenSeq(Tail(seqs))
          /\ \A k \in 1..n : g[k] = g[k - 1] \o Tail(seqs)[k]
    BY <1>0, FlattenTexts
  <2> QED
    BY <2>1
<1> DEFINE a == Head(seqs)
           Q(m) == m <= n => h[m + 1] = a \o g[m]
           P == {m \in Nat : Q(m)}
<1> HIDE DEF n, a
<1>3. Q(0)
  <2>1. h[1] = h[0] \o seqs[1] /\ seqs[1] = a /\ a \in Seq(S)
    <3>1. 1 \in 1..Len(seqs) /\ 1 - 1 = 0
      BY <1>0
    <3>2. h[1] = h[1 - 1] \o seqs[1]
      BY <1>1, <3>1
    <3> QED
      BY <1>0, <3>1, <3>2 DEF a
  <2>2. h[1] = a /\ a \o g[0] = a
    BY <1>1, <1>2, <2>1
  <2> QED
    BY <2>2
<1>4. ASSUME NEW m \in Nat, Q(m), m + 1 <= n
      PROVE  h[(m + 1) + 1] = a \o g[m + 1]
  <2>0. n \in Nat /\ m <= n
    BY <1>0, <1>4
  <2>00. h[m + 1] = a \o g[m]
    BY <1>4, <2>0
  <2> DEFINE k == m + 1
             l == k + 1
  <2>1. /\ k \in 1..n /\ k - 1 = m /\ l \in 1..Len(seqs) /\ l - 1 = k /\ m \in 0..n
        /\ seqs[l] = Tail(seqs)[k] /\ h[k] = a \o g[m]
    BY <1>0, <1>4, <2>00
  <2> HIDE DEF k, l
  <2>2. h[l] = h[k] \o seqs[l] /\ g[k] = g[m] \o Tail(seqs)[k]
    BY <1>1, <1>2, <2>1
  <2>3. g[m] \in Seq(S) /\ Tail(seqs)[k] \in Seq(S) /\ a \in Seq(S)
    BY <1>0, <1>2, <2>1 DEF a
  <2> DEFINE t == Tail(seqs)[k]
             u == g[m]
  <2>4. /\ h[k] = a \o u /\ g[k] = u \o t /\ h[l] = h[k] \o t
        /\ a \in Seq(S) /\ u \in Seq(S) /\ t \in Seq(S)
    BY <2>1, <2>2, <2>3
  <2> HIDE DEF t, u, P, Q
  <2>5. a \in Seq(S) /\ u \in Seq(S) /\ t \in Seq(S)
    BY <2>4
  <2>6. (a \o u) \o t = a \o (u \o t)
    BY <2>5, Assoc, SMTT(40)
  <2>7. h[l] = a \o g[k]
    BY <2>4, <2>6
  <2> QED
    BY <2>7 DEF l, k
<1>5. \A m \in Nat : Q(m) => Q(m + 1)
  BY <1>4
<1> HIDE DEF Q
<1>6. 0 \in P /\ \A m \in Nat : m \in P => m + 1 \in P
  BY <1>3, <1>5
<1>7. Nat \subseteq P
  <2> HIDE DEF P
  <2> QED
    BY <1>6, SetInduction
<1>8. n \in Nat /\ Q(n)
  BY <1>0, <1>7
<1>9. h[n + 1] = a \o g[n]
  BY <1>8 DEF Q
<1> QED
  BY <1>0, <1>1, <1>2, <1>9 DEF a

\* The images of the entries of a sequence.
Each(F, s) == [i \in DOMAIN s |-> F[s[i]]]

Maps(F, T, S) == F \in [T -> S]

LEMMA EachType ==
  ASSUME NEW S, NEW T, NEW F, Maps(F, T, S), NEW s \in Seq(T)
  PROVE  /\ Each(F, s) \in Seq(S) /\ Len(Each(F, s)) = Len(s)
         /\ \A i \in 1..Len(s) : Each(F, s)[i] = F[s[i]]
<1>1. DOMAIN s = 1..Len(s) /\ Len(s) \in Nat /\ \A i \in DOMAIN s : s[i] \in T
  OBVIOUS
<1> QED
  BY <1>1 DEF Each, Maps

\* The same, where the sequences are the images of a function.
LEMMA FlattenEach ==
  ASSUME NEW S, NEW T, NEW F \in [T -> Seq(S)], NEW s \in Seq(T)
  PROVE  /\ Each(F, s) \in Seq(Seq(S)) /\ FlattenSeq(Each(F, s)) \in Seq(S)
         /\ s = <<>> => FlattenSeq(Each(F, s)) = <<>>
         /\ s # <<>> => FlattenSeq(Each(F, s)) = F[Head(s)] \o FlattenSeq(Each(F, Tail(s)))
<1> DEFINE e == Each(F, s)
<1>1. Maps(F, T, Seq(S))
  BY DEF Maps
<1>2. e \in Seq(Seq(S)) /\ Len(e) = Len(s) /\ \A i \in 1..Len(s) : e[i] = F[s[i]]
  BY <1>1, EachType
<1>3. FlattenSeq(e) \in Seq(S)
  <2> HIDE DEF e
  <2> QED
    BY <1>2, FlattenType
<1>4. ASSUME s = <<>> PROVE FlattenSeq(e) = <<>>
  <2> HIDE DEF e
  <2>1. Len(e) = 0 /\ e = <<>>
    BY <1>2, <1>4
  <2>2. FlattenSeq(e) = e
    BY <2>1, FlattenSteps
  <2> QED
    BY <2>1, <2>2
<1>5. ASSUME s # <<>>
      PROVE  FlattenSeq(e) = F[Head(s)] \o FlattenSeq(Each(F, Tail(s)))
  <2> DEFINE t == Tail(s)
             f == Each(F, t)
  <2>1. /\ Head(s) \in T /\ t \in Seq(T) /\ Len(s) = Len(t) + 1 /\ s[1] = Head(s)
        /\ \A i \in 1..Len(t) : s[i + 1] = t[i]
    BY <1>5, Uncons
  <2> HIDE DEF t
  <2>2. Len(t) \in Nat
    BY <2>1
  <2>3. f \in Seq(Seq(S)) /\ Len(f) = Len(t) /\ \A i \in 1..Len(t) : f[i] = F[t[i]]
    BY <1>1, <2>1, EachType
  <2> HIDE DEF t, f, e
  <2>4. Len(e) = Len(f) + 1 /\ e # <<>>
    BY <1>2, <2>1, <2>2, <2>3
  <2>5. /\ Head(e) = e[1] /\ Tail(e) \in Seq(Seq(S)) /\ Len(Tail(e)) = Len(f)
        /\ \A i \in 1..Len(f) : Tail(e)[i] = e[i + 1]
    BY <1>2, <2>3, <2>4
  <2>6. ASSUME NEW i \in 1..Len(f) PROVE Tail(e)[i] = f[i]
    <3> DEFINE k == i + 1
    <3>1. k \in 1..Len(s) /\ s[k] = t[i] /\ i \in 1..Len(t) /\ Tail(e)[i] = e[k]
      BY <2>1, <2>2, <2>3, <2>5
    <3> HIDE DEF k
    <3> QED
      BY <1>2, <2>3, <3>1
  <2>a. Len(Tail(e)) = Len(f) /\ \A i \in 1..Len(Tail(e)) : Tail(e)[i] = f[i]
    BY <2>5, <2>6
  <2>b. Tail(e) \in Seq(Seq(S)) /\ f \in Seq(Seq(S))
    BY <2>3, <2>5
  <2>7. Tail(e) = f
    BY <2>a, <2>b, SeqEqual
  <2>8. Head(e) = F[Head(s)]
    <3>1. 1 \in 1..Len(s)
      BY <2>1, <2>2
    <3> QED
      BY <1>2, <2>1, <2>5, <3>1
  <2>9. FlattenSeq(e) = Head(e) \o FlattenSeq(Tail(e))
    BY <1>2, <2>4, FlattenHead
  <2> QED
    BY <2>7, <2>8, <2>9 DEF t, f
<1> QED
  BY <1>2, <1>3, <1>4, <1>5
=============================================================================
