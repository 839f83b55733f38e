------------------------- MODULE InterpolateProofs -------------------------
(***************************************************************************)
(* Facts about the texts of Interpolate: where tokens start and end, what  *)
(* each step of the scanner finds, and what becomes of the tokens when     *)
(* texts are joined.                                                       *)
(***************************************************************************)
EXTENDS Interpolate, SequenceLemmas, FiniteSetTheorems, TLAPS

\* The characters of statements and of arguments.
Letter == Chars \cup {"b"}

LEMMA StatementsAreTexts == Seq(Chars) \subseteq Seq(Letter)
<1>1. Chars \subseteq Letter
  BY DEF Letter
<1> HIDE DEF Letter
<1> QED
  BY <1>1

-----------------------------------------------------------------------------
\* A set of naturals that is not empty has a least element.
LEMMA LeastElement ==
  ASSUME NEW S, S \subseteq Nat, S /= {}
  PROVE  Min(S) \in S /\ \A x \in S : Min(S) <= x
<1> DEFINE P == {n \in Nat : \A m \in 0..n : m \notin S}
<1>1. \E x \in S : \A y \in S : x <= y
  <2> SUFFICES ASSUME \A x \in S : \E y \in S : y < x PROVE FALSE
    OBVIOUS
  <2>1. 0 \in P
    OBVIOUS
  <2>2. \A n \in Nat : n \in P => n + 1 \in P
    <3> SUFFICES ASSUME NEW n \in Nat, n \in P, n + 1 \in S PROVE FALSE
      OBVIOUS
    <3>1. PICK y \in S : y < n + 1
      OBVIOUS
    <3> QED
      BY <3>1
  <2>3. Nat \subseteq P
    <3> HIDE DEF P
    <3> QED
      BY <2>1, <2>2, SetInduction
  <2>4. PICK x \in S : TRUE
    OBVIOUS
  <2>5. x \in P /\ x \in 0..x
    BY <2>3
  <2> QED
    BY <2>4, <2>5
<1> QED
  BY <1>1 DEF Min

\* The recursive definition in TokenStarts has a meaning: a function on 0..n has one more value.

UpTo(s, g, k) ==
  IF k = 0 THEN {1}
  ELSE LET S == g[k - 1] IN IF k \in S THEN S \cup {TokenEnd(s, k) + 1} ELSE S

IsUpTo(s, g, n) == g = [k \in 0..n |-> UpTo(s, g, k)]

LEMMA UpToExists ==
  ASSUME NEW s, NEW n \in Nat
  PROVE  \E g : IsUpTo(s, g, n)
<1> DEFINE P == {m \in Nat : \E g : IsUpTo(s, g, m)}
<1>1. 0 \in P
  <2> DEFINE g == [k \in 0..0 |-> {1}]
  <2>1. \A k \in 0..0 : UpTo(s, g, k) = {1}
    BY DEF UpTo
  <2>2. IsUpTo(s, g, 0)
    BY <2>1 DEF IsUpTo
  <2> QED
    BY <2>2
<1>2. \A m \in Nat : m \in P => m + 1 \in P
  <2> SUFFICES ASSUME NEW m \in Nat, NEW g, IsUpTo(s, g, m)
               PROVE  \E h : IsUpTo(s, h, m + 1)
    OBVIOUS
  <2> DEFINE h == [k \in 0..m + 1 |-> UpTo(s, g, k)]
  <2>1. \A k \in 0..m : h[k] = g[k]
    BY DEF IsUpTo
  <2>2. \A k \in 0..m + 1 : UpTo(s, h, k) = UpTo(s, g, k)
    <3> SUFFICES ASSUME NEW k \in 0..m + 1 PROVE UpTo(s, h, k) = UpTo(s, g, k)
      OBVIOUS
    <3>1. k = 0 \/ k - 1 \in 0..m
      OBVIOUS
    <3> HIDE DEF h
    <3> QED
      BY <2>1, <3>1 DEF UpTo
  <2>3. IsUpTo(s, h, m + 1)
    BY <2>2 DEF IsUpTo
  <2> QED
    BY <2>3
<1>3. Nat \subseteq P
  <2> HIDE DEF P
  <2> QED
    BY <1>1, <1>2, SetInduction
<1> QED
  BY <1>3

LEMMA TokenEndBounds ==
  ASSUME NEW s \in Seq(Letter), NEW k \in 1..Len(s)
  PROVE  TokenEnd(s, k) \in k..Len(s)
<1> DEFINE n == Len(s)
<1>0. n \in Nat /\ k \in 1..n
  OBVIOUS
<1>1. \A S : S \subseteq k..n => FirstOr(S, n) \in k..n
  <2> SUFFICES ASSUME NEW S, S \subseteq k..n PROVE FirstOr(S, n) \in k..n
    OBVIOUS
  <2>1. S /= {} => Min(S) \in S
    <3>1. S \subseteq Nat
      BY <1>0
    <3> QED
      BY <3>1, LeastElement
  <2> QED
    <3> HIDE DEF n
    <3>1. CASE S = {}
      BY <1>0, <3>1 DEF FirstOr
    <3>2. CASE S /= {}
      BY <2>1, <3>2 DEF FirstOr
    <3> QED
      BY <3>1, <3>2
<1>2. QuoteEnds(s, k) \subseteq k..n /\ BlockEnds(s, k) \subseteq k..n /\ LineEnds(s, k) \subseteq k..n
  BY <1>0 DEF QuoteEnds, BlockEnds, LineEnds
<1>3. k \in k..n
  BY <1>0
<1> HIDE DEF n
<1> QED
  BY <1>1, <1>2, <1>3 DEF TokenEnd, n

UpToOf(s) == CHOOSE g : IsUpTo(s, g, Len(s))

LEMMA TokenStartsDef ==
  ASSUME NEW s \in Seq(Letter)
  PROVE  /\ IsUpTo(s, UpToOf(s), Len(s))
         /\ TokenStarts(s) = (1..Len(s)) \cap UpToOf(s)[Len(s)]
<1>1. IsUpTo(s, UpToOf(s), Len(s))
  BY UpToExists DEF UpToOf
<1>2. TokenStarts(s) = (1..Len(s)) \cap UpToOf(s)[Len(s)]
  BY DEF TokenStarts, UpToOf, IsUpTo, UpTo
<1> QED
  BY <1>1, <1>2

\* What is known of the starts when the first k characters were looked at: one start lies behind
\* them, the others are up to k, and no token starts inside of another.
Tiled(s, S, k) ==
  /\ S \subseteq 1..Len(s) + 1 /\ 1 \in S
  /\ \E b \in S : b > k /\ \A a \in S : a > k => a = b
  /\ \A a \in S : a <= k => TokenEnd(s, a) + 1 \in S
  /\ \A a, b \in S : a < b => TokenEnd(s, a) < b

LEMMA UpToTiled ==
  ASSUME NEW s \in Seq(Letter), NEW k \in 0..Len(s)
  PROVE  Tiled(s, UpToOf(s)[k], k)
<1> DEFINE n == Len(s)
           g == UpToOf(s)
           P == {m \in Nat : m <= n => Tiled(s, g[m], m)}
<1>0. n \in Nat
  OBVIOUS
<1>1. \A m \in 0..n : g[m] = UpTo(s, g, m)
  BY TokenStartsDef DEF IsUpTo
<1>2. 0 \in P
  <2>1. g[0] = UpTo(s, g, 0)
    BY <1>0, <1>1
  <2> HIDE DEF g
  <2> QED
    BY <1>0, <2>1 DEF Tiled, UpTo
<1>3. \A m \in Nat : m \in P => m + 1 \in P
  <2> SUFFICES ASSUME NEW m \in Nat, m + 1 <= n, Tiled(s, g[m], m)
               PROVE  Tiled(s, g[m + 1], m + 1)
    BY <1>0
  <2> DEFINE S == g[m]
             e == TokenEnd(s, m + 1)
  <2>1. g[m + 1] = IF m + 1 \in S THEN S \cup {e + 1} ELSE S
    <3>1. g[m + 1] = UpTo(s, g, m + 1)
      BY <1>0, <1>1
    <3>2. m + 1 /= 0 /\ m + 1 - 1 = m
      OBVIOUS
    <3> HIDE DEF g, n
    <3> QED
      BY <3>1, <3>2 DEF UpTo
  <2>2. e \in m + 1..n
    BY TokenEndBounds, <1>0
  <2>3. PICK b \in S : b > m /\ \A a \in S : a > m => a = b
    BY DEF Tiled
  <2>4. S \subseteq 1..n + 1
    BY DEF Tiled
  <2>5. CASE m + 1 \in S
    <3>1. b = m + 1
      BY <2>3, <2>5
    <3>2. g[m + 1] = S \cup {e + 1}
      BY <2>1, <2>5
    <3>3. \A a \in S : a <= m + 1
      BY <2>3, <2>4, <3>1
    <3> HIDE DEF g, e, n
    <3>4. \A a \in S : TokenEnd(s, a) < e + 1
      <4> SUFFICES ASSUME NEW a \in S PROVE TokenEnd(s, a) < e + 1
        OBVIOUS
      <4>1. CASE a = m + 1
        BY <1>0, <2>2, <4>1 DEF e
      <4>2. CASE a < m + 1
        <5>1. TokenEnd(s, a) < m + 1
          BY <2>5, <4>2 DEF Tiled
        <5>2. TokenEnd(s, a) \in Nat
          <6>1. a \in 1..n
            BY <1>0, <2>4, <4>2
          <6> QED
            BY <6>1, <1>0, TokenEndBounds DEF n
        <5> QED
          BY <1>0, <2>2, <5>1, <5>2
      <4> QED
        BY <2>4, <3>3, <4>1, <4>2
    <3>5. g[m + 1] \subseteq 1..n + 1 /\ 1 \in g[m + 1]
      BY <1>0, <2>2, <2>4, <3>2 DEF Tiled
    <3>6. \E c \in g[m + 1] : c > m + 1 /\ \A a \in g[m + 1] : a > m + 1 => a = c
      <4>1. e + 1 \in g[m + 1]
        BY <3>2
      <4>2. e + 1 > m + 1 /\ \A a \in g[m + 1] : a > m + 1 => a = e + 1
        BY <1>0, <2>2, <2>4, <3>2, <3>3
      <4> QED
        BY <4>1, <4>2
    <3>7. \A a \in g[m + 1] : a <= m + 1 => TokenEnd(s, a) + 1 \in g[m + 1]
      <4> SUFFICES ASSUME NEW a \in S, a <= m + 1 PROVE TokenEnd(s, a) + 1 \in g[m + 1]
        BY <1>0, <2>2, <3>2
      <4>1. CASE a = m + 1
        BY <3>2, <4>1 DEF e
      <4>2. CASE a <= m
        BY <3>2, <4>2 DEF Tiled
      <4> QED
        BY <2>4, <4>1, <4>2
    <3>8. \A a, c \in g[m + 1] : a < c => TokenEnd(s, a) < c
      <4> SUFFICES ASSUME NEW a \in g[m + 1], NEW c \in g[m + 1], a < c
                   PROVE  TokenEnd(s, a) < c
        OBVIOUS
      <4>1. a \in S
        BY <1>0, <2>2, <2>4, <3>2, <3>3
      <4>2. CASE c \in S
        BY <4>1, <4>2 DEF Tiled
      <4>3. CASE c = e + 1
        BY <3>4, <4>1, <4>3
      <4> QED
        BY <3>2, <4>2, <4>3
    <3> QED
      BY <3>5, <3>6, <3>7, <3>8 DEF Tiled, n
  <2>6. CASE m + 1 \notin S
    <3>1. g[m + 1] = S
      BY <2>1, <2>6
    <3>2. b > m + 1 /\ \A a \in S : a > m + 1 => a = b
      BY <2>3, <2>4, <2>6, <1>0
    <3>3. \A a \in S : a <= m + 1 => a <= m
      BY <2>4, <2>6, <1>0
    <3> HIDE DEF g, n
    <3> QED
      BY <3>1, <3>2, <3>3 DEF Tiled
  <2> QED
    BY <2>5, <2>6
<1>4. Nat \subseteq P
  <2> HIDE DEF P
  <2> QED
    BY <1>2, <1>3, SetInduction
<1> QED
  BY <1>0, <1>4

LEMMA TokensTile ==
  ASSUME NEW s \in Seq(Letter)
  PROVE  /\ TokenStarts(s) \subseteq 1..Len(s)
         /\ Len(s) > 0 => 1 \in TokenStarts(s)
         /\ \A k \in TokenStarts(s) :
              TokenEnd(s, k) + 1 \in TokenStarts(s) \cup {Len(s) + 1}
         /\ \A j, k \in TokenStarts(s) : j < k => TokenEnd(s, j) < k
<1> DEFINE n == Len(s)
           S == UpToOf(s)[n]
<1>0. n \in Nat
  OBVIOUS
<1>1. TokenStarts(s) = (1..n) \cap S
  BY TokenStartsDef
<1>2. Tiled(s, S, n)
  BY <1>0, UpToTiled
<1>3. \A k \in 1..n : TokenEnd(s, k) \in k..n
  BY TokenEndBounds
<1> HIDE DEF n, S
<1>4. \A k \in TokenStarts(s) : TokenEnd(s, k) + 1 \in TokenStarts(s) \cup {n + 1}
  BY <1>0, <1>1, <1>2, <1>3, SMTT(40) DEF Tiled, n
<1> QED
  BY <1>0, <1>1, <1>2, <1>4 DEF Tiled, n

-----------------------------------------------------------------------------
\* Where each kind of token ends.

LEMMA First ==
  ASSUME NEW n \in Nat, NEW S, S \subseteq 1..n
  PROVE  /\ S = {} => FirstOr(S, n) = n
         /\ \A m \in S : (\A j \in S : j >= m) => FirstOr(S, n) = m
         /\ \A m \in 1..n : (\A j \in S : j >= m) => FirstOr(S, n) >= m
         /\ FirstOr(S, n) = n \/ FirstOr(S, n) \in S
<1>1. CASE S = {}
  BY <1>1 DEF FirstOr
<1>2. CASE S /= {}
  <2>1. S \subseteq Nat
    OBVIOUS
  <2>2. Min(S) \in S /\ \A x \in S : Min(S) <= x
    BY <1>2, <2>1, LeastElement
  <2>3. FirstOr(S, n) = Min(S)
    BY <1>2 DEF FirstOr
  <2> DEFINE e == Min(S)
  <2>4. e \in S /\ (\A x \in S : e <= x) /\ FirstOr(S, n) = e
    BY <2>2, <2>3
  <2> HIDE DEF e
  <2> QED
    BY <1>2, <2>1, <2>4
<1> QED
  BY <1>1, <1>2

LEMMA FirstIn ==
  ASSUME NEW n \in Nat, NEW S, S \subseteq 1..n, S /= {}
  PROVE  FirstOr(S, n) \in S /\ \A j \in S : FirstOr(S, n) <= j
<1>1. S \subseteq Nat
  OBVIOUS
<1>2. Min(S) \in S /\ \A x \in S : Min(S) <= x
  BY <1>1, LeastElement
<1>3. FirstOr(S, n) = Min(S)
  BY DEF FirstOr
<1> QED
  BY <1>2, <1>3

LEMMA QuotesCount ==
  ASSUME NEW s \in Seq(Letter), NEW j \in 1..Len(s), NEW k \in j..Len(s)
  PROVE  /\ Quotes(s, j, k) \in Nat
         /\ Quotes(s, j, j) = 1
         /\ k < Len(s) => Quotes(s, j, k + 1) = IF s[k + 1] = s[j] THEN Quotes(s, j, k) + 1
                                                ELSE Quotes(s, j, k)
<1> DEFINE Q(m) == {p \in j..m : s[p] = s[j]}
<1>0. j \in Int /\ k \in Int /\ Len(s) \in Nat
  OBVIOUS
<1>1. \A m \in Int : IsFiniteSet(Q(m))
  <2> SUFFICES ASSUME NEW m \in Int PROVE IsFiniteSet(Q(m))
    OBVIOUS
  <2>1. IsFiniteSet(j..m)
    BY <1>0, FS_Interval
  <2> QED
    BY <2>1, FS_Subset
<1>2. Quotes(s, j, k) \in Nat
  BY <1>0, <1>1, FS_CardinalityType DEF Quotes
<1>3. Quotes(s, j, j) = 1
  <2>1. Q(j) = {j}
    BY <1>0
  <2> QED
    BY <2>1, FS_Singleton DEF Quotes
<1>4. ASSUME k < Len(s)
      PROVE  Quotes(s, j, k + 1) = IF s[k + 1] = s[j] THEN Quotes(s, j, k) + 1
                                   ELSE Quotes(s, j, k)
  <2>1. CASE s[k + 1] = s[j]
    <3>1. Q(k + 1) = Q(k) \cup {k + 1} /\ k + 1 \notin Q(k)
      BY <1>0, <1>4, <2>1
    <3>2. Cardinality(Q(k + 1)) = Cardinality(Q(k)) + 1
      <4> HIDE DEF Q
      <4> QED
        BY <1>0, <1>1, <3>1, FS_AddElement
    <3> QED
      BY <2>1, <3>2 DEF Quotes
  <2>2. CASE s[k + 1] /= s[j]
    <3>1. Q(k + 1) = Q(k)
      BY <1>0, <1>4, <2>2
    <3> QED
      BY <2>2, <3>1 DEF Quotes
  <2> QED
    BY <2>1, <2>2
<1> QED
  BY <1>2, <1>3, <1>4

LEMMA TokenEndIs ==
  ASSUME NEW s \in Seq(Letter), NEW k \in 1..Len(s)
  PROVE  /\ s[k] \in {"q", "d"} => TokenEnd(s, k) = FirstOr(QuoteEnds(s, k), Len(s))
         /\ Opens(s, k, "/", "*") => TokenEnd(s, k) = FirstOr(BlockEnds(s, k), Len(s))
         /\ Opens(s, k, "-", "-") => TokenEnd(s, k) = FirstOr(LineEnds(s, k), Len(s))
         /\ s[k] \notin {"q", "d"} /\ ~Opens(s, k, "/", "*") /\ ~Opens(s, k, "-", "-")
              => TokenEnd(s, k) = k
         /\ QuoteEnds(s, k) \subseteq 1..Len(s) /\ BlockEnds(s, k) \subseteq 1..Len(s)
         /\ LineEnds(s, k) \subseteq 1..Len(s)
<1>1. s[k] \in {"q", "d"} => TokenEnd(s, k) = FirstOr(QuoteEnds(s, k), Len(s))
  BY DEF TokenEnd, Opens
<1>2. Opens(s, k, "/", "*") => TokenEnd(s, k) = FirstOr(BlockEnds(s, k), Len(s))
  BY DEF TokenEnd, Opens
<1>3. Opens(s, k, "-", "-") => TokenEnd(s, k) = FirstOr(LineEnds(s, k), Len(s))
  BY DEF TokenEnd, Opens
<1>4. s[k] \notin {"q", "d"} /\ ~Opens(s, k, "/", "*") /\ ~Opens(s, k, "-", "-")
        => TokenEnd(s, k) = k
  BY DEF TokenEnd
<1>5. Len(s) \in Nat /\ k \in Nat /\ k >= 1
  OBVIOUS
<1>6. QuoteEnds(s, k) \subseteq 1..Len(s) /\ BlockEnds(s, k) \subseteq 1..Len(s)
      /\ LineEnds(s, k) \subseteq 1..Len(s)
  BY <1>5 DEF QuoteEnds, BlockEnds, LineEnds
<1> QED
  BY <1>1, <1>2, <1>3, <1>4, <1>6

-----------------------------------------------------------------------------
\* What the scanner has read when it is at position m in each of its states: it is between two
\* tokens, or inside of one that started at k and has not ended before m.

Boundary(s, m) == m \in TokenStarts(s) \cup {Len(s) + 1}

InName(s, k, m) == s[k] = "d" /\ m <= TokenEnd(s, k)

InQuoted(s, k, m) ==
  s[k] \in {"q", "d"} /\ Quotes(s, k, m - 1) % 2 = 1 /\ \A j \in QuoteEnds(s, k) : j >= m

InLiteral(s, k, m) == s[k] = "q" /\ InQuoted(s, k, m)

InBlock(s, k, m) == Opens(s, k, "/", "*") /\ m >= k + 2 /\ \A j \in BlockEnds(s, k) : j > m

InLine(s, k, m) == Opens(s, k, "-", "-") /\ m >= k + 2 /\ \A j \in LineEnds(s, k) : j >= m

LEMMA QuotedSteps ==
  ASSUME NEW s \in Seq(Letter), NEW k \in 1..Len(s), NEW m \in k + 1..Len(s), InQuoted(s, k, m)
  PROVE  /\ m <= TokenEnd(s, k)
         /\ s[m] = s[k] /\ m < Len(s) /\ s[m + 1] = s[k] => InQuoted(s, k, m + 2)
         /\ s[m] = s[k] /\ ~(m < Len(s) /\ s[m + 1] = s[k]) => TokenEnd(s, k) = m
         /\ s[m] /= s[k] => InQuoted(s, k, m + 1)
<1> DEFINE n == Len(s)
           q == Quotes(s, k, m - 1)
<1>0. n \in Nat /\ k \in 1..n /\ m \in k + 1..n /\ m \in 1..n
  OBVIOUS
<1>1. q \in Nat /\ q % 2 = 1 /\ s[k] \in {"q", "d"} /\ \A j \in QuoteEnds(s, k) : j >= m
  BY <1>0, QuotesCount DEF InQuoted
<1>2. Quotes(s, k, m) = IF s[m] = s[k] THEN q + 1 ELSE q
  <2> DEFINE j == m - 1
  <2>1. j \in k..n /\ j < n /\ j + 1 = m
    BY <1>0
  <2> HIDE DEF j
  <2>2. Quotes(s, k, j + 1) = IF s[j + 1] = s[k] THEN Quotes(s, k, j) + 1 ELSE Quotes(s, k, j)
    BY <1>0, <2>1, QuotesCount
  <2> QED
    BY <2>1, <2>2 DEF j
<1>3. m < n => Quotes(s, k, m + 1) = IF s[m + 1] = s[k] THEN Quotes(s, k, m) + 1
                                     ELSE Quotes(s, k, m)
  <2>1. m \in k..n
    BY <1>0
  <2> QED
    BY <1>0, <1>1, <2>1, QuotesCount
<1>4. TokenEnd(s, k) = FirstOr(QuoteEnds(s, k), n) /\ QuoteEnds(s, k) \subseteq 1..n
  BY <1>1, TokenEndIs
<1>5. \A j : j \in QuoteEnds(s, k) <=>
         /\ j \in k + 1..n /\ s[j] = s[k] /\ Quotes(s, k, j) % 2 = 0
         /\ j < n => s[j + 1] /= s[k]
  BY <1>1 DEF QuoteEnds
<1> HIDE DEF n, q
<1>6. m <= TokenEnd(s, k)
  BY <1>0, <1>1, <1>4, First
<1>7. ASSUME s[m] = s[k], m < n, s[m + 1] = s[k] PROVE InQuoted(s, k, m + 2)
  <2>1. Quotes(s, k, m + 1) = q + 2
    BY <1>1, <1>2, <1>3, <1>7
  <2>2. Quotes(s, k, m + 1) % 2 = 1
    BY <1>1, <2>1
  <2>3. m \notin QuoteEnds(s, k)
    BY <1>5, <1>7
  <2>4. m + 1 \notin QuoteEnds(s, k)
    BY <1>5, <2>2
  <2>5. \A j \in QuoteEnds(s, k) : j >= m + 2
    BY <1>0, <1>1, <1>4, <2>3, <2>4
  <2>6. m + 2 - 1 = m + 1
    BY <1>0
  <2> QED
    BY <1>1, <2>2, <2>5, <2>6 DEF InQuoted
<1>8. ASSUME s[m] = s[k], ~(m < n /\ s[m + 1] = s[k]) PROVE TokenEnd(s, k) = m
  <2>1. Quotes(s, k, m) % 2 = 0
    BY <1>1, <1>2, <1>8
  <2>2. m \in QuoteEnds(s, k)
    BY <1>0, <1>5, <1>8, <2>1
  <2> QED
    BY <1>0, <1>1, <1>4, <2>2, First
<1>9. ASSUME s[m] /= s[k] PROVE InQuoted(s, k, m + 1)
  <2>1. m \notin QuoteEnds(s, k)
    BY <1>5, <1>9
  <2>2. \A j \in QuoteEnds(s, k) : j >= m + 1
    BY <1>0, <1>1, <1>4, <2>1
  <2>3. m + 1 - 1 = m
    BY <1>0
  <2> QED
    BY <1>1, <1>2, <1>9, <2>2, <2>3 DEF InQuoted
<1> QED
  BY <1>6, <1>7, <1>8, <1>9 DEF n

LEMMA LiteralSteps ==
  ASSUME NEW s \in Seq(Letter), NEW k \in 1..Len(s), NEW m \in k + 1..Len(s), InLiteral(s, k, m)
  PROVE  /\ m <= TokenEnd(s, k)
         /\ s[m] = "q" /\ m < Len(s) /\ s[m + 1] = "q" => InLiteral(s, k, m + 2)
         /\ s[m] = "q" /\ ~(m < Len(s) /\ s[m + 1] = "q") => TokenEnd(s, k) = m
         /\ s[m] /= "q" => InLiteral(s, k, m + 1)
BY QuotedSteps DEF InLiteral

LEMMA BlockSteps ==
  ASSUME NEW s \in Seq(Letter), NEW k \in 1..Len(s), NEW m \in k + 2..Len(s), InBlock(s, k, m)
  PROVE  /\ m <= TokenEnd(s, k)
         /\ s[m] = "*" /\ m < Len(s) /\ s[m + 1] = "/" => TokenEnd(s, k) = m + 1
         /\ ~(s[m] = "*" /\ m < Len(s) /\ s[m + 1] = "/") => InBlock(s, k, m + 1)
<1> DEFINE n == Len(s)
<1>0. n \in Nat /\ k \in 1..n /\ m \in k + 2..n /\ m \in 1..n
  OBVIOUS
<1>1. TokenEnd(s, k) = FirstOr(BlockEnds(s, k), n) /\ BlockEnds(s, k) \subseteq 1..n
  BY TokenEndIs DEF InBlock
<1>2. \A j : j \in BlockEnds(s, k) <=> j \in k + 3..n /\ s[j - 1] = "*" /\ s[j] = "/"
  BY DEF BlockEnds
<1>3. \A j \in BlockEnds(s, k) : j > m
  BY DEF InBlock
<1> HIDE DEF n
<1>4. m <= TokenEnd(s, k)
  BY <1>0, <1>1, <1>3, First
<1>5. ASSUME s[m] = "*", m < n, s[m + 1] = "/" PROVE TokenEnd(s, k) = m + 1
  <2>1. m + 1 - 1 = m /\ m + 1 \in k + 3..n
    BY <1>0, <1>5
  <2>2. m + 1 \in BlockEnds(s, k)
    BY <1>2, <1>5, <2>1
  <2>3. \A j \in BlockEnds(s, k) : j >= m + 1
    BY <1>0, <1>1, <1>3
  <2> QED
    BY <1>0, <1>1, <2>2, <2>3, First
<1>6. ASSUME ~(s[m] = "*" /\ m < n /\ s[m + 1] = "/") PROVE InBlock(s, k, m + 1)
  <2>1. m + 1 \notin BlockEnds(s, k)
    <3>1. m + 1 - 1 = m
      BY <1>0
    <3>2. m + 1 \in k + 3..n => m < n
      BY <1>0
    <3> QED
      BY <1>2, <1>6, <3>1, <3>2
  <2>2. \A j \in BlockEnds(s, k) : j > m + 1
    BY <1>0, <1>1, <1>3, <2>1
  <2> QED
    BY <1>0, <2>2 DEF InBlock
<1> QED
  BY <1>4, <1>5, <1>6 DEF n

LEMMA LineSteps ==
  ASSUME NEW s \in Seq(Letter), NEW k \in 1..Len(s), NEW m \in k + 2..Len(s), InLine(s, k, m)
  PROVE  /\ m <= TokenEnd(s, k)
         /\ s[m] = "n" => TokenEnd(s, k) = m
         /\ s[m] /= "n" => InLine(s, k, m + 1)
<1> DEFINE n == Len(s)
<1>0. n \in Nat /\ k \in 1..n /\ m \in k + 2..n /\ m \in 1..n
  OBVIOUS
<1>1. TokenEnd(s, k) = FirstOr(LineEnds(s, k), n) /\ LineEnds(s, k) \subseteq 1..n
  BY TokenEndIs DEF InLine
<1>2. \A j : j \in LineEnds(s, k) <=> j \in k + 2..n /\ s[j] = "n"
  BY DEF LineEnds
<1>3. \A j \in LineEnds(s, k) : j >= m
  BY DEF InLine
<1> HIDE DEF n
<1>4. m <= TokenEnd(s, k)
  BY <1>0, <1>1, <1>3, First
<1>5. s[m] = "n" => TokenEnd(s, k) = m
  BY <1>0, <1>1, <1>2, <1>3, First
<1>6. ASSUME s[m] /= "n" PROVE InLine(s, k, m + 1)
  <2>1. \A j \in LineEnds(s, k) : j >= m + 1
    BY <1>0, <1>1, <1>2, <1>3, <1>6
  <2> QED
    BY <1>0, <2>1 DEF InLine
<1> QED
  BY <1>4, <1>5, <1>6 DEF n

\* A quoted identifier that is not closed takes the rest of the text.
LEMMA NameSteps ==
  ASSUME NEW s \in Seq(Letter), NEW k \in 1..Len(s), s[k] = "d"
  PROVE  TokenEnd(s, k) = Len(s) \/ s[TokenEnd(s, k)] = "d"
<1>1. TokenEnd(s, k) = FirstOr(QuoteEnds(s, k), Len(s)) /\ QuoteEnds(s, k) \subseteq 1..Len(s)
  BY TokenEndIs
<1>2. TokenEnd(s, k) = Len(s) \/ TokenEnd(s, k) \in QuoteEnds(s, k)
  BY <1>1, First
<1> QED
  BY <1>2 DEF QuoteEnds

LEMMA PlainToken ==
  ASSUME NEW s \in Seq(Letter), NEW k \in 1..Len(s), NEW e \in k..Len(s),
         PlainName(SubSeq(s, k, e)), NEW m \in k..e
  PROVE  /\ s[m] \notin {"q", "?"}
         /\ m < e => ~(s[m] = "-" /\ s[m + 1] = "-") /\ ~(s[m] = "/" /\ s[m + 1] = "*")
<1> DEFINE t == SubSeq(s, k, e)
           x == m - k + 1
<1>0. Len(s) \in Nat /\ k \in 1..Len(s) /\ e \in k..Len(s) /\ m \in k..e
  OBVIOUS
<1>1. Len(t) = e - k + 1 /\ \A y \in 1..e - k + 1 : t[y] = s[k + y - 1]
  OBVIOUS
<1>2. x \in 1..e - k + 1 /\ t[x] = s[m]
  BY <1>0, <1>1
<1>3. m < e => x \in 1..e - k /\ t[x + 1] = s[m + 1]
  <2>1. m < e => x + 1 \in 1..e - k + 1 /\ k + (x + 1) - 1 = m + 1 /\ x \in 1..e - k
    BY <1>0
  <2> HIDE DEF x, t
  <2> QED
    BY <1>1, <2>1
<1>4. e - k + 1 - 1 = e - k
  BY <1>0
<1>5. PlainName(t)
  OBVIOUS
<1> HIDE DEF t, x
<1> QED
  BY <1>1, <1>2, <1>3, <1>4, <1>5 DEF PlainName

-----------------------------------------------------------------------------
\* The scanner: what it found, where it is, and that each of its steps keeps both.

Found(s, ps, m) ==
  /\ Range(ps) = {p \in Placeholders(s) : p < m}
  /\ \A a, b \in DOMAIN ps : a < b => ps[a] < ps[b]

Where(s, m, st) ==
  \/ st = "normal" /\ Boundary(s, m)
  \/ \E k \in TokenStarts(s) :
       /\ k < m
       /\ \/ st = "normal" /\ InName(s, k, m)
          \/ st = "literal" /\ InLiteral(s, k, m)
          \/ st = "block" /\ InBlock(s, k, m)
          \/ st = "line" /\ InLine(s, k, m)

Scanned == PlainNames(sql) => Found(sql, positions, i) /\ Where(sql, i, state)

LEMMA SkipOne ==
  ASSUME NEW s \in Seq(Letter), NEW ps, NEW m \in Nat, Found(s, ps, m), m \notin Placeholders(s)
  PROVE  Found(s, ps, m + 1)
<1>1. Placeholders(s) \subseteq Nat
  BY TokensTile DEF Placeholders
<1>2. {p \in Placeholders(s) : p < m + 1} = {p \in Placeholders(s) : p < m}
  BY <1>1
<1> QED
  BY <1>2 DEF Found

LEMMA FindOne ==
  ASSUME NEW s \in Seq(Letter), NEW ps \in Seq(1..Len(s)), NEW m \in Nat, Found(s, ps, m),
         m \in Placeholders(s)
  PROVE  Found(s, Append(ps, m), m + 1)
<1> DEFINE qs == Append(ps, m)
           P == Placeholders(s)
           n == Len(ps)
<1>0. n \in Nat /\ DOMAIN ps = 1..n
  OBVIOUS
<1>1. P \subseteq Nat
  BY TokensTile DEF Placeholders
<1>2. Len(qs) = n + 1 /\ DOMAIN qs = 1..n + 1 /\ qs[n + 1] = m /\ \A a \in 1..n : qs[a] = ps[a]
  OBVIOUS
<1>3. Range(ps) = {p \in P : p < m}
  BY DEF Found
<1>4. \A a \in 1..n : ps[a] \in P /\ ps[a] < m
  BY <1>0, <1>3 DEF Range
<1>5. m \in P
  OBVIOUS
<1>6. \A a, b \in 1..n : a < b => ps[a] < ps[b]
  BY <1>0 DEF Found
<1> HIDE DEF qs, P, n
<1>7. Range(qs) = {p \in P : p < m + 1}
  <2>1. ASSUME NEW a \in DOMAIN qs PROVE qs[a] \in P /\ qs[a] < m + 1
    <3>1. CASE a = n + 1
      BY <1>2, <1>5, <3>1
    <3>2. CASE a \in 1..n
      <4>1. qs[a] = ps[a] /\ ps[a] \in P /\ ps[a] < m
        BY <1>2, <1>4, <3>2
      <4>2. ps[a] \in Nat
        BY <1>1, <4>1
      <4> QED
        BY <4>1, <4>2
    <3> QED
      BY <1>0, <1>2, <2>1, <3>1, <3>2
  <2>2. ASSUME NEW p \in P, p < m + 1 PROVE \E a \in DOMAIN qs : qs[a] = p
    <3>1. CASE p = m
      <4>1. n + 1 \in DOMAIN qs /\ qs[n + 1] = p
        BY <1>0, <1>2, <3>1
      <4> QED
        BY <4>1
    <3>2. CASE p < m
      <4>1. PICK a \in 1..n : ps[a] = p
        BY <1>0, <1>3, <3>2 DEF Range
      <4>2. a \in DOMAIN qs /\ qs[a] = p
        BY <1>0, <1>2, <4>1
      <4> QED
        BY <4>2
    <3> QED
      BY <1>1, <2>2, <3>1, <3>2
  <2> QED
    BY <2>1, <2>2 DEF Range
<1>8. ASSUME NEW a \in DOMAIN qs, NEW b \in DOMAIN qs, a < b PROVE qs[a] < qs[b]
  <2>1. a \in 1..n
    BY <1>0, <1>2, <1>8
  <2>2. CASE b = n + 1
    BY <1>2, <1>4, <2>1, <2>2
  <2>3. CASE b \in 1..n
    BY <1>2, <1>6, <1>8, <2>1, <2>3
  <2> QED
    BY <1>0, <1>2, <2>2, <2>3
<1> QED
  BY <1>7, <1>8 DEF Found, qs, P

\* No token starts inside of another, and the scanner is between tokens where one has ended.
LEMMA Inside ==
  ASSUME NEW s \in Seq(Letter), NEW k \in TokenStarts(s)
  PROVE  /\ k \in 1..Len(s)
         /\ \A m \in k + 1..TokenEnd(s, k) : m \notin TokenStarts(s)
         /\ Boundary(s, TokenEnd(s, k) + 1)
         /\ TokenEnd(s, k) \in k..Len(s)
<1>1. k \in 1..Len(s)
  BY TokensTile
<1>2. TokenEnd(s, k) \in k..Len(s)
  BY <1>1, TokenEndBounds
<1>3. ASSUME NEW m \in k + 1..TokenEnd(s, k) PROVE m \notin TokenStarts(s)
  <2>1. k < m /\ ~(TokenEnd(s, k) < m)
    BY <1>1, <1>2
  <2> QED
    BY <2>1, TokensTile
<1>4. Boundary(s, TokenEnd(s, k) + 1)
  BY TokensTile DEF Boundary
<1> QED
  BY <1>1, <1>2, <1>3, <1>4

\* One step of the scanner, for each of its states.

LEMMA LiteralScanned ==
  ASSUME sql \in Seq(Letter), i \in Nat, ScanLiteral, PlainNames(sql), Found(sql, positions, i),
         Where(sql, i, state)
  PROVE  Found(sql, positions', i') /\ Where(sql, i', state')
<1> DEFINE n == Len(sql)
<1>0. n \in Nat /\ i \in Nat /\ i <= n /\ positions' = positions
  BY DEF ScanLiteral, Scanning, Go
<1>1. PICK k \in TokenStarts(sql) : k < i /\ InLiteral(sql, k, i)
  BY DEF Where, ScanLiteral, Scanning
<1>2. k \in 1..n /\ i \in k + 1..n
  BY <1>0, <1>1, Inside
<1>3. /\ i <= TokenEnd(sql, k)
      /\ sql[i] = "q" /\ i < n /\ sql[i + 1] = "q" => InLiteral(sql, k, i + 2)
      /\ sql[i] = "q" /\ ~(i < n /\ sql[i + 1] = "q") => TokenEnd(sql, k) = i
      /\ sql[i] /= "q" => InLiteral(sql, k, i + 1)
  BY <1>1, <1>2, LiteralSteps
<1>4. i \notin TokenStarts(sql)
  BY <1>2, <1>3, Inside
<1>5. Found(sql, positions, i + 1)
  BY <1>0, <1>4, SkipOne DEF Placeholders
<1>6. i + 1 <= n <=> i < n
  BY <1>0
<1>7. CASE At2("q", "q") /\ Go(2, "literal")
  <2>1. InLiteral(sql, k, i + 2)
    BY <1>3, <1>6, <1>7 DEF At2, At
  <2>2. i + 1 \notin Placeholders(sql)
    BY <1>7 DEF At2, At, Placeholders
  <2>3. Found(sql, positions, i + 1 + 1)
    BY <1>0, <1>5, <2>2, SkipOne
  <2>4. i' = i + 2 /\ state' = "literal" /\ i + 1 + 1 = i + 2 /\ k < i + 2
    BY <1>0, <1>2, <1>7 DEF Go
  <2> QED
    BY <1>0, <2>1, <2>3, <2>4 DEF Where
<1>8. CASE At("q") /\ ~At2("q", "q") /\ Go(1, "normal")
  <2>1. TokenEnd(sql, k) = i
    BY <1>3, <1>6, <1>8 DEF At2, At
  <2>2. Boundary(sql, i + 1)
    BY <2>1, Inside
  <2>3. i' = i + 1 /\ state' = "normal"
    BY <1>8 DEF Go
  <2> QED
    BY <1>0, <1>5, <2>2, <2>3 DEF Where
<1>9. CASE ~At("q") /\ Go(1, "literal")
  <2>1. InLiteral(sql, k, i + 1)
    BY <1>3, <1>9 DEF At
  <2>2. i' = i + 1 /\ state' = "literal" /\ k < i + 1
    BY <1>0, <1>2, <1>9 DEF Go
  <2> QED
    BY <1>0, <1>5, <2>1, <2>2 DEF Where
<1> QED
  BY <1>7, <1>8, <1>9 DEF ScanLiteral

LEMMA BlockScanned ==
  ASSUME sql \in Seq(Letter), i \in Nat, ScanBlock, PlainNames(sql), Found(sql, positions, i),
         Where(sql, i, state)
  PROVE  Found(sql, positions', i') /\ Where(sql, i', state')
<1> DEFINE n == Len(sql)
<1>0. n \in Nat /\ i \in Nat /\ i <= n /\ positions' = positions
  BY DEF ScanBlock, Scanning, Go
<1>1. PICK k \in TokenStarts(sql) : k < i /\ InBlock(sql, k, i)
  BY DEF Where, ScanBlock, Scanning
<1>2. k \in 1..n /\ i \in k + 2..n
  BY <1>0, <1>1, Inside DEF InBlock
<1>3. /\ i <= TokenEnd(sql, k)
      /\ sql[i] = "*" /\ i < n /\ sql[i + 1] = "/" => TokenEnd(sql, k) = i + 1
      /\ ~(sql[i] = "*" /\ i < n /\ sql[i + 1] = "/") => InBlock(sql, k, i + 1)
  BY <1>1, <1>2, BlockSteps
<1>4. i \notin TokenStarts(sql)
  BY <1>2, <1>3, Inside
<1>5. Found(sql, positions, i + 1)
  BY <1>0, <1>4, SkipOne DEF Placeholders
<1>6. i + 1 <= n <=> i < n
  BY <1>0
<1>7. CASE At2("*", "/") /\ Go(2, "normal")
  <2>1. TokenEnd(sql, k) = i + 1
    BY <1>3, <1>6, <1>7 DEF At2, At
  <2>2. Boundary(sql, i + 1 + 1)
    BY <2>1, Inside
  <2>3. i + 1 \notin Placeholders(sql)
    BY <1>7 DEF At2, At, Placeholders
  <2>4. Found(sql, positions, i + 1 + 1)
    BY <1>0, <1>5, <2>3, SkipOne
  <2>5. i' = i + 2 /\ state' = "normal" /\ i + 1 + 1 = i + 2
    BY <1>0, <1>7 DEF Go
  <2> QED
    BY <1>0, <2>2, <2>4, <2>5 DEF Where
<1>8. CASE ~At2("*", "/") /\ Go(1, "block")
  <2>1. InBlock(sql, k, i + 1)
    BY <1>3, <1>6, <1>8 DEF At2, At
  <2>2. i' = i + 1 /\ state' = "block" /\ k < i + 1
    BY <1>0, <1>2, <1>8 DEF Go
  <2> QED
    BY <1>0, <1>5, <2>1, <2>2 DEF Where
<1> QED
  BY <1>7, <1>8 DEF ScanBlock

LEMMA LineScanned ==
  ASSUME sql \in Seq(Letter), i \in Nat, ScanLine, PlainNames(sql), Found(sql, positions, i),
         Where(sql, i, state)
  PROVE  Found(sql, positions', i') /\ Where(sql, i', state')
<1> DEFINE n == Len(sql)
<1>0. n \in Nat /\ i \in Nat /\ i <= n /\ positions' = positions
  BY DEF ScanLine, Scanning, Go
<1>1. PICK k \in TokenStarts(sql) : k < i /\ InLine(sql, k, i)
  BY DEF Where, ScanLine, Scanning
<1>2. k \in 1..n /\ i \in k + 2..n
  BY <1>0, <1>1, Inside DEF InLine
<1>3. /\ i <= TokenEnd(sql, k)
      /\ sql[i] = "n" => TokenEnd(sql, k) = i
      /\ sql[i] /= "n" => InLine(sql, k, i + 1)
  BY <1>1, <1>2, LineSteps
<1>4. i \notin TokenStarts(sql)
  BY <1>2, <1>3, Inside
<1>5. Found(sql, positions, i + 1)
  BY <1>0, <1>4, SkipOne DEF Placeholders
<1>6. i' = i + 1 /\ state' = IF sql[i] = "n" THEN "normal" ELSE "line"
  BY DEF ScanLine, Go, At
<1>7. CASE sql[i] = "n"
  <2>1. Boundary(sql, i + 1)
    BY <1>3, <1>7, Inside
  <2> QED
    BY <1>0, <1>5, <1>6, <1>7, <2>1 DEF Where
<1>8. CASE sql[i] /= "n"
  <2>1. k < i + 1
    BY <1>0, <1>2
  <2> QED
    BY <1>0, <1>3, <1>5, <1>6, <1>8, <2>1 DEF Where
<1> QED
  BY <1>7, <1>8

LEMMA NormalScanned ==
  ASSUME sql \in Seq(Letter), positions \in Seq(1..Len(sql)), i \in Nat, i >= 1, ScanNormal,
         PlainNames(sql), Found(sql, positions, i), Where(sql, i, state)
  PROVE  Found(sql, positions', i') /\ Where(sql, i', state')
<1> DEFINE n == Len(sql)
<1>0. n \in Nat /\ i \in 1..n /\ state = "normal" /\ sql[i] \in Letter
  BY DEF ScanNormal, Scanning
<1>1. i + 1 <= n <=> i < n
  BY <1>0
<1>2. CASE Boundary(sql, i)
  <2>1. i \in TokenStarts(sql) /\ i < i + 1 /\ i < i + 2 /\ i + 2 >= i + 2
    BY <1>0, <1>2 DEF Boundary
  <2>2. sql[i] /= "?" => Found(sql, positions, i + 1)
    BY SkipOne DEF Placeholders
  <2>3. i < n /\ sql[i] /= "?" /\ sql[i + 1] /= "?" => Found(sql, positions, i + 2)
    <3>1. i + 1 \in Nat /\ i + 1 + 1 = i + 2
      BY <1>0
    <3> QED
      BY <2>2, <3>1, SkipOne DEF Placeholders
  <2>4. CASE At("q") /\ Go(1, "literal")
    <3>1. Quotes(sql, i, i) = 1 /\ i + 1 - 1 = i
      BY <1>0, QuotesCount
    <3>2. \A j \in QuoteEnds(sql, i) : j >= i + 1
      BY <1>0 DEF QuoteEnds
    <3>3. InLiteral(sql, i, i + 1)
      BY <2>4, <3>1, <3>2 DEF InLiteral, InQuoted, At
    <3>4. i' = i + 1 /\ state' = "literal" /\ positions' = positions /\ sql[i] /= "?"
      BY <2>4 DEF Go, At
    <3> QED
      BY <2>1, <2>2, <3>3, <3>4 DEF Where
  <2>5. CASE At2("/", "*") /\ Go(2, "block")
    <3>1. Opens(sql, i, "/", "*")
      BY <1>1, <2>5 DEF Opens, At2, At
    <3>2. \A j \in BlockEnds(sql, i) : j > i + 2
      BY <1>0 DEF BlockEnds
    <3>3. InBlock(sql, i, i + 2)
      BY <2>1, <3>1, <3>2 DEF InBlock
    <3>4. i' = i + 2 /\ state' = "block" /\ positions' = positions
      BY <2>5 DEF Go
    <3>5. Found(sql, positions, i + 2)
      BY <2>3, <3>1 DEF Opens
    <3> QED
      BY <2>1, <3>3, <3>4, <3>5 DEF Where
  <2>6. CASE At2("-", "-") /\ Go(2, "line")
    <3>1. Opens(sql, i, "-", "-")
      BY <1>1, <2>6 DEF Opens, At2, At
    <3>2. \A j \in LineEnds(sql, i) : j >= i + 2
      BY <1>0 DEF LineEnds
    <3>3. InLine(sql, i, i + 2)
      BY <2>1, <3>1, <3>2 DEF InLine
    <3>4. i' = i + 2 /\ state' = "line" /\ positions' = positions
      BY <2>6 DEF Go
    <3>5. Found(sql, positions, i + 2)
      BY <2>3, <3>1 DEF Opens
    <3> QED
      BY <2>1, <3>3, <3>4, <3>5 DEF Where
  <2>7. CASE At("?") /\ Placeholder
    <3>1. i \in Placeholders(sql)
      BY <2>1, <2>7 DEF Placeholders, At
    <3>2. Found(sql, Append(positions, i), i + 1)
      BY <3>1, FindOne
    <3>3. TokenEnd(sql, i) = i
      BY <1>0, <2>7, TokenEndIs DEF At, Opens
    <3>4. Boundary(sql, i + 1)
      BY <2>1, <3>3, Inside
    <3>5. i' = i + 1 /\ state' = "normal" /\ positions' = Append(positions, i)
      BY <1>0, <2>7 DEF Placeholder
    <3> QED
      BY <3>2, <3>4, <3>5 DEF Where
  <2>8. CASE ~(At("q") \/ At2("/", "*") \/ At2("-", "-") \/ At("?")) /\ Go(1, "normal")
    <3>1. i' = i + 1 /\ state' = "normal" /\ positions' = positions
      BY <2>8 DEF Go
    <3>2. Found(sql, positions, i + 1)
      BY <2>2, <2>8 DEF At
    <3>3. CASE sql[i] = "d"
      <4>1. TokenEnd(sql, i) \in i..n /\ Boundary(sql, TokenEnd(sql, i) + 1)
        BY <2>1, Inside
      <4>2. CASE TokenEnd(sql, i) = i
        BY <3>1, <3>2, <4>1, <4>2 DEF Where
      <4>3. CASE TokenEnd(sql, i) /= i
        <5>1. i + 1 <= TokenEnd(sql, i)
          BY <1>0, <4>1, <4>3
        <5>2. InName(sql, i, i + 1)
          BY <3>3, <5>1 DEF InName
        <5> QED
          BY <2>1, <3>1, <3>2, <5>2 DEF Where
      <4> QED
        BY <4>2, <4>3
    <3>4. CASE sql[i] /= "d"
      <4>1. sql[i] \notin {"q", "d"} /\ ~Opens(sql, i, "/", "*") /\ ~Opens(sql, i, "-", "-")
        BY <1>1, <2>8, <3>4 DEF At, At2, Opens
      <4>2. TokenEnd(sql, i) = i
        BY <1>0, <4>1, TokenEndIs
      <4>3. Boundary(sql, i + 1)
        BY <2>1, <4>2, Inside
      <4> QED
        BY <3>1, <3>2, <4>3 DEF Where
    <3> QED
      BY <3>3, <3>4
  <2> QED
    BY <2>4, <2>5, <2>6, <2>7, <2>8 DEF ScanNormal
<1>3. ASSUME NEW k \in TokenStarts(sql), k < i, InName(sql, k, i)
      PROVE  Found(sql, positions', i') /\ Where(sql, i', state')
  <2> DEFINE e == TokenEnd(sql, k)
  <2>1. k \in 1..n /\ e \in k..n /\ i \in k..e /\ sql[k] = "d"
    BY <1>0, <1>3, Inside DEF InName
  <2>2. PlainName(SubSeq(sql, k, e))
    BY <2>1 DEF PlainNames
  <2>3. /\ sql[i] \notin {"q", "?"}
        /\ i < e => ~(sql[i] = "-" /\ sql[i + 1] = "-") /\ ~(sql[i] = "/" /\ sql[i + 1] = "*")
    <3> HIDE DEF e
    <3> QED
      BY <2>1, <2>2, PlainToken
  <2>4. e = n \/ sql[e] = "d"
    BY <2>1, NameSteps
  <2>5. Boundary(sql, e + 1)
    BY Inside
  <2> HIDE DEF e, n
  <2>6. ~(i < n /\ sql[i] = "-" /\ sql[i + 1] = "-") /\ ~(i < n /\ sql[i] = "/" /\ sql[i + 1] = "*")
    <3>1. CASE i < e
      BY <2>3, <3>1
    <3>2. CASE i = e
      BY <1>0, <2>4, <3>2
    <3> QED
      BY <1>0, <2>1, <3>1, <3>2
  <2>7. Go(1, "normal")
    BY <1>0, <1>1, <2>3, <2>6 DEF ScanNormal, At, At2, n
  <2>8. i' = i + 1 /\ state' = "normal" /\ positions' = positions
    BY <2>7 DEF Go
  <2>9. Found(sql, positions, i + 1)
    BY <2>3, SkipOne DEF Placeholders
  <2>10. CASE i = e
    BY <2>5, <2>8, <2>9, <2>10 DEF Where
  <2>11. CASE i < e
    <3>1. InName(sql, k, i + 1) /\ k < i + 1
      BY <1>0, <2>1, <2>11 DEF InName, e
    <3> QED
      BY <2>8, <2>9, <3>1 DEF Where
  <2> QED
    BY <1>0, <2>1, <2>10, <2>11
<1> QED
  BY <1>0, <1>2, <1>3 DEF Where

-----------------------------------------------------------------------------
\* The tokens of a text are determined by where each of them ends.

LEMMA TilesUnique ==
  ASSUME NEW s \in Seq(Letter), NEW S, S \subseteq 1..Len(s) + 1, 1 \in S,
         \A a \in S : a <= Len(s) => TokenEnd(s, a) + 1 \in S,
         \A a, b \in S : a < b => TokenEnd(s, a) < b
  PROVE  TokenStarts(s) = S \cap 1..Len(s)
<1> DEFINE n == Len(s)
           g == UpToOf(s)
           Least(k, b) == b \in g[k] /\ b > k /\ \A x \in S : x > k => x >= b
           P == {k \in Nat : k <= n => /\ g[k] \subseteq S
                                       /\ \A x \in S : x <= k => x \in g[k]
                                       /\ \E b \in S : Least(k, b)}
<1>0. n \in Nat /\ S \subseteq Nat
  OBVIOUS
<1>1. \A k \in 0..n : g[k] = UpTo(s, g, k)
  BY TokenStartsDef DEF IsUpTo
<1>2. \A k \in 0..n : Tiled(s, g[k], k)
  BY UpToTiled
<1>3. \A k \in 1..n : TokenEnd(s, k) \in k..n
  BY TokenEndBounds
<1>4. 0 \in P
  <2>1. g[0] = UpTo(s, g, 0)
    BY <1>0, <1>1
  <2> HIDE DEF g
  <2>2. g[0] = {1}
    BY <2>1 DEF UpTo
  <2>3. \A x \in S : x >= 1
    BY <1>0
  <2>4. Least(0, 1)
    BY <2>2, <2>3
  <2>5. \A x \in S : ~(x <= 0)
    BY <1>0
  <2> QED
    BY <2>2, <2>4, <2>5
<1>5. \A k \in Nat : k \in P => k + 1 \in P
  <2> SUFFICES ASSUME NEW k \in Nat, k \in P, k + 1 <= n
               PROVE  /\ g[k + 1] \subseteq S
                      /\ \A x \in S : x <= k + 1 => x \in g[k + 1]
                      /\ \E b \in S : Least(k + 1, b)
    OBVIOUS
  <2> DEFINE e == TokenEnd(s, k + 1)
             T == g[k]
             U == g[k + 1]
  <2>1. k \in 0..n /\ k + 1 \in 1..n
    BY <1>0
  <2>2. U = IF k + 1 \in T THEN T \cup {e + 1} ELSE T
    <3>1. U = UpTo(s, g, k + 1)
      BY <1>1, <2>1
    <3>2. k + 1 /= 0 /\ k + 1 - 1 = k
      OBVIOUS
    <3> HIDE DEF g
    <3> QED
      BY <3>1, <3>2 DEF UpTo
  <2>3. e \in k + 1..n
    BY <1>3, <2>1
  <2>4. T \subseteq S /\ \A x \in S : x <= k => x \in T
    BY <2>1
  <2>5. PICK b \in S : b \in T /\ b > k /\ \A x \in S : x > k => x >= b
    BY <2>1
  <2>6. \A x \in T : x > k => x = b
    BY <1>2, <2>1, <2>5 DEF Tiled
  <2> HIDE DEF g, e, n, T, U
  <2>7. CASE k + 1 \in T
    <3>1. b = k + 1 /\ k + 1 \in S /\ U = T \cup {e + 1}
      BY <2>2, <2>4, <2>6, <2>7
    <3>2. e + 1 \in S
      BY <2>1, <3>1 DEF e, n
    <3>3. \A x \in S : x > k + 1 => x >= e + 1
      BY <1>0, <2>3, <3>1 DEF e
    <3>4. \A x \in S : x <= k + 1 => x \in U
      BY <1>0, <2>4, <3>1, <2>7
    <3>5. Least(k + 1, e + 1)
      BY <2>3, <3>1, <3>3 DEF U
    <3> QED
      BY <2>4, <3>1, <3>2, <3>4, <3>5 DEF U
  <2>8. CASE k + 1 \notin T
    <3>1. b > k + 1 /\ U = T
      BY <1>0, <2>2, <2>5, <2>8
    <3>2. k + 1 \notin S
      BY <1>0, <2>5, <3>1
    <3>3. \A x \in S : x <= k + 1 => x \in U
      BY <1>0, <2>4, <3>1, <3>2
    <3>4. Least(k + 1, b)
      BY <1>0, <2>5, <3>1 DEF U
    <3> QED
      BY <2>4, <2>5, <3>1, <3>3, <3>4 DEF U
  <2> QED
    BY <2>7, <2>8
<1>6. n \in P
  <2> HIDE DEF P
  <2>1. Nat \subseteq P
    BY <1>4, <1>5, SetInduction
  <2> QED
    BY <1>0, <2>1
<1>7. TokenStarts(s) = (1..n) \cap g[n]
  BY TokenStartsDef
<1> QED
  BY <1>0, <1>6, <1>7

-----------------------------------------------------------------------------
\* Joining texts.  A token is ended when the text closes it; two texts join when no character at the
\* end of the first means something else before the second.

EndedAt(s, k) ==
  /\ s[k] \in {"q", "d"} => QuoteEnds(s, k) /= {}
  /\ Opens(s, k, "/", "*") => BlockEnds(s, k) /= {}
  /\ Opens(s, k, "-", "-") => LineEnds(s, k) /= {}

Ended(s) == \A k \in TokenStarts(s) : EndedAt(s, k)

Joins(u, v) ==
  Len(u) > 0 /\ Len(v) > 0 =>
    /\ u[Len(u)] = v[1] => u[Len(u)] \notin {"q", "d", "-"}
    /\ ~(u[Len(u)] = "/" /\ v[1] = "*")

LEMMA JoinedLetters ==
  ASSUME NEW u \in Seq(Letter), NEW v \in Seq(Letter)
  PROVE  /\ u \o v \in Seq(Letter) /\ Len(u \o v) = Len(u) + Len(v)
         /\ \A j \in 1..Len(u) : (u \o v)[j] = u[j]
         /\ \A j \in 1..Len(v) : (u \o v)[Len(u) + j] = v[j]
<1>1. u \o v \in Seq(Letter) /\ Len(u \o v) = Len(u) + Len(v)
  OBVIOUS
<1>2. \A j \in 1..Len(u) : (u \o v)[j] = u[j]
  OBVIOUS
<1>3. \A j \in 1..Len(v) : (u \o v)[Len(u) + j] = v[j]
  OBVIOUS
<1> QED
  BY <1>1, <1>2, <1>3

LEMMA QuotesPrefix ==
  ASSUME NEW u \in Seq(Letter), NEW v \in Seq(Letter), NEW k \in 1..Len(u), NEW j \in k..Len(u)
  PROVE  Quotes(u \o v, k, j) = Quotes(u, k, j)
<1>1. \A m \in k..j : (u \o v)[m] = u[m]
  BY JoinedLetters
<1>2. k \in k..j
  OBVIOUS
<1>3. {m \in k..j : (u \o v)[m] = (u \o v)[k]} = {m \in k..j : u[m] = u[k]}
  BY <1>1, <1>2
<1> QED
  BY <1>3 DEF Quotes

LEMMA QuotesSuffix ==
  ASSUME NEW u \in Seq(Letter), NEW v \in Seq(Letter), NEW k \in 1..Len(v), NEW j \in k..Len(v)
  PROVE  Quotes(u \o v, Len(u) + k, Len(u) + j) = Quotes(v, k, j)
<1> DEFINE w == u \o v
           l == Len(u)
           n == Len(v)
           P == {m \in Nat : k + m <= n => Quotes(w, l + k, l + (k + m)) = Quotes(v, k, k + m)}
<1>0. /\ l \in Nat /\ n \in Nat /\ w \in Seq(Letter) /\ Len(w) = l + n
      /\ \A m \in 1..n : w[l + m] = v[m]
  BY JoinedLetters
<1>1. 0 \in P
  <2>1. k + 0 = k /\ l + k \in 1..Len(w) /\ l + k \in l + k..Len(w) /\ k \in k..n
    BY <1>0
  <2>2. Quotes(w, l + k, l + k) = 1 /\ Quotes(v, k, k) = 1
    BY <1>0, <2>1, QuotesCount
  <2> QED
    BY <2>1, <2>2
<1>2. \A m \in Nat : m \in P => m + 1 \in P
  <2> SUFFICES ASSUME NEW m \in Nat, k + m + 1 <= n,
                      Quotes(w, l + k, l + (k + m)) = Quotes(v, k, k + m)
               PROVE  Quotes(w, l + k, l + (k + (m + 1))) = Quotes(v, k, k + (m + 1))
    BY <1>0
  <2> DEFINE x == k + m
  <2>1. x \in k..n /\ x < n /\ l + k \in 1..Len(w) /\ l + x \in l + k..Len(w) /\ l + x < Len(w)
    BY <1>0
  <2>2. Quotes(v, k, x + 1) = IF v[x + 1] = v[k] THEN Quotes(v, k, x) + 1 ELSE Quotes(v, k, x)
    BY <1>0, <2>1, QuotesCount
  <2>3. Quotes(w, l + k, l + x + 1) = IF w[l + x + 1] = w[l + k] THEN Quotes(w, l + k, l + x) + 1
                                      ELSE Quotes(w, l + k, l + x)
    BY <1>0, <2>1, QuotesCount
  <2>4. w[l + x + 1] = v[x + 1] /\ w[l + k] = v[k]
    <3>1. x + 1 \in 1..n /\ l + x + 1 = l + (x + 1)
      BY <1>0, <2>1
    <3> QED
      BY <1>0, <3>1
  <2>5. k + (m + 1) = x + 1 /\ l + (k + (m + 1)) = l + x + 1
    BY <1>0
  <2> HIDE DEF w, x, l, n
  <2> QED
    BY <2>2, <2>3, <2>4, <2>5 DEF x
<1>3. j - k \in P
  <2>1. j - k \in Nat
    OBVIOUS
  <2> HIDE DEF P
  <2> QED
    BY <1>1, <1>2, <2>1, SetInduction
<1>4. k + (j - k) = j
  OBVIOUS
<1> QED
  BY <1>0, <1>3, <1>4

\* A token that is ended is the same token whatever follows.
LEMMA PrefixToken ==
  ASSUME NEW u \in Seq(Letter), NEW v \in Seq(Letter), NEW k \in 1..Len(u), EndedAt(u, k),
         Joins(u, v)
  PROVE  TokenEnd(u \o v, k) = TokenEnd(u, k) /\ EndedAt(u \o v, k)
<1> DEFINE w == u \o v
           n == Len(u)
           l == Len(w)
           e == TokenEnd(u, k)
<1>0. /\ n \in Nat /\ l \in Nat /\ n <= l /\ w \in Seq(Letter) /\ k \in 1..n /\ k \in 1..l
      /\ \A j \in 1..n : w[j] = u[j]
      /\ l > n => w[n + 1] = v[1] /\ Len(v) > 0
  <2>1. Len(v) \in Nat /\ l = n + Len(v) /\ \A j \in 1..n : w[j] = u[j]
    BY JoinedLetters
  <2>2. l > n => 1 \in 1..Len(v)
    BY <2>1
  <2> QED
    BY <2>1, <2>2, JoinedLetters
<1>1. l > n => /\ u[n] = w[n + 1] => u[n] \notin {"q", "d", "-"}
               /\ ~(u[n] = "/" /\ w[n + 1] = "*")
  BY <1>0 DEF Joins
<1>2. \A j \in k..n : Quotes(w, k, j) = Quotes(u, k, j)
  BY QuotesPrefix
<1>3. /\ u[k] \in {"q", "d"} => e = FirstOr(QuoteEnds(u, k), n)
      /\ Opens(u, k, "/", "*") => e = FirstOr(BlockEnds(u, k), n)
      /\ Opens(u, k, "-", "-") => e = FirstOr(LineEnds(u, k), n)
      /\ u[k] \notin {"q", "d"} /\ ~Opens(u, k, "/", "*") /\ ~Opens(u, k, "-", "-") => e = k
      /\ QuoteEnds(u, k) \subseteq 1..n /\ BlockEnds(u, k) \subseteq 1..n
      /\ LineEnds(u, k) \subseteq 1..n
  BY TokenEndIs
<1>4. /\ w[k] \in {"q", "d"} => TokenEnd(w, k) = FirstOr(QuoteEnds(w, k), l)
      /\ Opens(w, k, "/", "*") => TokenEnd(w, k) = FirstOr(BlockEnds(w, k), l)
      /\ Opens(w, k, "-", "-") => TokenEnd(w, k) = FirstOr(LineEnds(w, k), l)
      /\ w[k] \notin {"q", "d"} /\ ~Opens(w, k, "/", "*") /\ ~Opens(w, k, "-", "-")
           => TokenEnd(w, k) = k
      /\ QuoteEnds(w, k) \subseteq 1..l /\ BlockEnds(w, k) \subseteq 1..l
      /\ LineEnds(w, k) \subseteq 1..l
  BY <1>0, TokenEndIs
<1>5. Opens(u, k, "/", "*") <=> Opens(w, k, "/", "*")
  <2>1. CASE k < n
    <3>1. k + 1 \in 1..n
      BY <1>0, <2>1
    <3> QED
      BY <1>0, <2>1, <3>1 DEF Opens
  <2>2. CASE k = n
    BY <1>0, <1>1, <2>2 DEF Opens
  <2> QED
    BY <1>0, <2>1, <2>2
<1>6. Opens(u, k, "-", "-") <=> Opens(w, k, "-", "-")
  <2>1. CASE k < n
    <3>1. k + 1 \in 1..n
      BY <1>0, <2>1
    <3> QED
      BY <1>0, <2>1, <3>1 DEF Opens
  <2>2. CASE k = n
    BY <1>0, <1>1, <2>2 DEF Opens
  <2> QED
    BY <1>0, <2>1, <2>2
<1>7. u[k] = w[k]
  BY <1>0
<1>8. CASE u[k] \in {"q", "d"}
  <2>1. QuoteEnds(u, k) /= {}
    BY <1>8 DEF EndedAt
  <2>2. e \in QuoteEnds(u, k)
    BY <1>0, <1>3, <1>8, <2>1, FirstIn
  <2>3. \A j \in QuoteEnds(u, k) : e <= j
    BY <1>0, <1>3, <1>8, <2>1, FirstIn
  <2>4. \A j : j \in QuoteEnds(u, k) <=> /\ j \in k + 1..n /\ u[j] = u[k] /\ Quotes(u, k, j) % 2 = 0
                                         /\ j < n => u[j + 1] /= u[k]
    BY DEF QuoteEnds
  <2>5. \A j : j \in QuoteEnds(w, k) <=> /\ j \in k + 1..l /\ w[j] = w[k] /\ Quotes(w, k, j) % 2 = 0
                                         /\ j < l => w[j + 1] /= w[k]
    BY DEF QuoteEnds
  <2> HIDE DEF w, n, l, e
  <2>6. e \in k + 1..n /\ u[e] = u[k] /\ Quotes(u, k, e) % 2 = 0 /\ (e < n => u[e + 1] /= u[k])
    BY <2>2, <2>4
  <2>7. e < l => w[e + 1] /= w[k]
    <3>1. CASE e < n
      <4>1. e + 1 \in 1..n
        BY <1>0, <2>6, <3>1
      <4> QED
        BY <1>0, <1>7, <2>6, <3>1, <4>1
    <3>2. CASE e = n
      BY <1>0, <1>1, <1>7, <1>8, <2>6, <3>2
    <3> QED
      BY <1>0, <2>6, <3>1, <3>2
  <2>8. e \in QuoteEnds(w, k)
    <3>1. e \in 1..n /\ e \in k..n /\ e \in k + 1..l
      BY <1>0, <2>6
    <3> QED
      BY <1>0, <1>2, <1>7, <2>5, <2>6, <2>7, <3>1
  <2>9. \A j \in QuoteEnds(w, k) : j >= e
    <3> SUFFICES ASSUME NEW j \in QuoteEnds(w, k), j < e PROVE FALSE
      BY <1>0, <1>4, <2>6
    <3>1. j \in k + 1..n /\ j + 1 \in 1..n /\ j \in 1..n /\ j \in k..n /\ j < n /\ j < l
      BY <1>0, <2>5, <2>6, SMTT(40)
    <3>2. j \in QuoteEnds(u, k)
      BY <1>0, <1>2, <1>7, <2>4, <2>5, <3>1
    <3> QED
      BY <2>3, <2>6, <3>1, <3>2
  <2>10. TokenEnd(w, k) = e
    BY <1>0, <1>4, <1>7, <1>8, <2>8, <2>9, First
  <2>11. EndedAt(w, k)
    BY <1>7, <1>8, <2>8 DEF EndedAt, Opens
  <2> QED
    BY <2>10, <2>11 DEF w, e
<1>9. CASE Opens(u, k, "/", "*")
  <2>1. BlockEnds(u, k) /= {}
    BY <1>9 DEF EndedAt
  <2>2. e \in BlockEnds(u, k) /\ \A j \in BlockEnds(u, k) : e <= j
    BY <1>0, <1>3, <1>9, <2>1, FirstIn
  <2>4. \A j : j \in BlockEnds(u, k) <=> j \in k + 3..n /\ u[j - 1] = "*" /\ u[j] = "/"
    BY DEF BlockEnds
  <2>5. \A j : j \in BlockEnds(w, k) <=> j \in k + 3..l /\ w[j - 1] = "*" /\ w[j] = "/"
    BY DEF BlockEnds
  <2> HIDE DEF w, n, l, e
  <2>6. \A j \in 1..n : j \in BlockEnds(w, k) <=> j \in BlockEnds(u, k)
    <3> SUFFICES ASSUME NEW j \in 1..n PROVE j \in BlockEnds(w, k) <=> j \in BlockEnds(u, k)
      OBVIOUS
    <3>2. j \in k + 3..n <=> j \in k + 3..l
      BY <1>0
    <3>3. j \in k + 3..n => j - 1 \in 1..n
      BY <1>0
    <3>4. w[j] = u[j] /\ (j \in k + 3..n => w[j - 1] = u[j - 1])
      <4> DEFINE x == j - 1
      <4>1. x \in 1..n => w[x] = u[x]
        BY <1>0
      <4> QED
        BY <1>0, <3>3, <4>1
    <3> QED
      BY <2>4, <2>5, <3>2, <3>4
  <2>7. e \in 1..n /\ e \in BlockEnds(w, k)
    BY <1>3, <2>2, <2>6
  <2>9. \A j \in BlockEnds(w, k) : j >= e
    <3> SUFFICES ASSUME NEW j \in BlockEnds(w, k), j < e PROVE FALSE
      BY <1>0, <1>4, <2>7
    <3>1. j \in 1..n
      BY <1>0, <1>4, <2>7
    <3> QED
      BY <2>2, <2>6, <2>7, <3>1
  <2>10. TokenEnd(w, k) = e
    BY <1>0, <1>4, <1>5, <1>9, <2>7, <2>9, First
  <2>11. EndedAt(w, k)
    BY <1>5, <1>9, <2>7 DEF EndedAt, Opens
  <2> QED
    BY <2>10, <2>11 DEF w, e
<1>10. CASE Opens(u, k, "-", "-")
  <2>1. LineEnds(u, k) /= {}
    BY <1>10 DEF EndedAt
  <2>2. e \in LineEnds(u, k) /\ \A j \in LineEnds(u, k) : e <= j
    BY <1>0, <1>3, <1>10, <2>1, FirstIn
  <2>4. \A j : j \in LineEnds(u, k) <=> j \in k + 2..n /\ u[j] = "n"
    BY DEF LineEnds
  <2>5. \A j : j \in LineEnds(w, k) <=> j \in k + 2..l /\ w[j] = "n"
    BY DEF LineEnds
  <2> HIDE DEF w, n, l, e
  <2>6. \A j \in 1..n : j \in LineEnds(w, k) <=> j \in LineEnds(u, k)
    BY <1>0, <2>4, <2>5
  <2>7. e \in 1..n /\ e \in LineEnds(w, k)
    BY <1>3, <2>2, <2>6
  <2>9. \A j \in LineEnds(w, k) : j >= e
    <3> SUFFICES ASSUME NEW j \in LineEnds(w, k), j < e PROVE FALSE
      BY <1>0, <1>4, <2>7
    <3>1. j \in 1..n
      BY <1>0, <1>4, <2>7
    <3> QED
      BY <2>2, <2>6, <2>7, <3>1
  <2>10. TokenEnd(w, k) = e
    BY <1>0, <1>4, <1>6, <1>10, <2>7, <2>9, First
  <2>11. EndedAt(w, k)
    BY <1>6, <1>10, <2>7 DEF EndedAt, Opens
  <2> QED
    BY <2>10, <2>11 DEF w, e
<1>11. CASE u[k] \notin {"q", "d"} /\ ~Opens(u, k, "/", "*") /\ ~Opens(u, k, "-", "-")
  BY <1>3, <1>4, <1>5, <1>6, <1>7, <1>11 DEF EndedAt
<1> QED
  BY <1>8, <1>9, <1>10, <1>11

LEMMA FirstShift ==
  ASSUME NEW a \in Nat, NEW n \in Nat, NEW S, S \subseteq 1..n, NEW T, T \subseteq 1..a + n,
         \A j \in T : j > a, \A j \in 1..n : a + j \in T <=> j \in S
  PROVE  FirstOr(T, a + n) = a + FirstOr(S, n) /\ (T = {} <=> S = {})
<1>0. \A j \in T : j - a \in 1..n /\ a + (j - a) = j
  OBVIOUS
<1>1. \A j \in T : j - a \in S
  BY <1>0
<1>2. CASE S = {}
  <2>1. T = {}
    BY <1>1, <1>2
  <2> QED
    BY <1>2, <2>1, First
<1>3. CASE S /= {}
  <2> DEFINE e == FirstOr(S, n)
  <2>1. e \in S /\ \A j \in S : e <= j
    BY <1>3, FirstIn
  <2> HIDE DEF e
  <2>2. e \in 1..n /\ a + e \in T /\ a + n \in Nat
    BY <2>1
  <2>3. \A j \in T : j >= a + e
    <3> SUFFICES ASSUME NEW j \in T PROVE j >= a + e
      OBVIOUS
    <3>1. e <= j - a /\ j \in Int
      BY <1>1, <2>1
    <3> QED
      BY <2>2, <3>1
  <2>4. FirstOr(T, a + n) = a + e
    BY <2>2, <2>3, First
  <2> QED
    BY <1>3, <2>2, <2>4 DEF e
<1> QED
  BY <1>2, <1>3

\* A token is the same wherever the text stands that it is in.
LEMMA SuffixToken ==
  ASSUME NEW u \in Seq(Letter), NEW v \in Seq(Letter), NEW k \in 1..Len(v)
  PROVE  /\ TokenEnd(u \o v, Len(u) + k) = Len(u) + TokenEnd(v, k)
         /\ EndedAt(u \o v, Len(u) + k) <=> EndedAt(v, k)
<1> DEFINE w == u \o v
           a == Len(u)
           n == Len(v)
           x == a + k
<1>0. /\ a \in Nat /\ n \in Nat /\ w \in Seq(Letter) /\ Len(w) = a + n /\ k \in 1..n
      /\ x \in 1..a + n /\ \A j \in 1..n : w[a + j] = v[j]
  BY JoinedLetters
<1>1. \A j \in k..n : Quotes(w, x, a + j) = Quotes(v, k, j)
  BY QuotesSuffix
<1>2. /\ v[k] \in {"q", "d"} => TokenEnd(v, k) = FirstOr(QuoteEnds(v, k), n)
      /\ Opens(v, k, "/", "*") => TokenEnd(v, k) = FirstOr(BlockEnds(v, k), n)
      /\ Opens(v, k, "-", "-") => TokenEnd(v, k) = FirstOr(LineEnds(v, k), n)
      /\ v[k] \notin {"q", "d"} /\ ~Opens(v, k, "/", "*") /\ ~Opens(v, k, "-", "-")
           => TokenEnd(v, k) = k
      /\ QuoteEnds(v, k) \subseteq 1..n /\ BlockEnds(v, k) \subseteq 1..n
      /\ LineEnds(v, k) \subseteq 1..n
  BY TokenEndIs
<1>3. /\ w[x] \in {"q", "d"} => TokenEnd(w, x) = FirstOr(QuoteEnds(w, x), a + n)
      /\ Opens(w, x, "/", "*") => TokenEnd(w, x) = FirstOr(BlockEnds(w, x), a + n)
      /\ Opens(w, x, "-", "-") => TokenEnd(w, x) = FirstOr(LineEnds(w, x), a + n)
      /\ w[x] \notin {"q", "d"} /\ ~Opens(w, x, "/", "*") /\ ~Opens(w, x, "-", "-")
           => TokenEnd(w, x) = x
      /\ QuoteEnds(w, x) \subseteq 1..a + n /\ BlockEnds(w, x) \subseteq 1..a + n
      /\ LineEnds(w, x) \subseteq 1..a + n
  BY <1>0, TokenEndIs
<1>4. w[x] = v[k]
  BY <1>0
<1>5. \A j \in 1..n : j < n => w[a + j + 1] = v[j + 1]
  <2> SUFFICES ASSUME NEW j \in 1..n, j < n PROVE w[a + j + 1] = v[j + 1]
    OBVIOUS
  <2>1. j + 1 \in 1..n /\ a + j + 1 = a + (j + 1)
    BY <1>0
  <2> QED
    BY <1>0, <2>1
<1>6. \A j \in 1..n : j > 1 => w[a + (j - 1)] = v[j - 1]
  <2> SUFFICES ASSUME NEW j \in 1..n, j > 1 PROVE w[a + (j - 1)] = v[j - 1]
    OBVIOUS
  <2>1. j - 1 \in 1..n
    BY <1>0
  <2> QED
    BY <1>0, <2>1
<1> HIDE DEF w, n, a
<1>7. \A c, d : Opens(w, x, c, d) <=> Opens(v, k, c, d)
  <2>1. Len(w) = a + n /\ Len(v) = n /\ (x < a + n <=> k < n)
    BY <1>0 DEF n
  <2> HIDE DEF x
  <2>2. k < n => w[x + 1] = v[k + 1]
    BY <1>0, <1>5 DEF x
  <2> QED
    BY <1>4, <2>1, <2>2 DEF Opens
<1>8. \A j \in 1..n : a + j \in QuoteEnds(w, x) <=> j \in QuoteEnds(v, k)
  <2> SUFFICES ASSUME NEW j \in 1..n
               PROVE  a + j \in QuoteEnds(w, x) <=> j \in QuoteEnds(v, k)
    OBVIOUS
  <2>1. /\ a + j \in x + 1..Len(w) <=> j \in k + 1..Len(v)
        /\ a + j < Len(w) <=> j < Len(v)
        /\ j < Len(v) <=> j < n
        /\ j \in k + 1..Len(v) => j \in k..n
    BY <1>0 DEF n
  <2>2. w[a + j] = v[j]
    BY <1>0
  <2>3. j < n => w[a + j + 1] = v[j + 1]
    BY <1>5
  <2>4. j \in k..n => Quotes(w, x, a + j) = Quotes(v, k, j)
    BY <1>1
  <2> HIDE DEF x
  <2> QED
    BY <1>4, <2>1, <2>2, <2>3, <2>4 DEF QuoteEnds
<1>9. \A j \in 1..n : a + j \in BlockEnds(w, x) <=> j \in BlockEnds(v, k)
  <2> SUFFICES ASSUME NEW j \in 1..n
               PROVE  a + j \in BlockEnds(w, x) <=> j \in BlockEnds(v, k)
    OBVIOUS
  <2> DEFINE y == a + j
  <2>1. /\ y \in x + 3..Len(w) <=> j \in k + 3..Len(v)
        /\ j \in k + 3..Len(v) => j > 1
    BY <1>0 DEF n
  <2>2. w[y] = v[j]
    BY <1>0
  <2>3. j > 1 => w[y - 1] = v[j - 1]
    <3>1. y - 1 = a + (j - 1)
      BY <1>0
    <3> HIDE DEF y
    <3> QED
      BY <1>6, <3>1
  <2> HIDE DEF x, y
  <2>4. y \in BlockEnds(w, x) <=> y \in x + 3..Len(w) /\ w[y - 1] = "*" /\ w[y] = "/"
    BY DEF BlockEnds
  <2>5. j \in BlockEnds(v, k) <=> j \in k + 3..Len(v) /\ v[j - 1] = "*" /\ v[j] = "/"
    BY DEF BlockEnds
  <2>6. y \in BlockEnds(w, x) <=> j \in BlockEnds(v, k)
    BY <2>1, <2>2, <2>3, <2>4, <2>5
  <2> QED
    BY <2>6 DEF y
<1>10. \A j \in 1..n : a + j \in LineEnds(w, x) <=> j \in LineEnds(v, k)
  <2> SUFFICES ASSUME NEW j \in 1..n
               PROVE  a + j \in LineEnds(w, x) <=> j \in LineEnds(v, k)
    OBVIOUS
  <2>1. a + j \in x + 2..Len(w) <=> j \in k + 2..Len(v)
    BY <1>0 DEF n
  <2>2. w[a + j] = v[j]
    BY <1>0
  <2> HIDE DEF x
  <2> QED
    BY <2>1, <2>2 DEF LineEnds
<1>11. /\ \A j \in QuoteEnds(w, x) : j > a
       /\ \A j \in BlockEnds(w, x) : j > a
       /\ \A j \in LineEnds(w, x) : j > a
  BY <1>0 DEF QuoteEnds, BlockEnds, LineEnds
<1> HIDE DEF x
<1>12. /\ FirstOr(QuoteEnds(w, x), a + n) = a + FirstOr(QuoteEnds(v, k), n)
       /\ QuoteEnds(w, x) = {} <=> QuoteEnds(v, k) = {}
  <2> DEFINE S == QuoteEnds(v, k)
             T == QuoteEnds(w, x)
  <2>1. /\ S \subseteq 1..n /\ T \subseteq 1..a + n /\ \A j \in T : j > a
        /\ \A j \in 1..n : a + j \in T <=> j \in S
    BY <1>2, <1>3, <1>8, <1>11
  <2> HIDE DEF S, T
  <2>2. FirstOr(T, a + n) = a + FirstOr(S, n) /\ (T = {} <=> S = {})
    BY <1>0, <2>1, FirstShift, ZenonT(40)
  <2> QED
    BY <2>2 DEF S, T
<1>13. /\ FirstOr(BlockEnds(w, x), a + n) = a + FirstOr(BlockEnds(v, k), n)
       /\ BlockEnds(w, x) = {} <=> BlockEnds(v, k) = {}
  <2> DEFINE S == BlockEnds(v, k)
             T == BlockEnds(w, x)
  <2>1. /\ S \subseteq 1..n /\ T \subseteq 1..a + n /\ \A j \in T : j > a
        /\ \A j \in 1..n : a + j \in T <=> j \in S
    BY <1>2, <1>3, <1>9, <1>11
  <2> HIDE DEF S, T
  <2>2. FirstOr(T, a + n) = a + FirstOr(S, n) /\ (T = {} <=> S = {})
    BY <1>0, <2>1, FirstShift, ZenonT(40)
  <2> QED
    BY <2>2 DEF S, T
<1>14. /\ FirstOr(LineEnds(w, x), a + n) = a + FirstOr(LineEnds(v, k), n)
       /\ LineEnds(w, x) = {} <=> LineEnds(v, k) = {}
  <2> DEFINE S == LineEnds(v, k)
             T == LineEnds(w, x)
  <2>1. /\ S \subseteq 1..n /\ T \subseteq 1..a + n /\ \A j \in T : j > a
        /\ \A j \in 1..n : a + j \in T <=> j \in S
    BY <1>2, <1>3, <1>10, <1>11
  <2> HIDE DEF S, T
  <2>2. FirstOr(T, a + n) = a + FirstOr(S, n) /\ (T = {} <=> S = {})
    BY <1>0, <2>1, FirstShift, ZenonT(40)
  <2> QED
    BY <2>2 DEF S, T
<1>15. TokenEnd(w, x) = a + TokenEnd(v, k)
  <2>1. x = a + k
    BY DEF x
  <2>2. CASE v[k] \in {"q", "d"}
    BY <1>2, <1>3, <1>4, <1>12, <2>2
  <2>3. CASE Opens(v, k, "/", "*")
    BY <1>2, <1>3, <1>7, <1>13, <2>3
  <2>4. CASE Opens(v, k, "-", "-")
    BY <1>2, <1>3, <1>7, <1>14, <2>4
  <2>5. CASE v[k] \notin {"q", "d"} /\ ~Opens(v, k, "/", "*") /\ ~Opens(v, k, "-", "-")
    BY <1>2, <1>3, <1>4, <1>7, <2>1, <2>5
  <2> QED
    BY <2>2, <2>3, <2>4, <2>5
<1>16. EndedAt(w, x) <=> EndedAt(v, k)
  BY <1>4, <1>7, <1>12, <1>13, <1>14 DEF EndedAt
<1> QED
  BY <1>15, <1>16 DEF w, a, x

\* The tokens of two texts that are joined are those of the first and those of the second.
LEMMA JoinedTokens ==
  ASSUME NEW u \in Seq(Letter), NEW v \in Seq(Letter), Ended(u), Joins(u, v)
  PROVE  /\ TokenStarts(u \o v) = TokenStarts(u) \cup {Len(u) + k : k \in TokenStarts(v)}
         /\ \A k \in TokenStarts(u) : TokenEnd(u \o v, k) = TokenEnd(u, k)
         /\ Ended(v) => Ended(u \o v)
<1> DEFINE w == u \o v
           a == Len(u)
           n == Len(v)
           U == TokenStarts(u)
           V == {a + k : k \in TokenStarts(v)}
           S == U \cup V \cup {a + n + 1}
<1>0. a \in Nat /\ n \in Nat /\ w \in Seq(Letter) /\ Len(w) = a + n
  BY JoinedLetters
<1>1. \A k \in U : k \in 1..a /\ TokenEnd(w, k) = TokenEnd(u, k) /\ EndedAt(w, k)
  <2> SUFFICES ASSUME NEW k \in U
               PROVE  k \in 1..a /\ TokenEnd(w, k) = TokenEnd(u, k) /\ EndedAt(w, k)
    OBVIOUS
  <2>1. k \in 1..Len(u) /\ EndedAt(u, k)
    BY TokensTile DEF Ended
  <2> QED
    BY <2>1, PrefixToken
<1>2. \A k \in TokenStarts(v) : /\ k \in 1..n /\ TokenEnd(w, a + k) = a + TokenEnd(v, k)
                                /\ EndedAt(w, a + k) <=> EndedAt(v, k)
  <2> SUFFICES ASSUME NEW k \in TokenStarts(v)
               PROVE  /\ k \in 1..n /\ TokenEnd(w, a + k) = a + TokenEnd(v, k)
                      /\ EndedAt(w, a + k) <=> EndedAt(v, k)
    OBVIOUS
  <2>1. k \in 1..Len(v)
    BY TokensTile
  <2> QED
    BY <2>1, SuffixToken
<1>3. /\ a > 0 => 1 \in U
      /\ \A k \in U : TokenEnd(u, k) + 1 \in U \cup {a + 1} /\ TokenEnd(u, k) \in k..a
      /\ \A j, k \in U : j < k => TokenEnd(u, j) < k
  BY TokensTile, Inside
<1>4. /\ n > 0 => 1 \in TokenStarts(v)
      /\ \A k \in TokenStarts(v) : /\ TokenEnd(v, k) + 1 \in TokenStarts(v) \cup {n + 1}
                                   /\ TokenEnd(v, k) \in k..n
      /\ \A j, k \in TokenStarts(v) : j < k => TokenEnd(v, j) < k
  BY TokensTile, Inside
<1> HIDE DEF w, a, n
<1>5. S \subseteq 1..Len(w) + 1
  BY <1>0, <1>1, <1>2
<1>6. a + 1 \in S
  <2>1. CASE n > 0
    BY <1>4, <2>1
  <2>2. CASE n = 0
    BY <1>0, <2>2
  <2> QED
    BY <1>0, <2>1, <2>2
<1>7. 1 \in S
  <2>1. CASE a > 0
    BY <1>3, <2>1
  <2>2. CASE a = 0
    BY <1>0, <1>6, <2>2
  <2> QED
    BY <1>0, <2>1, <2>2
<1>8. ASSUME NEW x \in S, x <= Len(w) PROVE TokenEnd(w, x) + 1 \in S
  <2>1. CASE x \in U
    BY <1>1, <1>3, <1>6, <2>1
  <2>2. CASE x \in V
    <3>1. PICK k \in TokenStarts(v) : x = a + k
      BY <2>2
    <3>2. TokenEnd(w, x) = a + TokenEnd(v, k)
      BY <1>2, <3>1
    <3> DEFINE e == TokenEnd(v, k)
    <3>3. e \in Nat /\ e + 1 \in TokenStarts(v) \cup {n + 1}
      BY <1>0, <1>2, <1>4
    <3> HIDE DEF e
    <3>4. TokenEnd(w, x) + 1 = a + (e + 1)
      BY <1>0, <3>2, <3>3 DEF e
    <3>5. CASE e + 1 \in TokenStarts(v)
      BY <3>4, <3>5
    <3>6. CASE e + 1 = n + 1
      <4>1. a + (n + 1) = a + n + 1
        BY <1>0
      <4> QED
        BY <3>4, <3>6, <4>1
    <3> QED
      BY <3>3, <3>5, <3>6
  <2>3. CASE x = a + n + 1
    BY <1>0, <1>8, <2>3
  <2> QED
    BY <2>1, <2>2, <2>3
<1>9. ASSUME NEW x \in S, NEW y \in S, x < y PROVE TokenEnd(w, x) < y
  <2>1. CASE x \in U
    <3>1. TokenEnd(w, x) = TokenEnd(u, x) /\ TokenEnd(u, x) \in x..a /\ x \in 1..a
      BY <1>1, <1>3, <2>1
    <3>2. CASE y \in U
      BY <1>3, <1>9, <2>1, <3>1, <3>2
    <3>3. CASE y \notin U
      <4>1. y >= a + 1 /\ y \in Int
        BY <1>0, <1>2, <3>3
      <4> QED
        BY <1>0, <3>1, <4>1
    <3> QED
      BY <3>2, <3>3
  <2>2. CASE x \in V
    <3>1. PICK j \in TokenStarts(v) : x = a + j
      BY <2>2
    <3>2. TokenEnd(w, x) = a + TokenEnd(v, j) /\ TokenEnd(v, j) \in j..n /\ j \in 1..n
      BY <1>2, <1>4, <3>1
    <3>3. CASE y \in U
      <4>1. y \in 1..a
        BY <1>1, <3>3
      <4> QED
        BY <1>0, <1>9, <3>1, <3>2, <4>1
    <3>4. CASE y \in V
      <4>1. PICK k \in TokenStarts(v) : y = a + k
        BY <3>4
      <4>2. k \in 1..n
        BY <1>2
      <4>3. j < k
        BY <1>0, <1>9, <3>1, <3>2, <4>1, <4>2
      <4>4. TokenEnd(v, j) < k
        BY <1>4, <4>3
      <4> QED
        BY <1>0, <3>2, <4>1, <4>2, <4>4
    <3>5. CASE y = a + n + 1
      BY <1>0, <3>2, <3>5
    <3> QED
      BY <3>3, <3>4, <3>5
  <2>3. CASE x = a + n + 1
    <3>1. y \in 1..a + n + 1
      BY <1>0, <1>5
    <3> HIDE DEF S
    <3> QED
      BY <1>0, <1>9, <2>3, <3>1
  <2> QED
    BY <2>1, <2>2, <2>3
<1>10. TokenStarts(w) = S \cap 1..Len(w)
  <2> HIDE DEF S
  <2> QED
    BY <1>0, <1>5, <1>7, <1>8, <1>9, TilesUnique
<1>11. TokenStarts(w) = U \cup V
  BY <1>0, <1>1, <1>2, <1>10
<1>12. ASSUME Ended(v) PROVE Ended(w)
  <2> SUFFICES ASSUME NEW x \in U \cup V PROVE EndedAt(w, x)
    BY <1>11 DEF Ended
  <2>1. CASE x \in U
    BY <1>1, <2>1
  <2>2. CASE x \in V
    BY <1>2, <1>12, <2>2 DEF Ended
  <2> QED
    BY <2>1, <2>2
<1> QED
  BY <1>1, <1>11, <1>12 DEF w, a

LEMMA CutText ==
  ASSUME NEW s \in Seq(Letter), NEW p \in 1..Len(s) + 1
  PROVE  LET u == SubSeq(s, 1, p - 1)
             v == SubSeq(s, p, Len(s))
         IN /\ u \in Seq(Letter) /\ Len(u) = p - 1
            /\ v \in Seq(Letter) /\ Len(v) = Len(s) - p + 1
            /\ \A j \in 1..Len(u) : u[j] = s[j]
            /\ \A j \in 1..Len(v) : v[j] = s[p - 1 + j]
            /\ u \o v = s
<1> DEFINE u == SubSeq(s, 1, p - 1)
           v == SubSeq(s, p, Len(s))
           n == Len(s)
           a == p - 1
           m == n - p + 1
           w == u \o v
<1>0. n \in Nat /\ a \in Nat /\ m \in Nat /\ a + m = n /\ p = a + 1 /\ p \in 1..n + 1
  OBVIOUS
<1>1. u \in Seq(Letter) /\ Len(u) = a /\ \A j \in 1..a : u[j] = s[j]
  BY <1>0
<1>2. v \in Seq(Letter) /\ Len(v) = m /\ \A j \in 1..m : v[j] = s[p + j - 1]
  BY <1>0
<1>3. /\ w \in Seq(Letter) /\ Len(w) = Len(u) + Len(v)
      /\ \A j \in 1..Len(u) : w[j] = u[j]
      /\ \A j \in 1..Len(v) : w[Len(u) + j] = v[j]
  BY <1>1, <1>2, JoinedLetters
<1> HIDE DEF u, v, n, a, m, w
<1>4. \A j \in 1..m : v[j] = s[a + j]
  <2> SUFFICES ASSUME NEW j \in 1..m PROVE v[j] = s[a + j]
    OBVIOUS
  <2>1. p + j - 1 = a + j
    BY <1>0
  <2> QED
    BY <1>2, <2>1
<1>5. \A j \in 1..n : w[j] = s[j]
  <2> SUFFICES ASSUME NEW j \in 1..n PROVE w[j] = s[j]
    OBVIOUS
  <2>1. CASE j <= a
    <3>1. j \in 1..a
      BY <1>0, <2>1
    <3> QED
      BY <1>1, <1>3, <3>1
  <2>2. CASE j > a
    <3> DEFINE i_ == j - a
    <3>1. i_ \in 1..m /\ a + i_ = j
      BY <1>0, <2>2
    <3> HIDE DEF i_
    <3>2. w[a + i_] = v[i_] /\ v[i_] = s[a + i_]
      BY <1>1, <1>2, <1>3, <1>4, <3>1
    <3> QED
      BY <3>1, <3>2
  <2> QED
    BY <1>0, <2>1, <2>2
<1>6. w = s
  <2>1. w \in Seq(Letter) /\ Len(w) = n /\ s \in Seq(Letter) /\ Len(s) = n
    BY <1>0, <1>1, <1>2, <1>3 DEF n
  <2> QED
    BY <1>5, <2>1
<1> QED
  BY <1>1, <1>2, <1>4, <1>6 DEF u, v, w, n, a, m

\* A text cut where a token starts, in front of a character that joins with nothing.
LEMMA CutTokens ==
  ASSUME NEW u \in Seq(Letter), NEW v \in Seq(Letter), Len(v) > 0, v[1] \in {"?", "x", "n"},
         Len(u) + 1 \in TokenStarts(u \o v)
  PROVE  /\ Ended(u)
         /\ TokenStarts(u) = {k \in TokenStarts(u \o v) : k <= Len(u)}
         /\ TokenStarts(v) = {k \in 1..Len(v) : Len(u) + k \in TokenStarts(u \o v)}
<1> DEFINE s == u \o v
           a == Len(u)
           m == Len(v)
           n == a + m
           p == a + 1
<1>0. /\ a \in Nat /\ m \in Nat /\ m > 0 /\ n \in Nat /\ s \in Seq(Letter) /\ Len(s) = n
      /\ p \in 1..n /\ p \in TokenStarts(s)
      /\ \A j \in 1..a : s[j] = u[j]
  BY JoinedLetters
<1>1. Joins(u, v)
  BY DEF Joins
<1> DEFINE S == {k \in TokenStarts(s) : k <= p}
<1>2. \A k \in 1..a : \A j \in k..a : Quotes(s, k, j) = Quotes(u, k, j)
  BY QuotesPrefix
<1>3. \A k \in 1..a : EndedAt(u, k) => TokenEnd(s, k) = TokenEnd(u, k)
  BY <1>1, PrefixToken
<1>4. Ended(u) => TokenStarts(s) = TokenStarts(u) \cup {a + k : k \in TokenStarts(v)}
  BY <1>1, JoinedTokens
<1>5. /\ TokenStarts(v) \subseteq 1..m /\ Len(u) = a /\ Len(v) = m
  BY TokensTile
<1> HIDE DEF s, a, m, n
<1>6. /\ \A k \in TokenStarts(s) : /\ k \in 1..n /\ TokenEnd(s, k) \in k..n
                                   /\ TokenEnd(s, k) + 1 \in TokenStarts(s) \cup {n + 1}
      /\ \A j, k \in TokenStarts(s) : j < k => TokenEnd(s, j) < k
      /\ 1 \in TokenStarts(s)
  <2>1. \A k \in TokenStarts(s) : k \in 1..Len(s) /\ TokenEnd(s, k) \in k..Len(s)
    BY <1>0, Inside
  <2>2. \A k \in TokenStarts(s) : TokenEnd(s, k) + 1 \in TokenStarts(s) \cup {Len(s) + 1}
    BY <1>0, TokensTile
  <2>3. \A j, k \in TokenStarts(s) : j < k => TokenEnd(s, j) < k
    BY <1>0, TokensTile
  <2>4. Len(s) > 0 => 1 \in TokenStarts(s)
    BY <1>0, TokensTile
  <2> QED
    BY <1>0, <2>1, <2>2, <2>3, <2>4
<1>7. ASSUME NEW k \in TokenStarts(s), k < p
      PROVE  k \in 1..a /\ TokenEnd(s, k) \in k..a /\ EndedAt(u, k)
  <2> DEFINE e == TokenEnd(s, k)
  <2>1. k \in 1..n /\ k \in 1..a /\ e \in k..n /\ e < p /\ e \in k..a /\ e < n
    BY <1>0, <1>6, <1>7
  <2>2. /\ s[k] \in {"q", "d"} => e = FirstOr(QuoteEnds(s, k), n)
        /\ Opens(s, k, "/", "*") => e = FirstOr(BlockEnds(s, k), n)
        /\ Opens(s, k, "-", "-") => e = FirstOr(LineEnds(s, k), n)
        /\ QuoteEnds(s, k) \subseteq 1..n /\ BlockEnds(s, k) \subseteq 1..n
        /\ LineEnds(s, k) \subseteq 1..n
    BY <1>0, <2>1, TokenEndIs
  <2> HIDE DEF e, p
  <2>3. ASSUME u[k] \in {"q", "d"} PROVE QuoteEnds(u, k) /= {}
    <3>1. e \in QuoteEnds(s, k)
      BY <1>0, <2>1, <2>2, <2>3, First
    <3>2. Quotes(s, k, e) = Quotes(u, k, e)
      BY <1>2, <2>1
    <3>3. /\ e \in k + 1..n /\ s[e] = s[k] /\ Quotes(s, k, e) % 2 = 0
          /\ e < n => s[e + 1] /= s[k]
      BY <1>0, <3>1 DEF QuoteEnds
    <3>4. e < a => e + 1 \in 1..a
      BY <1>0, <2>1
    <3>5. /\ e \in k + 1..a /\ u[e] = u[k] /\ Quotes(u, k, e) % 2 = 0
          /\ e < a => u[e + 1] /= u[k]
      BY <1>0, <2>1, <3>2, <3>3, <3>4
    <3>6. e \in QuoteEnds(u, k)
      BY <1>5, <3>5 DEF QuoteEnds
    <3> QED
      BY <3>6
  <2>4. \A c, d : Opens(u, k, c, d) => Opens(s, k, c, d)
    <3> SUFFICES ASSUME NEW c, NEW d, Opens(u, k, c, d) PROVE Opens(s, k, c, d)
      OBVIOUS
    <3>1. k < a /\ k + 1 \in 1..a /\ k < Len(s)
      BY <1>0, <1>5, <2>1 DEF Opens
    <3> QED
      BY <1>0, <2>1, <3>1 DEF Opens
  <2>5. ASSUME Opens(u, k, "/", "*") PROVE BlockEnds(u, k) /= {}
    <3>1. e \in BlockEnds(s, k)
      BY <1>0, <2>1, <2>2, <2>4, <2>5, First
    <3>2. e \in k + 3..n /\ s[e - 1] = "*" /\ s[e] = "/"
      BY <1>0, <3>1 DEF BlockEnds
    <3>3. e - 1 \in 1..a /\ e \in k + 3..a /\ e \in 1..a
      BY <1>0, <2>1, <3>2
    <3>4. u[e - 1] = "*" /\ u[e] = "/"
      BY <1>0, <3>2, <3>3
    <3>5. e \in BlockEnds(u, k)
      BY <1>5, <3>3, <3>4 DEF BlockEnds
    <3> QED
      BY <3>5
  <2>6. ASSUME Opens(u, k, "-", "-") PROVE LineEnds(u, k) /= {}
    <3>1. e \in LineEnds(s, k)
      BY <1>0, <2>1, <2>2, <2>4, <2>6, First
    <3>2. e \in k + 2..n /\ s[e] = "n"
      BY <1>0, <3>1 DEF LineEnds
    <3>3. e \in k + 2..a /\ e \in 1..a
      BY <1>0, <2>1, <3>2
    <3>4. e \in LineEnds(u, k)
      BY <1>0, <1>5, <3>2, <3>3 DEF LineEnds
    <3> QED
      BY <3>4
  <2>7. EndedAt(u, k)
    BY <2>3, <2>5, <2>6 DEF EndedAt
  <2> QED
    BY <2>1, <2>7 DEF e
<1>8. TokenStarts(u) = S \cap 1..a
  <2>1. S \subseteq 1..a + 1 /\ 1 \in S
    BY <1>0, <1>6
  <2>2. ASSUME NEW x \in S, x <= a PROVE TokenEnd(u, x) + 1 \in S
    <3>0. x \in TokenStarts(s) /\ x \in 1..n
      BY <1>6
    <3>1. x < p /\ x \in TokenStarts(s)
      BY <1>0, <2>2, <3>0
    <3>2. TokenEnd(u, x) = TokenEnd(s, x) /\ TokenEnd(s, x) \in x..a
      BY <1>3, <1>7, <3>1
    <3>3. TokenEnd(s, x) + 1 \in TokenStarts(s) \cup {n + 1}
      BY <1>6, <3>1
    <3> QED
      BY <1>0, <1>6, <3>2, <3>3
  <2>3. ASSUME NEW x \in S, NEW y \in S, x < y PROVE TokenEnd(u, x) < y
    <3>0. x \in TokenStarts(s) /\ x \in 1..n /\ y \in TokenStarts(s) /\ y \in 1..n /\ y <= p
      BY <1>6
    <3>1. x < p /\ x \in TokenStarts(s) /\ y \in TokenStarts(s)
      BY <1>0, <2>3, <3>0
    <3>2. TokenEnd(u, x) = TokenEnd(s, x)
      BY <1>3, <1>7, <3>1
    <3> QED
      BY <1>6, <2>3, <3>1, <3>2
  <2> HIDE DEF S, p
  <2>4. TokenStarts(u) = S \cap 1..Len(u)
    BY <1>5, <2>1, <2>2, <2>3, TilesUnique
  <2> QED
    BY <1>5, <2>4
<1>9. TokenStarts(u) = {k \in TokenStarts(s) : k <= a}
  <2>1. \A k \in TokenStarts(s) : k \in 1..n
    BY <1>6
  <2> QED
    BY <1>0, <1>8, <2>1
<1>10. Ended(u)
  <2>1. \A k \in TokenStarts(u) : k \in TokenStarts(s) /\ k \in 1..n /\ k <= a
    BY <1>6, <1>9
  <2>2. \A k \in TokenStarts(u) : k < p
    BY <1>0, <2>1
  <2> QED
    BY <1>7, <2>1, <2>2 DEF Ended
<1>11. TokenStarts(s) = TokenStarts(u) \cup {a + k : k \in TokenStarts(v)}
  BY <1>4, <1>10
<1>12. TokenStarts(v) = {k \in 1..m : a + k \in TokenStarts(s)}
  <2>1. \A k \in 1..m : a + k \notin TokenStarts(u)
    BY <1>0, <1>9
  <2>2. \A k \in 1..m : a + k \in TokenStarts(s) => k \in TokenStarts(v)
    <3> SUFFICES ASSUME NEW k \in 1..m, a + k \in TokenStarts(s) PROVE k \in TokenStarts(v)
      OBVIOUS
    <3>1. PICK j \in TokenStarts(v) : a + k = a + j
      BY <1>11, <2>1
    <3>2. j = k
      BY <1>0, <1>5, <3>1
    <3> QED
      BY <3>2
  <2> QED
    BY <1>5, <1>11, <2>2
<1> QED
  BY <1>9, <1>10, <1>12 DEF s, a, m

-----------------------------------------------------------------------------
\* Texts in which the characters of a set are doubled, as escapeString and QuoteTo do.

Twice(c, D) == IF c \in D THEN <<c, c>> ELSE <<c>>

\* at[k] is the length of what became of the first k characters.
Places(s, D, t, at) ==
  /\ at \in [0..Len(s) -> 0..Len(t)] /\ at[0] = 0 /\ at[Len(s)] = Len(t)
  /\ \A k \in 1..Len(s) :
       /\ at[k] = at[k - 1] + Len(Twice(s[k], D))
       /\ t[at[k - 1] + 1] = s[k]
       /\ s[k] \in D => t[at[k - 1] + 2] = s[k]

LEMMA DoubledPlaces ==
  ASSUME NEW s \in Seq(Letter), NEW D
  PROVE  Doubled(s, D) \in Seq(Letter) /\ \E at : Places(s, D, Doubled(s, D), at)
<1> DEFINE n == Len(s)
           seqs == [k \in 1..n |-> Twice(s[k], D)]
           t == Doubled(s, D)
<1>0. n \in Nat /\ \A k \in 1..n : s[k] \in Letter
  OBVIOUS
<1>1. \A k \in 1..n : /\ seqs[k] = Twice(s[k], D) /\ seqs[k] \in Seq(Letter)
                      /\ Len(seqs[k]) = (IF s[k] \in D THEN 2 ELSE 1)
                      /\ seqs[k][1] = s[k] /\ (s[k] \in D => seqs[k][2] = s[k])
  BY <1>0 DEF Twice
<1>2. seqs \in Seq(Seq(Letter)) /\ Len(seqs) = n
  BY <1>0, <1>1
<1>3. t = FlattenSeq(seqs)
  BY DEF Doubled, Twice
<1> HIDE DEF n, seqs, t
<1>4. t \in Seq(Letter)
  BY <1>2, <1>3, FlattenType
<1>5. PICK h \in [0..n -> Seq(Letter)] :
         h[0] = <<>> /\ h[n] = t /\ \A k \in 1..n : h[k] = h[k - 1] \o seqs[k]
  BY <1>2, <1>3, FlattenTexts
<1> DEFINE at == [k \in 0..n |-> Len(h[k])]
<1>6. /\ \A k \in 0..n : at[k] = Len(h[k]) /\ at[k] \in Nat
      /\ at[0] = 0 /\ at[n] = Len(t)
  BY <1>0, <1>5
<1> HIDE DEF at
<1>7. ASSUME NEW k \in 1..n
      PROVE  /\ at[k] = at[k - 1] + Len(seqs[k]) /\ Len(seqs[k]) \in Nat
             /\ \A j \in 1..at[k - 1] : h[k][j] = h[k - 1][j]
             /\ h[k][at[k - 1] + 1] = s[k]
             /\ s[k] \in D => h[k][at[k - 1] + 2] = s[k]
  <2>1. k - 1 \in 0..n /\ k \in 0..n
    BY <1>0
  <2>2. /\ h[k - 1] \in Seq(Letter) /\ seqs[k] \in Seq(Letter) /\ h[k] = h[k - 1] \o seqs[k]
        /\ at[k] = Len(h[k]) /\ at[k - 1] = Len(h[k - 1])
    BY <1>1, <1>5, <1>6, <2>1
  <2>3. 1 \in 1..Len(seqs[k]) /\ (s[k] \in D => 2 \in 1..Len(seqs[k])) /\ Len(seqs[k]) \in Nat
    BY <1>1
  <2>4. /\ Len(h[k]) = Len(h[k - 1]) + Len(seqs[k])
        /\ \A j \in 1..Len(h[k - 1]) : h[k][j] = h[k - 1][j]
        /\ \A j \in 1..Len(seqs[k]) : h[k][Len(h[k - 1]) + j] = seqs[k][j]
    <3> DEFINE u == h[k - 1]
               v == seqs[k]
    <3>1. u \in Seq(Letter) /\ v \in Seq(Letter) /\ h[k] = u \o v
      BY <2>2
    <3> HIDE DEF u, v
    <3>2. /\ Len(h[k]) = Len(u) + Len(v)
          /\ \A j \in 1..Len(u) : h[k][j] = u[j]
          /\ \A j \in 1..Len(v) : h[k][Len(u) + j] = v[j]
      BY <3>1, JoinedLetters
    <3> QED
      BY <3>2 DEF u, v
  <2> QED
    BY <1>1, <2>2, <2>3, <2>4
\* What was written stays.
<1>8. ASSUME NEW k \in 0..n
      PROVE  at[k] <= Len(t) /\ \A j \in 1..at[k] : t[j] = h[k][j]
  <2> DEFINE Q == {m \in Nat : k + m <= n =>
                     /\ at[k] <= at[k + m] /\ \A j \in 1..at[k] : h[k + m][j] = h[k][j]}
  <2>1. 0 \in Q
    <3>1. k + 0 = k /\ at[k] \in Nat
      BY <1>0, <1>6
    <3> QED
      BY <3>1
  <2>2. \A m \in Nat : m \in Q => m + 1 \in Q
    <3> SUFFICES ASSUME NEW m \in Nat, k + (m + 1) <= n, at[k] <= at[k + m],
                        \A j \in 1..at[k] : h[k + m][j] = h[k][j]
                 PROVE  /\ at[k] <= at[k + (m + 1)]
                        /\ \A j \in 1..at[k] : h[k + (m + 1)][j] = h[k][j]
      BY <1>0
    <3> DEFINE x == k + (m + 1)
               y == k + m
    <3>1. x \in 1..n /\ x - 1 = y /\ y \in 0..n /\ k + (m + 1) = x
      BY <1>0
    <3> HIDE DEF x, y
    <3>2. /\ at[x] = at[y] + Len(seqs[x]) /\ Len(seqs[x]) \in Nat
          /\ \A j \in 1..at[y] : h[x][j] = h[y][j]
      BY <1>7, <3>1
    <3>3. at[y] \in Nat /\ at[k] \in Nat /\ at[k] <= at[y]
      BY <1>6, <3>1 DEF y
    <3>4. at[k] <= at[x] /\ \A j \in 1..at[k] : j \in 1..at[y]
      BY <3>2, <3>3
    <3>5. \A j \in 1..at[k] : h[y][j] = h[k][j]
      BY DEF y
    <3>6. \A j \in 1..at[k] : h[x][j] = h[k][j]
      BY <3>2, <3>4, <3>5
    <3> QED
      BY <3>1, <3>4, <3>6
  <2>3. n - k \in Nat /\ k + (n - k) = n
    BY <1>0
  <2>4. n - k \in Q
    <3> HIDE DEF Q
    <3> QED
      BY <2>1, <2>2, <2>3, SetInduction
  <2>5. at[k] <= at[n] /\ \A j \in 1..at[k] : h[n][j] = h[k][j]
    <3>1. k + (n - k) <= n
      BY <1>0, <2>3
    <3> QED
      BY <2>3, <2>4, <3>1
  <2> QED
    BY <1>5, <1>6, <2>5
<1>9. at \in [0..n -> 0..Len(t)]
  <2>1. \A k \in 0..n : at[k] \in 0..Len(t)
    BY <1>4, <1>6, <1>8
  <2> QED
    BY <2>1 DEF at
<1>10. ASSUME NEW k \in 1..n
       PROVE  /\ at[k] = at[k - 1] + Len(Twice(s[k], D))
              /\ t[at[k - 1] + 1] = s[k]
              /\ s[k] \in D => t[at[k - 1] + 2] = s[k]
  <2>1. k \in 0..n /\ k - 1 \in 0..n
    BY <1>0
  <2>2. Len(seqs[k]) = (IF s[k] \in D THEN 2 ELSE 1) /\ seqs[k] = Twice(s[k], D)
    BY <1>1
  <2>3. at[k] \in Nat /\ at[k - 1] \in Nat /\ at[k] = at[k - 1] + Len(seqs[k])
    BY <1>6, <1>7, <2>1
  <2>4. \A j \in 1..at[k] : t[j] = h[k][j]
    BY <1>8, <2>1
  <2>5. at[k - 1] + 1 \in 1..at[k] /\ (s[k] \in D => at[k - 1] + 2 \in 1..at[k])
    BY <2>2, <2>3
  <2> QED
    BY <1>7, <2>2, <2>3, <2>4, <2>5
<1>11. Places(s, D, t, at)
  BY <1>6, <1>9, <1>10 DEF Places, n
<1> QED
  BY <1>4, <1>11 DEF t

-----------------------------------------------------------------------------
\* The functions that Undoubled and Growth define by recursion exist.

Read(s, D, g, k) ==
  IF k = 0 THEN [text |-> <<>>, half |-> FALSE]
  ELSE LET r == g[k - 1] IN
       IF r.half /\ s[k] = s[k - 1] THEN [text |-> r.text, half |-> FALSE]
       ELSE [text |-> Append(r.text, s[k]), half |-> s[k] \in D]

IsRead(s, D, g, n) == g = [k \in 0..n |-> Read(s, D, g, k)]

LEMMA ReadExists ==
  ASSUME NEW s, NEW D, NEW n \in Nat
  PROVE  \E g : IsRead(s, D, g, n)
<1> DEFINE P == {m \in Nat : \E g : IsRead(s, D, g, m)}
<1>1. 0 \in P
  <2> DEFINE g == [k \in 0..0 |-> [text |-> <<>>, half |-> FALSE]]
  <2>1. \A k \in 0..0 : Read(s, D, g, k) = [text |-> <<>>, half |-> FALSE]
    BY DEF Read
  <2>2. IsRead(s, D, g, 0)
    BY <2>1 DEF IsRead
  <2> QED
    BY <2>2
<1>2. \A m \in Nat : m \in P => m + 1 \in P
  <2> SUFFICES ASSUME NEW m \in Nat, NEW g, IsRead(s, D, g, m)
               PROVE  \E h : IsRead(s, D, h, m + 1)
    OBVIOUS
  <2> DEFINE h == [k \in 0..m + 1 |-> Read(s, D, g, k)]
  <2>1. \A k \in 0..m : h[k] = g[k]
    BY DEF IsRead
  <2>2. \A k \in 0..m + 1 : Read(s, D, h, k) = Read(s, D, g, k)
    <3> SUFFICES ASSUME NEW k \in 0..m + 1 PROVE Read(s, D, h, k) = Read(s, D, g, k)
      OBVIOUS
    <3>1. k = 0 \/ k - 1 \in 0..m
      OBVIOUS
    <3> HIDE DEF h
    <3> QED
      BY <2>1, <3>1 DEF Read
  <2>3. IsRead(s, D, h, m + 1)
    BY <2>2 DEF IsRead
  <2> QED
    BY <2>3
<1>3. Nat \subseteq P
  <2> HIDE DEF P
  <2> QED
    BY <1>1, <1>2, SetInduction
<1> QED
  BY <1>3

ReadOf(s, D) == CHOOSE g : IsRead(s, D, g, Len(s))

LEMMA ReadSteps ==
  ASSUME NEW s \in Seq(Letter), NEW D
  PROVE  /\ Undoubled(s, D) = ReadOf(s, D)[Len(s)].text
         /\ \A k \in 0..Len(s) : ReadOf(s, D)[k] = Read(s, D, ReadOf(s, D), k)
<1>1. IsRead(s, D, ReadOf(s, D), Len(s))
  BY ReadExists DEF ReadOf
<1>2. Undoubled(s, D) = ReadOf(s, D)[Len(s)].text
  BY DEF Undoubled, ReadOf, IsRead, Read
<1>3. \A k \in 0..Len(s) : ReadOf(s, D)[k] = Read(s, D, ReadOf(s, D), k)
  BY <1>1 DEF IsRead
<1> QED
  BY <1>2, <1>3

Grown(s, g, k) == IF k = 0 THEN 0 ELSE g[k - 1] + Len(FormatValue(s[k])) - 1

IsGrown(s, g, n) == g = [k \in 0..n |-> Grown(s, g, k)]

LEMMA GrownExists ==
  ASSUME NEW s, NEW n \in Nat
  PROVE  \E g : IsGrown(s, g, n)
<1> DEFINE P == {m \in Nat : \E g : IsGrown(s, g, m)}
<1>1. 0 \in P
  <2> DEFINE g == [k \in 0..0 |-> 0]
  <2>1. \A k \in 0..0 : Grown(s, g, k) = 0
    BY DEF Grown
  <2>2. IsGrown(s, g, 0)
    BY <2>1 DEF IsGrown
  <2> QED
    BY <2>2
<1>2. \A m \in Nat : m \in P => m + 1 \in P
  <2> SUFFICES ASSUME NEW m \in Nat, NEW g, IsGrown(s, g, m)
               PROVE  \E h : IsGrown(s, h, m + 1)
    OBVIOUS
  <2> DEFINE h == [k \in 0..m + 1 |-> Grown(s, g, k)]
  <2>1. \A k \in 0..m : h[k] = g[k]
    BY DEF IsGrown
  <2>2. \A k \in 0..m + 1 : Grown(s, h, k) = Grown(s, g, k)
    <3> SUFFICES ASSUME NEW k \in 0..m + 1 PROVE Grown(s, h, k) = Grown(s, g, k)
      OBVIOUS
    <3>1. k = 0 \/ k - 1 \in 0..m
      OBVIOUS
    <3> HIDE DEF h
    <3> QED
      BY <2>1, <3>1 DEF Grown
  <2>3. IsGrown(s, h, m + 1)
    BY <2>2 DEF IsGrown
  <2> QED
    BY <2>3
<1>3. Nat \subseteq P
  <2> HIDE DEF P
  <2> QED
    BY <1>1, <1>2, SetInduction
<1> QED
  BY <1>3

GrownOf(s) == CHOOSE g : IsGrown(s, g, Len(s))

LEMMA GrowthSteps ==
  ASSUME NEW s, Len(s) \in Nat
  PROVE  Growth(s, 0) = 0 /\ \A k \in 1..Len(s) :
           Growth(s, k) = Growth(s, k - 1) + Len(FormatValue(s[k])) - 1
<1>1. IsGrown(s, GrownOf(s), Len(s))
  BY GrownExists DEF GrownOf
<1>2. \A k \in 0..Len(s) : Growth(s, k) = GrownOf(s)[k]
  BY DEF Growth, GrownOf, IsGrown, Grown
<1>3. \A k \in 0..Len(s) : GrownOf(s)[k] = Grown(s, GrownOf(s), k)
  BY <1>1 DEF IsGrown
<1>4. Growth(s, 0) = 0
  BY <1>2, <1>3 DEF Grown
<1>5. ASSUME NEW k \in 1..Len(s)
      PROVE  Growth(s, k) = Growth(s, k - 1) + Len(FormatValue(s[k])) - 1
  <2>1. k \in 0..Len(s) /\ k - 1 \in 0..Len(s) /\ k /= 0
    OBVIOUS
  <2> QED
    BY <1>2, <1>3, <2>1 DEF Grown
<1> QED
  BY <1>4, <1>5

LEMMA FirstChars ==
  ASSUME NEW c \in Seq(Letter)
  PROVE  /\ SubSeq(c, 1, 0) = <<>> /\ SubSeq(c, 1, Len(c)) = c
         /\ \A k \in 0..Len(c) - 1 : SubSeq(c, 1, k + 1) = Append(SubSeq(c, 1, k), c[k + 1])
<1>1. SubSeq(c, 1, 0) = <<>> /\ SubSeq(c, 1, Len(c)) = c
  OBVIOUS
<1>2. ASSUME NEW k \in 0..Len(c) - 1
      PROVE  SubSeq(c, 1, k + 1) = Append(SubSeq(c, 1, k), c[k + 1])
  OBVIOUS
<1> QED
  BY <1>1, <1>2

\* A reader of both escapes gets the argument back, and a name is what was quoted.
LEMMA DoubledReadsBack ==
  ASSUME NEW c \in Seq(Letter), NEW D
  PROVE  Undoubled(Doubled(c, D), D) = c
<1> DEFINE n == Len(c)
           t == Doubled(c, D)
           r == ReadOf(t, D)
<1>0. n \in Nat
  OBVIOUS
<1>1. t \in Seq(Letter)
  BY DoubledPlaces
<1>2. PICK at : Places(c, D, t, at)
  BY DoubledPlaces
<1> HIDE DEF t
<1>3. /\ Undoubled(t, D) = r[Len(t)].text
      /\ \A k \in 0..Len(t) : r[k] = Read(t, D, r, k)
  BY <1>1, ReadSteps
<1> HIDE DEF r
<1>4. Len(t) \in Nat
  BY <1>1
<1> DEFINE Got(k, x) == r[x].text = SubSeq(c, 1, k) /\ ~r[x].half
           P == {k \in Nat : k <= n => Got(k, at[k])}
<1>5. 0 \in P
  <2>1. at[0] = 0
    BY <1>2 DEF Places
  <2>2. r[0] = [text |-> <<>>, half |-> FALSE]
    <3>1. 0 \in 0..Len(t)
      BY <1>4
    <3>2. r[0] = Read(t, D, r, 0)
      BY <1>3, <3>1
    <3> QED
      BY <3>2 DEF Read
  <2>3. r[0].text = <<>> /\ r[0].half = FALSE
    BY <2>2
  <2> QED
    BY <2>1, <2>3, FirstChars
<1>6. \A k \in Nat : k \in P => k + 1 \in P
  <2> SUFFICES ASSUME NEW k \in Nat, k + 1 <= n, Got(k, at[k]) PROVE Got(k + 1, at[k + 1])
    BY <1>0
  <2> DEFINE m == k + 1
             x == at[k] + 1
  <2>1. m \in 1..n /\ m - 1 = k /\ k \in 0..n - 1 /\ k \in 0..n /\ m \in 0..n
    BY <1>0
  <2>2. /\ at[k] \in 0..Len(t) /\ at[m] \in 0..Len(t)
        /\ at[m] = at[k] + (IF c[m] \in D THEN 2 ELSE 1)
        /\ t[x] = c[m] /\ (c[m] \in D => t[at[k] + 2] = c[m])
    <3>1. Len(Twice(c[m], D)) = (IF c[m] \in D THEN 2 ELSE 1)
      BY DEF Twice
    <3>2. \A j \in 1..n : /\ at[j] = at[j - 1] + Len(Twice(c[j], D))
                          /\ t[at[j - 1] + 1] = c[j]
                          /\ c[j] \in D => t[at[j - 1] + 2] = c[j]
      BY <1>2 DEF Places
    <3>3. at \in [0..n -> 0..Len(t)]
      BY <1>2 DEF Places
    <3> HIDE DEF m, n
    <3>4. at[k] \in 0..Len(t) /\ at[m] \in 0..Len(t)
      BY <2>1, <3>3
    <3> QED
      BY <2>1, <3>1, <3>2, <3>4
  <2>3. SubSeq(c, 1, m) = Append(SubSeq(c, 1, k), c[m])
    BY <2>1, FirstChars
  <2> HIDE DEF m
  <2>4. x \in 1..Len(t) /\ x \in 0..Len(t) /\ x /= 0 /\ x - 1 = at[k]
    <3> DEFINE p == at[k]
               q == at[m]
               l == Len(t)
    <3>1. p \in 0..l /\ q \in 0..l /\ l \in Nat
      BY <1>4, <2>2
    <3>2. q = p + 1 \/ q = p + 2
      BY <2>2
    <3> HIDE DEF p, q, l
    <3>3. p + 1 \in 1..l /\ p + 1 \in 0..l /\ p + 1 /= 0 /\ (p + 1) - 1 = p
      BY <3>1, <3>2
    <3> QED
      BY <3>3 DEF p, l
  <2>5. r[x] = [text |-> SubSeq(c, 1, m), half |-> c[m] \in D]
    <3>1. r[x] = Read(t, D, r, x)
      BY <1>3, <2>4
    <3> HIDE DEF x
    <3> QED
      BY <2>2, <2>3, <2>4, <3>1 DEF Read
  <2>8. r[x].text = SubSeq(c, 1, m) /\ r[x].half = (c[m] \in D)
    <3> HIDE DEF x
    <3> DEFINE B == c[m] \in D
               z == SubSeq(c, 1, m)
    <3>1. r[x] = [text |-> z, half |-> B]
      BY <2>5
    <3> HIDE DEF B, z
    <3>2. r[x].text = z
      BY <3>1
    <3>3. r[x].half = B
      BY <3>1
    <3> QED
      BY <3>2, <3>3 DEF B, z
  <2>6. CASE c[m] \notin D
    <3>1. at[m] = x
      BY <2>2, <2>6
    <3>2. r[x].text = SubSeq(c, 1, m) /\ ~r[x].half
      BY <2>6, <2>8
    <3> QED
      BY <3>1, <3>2 DEF m
  <2>7. CASE c[m] \in D
    <3> DEFINE y == at[k] + 2
    <3>1. at[m] = y /\ y \in 0..Len(t) /\ y /= 0 /\ y - 1 = x /\ t[y] = c[m]
      BY <1>4, <2>2, <2>7
    <3> HIDE DEF y
    <3>2. r[y] = Read(t, D, r, y)
      BY <1>3, <3>1
    <3> HIDE DEF x
    <3>3. r[x].half /\ t[y] = t[x] /\ r[x].text = SubSeq(c, 1, m)
      <4>1. c[m] \in D
        BY <2>7
      <4> QED
        BY <2>2, <2>8, <3>1, <4>1
    <3>4. r[y] = [text |-> SubSeq(c, 1, m), half |-> FALSE]
      BY <3>1, <3>2, <3>3 DEF Read
    <3> QED
      BY <3>1, <3>4 DEF m
  <2> QED
    BY <2>6, <2>7
<1>7. n \in P
  <2> HIDE DEF P
  <2> QED
    BY <1>0, <1>5, <1>6, SetInduction
<1>8. at[n] = Len(t)
  BY <1>2 DEF Places
<1>9. Got(n, Len(t))
  BY <1>0, <1>7, <1>8
<1>10. SubSeq(c, 1, n) = c
  BY FirstChars
<1> QED
  BY <1>3, <1>9, <1>10 DEF t

LEMMA QuotedCloses ==
  ASSUME NEW s \in Seq(Letter), NEW k \in 1..Len(s), NEW m \in k + 1..Len(s),
         InQuoted(s, k, m), s[m] = s[k], m = Len(s)
  PROVE  TokenEnd(s, k) = m /\ EndedAt(s, k)
<1>1. TokenEnd(s, k) = m
  BY QuotedSteps
<1>2. m - 1 \in k..Len(s) /\ m - 1 < Len(s) /\ m - 1 + 1 = m
  OBVIOUS
<1>3. /\ Quotes(s, k, m - 1) \in Nat
      /\ s[m] = s[k] => Quotes(s, k, m) = Quotes(s, k, m - 1) + 1
  <2> DEFINE j == m - 1
  <2>1. /\ Quotes(s, k, j) \in Nat
        /\ j < Len(s) => Quotes(s, k, j + 1) = IF s[j + 1] = s[k] THEN Quotes(s, k, j) + 1
                                               ELSE Quotes(s, k, j)
    <3> HIDE DEF j
    <3> QED
      BY <1>2, QuotesCount DEF j
  <2> QED
    BY <1>2, <2>1
<1>4. s[k] \in {"q", "d"} /\ Quotes(s, k, m - 1) % 2 = 1
  BY DEF InQuoted
<1>5. Quotes(s, k, m) % 2 = 0
  BY <1>3, <1>4
<1>6. m \in QuoteEnds(s, k)
  BY <1>4, <1>5 DEF QuoteEnds
<1> QED
  BY <1>1, <1>4, <1>6 DEF EndedAt, Opens

\* A quoted text with its quotes doubled is one token.
LEMMA QuotedToken ==
  ASSUME NEW c \in Seq(Letter), NEW D, NEW q \in D, q \in {"q", "d"}
  PROVE  LET t == Doubled(c, D)
             l == <<q>> \o t \o <<q>>
         IN /\ l \in Seq(Letter) /\ Len(l) = Len(t) + 2 /\ Len(t) \in Nat
            /\ l[1] = q /\ SubSeq(l, 2, Len(l) - 1) = t
            /\ TokenEnd(l, 1) = Len(l) /\ TokenStarts(l) = {1} /\ Ended(l)
<1> DEFINE n == Len(c)
           t == Doubled(c, D)
           l == <<q>> \o t \o <<q>>
<1>0. n \in Nat
  OBVIOUS
<1>1. t \in Seq(Letter) /\ \E at : Places(c, D, t, at)
  BY DoubledPlaces
<1> HIDE DEF t
<1>2. PICK at : Places(c, D, t, at)
  BY <1>1
<1>3. /\ l \in Seq(Letter) /\ Len(l) = Len(t) + 2 /\ Len(t) \in Nat
      /\ l[1] = q /\ l[Len(l)] = q /\ \A j \in 1..Len(t) : l[j + 1] = t[j]
      /\ SubSeq(l, 2, Len(l) - 1) = t
  <2>1. q \in Letter
    BY DEF Letter, Chars
  <2>2. l \in Seq(Letter) /\ Len(l) = Len(t) + 2 /\ Len(t) \in Nat
    BY <1>1, <2>1
  <2>3. l[1] = q /\ l[Len(l)] = q /\ \A j \in 1..Len(t) : l[j + 1] = t[j]
    BY <1>1, <2>1
  <2> HIDE DEF l
  <2>4. SubSeq(l, 2, Len(l) - 1) = t
    BY <1>1, <2>2, <2>3
  <2> QED
    BY <2>2, <2>3, <2>4
<1> HIDE DEF l
<1> DEFINE P == {k \in Nat : k <= n => InQuoted(l, 1, at[k] + 2)}
<1>4. /\ \A k \in 0..n : at[k] \in 0..Len(t)
      /\ at[0] = 0 /\ at[n] = Len(t)
      /\ \A k \in 1..n : /\ at[k] = at[k - 1] + Len(Twice(c[k], D))
                         /\ t[at[k - 1] + 1] = c[k]
                         /\ c[k] \in D => t[at[k - 1] + 2] = c[k]
  BY <1>0, <1>2 DEF Places
<1>5. 0 \in P
  <2>1. InQuoted(l, 1, 2)
    <3>1. Quotes(l, 1, 1) = 1
      BY <1>3, QuotesCount
    <3>2. \A j \in QuoteEnds(l, 1) : j >= 2
      BY <1>3 DEF QuoteEnds
    <3>3. Quotes(l, 1, 2 - 1) % 2 = 1
      BY <3>1
    <3> QED
      BY <1>3, <3>2, <3>3 DEF InQuoted
  <2> QED
    BY <1>4, <2>1
<1>6. \A k \in Nat : k \in P => k + 1 \in P
  <2> SUFFICES ASSUME NEW k \in Nat, k + 1 <= n, InQuoted(l, 1, at[k] + 2)
               PROVE  InQuoted(l, 1, at[k + 1] + 2)
    BY <1>0
  <2> DEFINE x == k + 1
             m == at[k] + 2
  <2>1. x \in 1..n /\ x - 1 = k /\ k \in 0..n /\ x \in 0..n
    BY <1>0
  <2>2. Len(Twice(c[x], D)) = IF c[x] \in D THEN 2 ELSE 1
    BY DEF Twice
  <2> HIDE DEF x
  <2>3. /\ at[x] = at[k] + (IF c[x] \in D THEN 2 ELSE 1)
        /\ t[at[k] + 1] = c[x] /\ (c[x] \in D => t[at[k] + 2] = c[x])
        /\ at[x] \in 0..Len(t) /\ at[k] \in 0..Len(t)
    BY <1>4, <2>1, <2>2
  <2>4. /\ m \in 2..Len(l) /\ 1 \in 1..Len(l) /\ l[m] = c[x]
        /\ c[x] \in D => m < Len(l) /\ m + 1 \in 2..Len(l) /\ l[m + 1] = c[x]
    <3>1. at[k] + 1 \in 1..Len(t) /\ (c[x] \in D => at[k] + 2 \in 1..Len(t))
      BY <1>3, <2>3
    <3>2. l[at[k] + 1 + 1] = t[at[k] + 1] /\ (c[x] \in D => l[at[k] + 2 + 1] = t[at[k] + 2])
      BY <1>3, <3>1
    <3>3. at[k] + 1 + 1 = m /\ at[k] + 2 + 1 = m + 1
      BY <2>3
    <3>4. m \in 2..Len(l) /\ 1 \in 1..Len(l)
      BY <1>3, <2>3, <3>1
    <3>5. c[x] \in D => m < Len(l) /\ m + 1 \in 2..Len(l)
      <4> SUFFICES ASSUME c[x] \in D PROVE m < Len(l) /\ m + 1 \in 2..Len(l)
        OBVIOUS
      <4> DEFINE a == at[k]
                 e == Len(t)
      <4>1. a \in Nat /\ e \in Nat /\ a + 2 <= e /\ Len(l) = e + 2
        BY <1>3, <2>3, <3>1
      <4> HIDE DEF a, e
      <4>2. a + 2 < Len(l) /\ a + 2 + 1 \in 2..Len(l)
        BY <4>1
      <4> QED
        BY <4>2 DEF a
    <3> HIDE DEF m
    <3> QED
      BY <2>3, <3>2, <3>3, <3>4, <3>5
  <2>5. m \in Nat /\ m \in 1 + 1..Len(l)
    BY <1>3, <2>4
  <2>6. InQuoted(l, 1, m)
    OBVIOUS
  <2>7. /\ c[x] \notin D => at[x] + 2 = m + 1
        /\ c[x] \in D => at[x] + 2 = m + 2
    BY <2>3
  <2> HIDE DEF m
  <2>8. /\ l[m] = q /\ m < Len(l) /\ l[m + 1] = q => InQuoted(l, 1, m + 2)
        /\ l[m] /= q => InQuoted(l, 1, m + 1)
    BY <1>3, <2>4, <2>5, <2>6, QuotedSteps, SMTT(40)
  <2>9. CASE c[x] = q
    BY <2>4, <2>7, <2>8, <2>9 DEF x
  <2>10. CASE c[x] \in D /\ c[x] /= q
    <3>1. InQuoted(l, 1, m + 1)
      BY <2>4, <2>8, <2>10
    <3> DEFINE y == m + 1
    <3>2. y \in 1 + 1..Len(l) /\ y + 1 = m + 2 /\ l[y] /= q /\ InQuoted(l, 1, y)
      BY <2>4, <2>5, <2>10, <3>1
    <3> HIDE DEF y
    <3>3. InQuoted(l, 1, y + 1)
      BY <1>3, <2>4, <3>2, QuotedSteps
    <3> QED
      BY <2>7, <2>10, <3>2, <3>3 DEF x
  <2>11. CASE c[x] \notin D
    <3>1. c[x] /= q
      BY <2>11
    <3> QED
      BY <2>4, <2>7, <2>8, <2>11, <3>1 DEF x
  <2> QED
    BY <2>9, <2>10, <2>11
<1>7. InQuoted(l, 1, Len(l))
  <2>1. n \in P
    <3> HIDE DEF P
    <3> QED
      BY <1>0, <1>5, <1>6, SetInduction
  <2> QED
    BY <1>0, <1>3, <1>4, <2>1
<1>8. TokenEnd(l, 1) = Len(l) /\ EndedAt(l, 1)
  <2>1. 1 \in 1..Len(l) /\ Len(l) \in 1 + 1..Len(l)
    BY <1>3
  <2> QED
    BY <1>3, <1>7, <2>1, QuotedCloses
<1>9. TokenStarts(l) = {1}
  <2>1. /\ TokenStarts(l) \subseteq 1..Len(l) /\ 1 \in TokenStarts(l)
        /\ \A j, k \in TokenStarts(l) : j < k => TokenEnd(l, j) < k
    BY <1>3, TokensTile
  <2>2. ASSUME NEW k \in TokenStarts(l) PROVE k = 1
    <3>1. k \in 1..Len(l) /\ (1 < k => Len(l) < k)
      BY <1>8, <2>1
    <3> QED
      BY <1>3, <3>1
  <2> QED
    BY <2>1, <2>2
<1>10. Ended(l)
  BY <1>8, <1>9 DEF Ended
<1> QED
  BY <1>3, <1>8, <1>9, <1>10 DEF l, t

\* A text without quotes, comments and placeholders.
LEMMA SingleTokens ==
  ASSUME NEW s \in Seq(Letter), \A k \in 1..Len(s) : s[k] \in {"x", "-"},
         \A k \in 1..Len(s) - 1 : ~(s[k] = "-" /\ s[k + 1] = "-")
  PROVE  Ended(s) /\ TokenStarts(s) = 1..Len(s) /\ Placeholders(s) = {}
<1>0. Len(s) \in Nat
  OBVIOUS
<1>1. ASSUME NEW k \in 1..Len(s)
      PROVE  s[k] \notin {"q", "d"} /\ ~Opens(s, k, "/", "*") /\ ~Opens(s, k, "-", "-")
  BY <1>0 DEF Opens
<1>2. \A k \in 1..Len(s) : TokenEnd(s, k) = k
  BY <1>1, TokenEndIs
<1> DEFINE S == 1..Len(s) + 1
<1>3. TokenStarts(s) = S \cap 1..Len(s)
  <2>1. S \subseteq 1..Len(s) + 1 /\ 1 \in S
    BY <1>0
  <2>2. \A a \in S : a <= Len(s) => TokenEnd(s, a) + 1 \in S
    BY <1>0, <1>2
  <2>3. \A a, b \in S : a < b => TokenEnd(s, a) < b
    BY <1>0, <1>2
  <2> HIDE DEF S
  <2> QED
    BY <2>1, <2>2, <2>3, TilesUnique
<1>4. TokenStarts(s) = 1..Len(s)
  BY <1>0, <1>3
<1>5. Ended(s)
  BY <1>1, <1>4 DEF Ended, EndedAt
<1>6. Placeholders(s) = {}
  BY <1>4 DEF Placeholders
<1> QED
  BY <1>4, <1>5, <1>6

\* What FormatValue makes of an argument.
Arrives(l, v) ==
  /\ l \in Seq(Letter) /\ Len(l) > 0 /\ Ended(l)
  /\ 1 \in TokenStarts(l) /\ \A k \in TokenStarts(l) : l[k] \notin {"?", "d"}
  /\ v.kind = "text" => TokenEnd(l, 1) = Len(l) /\ ReadBack(SubSeq(l, 2, Len(l) - 1)) = v.chars

LEMMA TextArrives ==
  ASSUME NEW v, IsValue(v), v.kind = "text"
  PROVE  Arrives(FormatValue(v), v)
<1> DEFINE c == v.chars
           D == {"b", "q"}
           t == Doubled(c, D)
           l == <<"q">> \o t \o <<"q">>
<1>1. c \in Seq(Letter)
  BY DEF IsValue, Letter
<1>2. escapeString(c) = t
  BY DEF escapeString
<1>3. FormatValue(v) = l
  BY <1>2 DEF FormatValue
<1>4. /\ l \in Seq(Letter) /\ Len(l) = Len(t) + 2 /\ Len(t) \in Nat
      /\ l[1] = "q" /\ SubSeq(l, 2, Len(l) - 1) = t
      /\ TokenEnd(l, 1) = Len(l) /\ TokenStarts(l) = {1} /\ Ended(l)
  <2>1. "q" \in D
    OBVIOUS
  <2> HIDE DEF D
  <2> QED
    BY <1>1, <2>1, QuotedToken
<1>5. ReadBack(t) = c
  BY <1>1, DoubledReadsBack DEF ReadBack
<1> HIDE DEF l, t
<1>6. (\A k \in TokenStarts(l) : l[k] \notin {"?", "d"}) /\ Len(l) > 0
  BY <1>4
<1> QED
  BY <1>3, <1>4, <1>5, <1>6 DEF Arrives

LEMMA BytesArrive ==
  ASSUME NEW v, v.kind = "bytes"
  PROVE  Arrives(FormatValue(v), v)
<1> DEFINE l == <<"x", "q", "x", "q">>
<1>1. FormatValue(v) = l
  BY DEF FormatValue
<1>2. /\ l \in Seq(Letter) /\ Len(l) = 4
      /\ l[1] = "x" /\ l[2] = "q" /\ l[3] = "x" /\ l[4] = "q"
  BY DEF Letter, Chars
<1> HIDE DEF l
<1>3. InQuoted(l, 2, 3)
  <2>1. Quotes(l, 2, 2) = 1
    <3>1. 2 \in 1..Len(l) /\ 2 \in 2..Len(l)
      BY <1>2
    <3> QED
      BY <1>2, <3>1, QuotesCount
  <2>2. \A j \in QuoteEnds(l, 2) : j >= 3
    BY <1>2 DEF QuoteEnds
  <2>3. Quotes(l, 2, 3 - 1) % 2 = 1
    BY <2>1
  <2> QED
    BY <1>2, <2>2, <2>3 DEF InQuoted
<1>4. InQuoted(l, 2, 4)
  <2>1. 2 \in 1..Len(l) /\ 3 \in 2 + 1..Len(l) /\ 3 + 1 = 4
    BY <1>2
  <2>2. InQuoted(l, 2, 3 + 1)
    BY <1>2, <1>3, <2>1, QuotedSteps
  <2> QED
    BY <2>1, <2>2
<1>5. TokenEnd(l, 2) = 4 /\ EndedAt(l, 2)
  <2>1. 2 \in 1..Len(l) /\ 4 \in 2 + 1..Len(l)
    BY <1>2
  <2> QED
    BY <1>2, <1>4, <2>1, QuotedCloses
<1>6. TokenEnd(l, 1) = 1 /\ EndedAt(l, 1)
  <2>1. 1 \in 1..Len(l) /\ l[1] \notin {"q", "d"} /\ ~Opens(l, 1, "/", "*") /\ ~Opens(l, 1, "-", "-")
    BY <1>2 DEF Opens
  <2> QED
    BY <1>2, <2>1, TokenEndIs DEF EndedAt
<1>7. TokenStarts(l) = {1, 2}
  <2> DEFINE S == {1, 2, 5}
  <2>1. S \subseteq 1..Len(l) + 1 /\ 1 \in S
    BY <1>2
  <2>2. \A a \in S : a <= Len(l) => TokenEnd(l, a) + 1 \in S
    BY <1>2, <1>5, <1>6
  <2>3. \A a, b \in S : a < b => TokenEnd(l, a) < b
    BY <1>5, <1>6
  <2>4. S \cap 1..Len(l) = {1, 2}
    BY <1>2
  <2> HIDE DEF S
  <2> QED
    BY <1>2, <2>1, <2>2, <2>3, <2>4, TilesUnique
<1>8. Ended(l) /\ \A k \in TokenStarts(l) : l[k] \notin {"?", "d"}
  BY <1>2, <1>5, <1>6, <1>7 DEF Ended
<1> QED
  BY <1>1, <1>2, <1>7, <1>8 DEF Arrives

LEMMA PlainArrives ==
  ASSUME NEW v, IsValue(v), v.kind \in {"null", "number"}
  PROVE  Arrives(FormatValue(v), v)
<1> DEFINE l == FormatValue(v)
<1>1. /\ l \in Seq(Letter) /\ Len(l) > 0 /\ \A k \in 1..Len(l) : l[k] \in {"x", "-"}
      /\ \A k \in 1..Len(l) - 1 : ~(l[k] = "-" /\ l[k + 1] = "-")
  <2>1. CASE v.kind = "null"
    <3>1. l = <<"x">>
      BY <2>1 DEF FormatValue
    <3>2. "x" \in Letter
      BY DEF Letter, Chars
    <3> HIDE DEF l
    <3> QED
      BY <3>1, <3>2
  <2>2. CASE v.kind = "number"
    <3>1. l = v.chars
      BY <2>2 DEF FormatValue
    <3>2. /\ l \in Seq(Letter) /\ l \in Seq({"-", "x"}) /\ l /= <<>>
          /\ \A k \in 1..Len(l) - 1 : ~(l[k] = "-" /\ l[k + 1] = "-")
      BY <2>2, <3>1 DEF IsValue, Letter
    <3> HIDE DEF l
    <3> QED
      BY <3>2
  <2> QED
    BY <2>1, <2>2
<1> HIDE DEF l
<1>2. Ended(l) /\ TokenStarts(l) = 1..Len(l) /\ Placeholders(l) = {}
  BY <1>1, SingleTokens
<1>3. 1 \in TokenStarts(l) /\ \A k \in TokenStarts(l) : l[k] \notin {"?", "d"}
  BY <1>1, <1>2
<1> QED
  BY <1>1, <1>2, <1>3 DEF Arrives, l

LEMMA ValueArrives ==
  ASSUME NEW v, IsValue(v), v.kind /= "unsupported"
  PROVE  Arrives(FormatValue(v), v)
BY TextArrives, BytesArrive, PlainArrives DEF IsValue

-----------------------------------------------------------------------------
\* The pieces of a statement between placeholders.

LEMMA SliceIs ==
  ASSUME NEW s \in Seq(Letter), NEW a \in 1..Len(s) + 1, NEW e \in a - 1..Len(s)
  PROVE  /\ SubSeq(s, a, e) \in Seq(Letter) /\ Len(SubSeq(s, a, e)) = e - a + 1
         /\ \A k \in 1..Len(SubSeq(s, a, e)) : SubSeq(s, a, e)[k] = s[a - 1 + k]
<1>0. Len(s) \in Nat /\ a \in Nat /\ e \in Nat
  OBVIOUS
<1>1. SubSeq(s, a, e) \in Seq(Letter)
  OBVIOUS
<1>2. Len(SubSeq(s, a, e)) = e - a + 1
  OBVIOUS
<1>3. ASSUME NEW k \in 1..e - a + 1 PROVE SubSeq(s, a, e)[k] = s[a - 1 + k]
  OBVIOUS
<1> QED
  BY <1>1, <1>2, <1>3

\* From a to the end.
LEMMA TailTokens ==
  ASSUME NEW s \in Seq(Letter), NEW a \in TokenStarts(s), s[a] \in {"x", "n"}
  PROVE  LET m == SubSeq(s, a, Len(s))
         IN TokenStarts(m) = {k \in 1..Len(m) : a - 1 + k \in TokenStarts(s)}
<1> DEFINE u == SubSeq(s, 1, a - 1)
           m == SubSeq(s, a, Len(s))
<1>1. a \in 1..Len(s) /\ a \in 1..Len(s) + 1 /\ Len(s) \in Nat
  BY TokensTile
<1>2. /\ u \in Seq(Letter) /\ Len(u) = a - 1
      /\ m \in Seq(Letter) /\ Len(m) = Len(s) - a + 1
      /\ \A j \in 1..Len(m) : m[j] = s[a - 1 + j]
      /\ u \o m = s
  BY <1>1, CutText
<1> HIDE DEF u, m
<1>3. Len(m) > 0 /\ m[1] \in {"?", "x", "n"} /\ Len(u) + 1 = a
  <2>1. 1 \in 1..Len(m) /\ a - 1 + 1 = a
    BY <1>1, <1>2
  <2> QED
    BY <1>1, <1>2, <2>1
<1>4. TokenStarts(m) = {k \in 1..Len(m) : Len(u) + k \in TokenStarts(u \o m)}
  <2>1. u \in Seq(Letter) /\ m \in Seq(Letter) /\ Len(u) + 1 \in TokenStarts(u \o m)
    BY <1>2, <1>3
  <2> QED
    BY <1>3, <2>1, CutTokens
<1> QED
  BY <1>2, <1>4 DEF m

\* From a to the placeholder at p.
LEMMA PieceTokens ==
  ASSUME NEW s \in Seq(Letter), NEW p \in TokenStarts(s), s[p] = "?", NEW a \in 1..p,
         a = 1 \/ (a \in TokenStarts(s) /\ s[a] \in {"x", "n"})
  PROVE  LET m == SubSeq(s, a, p - 1)
         IN Ended(m) /\ TokenStarts(m) = {k \in 1..Len(m) : a - 1 + k \in TokenStarts(s)}
<1> DEFINE u == SubSeq(s, 1, p - 1)
           w == SubSeq(s, p, Len(s))
           m == SubSeq(s, a, p - 1)
<1>0. p \in 1..Len(s) /\ p \in 1..Len(s) + 1 /\ Len(s) \in Nat
  BY TokensTile
<1>1. /\ u \in Seq(Letter) /\ Len(u) = p - 1
      /\ w \in Seq(Letter) /\ Len(w) = Len(s) - p + 1
      /\ \A j \in 1..Len(u) : u[j] = s[j]
      /\ \A j \in 1..Len(w) : w[j] = s[p - 1 + j]
      /\ u \o w = s
  BY <1>0, CutText
<1>2. /\ m \in Seq(Letter) /\ Len(m) = p - a
      /\ \A k \in 1..Len(m) : m[k] = s[a - 1 + k]
  <2>1. a \in 1..Len(s) + 1 /\ p - 1 \in a - 1..Len(s) /\ p - 1 - a + 1 = p - a
    BY <1>0
  <2> QED
    BY <2>1, SliceIs
<1>3. a = 1 => m = u
  OBVIOUS
<1>4. a /= 1 => m = SubSeq(u, a, Len(u))
  <2> SUFFICES ASSUME a /= 1 PROVE m = SubSeq(u, a, Len(u))
    OBVIOUS
  <2>1. a \in 1..Len(u) + 1 /\ Len(u) \in a - 1..Len(u)
    BY <1>0, <1>1
  <2> DEFINE v == SubSeq(u, a, Len(u))
  <2>2. v \in Seq(Letter) /\ Len(v) = Len(u) - a + 1 /\ \A k \in 1..Len(v) : v[k] = u[a - 1 + k]
    BY <1>1, <2>1, SliceIs
  <2> HIDE DEF m, u, v
  <2>3. Len(v) = Len(m)
    BY <1>0, <1>1, <1>2, <2>2
  <2>4. ASSUME NEW k \in 1..Len(m) PROVE v[k] = m[k]
    <3>1. a - 1 + k \in 1..Len(u)
      BY <1>0, <1>1, <1>2
    <3> QED
      BY <1>1, <1>2, <2>2, <2>3, <3>1
  <2>5. v = m
    BY <1>2, <2>2, <2>3, <2>4
  <2> QED
    BY <2>5 DEF v
<1> HIDE DEF u, w, m
<1>5. Ended(u) /\ TokenStarts(u) = {k \in TokenStarts(s) : k <= Len(u)}
  <2>1. Len(w) > 0 /\ w[1] = "?" /\ Len(u) + 1 = p
    <3>1. 1 \in 1..Len(w) /\ p - 1 + 1 = p
      BY <1>0, <1>1
    <3>2. w[1] = s[p]
      BY <1>1, <3>1
    <3>3. Len(w) > 0 /\ Len(u) + 1 = p
      BY <1>0, <1>1
    <3> QED
      BY <3>2, <3>3
  <2> QED
    BY <1>1, <2>1, CutTokens
<1>6. CASE a = 1
  <2>1. TokenStarts(s) \subseteq 1..Len(s)
    BY TokensTile
  <2>2. TokenStarts(m) = {k \in 1..Len(m) : a - 1 + k \in TokenStarts(s)}
    BY <1>0, <1>1, <1>3, <1>5, <1>6, <2>1
  <2> QED
    BY <1>3, <1>5, <1>6, <2>2 DEF m
<1>7. CASE a /= 1
  <2>1. a \in TokenStarts(s) /\ s[a] \in {"x", "n"} /\ a < p /\ a <= Len(u) /\ a \in 1..Len(u) + 1
    BY <1>0, <1>1, <1>7
  <2>2. a \in TokenStarts(u) /\ u[a] \in {"x", "n"}
    BY <1>1, <1>5, <2>1
  <2> DEFINE v == SubSeq(u, 1, a - 1)
  <2>3. v \in Seq(Letter) /\ Len(v) = a - 1 /\ v \o m = u
    BY <1>1, <1>4, <1>7, <2>1, CutText
  <2> HIDE DEF v
  <2>4. TokenStarts(m) = {k \in 1..Len(m) : a - 1 + k \in TokenStarts(u)}
    BY <1>1, <1>4, <1>7, <2>2, TailTokens
  <2>5. ASSUME NEW k \in TokenStarts(m) PROVE EndedAt(m, k)
    <3>1. k \in 1..Len(m) /\ Len(v) + k \in TokenStarts(u)
      BY <2>3, <2>4
    <3>2. EndedAt(v \o m, Len(v) + k)
      BY <1>5, <2>3, <3>1 DEF Ended
    <3> QED
      BY <1>2, <2>3, <3>1, <3>2, SuffixToken
  <2>6. \A k \in 1..Len(m) : a - 1 + k <= Len(u)
    BY <1>0, <1>1, <1>2
  <2>7. TokenStarts(m) = {k \in 1..Len(m) : a - 1 + k \in TokenStarts(s)}
    BY <1>5, <2>4, <2>6
  <2> QED
    BY <2>5, <2>7 DEF Ended, m
<1> QED
  BY <1>6, <1>7

-----------------------------------------------------------------------------
\* Literals in the text built.

\* The literal of v starts a token at p, and is one token if v is a text.
Arrived(t, v, p) ==
  LET e == p + Len(FormatValue(v)) - 1
  IN /\ p \in TokenStarts(t)
     /\ v.kind = "text" => /\ TokenEnd(t, p) = e
                           /\ ReadBack(SubSeq(t, p + 1, e - 1)) = v.chars

LEMMA JoinedPlaceholders ==
  ASSUME NEW u \in Seq(Letter), NEW v \in Seq(Letter), Ended(u), Joins(u, v),
         Placeholders(u) = {}, Placeholders(v) = {}
  PROVE  Placeholders(u \o v) = {}
<1> SUFFICES ASSUME NEW p \in TokenStarts(u \o v), (u \o v)[p] = "?" PROVE FALSE
  BY DEF Placeholders
<1>1. TokenStarts(u \o v) = TokenStarts(u) \cup {Len(u) + k : k \in TokenStarts(v)}
  BY JoinedTokens
<1>2. CASE p \in TokenStarts(u)
  <2>1. p \in 1..Len(u)
    BY <1>2, TokensTile
  <2>2. (u \o v)[p] = u[p]
    BY <2>1, JoinedLetters
  <2> QED
    BY <1>2, <2>2 DEF Placeholders
<1>3. ASSUME NEW k \in TokenStarts(v), p = Len(u) + k PROVE FALSE
  <2>1. k \in 1..Len(v)
    BY TokensTile
  <2>2. (u \o v)[p] = v[k]
    BY <1>3, <2>1, JoinedLetters
  <2> QED
    BY <2>2 DEF Placeholders
<1> QED
  BY <1>1, <1>2, <1>3

LEMMA StaysArrived ==
  ASSUME NEW u \in Seq(Letter), NEW w \in Seq(Letter), Ended(u), Joins(u, w), NEW v, NEW p,
         Arrived(u, v, p)
  PROVE  Arrived(u \o w, v, p)
<1> DEFINE t == u \o w
           e == TokenEnd(u, p)
<1>1. p \in TokenStarts(u) /\ p \in 1..Len(u) /\ Len(u) \in Nat
  BY TokensTile DEF Arrived
<1>2. p \in TokenStarts(t) /\ TokenEnd(t, p) = e
  BY <1>1, JoinedTokens
<1>3. e \in p..Len(u)
  BY <1>1, TokenEndBounds
<1>4. t \in Seq(Letter) /\ Len(t) = Len(u) + Len(w) /\ \A j \in 1..Len(u) : t[j] = u[j]
  BY JoinedLetters
<1>5. Len(w) \in Nat
  OBVIOUS
<1> HIDE DEF t, e
<1>6. e > p => SubSeq(t, p + 1, e - 1) = SubSeq(u, p + 1, e - 1)
  <2> SUFFICES ASSUME e > p PROVE SubSeq(t, p + 1, e - 1) = SubSeq(u, p + 1, e - 1)
    OBVIOUS
  <2> DEFINE a == p + 1
             b == e - 1
             x == SubSeq(t, a, b)
             y == SubSeq(u, a, b)
  <2>1. /\ a \in 1..Len(t) + 1 /\ b \in a - 1..Len(t)
        /\ a \in 1..Len(u) + 1 /\ b \in a - 1..Len(u)
    BY <1>1, <1>3, <1>4, <1>5
  <2> HIDE DEF a, b
  <2>2. /\ x \in Seq(Letter) /\ Len(x) = b - a + 1 /\ \A k \in 1..Len(x) : x[k] = t[a - 1 + k]
        /\ y \in Seq(Letter) /\ Len(y) = b - a + 1 /\ \A k \in 1..Len(y) : y[k] = u[a - 1 + k]
    BY <1>4, <2>1, SliceIs
  <2> HIDE DEF x, y
  <2>3. ASSUME NEW k \in 1..Len(x) PROVE x[k] = y[k]
    <3>1. a - 1 + k \in 1..Len(u)
      BY <1>1, <2>1, <2>2
    <3> QED
      BY <1>4, <2>2, <3>1
  <2>4. x = y
    BY <2>2, <2>3
  <2> QED
    BY <2>4 DEF x, y, a, b
<1>7. CASE v.kind /= "text"
  BY <1>2, <1>7 DEF Arrived, t
<1>8. CASE v.kind = "text"
  <2> DEFINE n == Len(FormatValue(v))
  <2>1. e = p + n - 1 /\ ReadBack(SubSeq(u, p + 1, e - 1)) = v.chars
    BY <1>8 DEF Arrived, e
  <2>2. CASE e > p
    BY <1>2, <1>6, <1>8, <2>1, <2>2 DEF Arrived, t
  <2>3. CASE e = p
    <3>1. SubSeq(t, p + 1, e - 1) = <<>> /\ SubSeq(u, p + 1, e - 1) = <<>>
      <4> DEFINE a == p + 1
                 b == e - 1
      <4>1. b < a /\ a \in Nat /\ b \in Nat
        BY <1>1, <2>3
      <4> HIDE DEF a, b
      <4>3. SubSeq(t, a, b) = <<>> /\ SubSeq(u, a, b) = <<>>
        BY <1>4, <4>1
      <4> QED
        BY <4>3 DEF a, b
    <3> QED
      BY <1>2, <1>8, <2>1, <3>1 DEF Arrived, t
  <2> QED
    BY <1>1, <1>3, <2>2, <2>3
<1> QED
  BY <1>7, <1>8

LEMMA JustArrived ==
  ASSUME NEW u \in Seq(Letter), NEW v, Arrives(FormatValue(v), v), Ended(u),
         Joins(u, FormatValue(v))
  PROVE  Arrived(u \o FormatValue(v), v, Len(u) + 1)
<1> DEFINE l == FormatValue(v)
           t == u \o l
           p == Len(u) + 1
           e == Len(u) + Len(l)
<1>1. /\ l \in Seq(Letter) /\ Len(l) > 0 /\ 1 \in TokenStarts(l)
      /\ v.kind = "text" => TokenEnd(l, 1) = Len(l) /\ ReadBack(SubSeq(l, 2, Len(l) - 1)) = v.chars
  BY DEF Arrives
<1> HIDE DEF l
<1>2. Len(u) \in Nat /\ Len(l) \in Nat /\ 1 \in 1..Len(l)
  BY <1>1
<1>3. p \in TokenStarts(t)
  <2>1. TokenStarts(u \o l) = TokenStarts(u) \cup {Len(u) + k : k \in TokenStarts(l)}
    BY <1>1, JoinedTokens DEF l
  <2> QED
    BY <1>1, <2>1
<1>4. TokenEnd(t, p) = Len(u) + TokenEnd(l, 1)
  BY <1>1, <1>2, SuffixToken
<1>5. t \in Seq(Letter) /\ Len(t) = e /\ \A j \in 1..Len(l) : t[Len(u) + j] = l[j]
  BY <1>1, JoinedLetters
<1> HIDE DEF t
<1>6. Len(l) > 1 => SubSeq(t, p + 1, e - 1) = SubSeq(l, 2, Len(l) - 1)
  <2> SUFFICES ASSUME Len(l) > 1 PROVE SubSeq(t, p + 1, e - 1) = SubSeq(l, 2, Len(l) - 1)
    OBVIOUS
  <2> DEFINE a == p + 1
             b == e - 1
             c == Len(l) - 1
             x == SubSeq(t, a, b)
             y == SubSeq(l, 2, c)
  <2>1. /\ a \in 1..Len(t) + 1 /\ b \in a - 1..Len(t) /\ b - a + 1 = Len(l) - 2
        /\ 2 \in 1..Len(l) + 1 /\ c \in 2 - 1..Len(l) /\ c - 2 + 1 = Len(l) - 2
        /\ a - 1 = Len(u) + 1
    BY <1>2, <1>5
  <2> HIDE DEF a, b, c
  <2>2. /\ x \in Seq(Letter) /\ Len(x) = b - a + 1 /\ \A k \in 1..Len(x) : x[k] = t[a - 1 + k]
        /\ y \in Seq(Letter) /\ Len(y) = c - 2 + 1 /\ \A k \in 1..Len(y) : y[k] = l[2 - 1 + k]
    BY <1>1, <1>5, <2>1, SliceIs
  <2> HIDE DEF x, y
  <2>3. ASSUME NEW k \in 1..Len(x) PROVE x[k] = y[k]
    <3>1. 1 + k \in 1..Len(l) /\ a - 1 + k = Len(u) + (1 + k) /\ 2 - 1 + k = 1 + k
      BY <1>2, <2>1, <2>2, SMTT(40)
    <3>2. t[Len(u) + (1 + k)] = l[1 + k]
      BY <1>5, <3>1
    <3> QED
      BY <2>1, <2>2, <3>1, <3>2
  <2>4. x = y
    BY <2>1, <2>2, <2>3, SMTT(60)
  <2> QED
    BY <2>4 DEF x, y, a, b, c
<1>7. e = p + Len(l) - 1
  BY <1>2
<1> HIDE DEF p, e
<1>8. CASE v.kind /= "text"
  BY <1>3, <1>8 DEF Arrived, t, l, p
<1>9. CASE v.kind = "text"
  <2>1. Len(l) > 1
    <3>1. l = <<"q">> \o escapeString(v.chars) \o <<"q">>
      BY <1>9 DEF l, FormatValue
    <3> QED
      BY <3>1, <1>1
  <2>2. TokenEnd(t, p) = e
    BY <1>1, <1>4, <1>9 DEF e
  <2>3. ReadBack(SubSeq(t, p + 1, e - 1)) = v.chars
    BY <1>1, <1>6, <1>9, <2>1
  <2> HIDE DEF t
  <2>4. Arrived(t, v, p)
    BY <1>3, <1>7, <2>2, <2>3 DEF Arrived, l
  <2> QED
    BY <2>4 DEF t, p, l
<1> QED
  BY <1>8, <1>9

-----------------------------------------------------------------------------
\* What the literals add to the length.

Measured(values) == \A k \in 1..Len(values) : Len(FormatValue(values[k])) \in Nat \ {0}

LEMMA GrowthNat ==
  ASSUME NEW values, Len(values) \in Nat, Measured(values)
  PROVE  \A k \in 0..Len(values) : Growth(values, k) \in Nat
<1> DEFINE n == Len(values)
           P == {k \in Nat : k <= n => Growth(values, k) \in Nat}
<1>1. 0 \in P
  BY GrowthSteps
<1>2. \A k \in Nat : k \in P => k + 1 \in P
  <2> SUFFICES ASSUME NEW k \in Nat, k + 1 <= n, Growth(values, k) \in Nat
               PROVE  Growth(values, k + 1) \in Nat
    OBVIOUS
  <2> DEFINE x == k + 1
  <2>1. x \in 1..n /\ x - 1 = k
    OBVIOUS
  <2> HIDE DEF x
  <2>2. Growth(values, x) = Growth(values, k) + Len(FormatValue(values[x])) - 1
    BY <2>1, GrowthSteps
  <2>3. Len(FormatValue(values[x])) \in Nat \ {0}
    BY <2>1 DEF Measured
  <2>4. Growth(values, x) \in Nat
    BY <2>2, <2>3
  <2> QED
    BY <2>4 DEF x
<1>3. Nat \subseteq P
  <2> HIDE DEF P
  <2> QED
    BY <1>1, <1>2, SetInduction
<1> QED
  BY <1>3

\* Another argument does not move the literals before it.
LEMMA GrowthAppend ==
  ASSUME NEW S, NEW values \in Seq(S), NEW v \in S, Measured(values),
         Len(FormatValue(v)) \in Nat \ {0}
  PROVE  /\ Measured(Append(values, v))
         /\ \A k \in 0..Len(values) :
              Growth(values, k) \in Nat /\ Growth(Append(values, v), k) = Growth(values, k)
         /\ Growth(Append(values, v), Len(values) + 1)
              = Growth(values, Len(values)) + Len(FormatValue(v)) - 1
<1> DEFINE n == Len(values)
           w == Append(values, v)
           P == {k \in Nat : k <= n => Growth(w, k) = Growth(values, k)}
<1>0. /\ n \in Nat /\ Len(w) = n + 1 /\ w[n + 1] = v
      /\ \A k \in 1..n : w[k] = values[k]
  OBVIOUS
<1> HIDE DEF w
<1>1. Measured(w)
  <2> SUFFICES ASSUME NEW k \in 1..n + 1 PROVE Len(FormatValue(w[k])) \in Nat \ {0}
    BY <1>0 DEF Measured
  <2>1. CASE k = n + 1
    BY <1>0, <2>1
  <2>2. CASE k \in 1..n
    BY <1>0, <2>2 DEF Measured
  <2> QED
    BY <1>0, <2>1, <2>2
<1>2. 0 \in P
  BY <1>0, GrowthSteps
<1>3. \A k \in Nat : k \in P => k + 1 \in P
  <2> SUFFICES ASSUME NEW k \in Nat, k + 1 <= n, Growth(w, k) = Growth(values, k)
               PROVE  Growth(w, k + 1) = Growth(values, k + 1)
    BY <1>0
  <2> DEFINE x == k + 1
  <2>1. x \in 1..n /\ x - 1 = k /\ x \in 1..n + 1
    BY <1>0
  <2> HIDE DEF x
  <2>2. Growth(values, x) = Growth(values, k) + Len(FormatValue(values[x])) - 1
    BY <1>0, <2>1, GrowthSteps
  <2>3. Growth(w, x) = Growth(w, k) + Len(FormatValue(w[x])) - 1
    <3>1. Len(w) \in Nat /\ x \in 1..Len(w)
      BY <1>0, <2>1
    <3>2. Growth(w, x) = Growth(w, x - 1) + Len(FormatValue(w[x])) - 1
      BY <3>1, GrowthSteps
    <3> QED
      BY <2>1, <3>2
  <2>4. Growth(w, x) = Growth(values, x)
    BY <1>0, <2>1, <2>2, <2>3
  <2> QED
    BY <2>4 DEF x
<1>4. \A k \in 0..n : Growth(values, k) \in Nat /\ Growth(w, k) = Growth(values, k)
  <2>1. Nat \subseteq P
    <3> HIDE DEF P
    <3> QED
      BY <1>2, <1>3, SetInduction
  <2> QED
    BY <1>0, <2>1, GrowthNat
<1>5. Growth(w, n + 1) = Growth(values, n) + Len(FormatValue(v)) - 1
  <2> DEFINE x == n + 1
  <2>1. x \in 1..Len(w) /\ x - 1 = n /\ n \in 0..n /\ w[x] = v
    BY <1>0
  <2> HIDE DEF x
  <2>2. Growth(w, x) = Growth(w, n) + Len(FormatValue(w[x])) - 1
    <3>1. Len(w) \in Nat
      BY <1>0
    <3>2. Growth(w, x) = Growth(w, x - 1) + Len(FormatValue(w[x])) - 1
      BY <2>1, <3>1, GrowthSteps
    <3> QED
      BY <2>1, <3>2
  <2>3. Growth(w, x) = Growth(values, n) + Len(FormatValue(v)) - 1
    BY <1>4, <2>1, <2>2
  <2> QED
    BY <2>3 DEF x
<1> QED
  BY <1>1, <1>4, <1>5 DEF w

\* Between two placeholders found one after the other, and before the first, there is none.
LEMMA NoneBetween ==
  ASSUME NEW s \in Seq(Letter), NEW ps \in Seq(1..Len(s)), Found(s, ps, Len(s) + 1),
         NEW j \in 0..Len(ps) - 1
  PROVE  /\ \A q \in Placeholders(s) : q < ps[j + 1] => j > 0 /\ q <= ps[j]
         /\ j > 0 => ps[j] < ps[j + 1]
         /\ ps[j + 1] \in Placeholders(s)
<1>0. Len(ps) \in Nat /\ Len(s) \in Nat /\ DOMAIN ps = 1..Len(ps)
  OBVIOUS
<1>1. /\ Range(ps) = Placeholders(s)
      /\ \A a, b \in 1..Len(ps) : a < b => ps[a] < ps[b]
  <2>1. \A p \in Placeholders(s) : p < Len(s) + 1
    BY <1>0, TokensTile DEF Placeholders
  <2> QED
    BY <1>0, <2>1 DEF Found
<1> DEFINE x == j + 1
<1>3. x \in 1..Len(ps) /\ (\A a \in 1..Len(ps) : a < x => j \in 1..Len(ps) /\ a <= j) /\ j < x
      /\ (j > 0 => j \in 1..Len(ps))
  BY <1>0
<1> HIDE DEF x
<1>4. \A k \in 1..Len(ps) : ps[k] \in Nat
  BY <1>0
<1>5. ASSUME NEW q \in Placeholders(s), q < ps[x] PROVE j > 0 /\ q <= ps[j]
  <2>0. PICK a \in 1..Len(ps) : q = ps[a]
    BY <1>0, <1>1 DEF Range
  <2>1. ps[x] \in Nat /\ ps[a] \in Nat /\ ~(ps[x] < ps[a]) /\ ps[a] /= ps[x]
    BY <1>3, <1>4, <1>5, <2>0, SMTT(40)
  <2>2. ~(x < a) /\ a /= x
    BY <1>1, <1>3, <2>1
  <2>3. a < x
    BY <1>0, <1>3, <2>2
  <2> QED
    <3>1. j \in 1..Len(ps) /\ a <= j /\ ps[j] \in Nat
      BY <1>3, <1>4, <2>3
    <3>2. a < j \/ a = j
      BY <1>0, <3>1
    <3>3. ps[a] <= ps[j]
      BY <1>1, <2>1, <3>1, <3>2, SMTT(40)
    <3> QED
      BY <1>0, <2>0, <3>1, <3>3
<1>6. j > 0 => ps[j] < ps[x]
  BY <1>1, <1>3
<1>7. ps[x] \in Placeholders(s)
  BY <1>0, <1>1, <1>3 DEF Range
<1> QED
  BY <1>5, <1>6, <1>7 DEF x


After(ps, j) == IF j = 0 THEN 1 ELSE ps[j] + 1

\* Behind a placeholder a token starts, or the statement ends.
LEMMA AfterPlaceholder ==
  ASSUME NEW s \in Seq(Letter), Spaced(s), NEW q \in Placeholders(s)
  PROVE  /\ q \in TokenStarts(s) /\ q \in 1..Len(s) /\ s[q] = "?"
         /\ q < Len(s) => q + 1 \in TokenStarts(s) /\ s[q + 1] \in {"x", "n"}
         /\ q > 1 => s[q - 1] \in {"x", "n"}
<1>1. q \in TokenStarts(s) /\ q \in 1..Len(s) /\ s[q] = "?" /\ Len(s) \in Nat
  BY TokensTile DEF Placeholders
<1>2. TokenEnd(s, q) = q
  <2>1. s[q] \notin {"q", "d"} /\ ~Opens(s, q, "/", "*") /\ ~Opens(s, q, "-", "-")
    BY <1>1 DEF Opens
  <2> QED
    BY <1>1, <2>1, TokenEndIs
<1>3. q + 1 \in TokenStarts(s) \cup {Len(s) + 1}
  BY <1>1, <1>2, TokensTile
<1>4. q < Len(s) => q + 1 \in TokenStarts(s)
  BY <1>1, <1>3
<1> QED
  BY <1>1, <1>4 DEF Spaced

\* The text between two placeholders, or before the first.
LEMMA NextPiece ==
  ASSUME NEW s \in Seq(Letter), Spaced(s), NEW ps \in Seq(1..Len(s)), Found(s, ps, Len(s) + 1),
         NEW j \in 0..Len(ps) - 1
  PROVE  LET a == After(ps, j)
             p == ps[j + 1]
             m == SubSeq(s, a, p - 1)
         IN /\ p \in 1..Len(s) /\ a \in 1..p /\ m \in Seq(Letter) /\ Len(m) = p - a
            /\ Ended(m) /\ Placeholders(m) = {}
            /\ j > 0 => Len(m) > 0 /\ m[1] \in {"x", "n"}
            /\ Len(m) > 0 => m[Len(m)] \in {"x", "n"}
<1> DEFINE a == After(ps, j)
           p == ps[j + 1]
           m == SubSeq(s, a, p - 1)
<1>0. Len(s) \in Nat /\ Len(ps) \in Nat /\ j \in Nat /\ (j > 0 => j \in 1..Len(ps))
      /\ \A k \in 1..Len(ps) : ps[k] \in 1..Len(s)
  OBVIOUS
<1>1. /\ \A q \in Placeholders(s) : q < p => j > 0 /\ q <= ps[j]
      /\ j > 0 => ps[j] < p
      /\ p \in Placeholders(s)
  BY NoneBetween
<1> HIDE DEF p
<1>2. /\ p \in TokenStarts(s) /\ p \in 1..Len(s) /\ s[p] = "?"
      /\ p > 1 => s[p - 1] \in {"x", "n"}
  BY <1>1, AfterPlaceholder
<1>3. j > 0 => /\ a \in TokenStarts(s) /\ s[a] \in {"x", "n"} /\ a \in 1..p /\ a = ps[j] + 1
  <2> SUFFICES ASSUME j > 0 PROVE a \in TokenStarts(s) /\ s[a] \in {"x", "n"} /\ a \in 1..p
                                  /\ a = ps[j] + 1
    OBVIOUS
  <2>1. a = ps[j] + 1 /\ j \in 1..Len(ps)
    BY <1>0 DEF After
  <2>2. ps[j] \in Placeholders(s)
    <3>1. Range(ps) = {q \in Placeholders(s) : q < Len(s) + 1}
      BY DEF Found
    <3>2. DOMAIN ps = 1..Len(ps)
      OBVIOUS
    <3> QED
      BY <2>1, <3>1, <3>2 DEF Range
  <2>3. ps[j] < Len(s) /\ ps[j] < p /\ ps[j] \in 1..Len(s)
    BY <1>0, <1>1, <1>2, <2>1
  <2>4. ps[j] + 1 \in TokenStarts(s) /\ s[ps[j] + 1] \in {"x", "n"}
    BY <2>2, <2>3, AfterPlaceholder
  <2> HIDE DEF a
  <2> QED
    BY <1>2, <2>1, <2>3, <2>4, SMTT(40)
<1>4. j = 0 => a = 1
  BY DEF After
<1> HIDE DEF a
<1>5. a \in 1..p
  BY <1>0, <1>2, <1>3, <1>4
<1>6. /\ m \in Seq(Letter) /\ Len(m) = p - a
      /\ \A k \in 1..Len(m) : m[k] = s[a - 1 + k]
  <2>1. a \in 1..Len(s) + 1 /\ p - 1 \in a - 1..Len(s) /\ p - 1 - a + 1 = p - a
    BY <1>0, <1>2, <1>5
  <2> QED
    BY <2>1, SliceIs
<1>7. Ended(m) /\ TokenStarts(m) = {k \in 1..Len(m) : a - 1 + k \in TokenStarts(s)}
  <2>1. a = 1 \/ (a \in TokenStarts(s) /\ s[a] \in {"x", "n"})
    BY <1>0, <1>3, <1>4
  <2> QED
    BY <1>2, <1>5, <2>1, PieceTokens
<1> HIDE DEF m
<1>8. Placeholders(m) = {}
  <2> SUFFICES ASSUME NEW k \in TokenStarts(m), m[k] = "?" PROVE FALSE
    BY DEF Placeholders
  <2> DEFINE q == a - 1 + k
  <2>1. k \in 1..Len(m) /\ q \in TokenStarts(s) /\ s[q] = "?"
    BY <1>6, <1>7
  <2>2. q < p /\ q >= a
    BY <1>2, <1>5, <1>6, <2>1
  <2>3. q \in Placeholders(s)
    BY <2>1 DEF Placeholders
  <2> HIDE DEF q
  <2>4. j > 0 /\ q <= ps[j]
    BY <1>1, <2>2, <2>3
  <2>5. q \in 1..Len(s) /\ ps[j] \in 1..Len(s)
    BY <1>0, <2>1, <2>4, TokensTile
  <2> QED
    BY <1>3, <2>2, <2>4, <2>5
<1>9. j > 0 => Len(m) > 0 /\ m[1] \in {"x", "n"}
  <2> SUFFICES ASSUME j > 0 PROVE Len(m) > 0 /\ m[1] \in {"x", "n"}
    OBVIOUS
  <2>1. a /= p
    BY <1>2, <1>3
  <2>2. 1 \in 1..Len(m) /\ a - 1 + 1 = a
    BY <1>2, <1>5, <1>6, <2>1
  <2>3. m[1] = s[a]
    BY <1>6, <2>2
  <2> QED
    BY <1>3, <2>2, <2>3
<1>10. Len(m) > 0 => m[Len(m)] \in {"x", "n"}
  <2> SUFFICES ASSUME Len(m) > 0 PROVE m[Len(m)] \in {"x", "n"}
    OBVIOUS
  <2>1. Len(m) \in 1..Len(m) /\ a - 1 + Len(m) = p - 1 /\ p > 1
    BY <1>2, <1>5, <1>6
  <2>2. m[Len(m)] = s[p - 1]
    BY <1>6, <2>1
  <2> QED
    BY <1>2, <2>1, <2>2
<1> QED
  BY <1>2, <1>5, <1>6, <1>7, <1>8, <1>9, <1>10 DEF a, p, m

\* The text behind the last placeholder.
LEMMA LastPiece ==
  ASSUME NEW s \in Seq(Letter), Spaced(s), NEW ps \in Seq(1..Len(s)), Found(s, ps, Len(s) + 1),
         Len(ps) > 0
  PROVE  LET a == After(ps, Len(ps))
             m == SubSeq(s, a, Len(s))
         IN /\ m \in Seq(Letter) /\ Placeholders(m) = {}
            /\ Len(m) > 0 => m[1] \in {"x", "n"}
<1> DEFINE n == Len(ps)
           a == After(ps, n)
           m == SubSeq(s, a, Len(s))
<1>0. /\ Len(s) \in Nat /\ n \in Nat /\ n \in 1..n /\ n > 0 /\ ps[n] \in 1..Len(s)
      /\ DOMAIN ps = 1..n
  OBVIOUS
<1>1. a = ps[n] + 1 /\ a \in 1..Len(s) + 1
  BY <1>0 DEF After
<1>2. Range(ps) = Placeholders(s) /\ \A b, c \in 1..n : b < c => ps[b] < ps[c]
  <2>1. \A q \in Placeholders(s) : q < Len(s) + 1
    BY <1>0, TokensTile DEF Placeholders
  <2> QED
    BY <1>0, <2>1 DEF Found
<1>3. ps[n] \in Placeholders(s)
  BY <1>0, <1>2 DEF Range
<1> HIDE DEF a
<1>4. /\ m \in Seq(Letter) /\ Len(m) = Len(s) - a + 1
      /\ \A k \in 1..Len(m) : m[k] = s[a - 1 + k]
  <2>1. Len(s) \in a - 1..Len(s)
    BY <1>0, <1>1
  <2> QED
    BY <1>1, <2>1, SliceIs
<1>5. a <= Len(s) => a \in TokenStarts(s) /\ s[a] \in {"x", "n"}
  BY <1>0, <1>1, <1>3, AfterPlaceholder
<1>6. a <= Len(s) => TokenStarts(m) = {k \in 1..Len(m) : a - 1 + k \in TokenStarts(s)}
  BY <1>5, TailTokens
<1> HIDE DEF m, n
<1>7. CASE a = Len(s) + 1
  <2>1. Len(m) = 0
    BY <1>0, <1>4, <1>7
  <2>2. TokenStarts(m) \subseteq 1..0
    BY <1>4, <2>1, TokensTile
  <2>3. Placeholders(m) = {}
    BY <2>2 DEF Placeholders
  <2> QED
    BY <1>4, <2>1, <2>3 DEF m, a, n
<1>8. CASE a <= Len(s)
  <2>1. Len(m) > 0 /\ m[1] \in {"x", "n"}
    <3>1. 1 \in 1..Len(m) /\ a - 1 + 1 = a /\ Len(m) > 0
      BY <1>0, <1>1, <1>4, <1>8, SMTT(40)
    <3>2. m[1] = s[a]
      BY <1>4, <3>1
    <3> QED
      BY <1>5, <1>8, <3>1, <3>2
  <2>2. Placeholders(m) = {}
    <3> SUFFICES ASSUME NEW k \in TokenStarts(m), m[k] = "?" PROVE FALSE
      BY DEF Placeholders
    <3> DEFINE q == a - 1 + k
    <3>1. k \in 1..Len(m) /\ q \in TokenStarts(s) /\ s[q] = "?"
      BY <1>4, <1>6, <1>8
    <3>2. q >= a /\ q \in Nat
      <4>1. a \in Nat /\ k \in Nat /\ k >= 1
        BY <1>0, <1>1, <1>4, <3>1
      <4> HIDE DEF q
      <4> QED
        BY <4>1 DEF q
    <3>3. q \in Placeholders(s)
      BY <3>1 DEF Placeholders
    <3> HIDE DEF q
    <3>4. PICK b \in 1..n : q = ps[b]
      BY <1>0, <1>2, <3>3 DEF Range
    <3>5. b = n \/ b < n
      BY <1>0
    <3>6. ps[b] <= ps[n]
      BY <1>0, <1>2, <3>2, <3>4, <3>5
    <3> QED
      BY <1>0, <1>1, <3>2, <3>4, <3>6
  <2> QED
    BY <1>4, <2>1, <2>2 DEF m, a, n
<1> QED
  BY <1>1, <1>7, <1>8

-----------------------------------------------------------------------------
\* The loop over the placeholders.  The text built is that of the statement up to the last
\* placeholder replaced, as much longer as the literals are, and each of these is in its place.

Spliced ==
  /\ prev = After(positions, Len(args))
  /\ sb \in Seq(Letter) /\ Ended(sb) /\ Placeholders(sb) = {}
  /\ Len(sb) + 1 = prev + Growth(args, Len(args))
  /\ Measured(args)
  /\ \A k \in 1..Len(args) : Arrived(sb, args[k], Offset(k))

\* What a placeholder's turn appends: the piece before it, and the literal.
LEMMA SpliceJoins ==
  ASSUME sql \in Seq(Letter), Spaced(sql), positions \in Seq(1..Len(sql)),
         Found(sql, positions, Len(sql) + 1), args \in Seq(Values), nargs = Len(positions), Spliced,
         NEW v \in Values, Splice(v)
  PROVE  LET p == positions[Len(args) + 1]
             m == SubSeq(sql, prev, p - 1)
             l == FormatValue(v)
         IN /\ p \in Placeholders(sql) /\ prev \in 1..p /\ prev' = p + 1 /\ sb' = sb \o m \o l
            /\ m \in Seq(Letter) /\ Ended(m) /\ Placeholders(m) = {} /\ Len(m) = p - prev
            /\ Arrives(l, v) /\ Joins(sb, m) /\ Joins(sb \o m, l)
<1> DEFINE n == Len(args)
           a == After(positions, n)
           p == positions[n + 1]
           m == SubSeq(sql, a, p - 1)
           l == FormatValue(v)
           g == Growth(args, n)
           u == sb \o m
<1>0. /\ n \in Nat /\ n < nargs /\ v.kind /= "unsupported"
      /\ prev = a /\ prev' = p + 1 /\ sb' = sb \o m \o l
  BY DEF Splice, Spliced
<1>1. n \in 0..Len(positions) - 1
  BY <1>0
<1>2. /\ p \in 1..Len(sql) /\ a \in 1..p /\ m \in Seq(Letter) /\ Len(m) = p - a
      /\ Ended(m) /\ Placeholders(m) = {}
      /\ n > 0 => Len(m) > 0 /\ m[1] \in {"x", "n"}
      /\ Len(m) > 0 => m[Len(m)] \in {"x", "n"}
  BY <1>1, NextPiece
<1>3. Arrives(l, v)
  BY <1>0, InterpolateAssumption, ValueArrives
<1>4. p \in Placeholders(sql)
  BY <1>1, NoneBetween
<1>5. sb \in Seq(Letter) /\ Len(sb) + 1 = a + g /\ Len(sb) \in Nat
  BY <1>0 DEF Spliced
<1> HIDE DEF p, m, l
<1>6. n = 0 => Len(sb) = 0
  <2>1. n = 0 => a = 1 /\ g = 0
    BY <1>0, GrowthSteps DEF After
  <2> QED
    BY <1>5, <2>1
<1>7. Joins(sb, m)
  BY <1>0, <1>2, <1>6 DEF Joins
<1>8. u \in Seq(Letter) /\ Len(u) = Len(sb) + Len(m)
  BY <1>2, <1>5, JoinedLetters
<1>9. Joins(u, l)
  <2>1. CASE Len(m) = 0
    <3>1. Len(u) = 0
      <4>1. ~(n > 0)
        BY <1>2, <2>1
      <4>2. n = 0
        BY <1>0, <4>1
      <4>3. Len(sb) = 0
        BY <1>6, <4>2
      <4> QED
        BY <1>8, <2>1, <4>3
    <3> QED
      BY <3>1 DEF Joins
  <2>2. CASE Len(m) > 0
    <3>1. Len(m) \in 1..Len(m) /\ Len(u) = Len(sb) + Len(m)
      BY <1>2, <1>8, <2>2, SMTT(40)
    <3>2. u[Len(u)] = m[Len(m)]
      BY <1>2, <1>5, <3>1, JoinedLetters, SMTT(40)
    <3> HIDE DEF u
    <3> QED
      BY <1>2, <2>2, <3>2 DEF Joins
  <2> QED
    BY <1>2, <2>1, <2>2
<1> QED
  BY <1>0, <1>2, <1>3, <1>4, <1>7, <1>9 DEF p, m, l, u

LEMMA SpliceStep ==
  ASSUME sql \in Seq(Letter), Spaced(sql), positions \in Seq(1..Len(sql)),
         Found(sql, positions, Len(sql) + 1), args \in Seq(Values), nargs = Len(positions), Spliced,
         NEW v \in Values, Splice(v)
  PROVE  Spliced'
<1> DEFINE n == Len(args)
           p == positions[n + 1]
           a == prev
           m == SubSeq(sql, a, p - 1)
           l == FormatValue(v)
           g == Growth(args, n)
           u == sb \o m
<1>1. /\ n \in Nat /\ n < nargs /\ args' = Append(args, v)
      /\ UNCHANGED <<positions, sql>>
  BY DEF Splice
<1>2. p \in Placeholders(sql) /\ Placeholders(sql) \subseteq 1..Len(sql) /\ Len(sql) \in Nat
  BY SpliceJoins, TokensTile DEF Placeholders
<1>3. /\ p \in 1..Len(sql) /\ a \in 1..p /\ prev' = p + 1 /\ sb' = sb \o m \o l
      /\ m \in Seq(Letter) /\ Len(m) = p - a /\ Ended(m) /\ Placeholders(m) = {}
      /\ Joins(sb, m) /\ Joins(u, l)
  BY <1>2, SpliceJoins
<1>4. Arrives(l, v)
  BY SpliceJoins
<1>5. l \in Seq(Letter) /\ Len(l) \in Nat \ {0} /\ Ended(l) /\ Placeholders(l) = {}
  <2> HIDE DEF l
  <2> QED
    BY <1>4 DEF Arrives, Placeholders
<1>6. /\ sb \in Seq(Letter) /\ Ended(sb) /\ Placeholders(sb) = {} /\ Len(sb) + 1 = a + g
      /\ Measured(args) /\ Len(sb) \in Nat
      /\ \A k \in 1..n : Arrived(sb, args[k], Offset(k))
  BY DEF Spliced
<1>7. /\ Measured(args')
      /\ \A k \in 0..n : Growth(args, k) \in Nat /\ Growth(args', k) = Growth(args, k)
      /\ Growth(args', n + 1) = g + Len(l) - 1
  BY <1>1, <1>5, <1>6, GrowthAppend
<1>8. g \in Nat /\ Len(sql) \in Nat
  BY <1>1, <1>7
<1> HIDE DEF a, p, m, l, g
<1>9. a \in Nat /\ p \in Nat /\ a <= p
  BY <1>3, <1>8
<1>10. /\ u \in Seq(Letter) /\ Ended(u) /\ Placeholders(u) = {} /\ Len(u) = Len(sb) + Len(m)
       /\ \A k \in 1..n : Arrived(u, args[k], Offset(k))
  <2>1. Ended(u)
    BY <1>3, <1>6, JoinedTokens
  <2>2. u \in Seq(Letter) /\ Len(u) = Len(sb) + Len(m)
    BY <1>3, <1>6, JoinedLetters
  <2>3. Placeholders(u) = {}
    BY <1>3, <1>6, JoinedPlaceholders
  <2>4. ASSUME NEW k \in 1..n PROVE Arrived(u, args[k], Offset(k))
    BY <1>3, <1>6, StaysArrived
  <2> QED
    BY <2>1, <2>2, <2>3, <2>4
<1> HIDE DEF u
<1>12. sb' = u \o l
  BY <1>3 DEF u
<1>13. /\ sb' \in Seq(Letter) /\ Ended(sb') /\ Placeholders(sb') = {}
       /\ Len(sb') = Len(u) + Len(l)
  <2>1. Ended(u \o l)
    BY <1>3, <1>5, <1>10, JoinedTokens
  <2>2. u \o l \in Seq(Letter) /\ Len(u \o l) = Len(u) + Len(l)
    BY <1>5, <1>10, JoinedLetters
  <2>3. Placeholders(u \o l) = {}
    BY <1>3, <1>5, <1>10, JoinedPlaceholders
  <2> QED
    BY <1>12, <2>1, <2>2, <2>3
<1>14. /\ Len(args') = n + 1 /\ args'[n + 1] = v /\ \A k \in 1..n : args'[k] = args[k]
       /\ n + 1 /= 0
  BY <1>1
<1>15. prev' = After(positions', Len(args'))
  BY <1>1, <1>3, <1>14 DEF After, p
<1>16. Len(sb') + 1 = prev' + Growth(args', Len(args'))
  <2>1. prev' = p + 1 /\ Growth(args', Len(args')) = g + Len(l) - 1
    BY <1>1, <1>3, <1>7, <1>14
  <2>2. Len(sb') + 1 = Len(sb) + 1 + (p - a) + Len(l)
    BY <1>3, <1>5, <1>6, <1>10, <1>13, <1>9
  <2>3. Len(sb) + 1 + (p - a) + Len(l) = (p + 1) + (g + Len(l) - 1)
    <3> DEFINE b == Len(sb)
               c == Len(l)
    <3>1. b \in Nat /\ c \in Nat /\ b + 1 = a + g
      BY <1>5, <1>6
    <3> HIDE DEF b, c
    <3>2. b + 1 + (p - a) + c = (p + 1) + (g + c - 1)
      BY <1>8, <1>9, <3>1
    <3> QED
      BY <3>2 DEF b, c
  <2> QED
    BY <2>1, <2>2, <2>3
<1>17. ASSUME NEW k \in 1..n PROVE Offset(k)' = Offset(k)
  <2>1. k - 1 \in 0..n
    BY <1>1
  <2>2. Growth(args', k - 1) = Growth(args, k - 1)
    BY <1>7, <2>1
  <2> QED
    BY <1>1, <2>2 DEF Offset
<1>18. ASSUME NEW k \in Nat, k = n + 1 PROVE Offset(k)' = Len(u) + 1
  <2>1. Growth(args', n) = g
    BY <1>1, <1>7 DEF g
  <2>2. k - 1 = n /\ positions'[k] = p
    BY <1>1, <1>18 DEF p
  <2>3. Offset(k)' = p + g
    BY <2>1, <2>2 DEF Offset
  <2>4. Len(u) + 1 = p + g
    <3> DEFINE b == Len(sb)
    <3>1. b \in Nat /\ b + 1 = a + g /\ Len(u) = b + (p - a)
      BY <1>3, <1>6, <1>10
    <3> HIDE DEF b
    <3> QED
      BY <1>8, <1>9, <3>1
  <2> QED
    BY <2>3, <2>4
<1>19. ASSUME NEW k \in 1..n + 1 PROVE Arrived(sb', args'[k], Offset(k)')
  <2>1. CASE k = n + 1
    <3>1. Arrived(u \o l, v, Len(u) + 1)
      BY <1>3, <1>4, <1>10, JustArrived DEF l
    <3> QED
      BY <1>12, <1>14, <1>18, <2>1, <3>1
  <2>2. CASE k \in 1..n
    <3>1. Arrived(u \o l, args[k], Offset(k))
      BY <1>3, <1>5, <1>10, <2>2, StaysArrived
    <3> QED
      BY <1>12, <1>14, <1>17, <2>2, <3>1
  <2> QED
    BY <1>1, <2>1, <2>2
<1>20. \A k \in 1..Len(args') : Arrived(sb', args'[k], Offset(k)')
  BY <1>14, <1>19
<1> HIDE DEF n
<1> QED
  BY <1>7, <1>13, <1>15, <1>16, <1>20 DEF Spliced

\* Every argument is in its place, and nothing is left to replace.
Delivered == Placeholders(sb) = {} /\ \A k \in 1..nargs : Arrived(sb, args[k], Offset(k))

LEMMA CopyRestDelivers ==
  ASSUME sql \in Seq(Letter), Spaced(sql), positions \in Seq(1..Len(sql)),
         Found(sql, positions, Len(sql) + 1), nargs = Len(positions), nargs > 0, Spliced, CopyRest
  PROVE  Delivered'
<1> DEFINE m == SubSeq(sql, prev, Len(sql))
<1>1. /\ Len(args) = nargs /\ prev = After(positions, Len(positions)) /\ sb' = sb \o m
      /\ UNCHANGED <<args, nargs, positions>>
  BY DEF CopyRest, Spliced
<1>2. /\ m \in Seq(Letter) /\ Placeholders(m) = {} /\ (Len(m) > 0 => m[1] \in {"x", "n"})
  BY <1>1, LastPiece
<1> HIDE DEF m
<1>3. /\ sb \in Seq(Letter) /\ Ended(sb) /\ Placeholders(sb) = {}
      /\ \A k \in 1..nargs : Arrived(sb, args[k], Offset(k))
  BY <1>1 DEF Spliced
<1>4. Joins(sb, m)
  BY <1>2 DEF Joins
<1>5. Placeholders(sb \o m) = {}
  BY <1>2, <1>3, <1>4, JoinedPlaceholders
<1>6. ASSUME NEW k \in 1..nargs PROVE Arrived(sb', args'[k], Offset(k)')
  <2>1. Arrived(sb \o m, args[k], Offset(k))
    BY <1>2, <1>3, <1>4, StaysArrived
  <2>2. Offset(k)' = Offset(k)
    BY <1>1 DEF Offset
  <2> QED
    BY <1>1, <2>1, <2>2
<1> QED
  BY <1>1, <1>5, <1>6 DEF Delivered

LEMMA NoPlaceholdersDeliver ==
  ASSUME sql \in Seq(Letter), positions \in Seq(1..Len(sql)), Found(sql, positions, Len(sql) + 1),
         nargs = Len(positions), NoPlaceholders
  PROVE  Delivered'
<1>1. nargs = 0 /\ sb' = sql /\ nargs' = 0
  BY DEF NoPlaceholders
<1>2. Range(positions) = {}
  <2>1. DOMAIN positions = 1..Len(positions)
    OBVIOUS
  <2> QED
    BY <1>1, <2>1 DEF Range
<1>3. \A q \in Placeholders(sql) : q < Len(sql) + 1
  <2>1. Len(sql) \in Nat
    OBVIOUS
  <2> QED
    BY <2>1, TokensTile DEF Placeholders
<1>4. Placeholders(sql) = {}
  BY <1>2, <1>3 DEF Found
<1> QED
  BY <1>1, <1>4 DEF Delivered

LEMMA NothingSpliced ==
  ASSUME args = <<>>, prev = 1, sb = <<>>
  PROVE  Spliced
<1>1. sb \in Seq(Letter) /\ Len(sb) = 0 /\ Len(args) = 0
  OBVIOUS
<1>2. TokenStarts(sb) = {}
  <2>1. TokenStarts(sb) \subseteq 1..0
    BY <1>1, TokensTile
  <2> QED
    BY <2>1
<1>3. Ended(sb) /\ Placeholders(sb) = {}
  BY <1>2 DEF Ended, Placeholders
<1>4. Growth(args, 0) = 0
  BY <1>1, GrowthSteps
<1> QED
  BY <1>1, <1>3, <1>4 DEF Spliced, After, Measured
=============================================================================
