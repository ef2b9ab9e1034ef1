---------------------------- MODULE SharedLemmas ----------------------------
(***************************************************************************)
(* Facts that the proofs about several components rest on: induction over  *)
(* the natural numbers, division and remainder, for any modulus, the       *)
(* elements of a sequence, and sequences made from others.                 *)
(***************************************************************************)
EXTENDS Integers, Sequences, FiniteSets, FiniteSetTheorems, SequenceTheorems, TLAPS

-----------------------------------------------------------------------------
(* Induction                                                               *)

\* A set of numbers has a least one.
LEMMA LeastNatural ==
    ASSUME NEW F \in SUBSET Nat, F # {}
    PROVE  \E k \in F : \A m \in F : ~(m < k)
<1> DEFINE R == OpToRel(<, Nat)
<1>1. IsWellFoundedOn(R, Nat)
  BY NatLessThanWellFounded
<1>2. \A m \in Nat, k \in Nat : <<m, k>> \in R <=> m < k
  BY DEF OpToRel
<1> HIDE DEF R
<1>3. \E k \in F : \A m \in F : ~(<<m, k>> \in R)
  BY <1>1, WFMin, Zenon
<1> QED
  BY <1>2, <1>3

\* Induction, on a set of numbers.
LEMMA SetInduction ==
    ASSUME NEW T, 0 \in T, \A n \in Nat : n \in T => n + 1 \in T
    PROVE  Nat \subseteq T
<1> DEFINE F == Nat \ T
<1> SUFFICES ASSUME F # {} PROVE FALSE
  OBVIOUS
<1>1. PICK k \in F : \A m \in F : ~(m < k)
  BY LeastNatural
<1>2. k \in Nat /\ k # 0 /\ k - 1 \in Nat /\ k - 1 < k /\ (k - 1) + 1 = k
  OBVIOUS
<1>3. k - 1 \notin F
  BY <1>1, <1>2
<1>4. (k - 1) + 1 \in T
  BY <1>2, <1>3
<1> QED
  BY <1>2, <1>4

\* A set of numbers that is not empty has a least element.
LEMMA MinExists ==
    ASSUME NEW S \in SUBSET Nat, S # {}
    PROVE  \E x \in S : \A y \in S : x =< y
<1>1. PICK x \in S : \A y \in S : ~(y < x)
  BY LeastNatural
<1> QED
  BY <1>1

-----------------------------------------------------------------------------
(* Division with remainder                                                 *)

\* Division with remainder (the % of the ring's offsets).
LEMMA DivMod ==
    ASSUME NEW M \in Nat \ {0}, NEW a \in Nat
    PROVE  /\ (a \div M) \in Nat
           /\ a = M * (a \div M) + (a % M)
           /\ a % M \in 0 .. (M - 1)
  OBVIOUS

\* Quotient and remainder are determined by their equation.
LEMMA DivUnique ==
    ASSUME NEW M \in Nat \ {0}, NEW p \in Nat, NEW r \in 0 .. (M - 1)
    PROVE  (M * p + r) % M = r /\ (M * p + r) \div M = p
  OBVIOUS

\* Multiples of M are at least M apart.
LEMMA MultiplesApart ==
    ASSUME NEW M \in Nat \ {0}, NEW p \in Nat, NEW q \in Nat, p < q
    PROVE  M * p + M <= M * q
  <1>1. PICK d \in Nat : q = p + 1 + d
    <2>1. q - p - 1 \in Nat /\ q = p + 1 + (q - p - 1)
      OBVIOUS
    <2> QED BY <2>1
  <1>2. M * q = M * p + M + M * d
    BY <1>1
  <1>3. M * d \in Nat
    OBVIOUS
  <1> QED BY <1>2, <1>3

\* A common factor can be cancelled in a strict inequality.
LEMMA FactorLess ==
    ASSUME NEW M \in Nat \ {0}, NEW x \in Nat, NEW y \in Nat, M * x < M * y
    PROVE  x < y
  <1> SUFFICES ASSUME y <= x PROVE FALSE
    OBVIOUS
  <1>1. CASE y < x
    BY <1>1, MultiplesApart
  <1>2. CASE y = x
    BY <1>2
  <1> QED BY <1>1, <1>2

\* Two stream offsets less than the buffer's size apart use different cells.
LEMMA ModDistinct ==
    ASSUME NEW M \in Nat \ {0}, NEW a \in Nat, NEW b \in Nat, a < b, b - a < M
    PROVE  a % M # b % M
  <1> DEFINE p == a \div M
             q == b \div M
  <1> SUFFICES ASSUME a % M = b % M PROVE FALSE
    OBVIOUS
  <1>1. p \in Nat /\ q \in Nat
    BY DivMod
  <1>2. a = M * p + (a % M) /\ b = M * q + (b % M) /\ a % M \in Nat
    BY DivMod
  <1>3. M * p \in Nat /\ M * q \in Nat
    BY <1>1
  <1> HIDE DEF p, q
  <1>4. M * p < M * q /\ M * q < M * p + M
    BY <1>2, <1>3
  <1>5. CASE p < q
    BY <1>1, <1>3, <1>4, <1>5, MultiplesApart
  <1>6. CASE p = q
    BY <1>3, <1>4, <1>6
  <1>7. CASE q < p
    BY <1>1, <1>3, <1>4, <1>7, MultiplesApart
  <1> QED BY <1>1, <1>5, <1>6, <1>7

\* The i-th byte after offset a, before the end of the buffer ...
LEMMA ModAddWithin ==
    ASSUME NEW M \in Nat \ {0}, NEW a \in Nat, NEW i \in Nat, (a % M) + i < M
    PROVE  (a + i) % M = (a % M) + i
  <1>1. a + i = M * (a \div M) + ((a % M) + i) /\ (a % M) + i \in 0 .. (M - 1)
    BY DivMod
  <1>2. (M * (a \div M) + ((a % M) + i)) % M = (a % M) + i
    BY <1>1, DivMod, DivUnique
  <1> QED BY <1>1, <1>2

\* ... and past it.
LEMMA ModAddPast ==
    ASSUME NEW M \in Nat \ {0}, NEW a \in Nat, NEW i \in Nat, i < M, (a % M) + i >= M
    PROVE  (a + i) % M = (a % M) + i - M
  <1> DEFINE p == a \div M
             r == a % M
  <1>1. p \in Nat /\ r \in 0 .. (M - 1) /\ a = M * p + r
    BY DivMod
  <1>2. r + i >= M
    OBVIOUS
  <1> HIDE DEF p, r
  <1>3. M * (p + 1) = M * p + M /\ M * p \in Nat
    BY <1>1
  <1>4. a + i = M * (p + 1) + (r + i - M) /\ r + i - M \in 0 .. (M - 1)
    BY <1>1, <1>2, <1>3
  <1>5. (M * (p + 1) + (r + i - M)) % M = r + i - M
    BY <1>1, <1>4, DivUnique
  <1> QED BY <1>4, <1>5 DEF r

\* Four digits, most significant first, determine a number below M^4.
LEMMA FourDigits ==
    ASSUME NEW M \in Nat \ {0}, NEW n \in Nat, n < M * M * M * M
    PROVE  ((((((n \div M) \div M) \div M) % M) * M + (((n \div M) \div M) % M)) * M
                + ((n \div M) % M)) * M + (n % M) = n
  <1> DEFINE q1 == n \div M
             q2 == q1 \div M
             q3 == q2 \div M
  <1>1. q1 \in Nat /\ n = M * q1 + (n % M) /\ n % M \in Nat
    BY DivMod
  <1>2. q2 \in Nat /\ q1 = M * q2 + (q1 % M) /\ q1 % M \in Nat
    BY <1>1, DivMod
  <1>3. q3 \in Nat /\ q2 = M * q3 + (q2 % M) /\ q2 % M \in Nat
    BY <1>2, DivMod
  <1> HIDE DEF q1, q2, q3
  <1>4. q1 < M * M * M
    <2>1. M * (M * M * M) = M * M * M * M
      OBVIOUS
    <2>2. M * q1 < M * (M * M * M)
      BY <1>1, <2>1
    <2> QED BY <1>1, <2>2, FactorLess
  <1>5. q2 < M * M
    <2>1. M * (M * M) = M * M * M
      OBVIOUS
    <2>2. M * q2 < M * (M * M)
      BY <1>1, <1>2, <1>4, <2>1
    <2> QED BY <1>2, <2>2, FactorLess
  <1>6. q3 < M
    <2>1. M * q3 < M * M
      BY <1>2, <1>3, <1>5
    <2> QED BY <1>3, <2>1, FactorLess
  <1>7. q3 % M = q3
    <2>1. q3 = M * 0 + q3 /\ q3 \in 0 .. (M - 1)
      BY <1>3, <1>6
    <2> QED BY <2>1, DivUnique
  <1>8. (q3 % M) * M + (q2 % M) = q2
    BY <1>3, <1>7
  <1>9. q2 * M + (q1 % M) = q1
    BY <1>2
  <1>10. q1 * M + (n % M) = n
    BY <1>1
  <1> QED BY <1>8, <1>9, <1>10 DEF q1, q2, q3

-----------------------------------------------------------------------------
(* Sequences                                                               *)

Elements(s) == {s[i] : i \in 1 .. Len(s)}

\* What is in a concatenation is in one of its parts, and the other way round.
LEMMA ElementsConcat ==
    ASSUME NEW S, NEW s \in Seq(S), NEW t \in Seq(S)
    PROVE  s \o t \in Seq(S) /\ Elements(s \o t) = Elements(s) \union Elements(t)
<1>1. s \o t \in Seq(S) /\ Len(s \o t) = Len(s) + Len(t) /\ Len(s) \in Nat /\ Len(t) \in Nat
  BY ConcatProperties
<1>2. ASSUME NEW i \in 1 .. Len(s \o t)
      PROVE  (s \o t)[i] \in Elements(s) \union Elements(t)
  <2>1. CASE i <= Len(s)
    BY <1>1, <2>1, ConcatProperties DEF Elements
  <2>2. CASE i > Len(s)
    <3>1. (s \o t)[i] = t[i - Len(s)] /\ i - Len(s) \in 1 .. Len(t)
      BY <1>1, <2>2, ConcatProperties
    <3> QED
      BY <3>1 DEF Elements
  <2> QED
    BY <1>1, <2>1, <2>2
<1>3. ASSUME NEW i \in 1 .. Len(s)
      PROVE  s[i] \in Elements(s \o t)
  <2>1. i \in 1 .. Len(s \o t) /\ (s \o t)[i] = s[i]
    BY <1>1, ConcatProperties
  <2> QED
    BY <2>1 DEF Elements
<1>4. ASSUME NEW i \in 1 .. Len(t)
      PROVE  t[i] \in Elements(s \o t)
  <2>1. Len(s) + i \in 1 .. Len(s \o t) /\ (s \o t)[Len(s) + i] = t[i]
    BY <1>1, ConcatProperties
  <2> QED
    BY <2>1 DEF Elements
<1>5. Elements(s \o t) \subseteq Elements(s) \union Elements(t)
  BY <1>2 DEF Elements
<1>6. Elements(s) \subseteq Elements(s \o t)
  BY <1>3 DEF Elements
<1>7. Elements(t) \subseteq Elements(s \o t)
  BY <1>4 DEF Elements
<1> QED
  BY <1>1, <1>5, <1>6, <1>7

\* The head of a sequence, moved to the end of the one before it.
LEMMA HeadMoves ==
    ASSUME NEW S, NEW s \in Seq(S), NEW t \in Seq(S), t # <<>>
    PROVE  Append(s, Head(t)) \o Tail(t) = s \o t
<1>1. /\ Append(s, Head(t)) \in Seq(S) /\ Tail(t) \in Seq(S) /\ s \o t \in Seq(S)
      /\ Append(s, Head(t)) \o Tail(t) \in Seq(S)
      /\ Len(Append(s, Head(t)) \o Tail(t)) = Len(s \o t)
      /\ Len(s) \in Nat /\ Len(t) \in Nat /\ Len(s \o t) = Len(s) + Len(t)
  BY ConcatProperties, HeadTailProperties
<1>2. ASSUME NEW i \in 1 .. Len(s \o t)
      PROVE  (Append(s, Head(t)) \o Tail(t))[i] = (s \o t)[i]
  BY <1>1, ConcatProperties, HeadTailProperties
<1> QED
  BY <1>1, <1>2, SeqEqual

\* What is added behind a sequence is added behind each of its ends.
LEMMA EndGrows ==
    ASSUME NEW S, NEW s \in Seq(S), NEW t \in Seq(S), NEW m \in 1 .. Len(s) + 1
    PROVE  SubSeq(s, m, Len(s)) \o t = SubSeq(s \o t, m, Len(s \o t))
<1> DEFINE u == s \o t
           left == SubSeq(s, m, Len(s)) \o t
           right == SubSeq(u, m, Len(u))
<1>1. /\ u \in Seq(S) /\ Len(u) = Len(s) + Len(t) /\ Len(s) \in Nat /\ Len(t) \in Nat
      /\ \A i \in 1 .. Len(u) : u[i] = IF i <= Len(s) THEN s[i] ELSE t[i - Len(s)]
  BY ConcatProperties
<1>2. /\ SubSeq(s, m, Len(s)) \in Seq(S) /\ Len(SubSeq(s, m, Len(s))) = Len(s) - m + 1
      /\ \A i \in 1 .. Len(s) - m + 1 : SubSeq(s, m, Len(s))[i] = s[m + i - 1]
  <2>1. \A i \in m .. Len(s) : s[i] \in S
    BY ElementOfSeq
  <2>2. Len(s) \in Int /\ m \in Int /\ (IF m <= Len(s) THEN Len(s) - m + 1 ELSE 0) = Len(s) - m + 1
    BY <1>1
  <2> QED
    BY <2>1, <2>2, SubSeqProperties
<1>3. /\ right \in Seq(S) /\ Len(right) = Len(u) - m + 1
      /\ \A i \in 1 .. Len(u) - m + 1 : right[i] = u[m + i - 1]
  <2>1. \A i \in m .. Len(u) : u[i] \in S
    BY <1>1, ElementOfSeq
  <2>2. Len(u) \in Int /\ m \in Int /\ (IF m <= Len(u) THEN Len(u) - m + 1 ELSE 0) = Len(u) - m + 1
    BY <1>1
  <2> HIDE DEF u
  <2> QED
    BY <2>1, <2>2, SubSeqProperties
<1>4. /\ left \in Seq(S) /\ Len(left) = Len(s) - m + 1 + Len(t)
      /\ \A i \in 1 .. Len(left) :
            left[i] = IF i <= Len(s) - m + 1 THEN SubSeq(s, m, Len(s))[i] ELSE t[i - (Len(s) - m + 1)]
  <2> DEFINE end == SubSeq(s, m, Len(s))
  <2>1. end \in Seq(S) /\ Len(end) = Len(s) - m + 1
    BY <1>2
  <2> HIDE DEF end
  <2>2. /\ end \o t \in Seq(S) /\ Len(end \o t) = Len(end) + Len(t)
        /\ \A i \in 1 .. Len(end) + Len(t) :
            (end \o t)[i] = IF i <= Len(end) THEN end[i] ELSE t[i - Len(end)]
    BY <2>1, ConcatProperties
  <2> QED
    BY <2>1, <2>2 DEF end
<1> HIDE DEF u, left, right
<1>5. ASSUME NEW i \in 1 .. Len(left)
      PROVE  left[i] = right[i]
  <2>1. right[i] = u[m + i - 1] /\ m + i - 1 \in 1 .. Len(u)
    BY <1>1, <1>3, <1>4
  <2>2. CASE i <= Len(s) - m + 1
    <3>1. left[i] = SubSeq(s, m, Len(s))[i]
      BY <1>4, <2>2
    <3>2. i \in 1 .. Len(s) - m + 1 /\ m + i - 1 \in 1 .. Len(s)
      BY <1>1, <2>2
    <3>3. SubSeq(s, m, Len(s))[i] = s[m + i - 1]
      BY <1>2, <3>2
    <3> DEFINE k == m + i - 1
    <3>4. k \in 1 .. Len(u) /\ k <= Len(s)
      BY <1>1, <3>2
    <3> HIDE DEF k
    <3>5. u[k] = s[k]
      BY <1>1, <3>4
    <3> QED
      BY <2>1, <3>1, <3>3, <3>5 DEF k
  <2>3. CASE i > Len(s) - m + 1
    <3>1. left[i] = t[i - (Len(s) - m + 1)]
      BY <1>1, <1>4, <2>3
    <3>2. u[m + i - 1] = t[m + i - 1 - Len(s)]
      BY <1>1, <2>1, <2>3
    <3>3. i - (Len(s) - m + 1) = m + i - 1 - Len(s)
      BY <1>1
    <3> QED
      BY <2>1, <3>1, <3>2, <3>3
  <2> QED
    BY <1>1, <2>2, <2>3
<1>6. Len(left) = Len(right)
  BY <1>1, <1>3, <1>4
<1>7. left = right
  BY <1>3, <1>4, <1>5, <1>6, SeqEqual
<1> QED
  BY <1>7 DEF left, right, u

\* A sequence that is not empty.
LEMMA NotEmpty ==
    ASSUME NEW S, NEW s \in Seq(S), s # <<>>
    PROVE  Len(s) \in Nat \ {0} /\ Head(s) = s[1]
OBVIOUS

\* The first element of the end of a sequence, and what follows it.
LEMMA EndShrinks ==
    ASSUME NEW S, NEW s \in Seq(S), NEW m \in 1 .. Len(s) + 1, SubSeq(s, m, Len(s)) # <<>>
    PROVE  /\ m \in 1 .. Len(s)
           /\ Head(SubSeq(s, m, Len(s))) = s[m]
           /\ Tail(SubSeq(s, m, Len(s))) = SubSeq(s, m + 1, Len(s))
<1>1. Len(s) \in Nat
  OBVIOUS
<1>2. m <= Len(s)
  <2>1. Len(s) < m => SubSeq(s, m, Len(s)) = <<>>
    BY <1>1, SubSeqEmpty
  <2> QED
    BY <1>1, <2>1
<1>3. m \in 1 .. Len(s) /\ Len(s) \in m .. Len(s)
  BY <1>1, <1>2
<1> QED
  BY <1>3, HeadTailOfSubSeq

-----------------------------------------------------------------------------
(* Counting                                                                *)

\* One more place to look at.
LEMMA CountOneMore ==
    ASSUME NEW T, NEW n \in Nat
    PROVE  /\ Cardinality(T \intersect (1 .. n)) \in Nat
           /\ Cardinality(T \intersect (1 .. n + 1)) =
                Cardinality(T \intersect (1 .. n)) + IF n + 1 \in T THEN 1 ELSE 0
<1> DEFINE U == T \intersect (1 .. n)
<1>1. IsFiniteSet(U) /\ Cardinality(U) \in Nat
  <2>1. IsFiniteSet(1 .. n) /\ U \subseteq 1 .. n
    BY FS_Interval
  <2> QED
    BY <2>1, FS_Subset, FS_CardinalityType
<1>2. n + 1 \notin U
  OBVIOUS
<1>3. T \intersect (1 .. n + 1) = IF n + 1 \in T THEN U \union {n + 1} ELSE U
  BY 1 .. n + 1 = (1 .. n) \union {n + 1}
<1>4. Cardinality(U \union {n + 1}) = Cardinality(U) + 1
  BY <1>1, <1>2, FS_AddElement
<1> HIDE DEF U
<1>5. CASE n + 1 \in T
  BY <1>1, <1>3, <1>4, <1>5 DEF U
<1>6. CASE n + 1 \notin T
  BY <1>1, <1>3, <1>6 DEF U
<1> QED
  BY <1>5, <1>6

\* A place that counts is counted.
LEMMA CountedOnce ==
    ASSUME NEW T, NEW n \in Nat, NEW i \in T, i \in 1 .. n
    PROVE  Cardinality(T \intersect (1 .. n)) >= 1
<1> DEFINE U == T \intersect (1 .. n)
<1>1. IsFiniteSet(U) /\ Cardinality(U) \in Nat
  <2>1. IsFiniteSet(1 .. n) /\ U \subseteq 1 .. n
    BY FS_Interval
  <2> QED
    BY <2>1, FS_Subset, FS_CardinalityType
<1>2. i \in U
  OBVIOUS
<1> HIDE DEF U
<1>3. Cardinality(U) # 0
  BY <1>1, <1>2, FS_EmptySet
<1>4. Cardinality(U) >= 1
  BY <1>1, <1>3
<1> QED
  BY <1>4 DEF U

\* As many pairs with one first part as there are second parts.
LEMMA PairsCount ==
    ASSUME NEW k, NEW T, IsFiniteSet(T)
    PROVE  IsFiniteSet({<<k, i>> : i \in T}) /\ Cardinality({<<k, i>> : i \in T}) = Cardinality(T)
<1> DEFINE P == {<<k, i>> : i \in T}
           h == [i \in T |-> <<k, i>>]
<1>1. h \in [T -> P]
  OBVIOUS
<1>2. \A i, j \in T : h[i] = h[j] => i = j
  OBVIOUS
<1>3. \A x \in P : \E i \in T : h[i] = x
  OBVIOUS
<1> HIDE DEF h, P
<1>4. ExistsBijection(T, P)
  <2>1. h \in Bijection(T, P)
    BY <1>1, <1>2, <1>3 DEF Bijection, Injection, Surjection, IsInjective
  <2> QED
    BY <2>1 DEF ExistsBijection
<1>5. IsFiniteSet(P) /\ Cardinality(P) = Cardinality(T)
  BY <1>4, FS_Bijection, Zenon
<1> QED
  BY <1>5 DEF P

-----------------------------------------------------------------------------
(* Short sequences, and sequences made from others                        *)

\* Sequences of one element.
LEMMA OneElement ==
    ASSUME NEW x
    PROVE  /\ Append(<<>>, x) = <<x>> /\ Len(<<x>>) = 1 /\ <<x>>[1] = x /\ <<x>> # <<>>
           /\ Tail(<<x>>) = <<>> /\ SubSeq(<<x>>, 2, 1) = <<>> /\ Head(<<x>>) = x
           /\ \A S : x \in S => <<x>> \in Seq(S)
           /\ \A i \in 1 .. 1 : i = 1
OBVIOUS

\* A sequence of length 1.
LEMMA OneLong ==
    ASSUME NEW S, NEW u \in Seq(S), Len(u) = 1
    PROVE  u # <<>> /\ Head(u) \in S /\ u = <<Head(u)>> /\ Tail(u) = <<>>
<1> DEFINE h == Head(u)
<1>1. u # <<>> /\ h \in S /\ u[1] = h
  OBVIOUS
<1> HIDE DEF h
<1>2. <<h>> \in Seq(S) /\ Len(<<h>>) = 1 /\ <<h>>[1] = h /\ Tail(<<h>>) = <<>> /\ \A i \in 1 .. 1 : i = 1
  BY <1>1, OneElement
<1>3. u = <<h>>
  <2> DEFINE v == <<h>>
  <2>1. v \in Seq(S) /\ Len(u) = Len(v) /\ \A i \in 1 .. Len(u) : u[i] = v[i]
    BY <1>1, <1>2
  <2> HIDE DEF v
  <2>2. u = v
    BY <2>1, SeqEqual
  <2> QED
    BY <2>2 DEF v
<1> QED
  BY <1>1, <1>2, <1>3 DEF h

\* A sequence whose elements are turned into others one by one: what is appended
\* is appended, and what is at the front is at the front.
Mapped(s, g) == [i \in 1 .. Len(s) |-> g[s[i]]]

Follows(S, T, s, g) ==
    /\ Mapped(s, g) \in Seq(T) /\ Len(Mapped(s, g)) = Len(s)
    /\ \A i \in 1 .. Len(s) : Mapped(s, g)[i] = g[s[i]]
    /\ \A x \in S : Mapped(Append(s, x), g) = Append(Mapped(s, g), g[x])
    /\ s # <<>> => /\ Mapped(Tail(s), g) = Tail(Mapped(s, g)) /\ Mapped(s, g) # <<>>
                   /\ Head(Mapped(s, g)) = g[Head(s)]
    /\ s = <<>> => Mapped(s, g) = <<>>

LEMMA MappedFacts ==
    ASSUME NEW S, NEW T, NEW g \in [S -> T], NEW s \in Seq(S)
    PROVE  Follows(S, T, s, g)
<1> DEFINE m == Mapped(s, g)
<1>1. /\ m \in Seq(T) /\ Len(m) = Len(s) /\ Len(s) \in Nat
      /\ \A i \in 1 .. Len(s) : m[i] = g[s[i]]
  <2>1. \A i \in 1 .. Len(s) : s[i] \in S
    BY ElementOfSeq
  <2> QED
    BY <2>1 DEF Mapped
<1>2. ASSUME NEW x \in S
      PROVE  Mapped(Append(s, x), g) = Append(m, g[x])
  <2> DEFINE u == Append(s, x)
             v == Append(m, g[x])
  <2>1. /\ u \in Seq(S) /\ Len(u) = Len(s) + 1 /\ u[Len(s) + 1] = x
        /\ \A i \in 1 .. Len(s) : u[i] = s[i]
    BY <1>1
  <2>2. /\ v \in Seq(T) /\ Len(v) = Len(s) + 1 /\ v[Len(s) + 1] = g[x]
        /\ \A i \in 1 .. Len(s) : v[i] = m[i]
    <3> HIDE DEF m
    <3> QED
      BY <1>1
  <2> HIDE DEF u, v, m
  <2>3. Mapped(u, g) \in Seq(T) /\ Len(Mapped(u, g)) = Len(s) + 1
        /\ \A i \in 1 .. Len(u) : Mapped(u, g)[i] = g[u[i]]
    <3>1. \A i \in 1 .. Len(u) : u[i] \in S
      BY <2>1, ElementOfSeq
    <3> QED
      BY <2>1, <3>1 DEF Mapped
  <2>4. ASSUME NEW i \in 1 .. Len(s) + 1
        PROVE  Mapped(u, g)[i] = v[i]
    <3>1. CASE i = Len(s) + 1
      BY <2>1, <2>2, <2>3, <3>1
    <3>2. CASE i \in 1 .. Len(s)
      BY <1>1, <2>1, <2>2, <2>3, <3>2
    <3> QED
      BY <1>1, <3>1, <3>2
  <2>5. Mapped(u, g) = v
    <3> DEFINE a == Mapped(u, g)
    <3>1. a \in Seq(T) /\ v \in Seq(T) /\ Len(a) = Len(v) /\ \A i \in 1 .. Len(a) : a[i] = v[i]
      BY <2>2, <2>3, <2>4
    <3> HIDE DEF a
    <3>2. a = v
      BY <3>1, SeqEqual
    <3> QED
      BY <3>2 DEF a
  <2> QED
    BY <2>5 DEF u, v, m
<1>3. ASSUME s # <<>>
      PROVE  Mapped(Tail(s), g) = Tail(m) /\ m # <<>> /\ Head(m) = g[Head(s)]
  <2> DEFINE u == Tail(s)
  <2>1. /\ u \in Seq(S) /\ Len(u) = Len(s) - 1 /\ Len(s) # 0 /\ Head(s) = s[1]
        /\ \A i \in 1 .. Len(u) : u[i] = s[i + 1]
    BY <1>3, HeadTailProperties, EmptySeq
  <2> HIDE DEF u, m
  <2>2. m # <<>>
    BY <1>1, <2>1
  <2> DEFINE v == Tail(m)
  <2>3. /\ v \in Seq(T) /\ Len(v) = Len(s) - 1 /\ Head(m) = m[1]
        /\ \A i \in 1 .. Len(v) : v[i] = m[i + 1]
    BY <1>1, <2>2, HeadTailProperties
  <2> HIDE DEF v
  <2>4. Mapped(u, g) \in Seq(T) /\ Len(Mapped(u, g)) = Len(u)
        /\ \A i \in 1 .. Len(u) : Mapped(u, g)[i] = g[u[i]]
    <3>1. \A i \in 1 .. Len(u) : u[i] \in S
      BY <2>1, ElementOfSeq
    <3>2. Len(u) \in Nat
      BY <2>1
    <3> QED
      BY <3>1, <3>2 DEF Mapped
  <2>5. ASSUME NEW i \in 1 .. Len(u)
        PROVE  Mapped(u, g)[i] = v[i]
    <3>1. i + 1 \in 1 .. Len(s)
      BY <1>1, <2>1
    <3> QED
      BY <1>1, <2>1, <2>3, <2>4, <3>1
  <2>6. Mapped(u, g) = v
    <3> DEFINE a == Mapped(u, g)
    <3>1. a \in Seq(T) /\ v \in Seq(T) /\ Len(a) = Len(v) /\ \A i \in 1 .. Len(a) : a[i] = v[i]
      BY <2>1, <2>3, <2>4, <2>5
    <3> HIDE DEF a
    <3>2. a = v
      BY <3>1, SeqEqual
    <3> QED
      BY <3>2 DEF a
  <2>7. 1 \in 1 .. Len(s)
    BY <1>1, <2>1
  <2> QED
    BY <1>1, <2>1, <2>2, <2>3, <2>6, <2>7 DEF u, v
<1>4. s = <<>> => m = <<>>
  BY DEF Mapped
<1> QED
  BY <1>1, <1>2, <1>3, <1>4 DEF Follows

-----------------------------------------------------------------------------
(* Sequences one behind the other                                          *)

\* g[n] is what the first n sequences of s are, one behind the other.
FlattensTo(s, m, g) == g = [i \in 1 .. m |-> IF i = 1 THEN s[i] ELSE g[i - 1] \o s[i]]

LEMMA FlattensExist ==
    ASSUME NEW s, NEW m \in Nat
    PROVE  \E g : FlattensTo(s, m, g)
<1> DEFINE T == {n \in Nat : \E g : FlattensTo(s, n, g)}
<1>1. 0 \in T
  <2> DEFINE g == [i \in 1 .. 0 |-> <<>>]
  <2>1. FlattensTo(s, 0, g)
    BY DEF FlattensTo
  <2> QED
    BY <2>1
<1>2. ASSUME NEW n \in Nat, n \in T
      PROVE  n + 1 \in T
  <2>1. PICK g : FlattensTo(s, n, g)
    BY <1>2
  <2> DEFINE last == IF n + 1 = 1 THEN s[n + 1] ELSE g[n] \o s[n + 1]
             h == [i \in 1 .. n + 1 |-> IF i = n + 1 THEN last ELSE g[i]]
  <2>2. ASSUME NEW i \in 1 .. n + 1
        PROVE  h[i] = IF i = 1 THEN s[i] ELSE h[i - 1] \o s[i]
    <3>1. CASE i = n + 1
      <4>1. h[i] = last /\ (i # 1 => h[i - 1] = g[n])
        BY <3>1
      <4> QED
        BY <3>1, <4>1
    <3>2. CASE i # n + 1
      <4>1. i \in 1 .. n /\ h[i] = g[i] /\ (i # 1 => h[i - 1] = g[i - 1])
        BY <3>2
      <4> HIDE DEF h
      <4>2. g[i] = IF i = 1 THEN s[i] ELSE g[i - 1] \o s[i]
        BY <2>1, <4>1 DEF FlattensTo
      <4> QED
        BY <4>1, <4>2
    <3> QED
      BY <3>1, <3>2
  <2>3. h = [i \in 1 .. n + 1 |-> h[i]]
    OBVIOUS
  <2> HIDE DEF h
  <2>4. FlattensTo(s, n + 1, h)
    BY <2>2, <2>3 DEF FlattensTo
  <2> QED
    BY <2>4
<1> HIDE DEF T
<1>3. Nat \subseteq T
  BY <1>1, <1>2, SetInduction
<1> QED
  BY <1>3 DEF T

Bounded(s, S, B, n) == s \in Seq(S) /\ Len(s) <= B * n

\* The same for all of s, as FlattenSeq is defined.
FlatIs(s, flat) ==
    IF Len(s) = 0 THEN flat = s ELSE \E g : FlattensTo(s, Len(s), g) /\ flat = g[Len(s)]

\* Sequences over a set, one behind the other, are one, and no longer than they
\* are together.
LEMMA FlatBounded ==
    ASSUME NEW S, NEW s \in Seq(Seq(S)), NEW B \in Nat, \A i \in 1 .. Len(s) : Len(s[i]) <= B,
           NEW t, FlatIs(s, t)
    PROVE  Bounded(t, S, B, Len(s))
<1> DEFINE L == Len(s)
<1>1. L \in Nat
  OBVIOUS
<1>2. CASE L = 0
  <2>1. s = <<>> /\ <<>> \in Seq(S) /\ Len(<<>>) = 0 /\ B * 0 = 0
    BY <1>2
  <2>2. t = s
    BY <1>2 DEF FlatIs
  <2>3. Bounded(s, S, B, L)
    BY <1>2, <2>1 DEF Bounded
  <2> QED
    BY <2>2, <2>3
<1>3. CASE L # 0
  <2>1. PICK flat : FlattensTo(s, L, flat) /\ t = flat[L]
    BY <1>3 DEF FlatIs
  <2> DEFINE T == {n \in Nat : n \in 1 .. L => Bounded(flat[n], S, B, n)}
  <2>3. 0 \in T
    OBVIOUS
  <2>4. ASSUME NEW n \in Nat, n \in T
        PROVE  n + 1 \in T
    <3> SUFFICES ASSUME NEW m, m = n + 1, m \in 1 .. L
                 PROVE  Bounded(flat[m], S, B, m)
      OBVIOUS
    <3>1. s[m] \in Seq(S) /\ Len(s[m]) \in Nat /\ Len(s[m]) <= B
      BY ElementOfSeq, LenProperties
    <3>2. flat[m] = IF m = 1 THEN s[m] ELSE flat[m - 1] \o s[m]
      BY <2>1 DEF FlattensTo
    <3>3. CASE m = 1
      <4>1. B * 1 = B
        OBVIOUS
      <4> QED
        BY <3>1, <3>2, <3>3, <4>1 DEF Bounded
    <3>4. CASE m # 1
      <4>1. n \in 1 .. L /\ m - 1 = n
        BY <1>1, <3>4
      <4>2. flat[n] \in Seq(S) /\ Len(flat[n]) \in Nat /\ Len(flat[n]) <= B * n
        BY <2>4, <4>1, LenProperties DEF Bounded
      <4>3. /\ flat[n] \o s[m] \in Seq(S)
            /\ Len(flat[n] \o s[m]) = Len(flat[n]) + Len(s[m])
        BY <3>1, <4>2, ConcatProperties
      <4>4. B * m = B * n + B /\ B * n \in Nat
        OBVIOUS
      <4>5. flat[m] = flat[n] \o s[m]
        BY <3>2, <3>4, <4>1
      <4>6. \A a, b, c \in Nat : a <= c /\ b <= B => a + b <= c + B
        OBVIOUS
      <4>7. Len(flat[n]) + Len(s[m]) <= B * n + B
        BY <3>1, <4>2, <4>4, <4>6
      <4> QED
        BY <4>3, <4>4, <4>5, <4>7 DEF Bounded
    <3> QED
      BY <3>3, <3>4
  <2> HIDE DEF T
  <2>5. L \in T
    BY <1>1, <2>3, <2>4, SetInduction
  <2>6. L \in 1 .. L
    BY <1>1, <1>3
  <2> QED
    BY <2>1, <2>5, <2>6 DEF T
<1> QED
  BY <1>2, <1>3
=============================================================================
