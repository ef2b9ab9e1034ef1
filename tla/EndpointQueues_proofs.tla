------------------------ MODULE EndpointQueues_proofs ------------------------
(***************************************************************************)
(* The endpoint transfer queues keep their books under any sequence of     *)
(* calls, for any keys, any request ids and any number of transfers: the   *)
(* round-robin order mirrors the queues, no transfer is lost or handed out *)
(* twice, each endpoint is served in order, and none is passed over twice. *)
(***************************************************************************)
EXTENDS EndpointQueues, SharedLemmas
LOCAL INSTANCE SequencesExt

-----------------------------------------------------------------------------
(* The round-robin order: sequences of keys without repetition             *)

Distinct(s) == \A i, j \in 1 .. Len(s) : s[i] = s[j] => i = j

\* Key j comes before key k.
Before(s, j, k) == \E i, m \in 1 .. Len(s) : i < m /\ s[i] = j /\ s[m] = k

Order(s, K) == s \in Seq(Keys) /\ Distinct(s) /\ Elements(s) = K

\* A key that joins the order goes to its end.
LEMMA KeyJoins ==
    ASSUME NEW s, NEW K, Order(s, K), NEW k \in Keys \ K
    PROVE  /\ Order(Append(s, k), K \union {k})
           /\ \A j, m : m # k /\ Before(Append(s, k), j, m) => Before(s, j, m)
<1> DEFINE u == Append(s, k)
<1>1. /\ s \in Seq(Keys) /\ u \in Seq(Keys) /\ Len(s) \in Nat /\ Len(u) = Len(s) + 1
      /\ u[Len(s) + 1] = k /\ \A i \in 1 .. Len(s) : u[i] = s[i]
  BY AppendProperties DEF Order
<1>2. \A i \in 1 .. Len(s) : s[i] \in K
  BY DEF Order, Elements
<1> HIDE DEF u
<1>3. Distinct(u)
  <2>1. Distinct(s)
    BY DEF Order
  <2>2. ASSUME NEW i \in 1 .. Len(u), NEW j \in 1 .. Len(u), u[i] = u[j]
        PROVE  i = j
    <3>1. CASE i \in 1 .. Len(s) /\ j \in 1 .. Len(s)
      BY <1>1, <2>1, <2>2, <3>1 DEF Distinct
    <3>2. i \in 1 .. Len(s) /\ j \notin 1 .. Len(s) => FALSE
      BY <1>1, <1>2, <2>2
    <3>3. j \in 1 .. Len(s) /\ i \notin 1 .. Len(s) => FALSE
      BY <1>1, <1>2, <2>2
    <3>4. i \notin 1 .. Len(s) => i = Len(s) + 1
      BY <1>1
    <3>5. j \notin 1 .. Len(s) => j = Len(s) + 1
      BY <1>1
    <3> QED
      BY <3>1, <3>2, <3>3, <3>4, <3>5
  <2> QED
    BY <2>2 DEF Distinct
<1>4. Elements(u) = K \union {k}
  <2>1. Elements(s) = K
    BY DEF Order
  <2>2. \A i \in 1 .. Len(u) : u[i] \in K \union {k}
    BY <1>1, <1>2
  <2>3. \A x \in K : \E i \in 1 .. Len(u) : u[i] = x
    <3>1. \A x \in K : \E i \in 1 .. Len(s) : s[i] = x
      BY <2>1 DEF Elements
    <3> QED
      BY <1>1, <3>1
  <2>4. \E i \in 1 .. Len(u) : u[i] = k
    BY <1>1
  <2> QED
    BY <2>2, <2>3, <2>4 DEF Elements
<1>5. ASSUME NEW j, NEW m, m # k, Before(u, j, m)
      PROVE  Before(s, j, m)
  <2>1. PICK a \in 1 .. Len(u), b \in 1 .. Len(u) : a < b /\ u[a] = j /\ u[b] = m
    BY <1>5 DEF Before
  <2>2. b \in 1 .. Len(s) /\ a \in 1 .. Len(s)
    BY <1>1, <1>5, <2>1
  <2> QED
    BY <1>1, <2>1, <2>2 DEF Before
<1>6. Order(u, K \union {k})
  BY <1>1, <1>3, <1>4 DEF Order
<1> QED
  BY <1>5, <1>6 DEF u

\* The key at the front leaves the order.
LEMMA KeyLeaves ==
    ASSUME NEW s, NEW K, Order(s, K), s # <<>>
    PROVE  /\ s[1] \in K
           /\ Order(SubSeq(s, 2, Len(s)), K \ {s[1]})
           /\ \A j, m : Before(SubSeq(s, 2, Len(s)), j, m) => Before(s, j, m)
           /\ \A m \in K \ {s[1]} : Before(s, s[1], m)
<1> DEFINE u == SubSeq(s, 2, Len(s))
<1>1. s \in Seq(Keys) /\ Len(s) \in Nat /\ Len(s) # 0 /\ Distinct(s) /\ Elements(s) = K
  BY EmptySeq DEF Order
<1>2. u \in Seq(Keys) /\ Len(u) = Len(s) - 1 /\ \A i \in 1 .. Len(u) : u[i] = s[i + 1]
  <2>1. \A i \in 2 .. Len(s) : s[i] \in Keys
    BY <1>1, ElementOfSeq
  <2>2. /\ u \in Seq(Keys) /\ Len(u) = IF 2 <= Len(s) THEN Len(s) - 2 + 1 ELSE 0
        /\ \A i \in 1 .. Len(s) - 2 + 1 : u[i] = s[2 + i - 1]
    <3> DEFINE n == Len(s)
    <3>1. n \in Int /\ 2 \in Int /\ \A i \in 2 .. n : s[i] \in Keys
      BY <1>1, <2>1
    <3> HIDE DEF n
    <3>2. /\ SubSeq(s, 2, n) \in Seq(Keys) /\ Len(SubSeq(s, 2, n)) = IF 2 <= n THEN n - 2 + 1 ELSE 0
          /\ \A i \in 1 .. n - 2 + 1 : SubSeq(s, 2, n)[i] = s[2 + i - 1]
      BY <3>1, SubSeqProperties
    <3> QED
      BY <3>2 DEF n
  <2>3. \A n \in Nat \ {0} : (IF 2 <= n THEN n - 2 + 1 ELSE 0) = n - 1 /\ n - 2 + 1 = n - 1
    OBVIOUS
  <2> HIDE DEF u
  <2>4. \A i \in 1 .. Len(u) : 2 + i - 1 = i + 1
    BY <2>2
  <2> QED
    BY <1>1, <2>2, <2>3, <2>4
<1> HIDE DEF u
<1>3. 1 \in 1 .. Len(s) /\ s[1] \in K
  BY <1>1 DEF Elements
<1>4. \A i \in 1 .. Len(u) : i + 1 \in 1 .. Len(s) /\ i + 1 # 1
  BY <1>1, <1>2
<1>5. Distinct(u)
  BY <1>1, <1>2, <1>4 DEF Distinct
<1>6. Elements(u) = K \ {s[1]}
  <2>1. ASSUME NEW i \in 1 .. Len(u)
        PROVE  u[i] \in K \ {s[1]}
    BY <1>1, <1>2, <1>3, <1>4 DEF Distinct, Elements
  <2>2. ASSUME NEW x \in K \ {s[1]}
        PROVE  \E i \in 1 .. Len(u) : u[i] = x
    <3>1. PICK i \in 1 .. Len(s) : s[i] = x
      BY <1>1 DEF Elements
    <3>2. i - 1 \in 1 .. Len(u) /\ (i - 1) + 1 = i
      BY <1>1, <1>2, <2>2, <3>1
    <3> QED
      BY <1>2, <3>1, <3>2
  <2> QED
    BY <2>1, <2>2 DEF Elements
<1>7. ASSUME NEW j, NEW m, Before(u, j, m)
      PROVE  Before(s, j, m)
  <2>1. PICK a \in 1 .. Len(u), b \in 1 .. Len(u) : a < b /\ u[a] = j /\ u[b] = m
    BY <1>7 DEF Before
  <2>2. a + 1 \in 1 .. Len(s) /\ b + 1 \in 1 .. Len(s) /\ a + 1 < b + 1
    BY <1>4, <2>1
  <2>3. s[a + 1] = j /\ s[b + 1] = m
    BY <1>2, <2>1
  <2> QED
    BY <2>2, <2>3 DEF Before
<1>8. ASSUME NEW m \in K \ {s[1]}
      PROVE  Before(s, s[1], m)
  <2>1. PICK i \in 1 .. Len(s) : s[i] = m
    BY <1>1 DEF Elements
  <2>2. 1 < i
    BY <1>8, <2>1
  <2> QED
    BY <1>3, <2>1, <2>2 DEF Before
<1>9. Order(u, K \ {s[1]})
  BY <1>2, <1>5, <1>6 DEF Order
<1> QED
  BY <1>3, <1>7, <1>8, <1>9 DEF u

\* Nothing comes before the key at the end that is not in front of it: when the
\* key at the front goes to the end, it comes before no other.
LEMMA LastIsLast ==
    ASSUME NEW s, NEW K, Order(s, K), NEW k \in Keys \ K, NEW m
    PROVE  ~Before(Append(s, k), k, m)
<1> DEFINE u == Append(s, k)
<1>1. /\ s \in Seq(Keys) /\ Len(s) \in Nat /\ Len(u) = Len(s) + 1
      /\ \A i \in 1 .. Len(s) : u[i] = s[i]
  BY AppendProperties DEF Order
<1>2. \A i \in 1 .. Len(s) : s[i] # k
  BY DEF Order, Elements
<1> HIDE DEF u
<1>3. ASSUME NEW a \in 1 .. Len(u), NEW b \in 1 .. Len(u), a < b, u[a] = k
      PROVE  FALSE
  <2>1. a \in 1 .. Len(s)
    BY <1>1, <1>3
  <2> QED
    BY <1>1, <1>2, <1>3, <2>1
<1> QED
  BY <1>3 DEF Before, u

\* g[n] is what retain keeps of the first n keys.
RetainsTo(s, k, m, g) ==
    g = [n \in 0 .. m |->
            IF n = 0 THEN <<>> ELSE IF s[n] = k THEN g[n - 1] ELSE Append(g[n - 1], s[n])]

LEMMA RetainsExist ==
    ASSUME NEW s, NEW k, NEW m \in Nat
    PROVE  \E g : RetainsTo(s, k, m, g)
<1> DEFINE T == {n \in Nat : \E g : RetainsTo(s, k, n, g)}
<1>1. 0 \in T
  <2> DEFINE g == [n \in 0 .. 0 |-> <<>>]
  <2>1. RetainsTo(s, k, 0, g)
    BY DEF RetainsTo
  <2> QED
    BY <2>1
<1>2. ASSUME NEW n \in Nat, n \in T
      PROVE  n + 1 \in T
  <2>1. PICK g : RetainsTo(s, k, n, g)
    BY <1>2
  <2> DEFINE last == IF s[n + 1] = k THEN g[n] ELSE Append(g[n], s[n + 1])
             h == [a \in 0 .. n + 1 |-> IF a = n + 1 THEN last ELSE g[a]]
  <2>2. ASSUME NEW a \in 0 .. n + 1
        PROVE  h[a] = IF a = 0 THEN <<>> ELSE IF s[a] = k THEN h[a - 1] ELSE Append(h[a - 1], s[a])
    <3>1. CASE a = n + 1
      <4>1. h[a] = last /\ h[a - 1] = g[n] /\ a # 0
        BY <3>1
      <4> QED
        BY <3>1, <4>1
    <3>2. CASE a # n + 1
      <4>1. a \in 0 .. n /\ h[a] = g[a] /\ (a # 0 => a - 1 \in 0 .. n + 1 /\ h[a - 1] = g[a - 1])
        BY <3>2
      <4> HIDE DEF h
      <4>2. g[a] = IF a = 0 THEN <<>> ELSE IF s[a] = k THEN g[a - 1] ELSE Append(g[a - 1], s[a])
        BY <2>1, <4>1 DEF RetainsTo
      <4> QED
        BY <4>1, <4>2
    <3> QED
      BY <3>1, <3>2
  <2>3. h = [a \in 0 .. n + 1 |-> h[a]]
    OBVIOUS
  <2> HIDE DEF h
  <2>4. RetainsTo(s, k, n + 1, h)
    BY <2>2, <2>3 DEF RetainsTo
  <2> QED
    BY <2>4
<1> HIDE DEF T
<1>3. Nat \subseteq T
  BY <1>1, <1>2, SetInduction
<1> QED
  BY <1>3 DEF T

\* t holds the first n keys of s but k, in their order.
Kept(s, k, n, t) ==
    /\ t \in Seq(Keys)
    /\ \A i \in 1 .. Len(t) : \E a \in 1 .. n : s[a] = t[i] /\ s[a] # k
    /\ \A a \in 1 .. n : s[a] # k => \E i \in 1 .. Len(t) : t[i] = s[a]
    /\ \A i, j \in 1 .. Len(t) : i < j => \E a, b \in 1 .. n : a < b /\ s[a] = t[i] /\ s[b] = t[j]

LEMMA KeptGrows ==
    ASSUME NEW s \in Seq(Keys), NEW k, NEW n \in Nat, NEW m, m = n + 1, m <= Len(s),
           NEW t, Kept(s, k, n, t)
    PROVE  /\ s[m] = k => Kept(s, k, m, t)
           /\ s[m] # k => Kept(s, k, m, Append(t, s[m]))
<1>1. m \in 1 .. m /\ s[m] \in Keys /\ \A a \in 1 .. n : a \in 1 .. m /\ a < m
  <2>1. m \in 1 .. Len(s)
    OBVIOUS
  <2> QED
    BY <2>1, ElementOfSeq
<1>2. \A a \in 1 .. m : a = m \/ a \in 1 .. n
  OBVIOUS
<1>3. ASSUME s[m] = k
      PROVE  Kept(s, k, m, t)
  <2>1. \A a \in 1 .. m : s[a] # k => \E i \in 1 .. Len(t) : t[i] = s[a]
    BY <1>2, <1>3 DEF Kept
  <2> QED
    BY <1>1, <2>1 DEF Kept
<1>4. ASSUME s[m] # k
      PROVE  Kept(s, k, m, Append(t, s[m]))
  <2> DEFINE u == Append(t, s[m])
  <2>1. /\ u \in Seq(Keys) /\ Len(t) \in Nat /\ Len(u) = Len(t) + 1 /\ u[Len(t) + 1] = s[m]
        /\ \A i \in 1 .. Len(t) : u[i] = t[i]
    BY <1>1, AppendProperties DEF Kept
  <2> HIDE DEF u
  <2>2. Len(t) + 1 \in 1 .. Len(u) /\ \A i \in 1 .. Len(u) : i = Len(t) + 1 \/ i \in 1 .. Len(t)
    BY <2>1
  <2>3. ASSUME NEW i \in 1 .. Len(u)
        PROVE  \E a \in 1 .. m : s[a] = u[i] /\ s[a] # k
    <3>1. CASE i = Len(t) + 1
      BY <1>1, <1>4, <2>1, <3>1
    <3>2. CASE i \in 1 .. Len(t)
      <4>1. PICK a \in 1 .. n : s[a] = t[i] /\ s[a] # k
        BY <3>2 DEF Kept
      <4> QED
        BY <1>1, <2>1, <3>2, <4>1
    <3> QED
      BY <2>2, <3>1, <3>2
  <2>4. ASSUME NEW a \in 1 .. m, s[a] # k
        PROVE  \E i \in 1 .. Len(u) : u[i] = s[a]
    <3>1. CASE a = m
      BY <2>1, <2>2, <3>1
    <3>2. CASE a \in 1 .. n
      <4>1. PICK i \in 1 .. Len(t) : t[i] = s[a]
        BY <2>4, <3>2 DEF Kept
      <4>2. i \in 1 .. Len(u)
        BY <2>1
      <4> QED
        BY <2>1, <4>1, <4>2
    <3> QED
      BY <1>2, <3>1, <3>2
  <2>5. ASSUME NEW i \in 1 .. Len(u), NEW j \in 1 .. Len(u), i < j
        PROVE  \E a, b \in 1 .. m : a < b /\ s[a] = u[i] /\ s[b] = u[j]
    <3>1. i \in 1 .. Len(t)
      BY <2>1, <2>5
    <3>2. CASE j \in 1 .. Len(t)
      <4>1. PICK a \in 1 .. n, b \in 1 .. n : a < b /\ s[a] = t[i] /\ s[b] = t[j]
        BY <2>5, <3>1, <3>2 DEF Kept
      <4> QED
        BY <1>1, <2>1, <3>1, <3>2, <4>1
    <3>3. CASE j = Len(t) + 1
      <4>1. PICK a \in 1 .. n : s[a] = t[i]
        BY <3>1 DEF Kept
      <4> QED
        BY <1>1, <2>1, <3>1, <3>3, <4>1
    <3> QED
      BY <2>2, <3>2, <3>3
  <2>6. Kept(s, k, m, u)
    BY <2>1, <2>3, <2>4, <2>5 DEF Kept
  <2> QED
    BY <2>6 DEF u
<1> QED
  BY <1>3, <1>4

\* retain keeps the other keys, in their order.
LEMMA RetainKeeps ==
    ASSUME NEW s, NEW K, Order(s, K), NEW k
    PROVE  /\ Order(Retain(s, k), K \ {k})
           /\ \A j, m : Before(Retain(s, k), j, m) => Before(s, j, m)
<1> DEFINE L == Len(s)
           kept == CHOOSE g : g = [n \in 0 .. L |->
                        IF n = 0 THEN <<>>
                        ELSE IF s[n] = k THEN g[n - 1] ELSE Append(g[n - 1], s[n])]
           t == kept[L]
<1>1. s \in Seq(Keys) /\ L \in Nat /\ Distinct(s) /\ Elements(s) = K
  BY DEF Order
<1>2. Retain(s, k) = t
  BY DEF Retain
<1>3. RetainsTo(s, k, L, kept)
  <2>1. \E g : RetainsTo(s, k, L, g)
    BY <1>1, RetainsExist
  <2> QED
    BY <2>1 DEF RetainsTo
<1> HIDE DEF kept
<1>4. L \in {n \in Nat : n <= L => Kept(s, k, n, kept[n])}
  <2> DEFINE T == {n \in Nat : n <= L => Kept(s, k, n, kept[n])}
  <2>1. 0 \in T
    <3>1. kept[0] = <<>>
      BY <1>1, <1>3 DEF RetainsTo
    <3>2. Kept(s, k, 0, <<>>)
      BY DEF Kept
    <3> QED
      BY <3>1, <3>2
  <2>2. ASSUME NEW n \in Nat, n \in T
        PROVE  n + 1 \in T
    <3> SUFFICES ASSUME NEW m, m = n + 1, m <= L
                 PROVE  Kept(s, k, m, kept[m])
      OBVIOUS
    <3>1. Kept(s, k, n, kept[n])
      BY <1>1, <2>2
    <3>2. kept[m] = IF s[m] = k THEN kept[n] ELSE Append(kept[n], s[m])
      <4>1. m \in 0 .. L /\ m # 0 /\ m - 1 = n
        BY <1>1
      <4> QED
        BY <1>3, <4>1 DEF RetainsTo
    <3>3. /\ s[m] = k => Kept(s, k, m, kept[n])
          /\ s[m] # k => Kept(s, k, m, Append(kept[n], s[m]))
      BY <1>1, <3>1, KeptGrows
    <3> QED
      BY <3>2, <3>3
  <2> HIDE DEF T
  <2>3. Nat \subseteq T
    BY <2>1, <2>2, SetInduction
  <2> QED
    BY <1>1, <2>3 DEF T
<1>5. Kept(s, k, L, t)
  BY <1>1, <1>4
<1> HIDE DEF t
<1>6. ASSUME NEW j, NEW m, Before(t, j, m)
      PROVE  Before(s, j, m)
  <2>1. PICK i \in 1 .. Len(t), b \in 1 .. Len(t) : i < b /\ t[i] = j /\ t[b] = m
    BY <1>6 DEF Before
  <2>2. \E a, b2 \in 1 .. L : a < b2 /\ s[a] = t[i] /\ s[b2] = t[b]
    BY <1>5, <2>1 DEF Kept
  <2> QED
    BY <2>1, <2>2 DEF Before
<1>7. Distinct(t)
  <2>1. ASSUME NEW i \in 1 .. Len(t), NEW j \in 1 .. Len(t), t[i] = t[j], i < j
        PROVE  FALSE
    <3>1. PICK a \in 1 .. L, b \in 1 .. L : a < b /\ s[a] = t[i] /\ s[b] = t[j]
      BY <1>5, <2>1 DEF Kept
    <3>2. s[a] = s[b]
      BY <2>1, <3>1
    <3>3. a = b
      BY <1>1, <3>2, Zenon DEF Distinct
    <3>4. a \in Nat
      OBVIOUS
    <3> HIDE DEF L
    <3> QED
      BY <3>1, <3>3, <3>4
  <2>2. \A i, j \in 1 .. Len(t) : i = j \/ i < j \/ j < i
    BY <1>5 DEF Kept
  <2> QED
    BY <2>1, <2>2 DEF Distinct
<1>8. Elements(t) = K \ {k}
  <2>1. ASSUME NEW i \in 1 .. Len(t)
        PROVE  t[i] \in K \ {k}
    <3>1. PICK a \in 1 .. L : s[a] = t[i] /\ s[a] # k
      BY <1>5 DEF Kept
    <3>2. s[a] \in K
      BY <1>1 DEF Elements
    <3> QED
      BY <3>1, <3>2, Zenon
  <2>2. ASSUME NEW x \in K \ {k}
        PROVE  \E i \in 1 .. Len(t) : t[i] = x
    <3>1. PICK a \in 1 .. L : s[a] = x
      BY <1>1 DEF Elements
    <3> QED
      BY <1>5, <2>2, <3>1 DEF Kept
  <2> QED
    BY <2>1, <2>2 DEF Elements
<1>9. Order(t, K \ {k})
  BY <1>5, <1>7, <1>8 DEF Order, Kept
<1> QED
  BY <1>2, <1>6, <1>9

-----------------------------------------------------------------------------
(* The queued transfers, counted                                           *)

\* The key and position of every transfer in the queues f, and its arrival
\* number.
Places(f) == UNION {{<<k, i>> : i \in 1 .. Len(f[k])} : k \in DOMAIN f}

Number(f, p) == f[p[1]][p[2]].frame.arrival

Numbers(f, S) == {Number(f, p) : p \in S}

\* The transfers at the places S of f left, in the way how.
Noted(l, f, S, how) == l \union {<<a, how>> : a \in Numbers(f, S)}

LEMMA PlacesAre ==
    ASSUME NEW f
    PROVE  /\ \A k \in DOMAIN f : \A i \in 1 .. Len(f[k]) : <<k, i>> \in Places(f)
           /\ \A p \in Places(f) :
                p = <<p[1], p[2]>> /\ p[1] \in DOMAIN f /\ p[2] \in 1 .. Len(f[p[1]])
BY DEF Places

\* Each arrival up to n is queued once or left once.
Book(f, n, l) ==
    /\ IsFiniteSet(Places(f))
    /\ \A p, r \in Places(f) : Number(f, p) = Number(f, r) => p = r
    /\ \A e, g \in l : e[1] = g[1] => e = g
    /\ Numbers(f, Places(f)) \union {e[1] : e \in l} = 1 .. n
    /\ Numbers(f, Places(f)) \intersect {e[1] : e \in l} = {}

Increasing(f) ==
    \A k \in DOMAIN f : \A i, j \in 1 .. Len(f[k]) :
        i < j => f[k][i].frame.arrival < f[k][j].frame.arrival

\* g is f without the places from..to of key k, and without k when it has none
\* left; w is how many those are.
Shrunk(f, g, k, from, w) ==
    /\ k \in DOMAIN f /\ Len(f[k]) \in Nat /\ from \in Nat \ {0} /\ w \in Nat \ {0}
    /\ from + w <= Len(f[k]) + 1
    /\ DOMAIN g = IF w = Len(f[k]) THEN (DOMAIN f) \ {k} ELSE DOMAIN f
    /\ \A j \in (DOMAIN f) \ {k} : g[j] = f[j]
    /\ w # Len(f[k]) =>
            /\ Len(g[k]) = Len(f[k]) - w
            /\ \A i \in 1 .. Len(g[k]) : g[k][i] = f[k][IF i < from THEN i ELSE i + w]

Gone(k, from, w) == {<<k, i>> : i \in from .. from + w - 1}

\* Where the transfer at place p was before.
Was(p, k, from, w) == IF p[1] = k /\ p[2] >= from THEN <<k, p[2] + w>> ELSE p

LEMMA PlacesShrink ==
    ASSUME NEW f, NEW g, NEW k, NEW from, NEW w, Shrunk(f, g, k, from, w)
    PROVE  /\ Places(g) = Places(f) \ {<<k, i>> : i \in Len(f[k]) - w + 1 .. Len(f[k])}
           /\ \A p \in Places(g) : /\ Was(p, k, from, w) \in Places(f) \ Gone(k, from, w)
                                   /\ Number(g, p) = Number(f, Was(p, k, from, w))
           /\ \A p, r \in Places(g) : Was(p, k, from, w) = Was(r, k, from, w) => p = r
           /\ \A r \in Places(f) \ Gone(k, from, w) : \E p \in Places(g) : r = Was(p, k, from, w)
<1> DEFINE n == Len(f[k])
           Ends == {<<k, i>> : i \in n - w + 1 .. n}
<1>1. n \in Nat /\ from \in Nat \ {0} /\ w \in Nat \ {0} /\ from + w <= n + 1 /\ k \in DOMAIN f /\ w <= n
  BY DEF Shrunk
<1>2. \A j \in DOMAIN g : j \in DOMAIN f /\ Len(g[j]) = IF j = k THEN n - w ELSE Len(f[j])
  BY <1>1 DEF Shrunk
<1>3. \A j \in DOMAIN f : j \in DOMAIN g \/ (j = k /\ w = n)
  BY <1>1 DEF Shrunk
<1>4. \A i \in 1 .. n - w : k \in DOMAIN g /\ g[k][i] = f[k][IF i < from THEN i ELSE i + w]
  <2>1. (1 .. n - w) # {} => w # n
    BY <1>1
  <2> QED
    BY <1>1, <2>1 DEF Shrunk
<1>5. \A j \in DOMAIN g : j # k => g[j] = f[j]
  BY <1>2 DEF Shrunk
<1> HIDE DEF n
<1>6. ASSUME NEW p
      PROVE  p \in Places(g) <=> p \in Places(f) \ Ends
  <2>1. ASSUME p \in Places(g)
        PROVE  p \in Places(f) \ Ends
    <3>1. p = <<p[1], p[2]>> /\ p[1] \in DOMAIN g /\ p[2] \in 1 .. Len(g[p[1]])
      BY <2>1, PlacesAre
    <3>2. p[1] \in DOMAIN f /\ p[2] \in 1 .. Len(f[p[1]])
      BY <1>1, <1>2, <3>1 DEF n
    <3>3. p \in Places(f)
      BY <3>1, <3>2, PlacesAre, Zenon
    <3>4. p[1] = k => p[2] \in 1 .. n - w
      BY <1>2, <3>1
    <3>5. p \notin Ends
      BY <1>1, <3>1, <3>4
    <3> QED
      BY <3>3, <3>5
  <2>2. ASSUME p \in Places(f) \ Ends
        PROVE  p \in Places(g)
    <3>1. p = <<p[1], p[2]>> /\ p[1] \in DOMAIN f /\ p[2] \in 1 .. Len(f[p[1]])
      BY <2>2, PlacesAre
    <3>2. CASE p[1] # k
      <4>1. p[1] \in DOMAIN g /\ p[2] \in 1 .. Len(g[p[1]])
        BY <1>2, <1>3, <3>1, <3>2
      <4> QED
        BY <3>1, <4>1, PlacesAre, Zenon
    <3>3. CASE p[1] = k
      <4>1. p[2] \in 1 .. n /\ p[2] \notin n - w + 1 .. n
        BY <2>2, <3>1, <3>3 DEF n
      <4>2. p[2] \in 1 .. n - w
        BY <1>1, <4>1
      <4>3. p[1] \in DOMAIN g /\ p[2] \in 1 .. Len(g[p[1]])
        BY <1>2, <1>4, <3>3, <4>2
      <4> QED
        BY <3>1, <4>3, PlacesAre, Zenon
    <3> QED
      BY <3>2, <3>3
  <2> QED
    BY <2>1, <2>2
<1>7. ASSUME NEW p \in Places(g)
      PROVE  /\ Was(p, k, from, w) \in Places(f) \ Gone(k, from, w)
             /\ Number(g, p) = Number(f, Was(p, k, from, w))
  <2>1. p = <<p[1], p[2]>> /\ p[1] \in DOMAIN g /\ p[2] \in 1 .. Len(g[p[1]])
    BY PlacesAre
  <2>2. CASE p[1] # k
    <3>1. Was(p, k, from, w) = p /\ p \in Places(f) /\ g[p[1]] = f[p[1]]
      BY <1>5, <1>6, <2>1, <2>2 DEF Was
    <3>2. p \notin Gone(k, from, w)
      BY <2>1, <2>2 DEF Gone
    <3> QED
      BY <3>1, <3>2 DEF Number
  <2>3. CASE p[1] = k
    <3>1. p[2] \in 1 .. n - w /\ g[k][p[2]] = f[k][IF p[2] < from THEN p[2] ELSE p[2] + w]
      BY <1>2, <1>4, <2>1, <2>3
    <3>2. CASE p[2] < from
      <4>1. Was(p, k, from, w) = p /\ p \in Places(f)
        BY <1>1, <1>6, <3>1, <3>2 DEF Was
      <4>2. p \notin Gone(k, from, w)
        BY <1>1, <2>1, <3>1, <3>2 DEF Gone
      <4> QED
        BY <2>3, <3>1, <3>2, <4>1, <4>2 DEF Number
    <3>3. CASE ~(p[2] < from)
      <4> DEFINE b == p[2] + w
      <4>1. Was(p, k, from, w) = <<k, b>> /\ b \in 1 .. n /\ b \notin from .. from + w - 1
        BY <1>1, <2>3, <3>1, <3>3 DEF Was
      <4>2. g[k][p[2]] = f[k][b]
        BY <3>1, <3>3
      <4> HIDE DEF b
      <4>3. <<k, b>> \in Places(f)
        BY <1>1, <4>1, PlacesAre DEF n
      <4>4. <<k, b>> \notin Gone(k, from, w)
        BY <4>1 DEF Gone
      <4> QED
        BY <2>3, <4>1, <4>2, <4>3, <4>4 DEF Number
    <3> QED
      BY <3>2, <3>3
  <2> QED
    BY <2>2, <2>3
<1>8. ASSUME NEW p \in Places(g), NEW r \in Places(g), Was(p, k, from, w) = Was(r, k, from, w)
      PROVE  p = r
  <2>1. /\ p = <<p[1], p[2]>> /\ p[2] \in 1 .. Len(g[p[1]])
        /\ r = <<r[1], r[2]>> /\ r[2] \in 1 .. Len(g[r[1]])
    BY PlacesAre
  <2>2. p[2] \in Int /\ r[2] \in Int
    BY <2>1
  <2>3. CASE p[1] = k /\ p[2] >= from /\ r[1] = k /\ r[2] >= from
    <3>1. p[2] + w = r[2] + w
      BY <1>8, <2>3 DEF Was
    <3>2. p[2] = r[2]
      BY <1>1, <2>2, <3>1
    <3> QED
      BY <2>1, <2>3, <3>2
  <2>4. CASE (p[1] = k /\ p[2] >= from) /\ ~(r[1] = k /\ r[2] >= from)
    <3>1. r = <<k, p[2] + w>>
      BY <1>8, <2>4 DEF Was
    <3>2. r[1] = k /\ r[2] = p[2] + w
      BY <3>1
    <3> QED
      BY <1>1, <2>2, <2>4, <3>2
  <2>5. CASE ~(p[1] = k /\ p[2] >= from) /\ (r[1] = k /\ r[2] >= from)
    <3>1. p = <<k, r[2] + w>>
      BY <1>8, <2>5 DEF Was
    <3>2. p[1] = k /\ p[2] = r[2] + w
      BY <3>1
    <3> QED
      BY <1>1, <2>2, <2>5, <3>2
  <2>6. CASE ~(p[1] = k /\ p[2] >= from) /\ ~(r[1] = k /\ r[2] >= from)
    BY <1>8, <2>6 DEF Was
  <2> QED
    BY <2>3, <2>4, <2>5, <2>6
<1>9. ASSUME NEW r \in Places(f) \ Gone(k, from, w)
      PROVE  \E p \in Places(g) : r = Was(p, k, from, w)
  <2>1. r = <<r[1], r[2]>> /\ r[1] \in DOMAIN f /\ r[2] \in 1 .. Len(f[r[1]])
    BY PlacesAre
  <2>2. CASE r[1] # k
    <3>1. r \in Places(g)
      BY <1>6, <2>1, <2>2
    <3> QED
      BY <2>2, <3>1 DEF Was
  <2>3. CASE r[1] = k
    <3>1. r[2] \in 1 .. n /\ r[2] \notin from .. from + w - 1
      BY <2>1, <2>3 DEF Gone, n
    <3>2. CASE r[2] < from
      <4>1. r \notin Ends
        BY <1>1, <2>1, <3>1, <3>2
      <4>2. r \in Places(g)
        BY <1>6, <4>1
      <4>3. Was(r, k, from, w) = r
        BY <1>1, <3>1, <3>2 DEF Was
      <4> QED
        BY <4>2, <4>3
    <3>3. CASE ~(r[2] < from)
      <4> DEFINE b == r[2] - w
      <4>1. b >= from /\ b \in 1 .. n - w /\ b + w = r[2]
        BY <1>1, <3>1, <3>3
      <4> HIDE DEF b
      <4>2. k \in DOMAIN g /\ b \in 1 .. Len(g[k])
        BY <1>2, <1>4, <4>1
      <4>3. <<k, b>> \in Places(g)
        BY <4>2, PlacesAre
      <4>4. Was(<<k, b>>, k, from, w) = r
        BY <2>1, <2>3, <4>1 DEF Was
      <4> QED
        BY <4>3, <4>4
    <3> QED
      BY <3>2, <3>3
  <2> QED
    BY <2>2, <2>3
<1> HIDE DEF Ends
<1>10. Places(g) = Places(f) \ Ends
  BY <1>6
<1> QED
  BY <1>7, <1>8, <1>9, <1>10 DEF Ends, n

\* Transfers that leave the queues are noted, and the book still balances.
LEMMA BookShrinks ==
    ASSUME NEW f, NEW g, NEW k, NEW from, NEW w, Shrunk(f, g, k, from, w),
           NEW n, NEW l, Book(f, n, l), NEW how
    PROVE  /\ Book(g, n, Noted(l, f, Gone(k, from, w), how))
           /\ Cardinality(Places(g)) = Cardinality(Places(f)) - w
           /\ Cardinality(Places(f)) \in Nat /\ Cardinality(Places(g)) \in Nat
<1> DEFINE gone == Gone(k, from, w)
           m == Noted(l, f, gone, how)
           last == Len(f[k]) - w + 1 .. Len(f[k])
           Ends == {<<k, i>> : i \in last}
           was(p) == Was(p, k, from, w)
<1>1. /\ k \in DOMAIN f /\ Len(f[k]) \in Nat /\ from \in Nat \ {0} /\ w \in Nat \ {0}
      /\ from + w <= Len(f[k]) + 1
  BY DEF Shrunk
<1>2. /\ IsFiniteSet(Places(f))
      /\ \A p, r \in Places(f) : Number(f, p) = Number(f, r) => p = r
      /\ \A e, d \in l : e[1] = d[1] => e = d
      /\ Numbers(f, Places(f)) \union {e[1] : e \in l} = 1 .. n
      /\ Numbers(f, Places(f)) \intersect {e[1] : e \in l} = {}
  BY DEF Book
<1>3. /\ Places(g) = Places(f) \ Ends
      /\ \A p \in Places(g) : was(p) \in Places(f) \ gone /\ Number(g, p) = Number(f, was(p))
      /\ \A p, r \in Places(g) : was(p) = was(r) => p = r
      /\ \A r \in Places(f) \ gone : \E p \in Places(g) : r = was(p)
  BY PlacesShrink
<1>4. Ends \subseteq Places(f) /\ gone \subseteq Places(f)
  <2>1. \A i \in last : i \in 1 .. Len(f[k])
    BY <1>1
  <2>2. \A i \in from .. from + w - 1 : i \in 1 .. Len(f[k])
    BY <1>1
  <2> QED
    BY <1>1, <2>1, <2>2, PlacesAre DEF Gone
<1>5. IsFiniteSet(last) /\ Cardinality(last) = w
  <2>1. IsFiniteSet(last)
        /\ Cardinality(last) = IF Len(f[k]) - w + 1 > Len(f[k]) THEN 0 ELSE Len(f[k]) - (Len(f[k]) - w + 1) + 1
    <3>1. Len(f[k]) - w + 1 \in Int /\ Len(f[k]) \in Int
      BY <1>1
    <3> QED
      BY <3>1, FS_Interval, Zenon
  <2>2. ~(Len(f[k]) - w + 1 > Len(f[k])) /\ Len(f[k]) - (Len(f[k]) - w + 1) + 1 = w
    BY <1>1
  <2> HIDE DEF last
  <2> QED
    BY <2>1, <2>2
<1> HIDE DEF last
<1>6. IsFiniteSet(Ends) /\ Cardinality(Ends) = w
  BY <1>5, PairsCount
<1> HIDE DEF Ends, was, gone
<1>7. /\ IsFiniteSet(Places(g)) /\ Cardinality(Places(g)) = Cardinality(Places(f)) - w
      /\ Cardinality(Places(f)) \in Nat /\ Cardinality(Places(g)) \in Nat
  <2>1. Places(f) \intersect Ends = Ends
    BY <1>4
  <2>2. IsFiniteSet(Places(f) \ Ends)
        /\ Cardinality(Places(f) \ Ends) = Cardinality(Places(f)) - Cardinality(Places(f) \intersect Ends)
    BY <1>2, FS_Difference
  <2>3. IsFiniteSet(Places(g)) /\ Cardinality(Places(g)) = Cardinality(Places(f)) - w
    BY <1>3, <1>6, <2>1, <2>2
  <2> QED
    BY <1>2, <2>3, FS_CardinalityType
<1>8. Numbers(g, Places(g)) = Numbers(f, Places(f) \ gone)
  <2>1. \A p \in Places(g) : \E r \in Places(f) \ gone : Number(g, p) = Number(f, r)
    BY <1>3
  <2>2. \A r \in Places(f) \ gone : \E p \in Places(g) : Number(f, r) = Number(g, p)
    BY <1>3
  <2> QED
    BY <2>1, <2>2 DEF Numbers
<1>9. /\ Numbers(f, Places(f)) = Numbers(f, Places(f) \ gone) \union Numbers(f, gone)
      /\ Numbers(f, Places(f) \ gone) \intersect Numbers(f, gone) = {}
  <2>1. Numbers(f, Places(f)) = Numbers(f, Places(f) \ gone) \union Numbers(f, gone)
    BY <1>4 DEF Numbers
  <2>2. ASSUME NEW p \in Places(f) \ gone, NEW r \in gone, Number(f, p) = Number(f, r)
        PROVE  FALSE
    BY <1>2, <1>4, <2>2
  <2> QED
    BY <2>1, <2>2 DEF Numbers
<1>10. {e[1] : e \in m} = {e[1] : e \in l} \union Numbers(f, gone)
  <2>1. \A a : <<a, how>>[1] = a
    OBVIOUS
  <2>2. \A e \in m : e \in l \/ \E a \in Numbers(f, gone) : e = <<a, how>>
    BY DEF Noted
  <2>3. \A a \in Numbers(f, gone) : <<a, how>> \in m
    BY DEF Noted
  <2>4. \A e \in l : e \in m
    BY DEF Noted
  <2> HIDE DEF m
  <2> DEFINE N == Numbers(f, gone)
             A == {e[1] : e \in l}
             B == {e[1] : e \in m}
  <2>5. ASSUME NEW b \in B
        PROVE  b \in A \union N
    <3>1. PICK e \in m : b = e[1]
      OBVIOUS
    <3> HIDE DEF B
    <3>2. CASE e \in l
      BY <3>1, <3>2
    <3>3. CASE \E a \in N : e = <<a, how>>
      BY <2>1, <3>1, <3>3
    <3> QED
      BY <2>2, <3>2, <3>3
  <2>6. ASSUME NEW b \in A
        PROVE  b \in B
    <3>1. PICK e \in l : b = e[1]
      OBVIOUS
    <3> HIDE DEF A
    <3> QED
      BY <2>4, <3>1
  <2>7. ASSUME NEW a \in N
        PROVE  a \in B
    <3>1. <<a, how>> \in m /\ <<a, how>>[1] = a
      BY <2>1, <2>3
    <3> HIDE DEF N, A
    <3> QED
      BY <3>1
  <2> HIDE DEF A, B, N
  <2>8. B = A \union N
    BY <2>5, <2>6, <2>7
  <2> QED
    BY <2>8 DEF A, B, N
<1>11. ASSUME NEW e \in m, NEW d \in m, e[1] = d[1]
       PROVE  e = d
  <2>1. \A a \in Numbers(f, gone) : a \notin {x[1] : x \in l}
    BY <1>2, <1>9
  <2>2. \A x \in m : x \in l \/ (x[1] \in Numbers(f, gone) /\ x = <<x[1], how>>)
    BY DEF Noted
  <2> HIDE DEF m
  <2> QED
    BY <1>2, <1>11, <2>1, <2>2
<1> HIDE DEF m
<1>12. /\ Numbers(g, Places(g)) \union {e[1] : e \in m} = 1 .. n
       /\ Numbers(g, Places(g)) \intersect {e[1] : e \in m} = {}
  BY <1>2, <1>8, <1>9, <1>10
<1>13. ASSUME NEW p \in Places(g), NEW r \in Places(g), Number(g, p) = Number(g, r)
       PROVE  p = r
  BY <1>2, <1>3, <1>13
<1>14. Book(g, n, m)
  BY <1>7, <1>11, <1>12, <1>13 DEF Book
<1> QED
  BY <1>7, <1>14 DEF m, gone

\* What is left in a queue is still in the order of arrival.
LEMMA IncreasingShrinks ==
    ASSUME NEW f, NEW g, NEW k, NEW from, NEW w, Shrunk(f, g, k, from, w), Increasing(f)
    PROVE  Increasing(g)
<1>1. /\ Len(f[k]) \in Nat /\ from \in Nat \ {0} /\ w \in Nat \ {0}
      /\ from + w <= Len(f[k]) + 1 /\ k \in DOMAIN f /\ DOMAIN g \subseteq DOMAIN f
  BY DEF Shrunk
<1>2. ASSUME NEW j \in DOMAIN g, NEW a \in 1 .. Len(g[j]), NEW b \in 1 .. Len(g[j]), a < b
      PROVE  g[j][a].frame.arrival < g[j][b].frame.arrival
  <2>1. CASE j # k
    <3>1. g[j] = f[j] /\ j \in DOMAIN f
      BY <1>1, <2>1 DEF Shrunk
    <3> QED
      BY <1>2, <3>1 DEF Increasing
  <2>2. CASE j = k
    <3>1. /\ Len(g[k]) = Len(f[k]) - w
          /\ \A i \in 1 .. Len(g[k]) : g[k][i] = f[k][IF i < from THEN i ELSE i + w]
      BY <2>2 DEF Shrunk
    <3>2. PICK c, d : /\ c = (IF a < from THEN a ELSE a + w) /\ d = (IF b < from THEN b ELSE b + w)
      OBVIOUS
    <3>3. c \in 1 .. Len(f[k]) /\ d \in 1 .. Len(f[k]) /\ c < d
      BY <1>1, <1>2, <2>2, <3>1, <3>2
    <3>4. g[k][a] = f[k][c] /\ g[k][b] = f[k][d]
      BY <2>2, <3>1, <3>2
    <3> QED
      BY <1>1, <2>2, <3>3, <3>4 DEF Increasing
  <2> QED
    BY <2>1, <2>2
<1> QED
  BY <1>2 DEF Increasing

-----------------------------------------------------------------------------
(* The calls                                                               *)

Queues(sequence, queues, order, keys, len) ==
    [next_sequence |-> sequence, queues |-> queues, active_order |-> order,
     active_keys |-> keys, len |-> len]

Transfer(k) == [sequence : Nat, key : {k}, frame : [id : Ids, key : {k}, arrival : Nat]]

\* What the queues of a map, the order and the set say of each other.
Agree(f, order) ==
    /\ f = [k \in DOMAIN f |-> f[k]]
    /\ DOMAIN f \subseteq Keys
    /\ \A k \in DOMAIN f : f[k] \in Seq(Transfer(k)) /\ f[k] # <<>>
    /\ Order(order, DOMAIN f)

Sound(b) ==
    /\ b = Queues(b.next_sequence, b.queues, b.active_order, DOMAIN b.queues, b.len)
    /\ b.next_sequence \in Nat
    /\ Agree(b.queues, b.active_order)

\* The parts of a record of queues.
LEMMA Parts ==
    ASSUME NEW n, NEW f, NEW o, NEW ks, NEW l
    PROVE  /\ Queues(n, f, o, ks, l).next_sequence = n /\ Queues(n, f, o, ks, l).queues = f
           /\ Queues(n, f, o, ks, l).active_order = o /\ Queues(n, f, o, ks, l).active_keys = ks
           /\ Queues(n, f, o, ks, l).len = l
BY DEF Queues

\* Its fields are assigned: the length, the map, what remove_active_key assigns,
\* what pop_next assigns, and all of them.
Whole(b) == b = Queues(b.next_sequence, b.queues, b.active_order, b.active_keys, b.len)

LengthSet(b, len) ==
    [b EXCEPT !.len = len]

QueuesSet(b, queues) ==
    [b EXCEPT !.queues = queues]

KeySet(b, queues, keys, order) ==
    [b EXCEPT !.queues = queues, !.active_keys = keys, !.active_order = order]

PopSet(b, len, queues, keys, order) ==
    [b EXCEPT !.len = len, !.queues = queues, !.active_keys = keys, !.active_order = order]

AllSet(b, sequence, queues, len, keys, order) ==
    [b EXCEPT !.next_sequence = sequence, !.queues = queues, !.len = len, !.active_keys = keys, !.active_order = order]

LEMMA LengthChanged ==
    ASSUME NEW b, Whole(b), NEW l2
    PROVE  LengthSet(b, l2) = Queues(b.next_sequence, b.queues, b.active_order, b.active_keys, l2)
<1>0. PICK n, f, o, ks, l : b = Queues(n, f, o, ks, l)
  BY DEF Whole
<1> DEFINE c1 == [b EXCEPT !.len = l2]
<1>1. c1 = Queues(n, f, o, ks, l2)
  BY <1>0 DEF Queues
<1> HIDE DEF c1
<1>2. b.next_sequence = n /\ b.queues = f /\ b.active_order = o /\ b.active_keys = ks
  BY <1>0, Parts
<1>3. c1 = Queues(b.next_sequence, b.queues, b.active_order, b.active_keys, l2)
  BY <1>1, <1>2
<1> QED
  BY <1>3, Zenon DEF LengthSet, c1

LEMMA QueuesChanged ==
    ASSUME NEW b, Whole(b), NEW f2
    PROVE  QueuesSet(b, f2) = Queues(b.next_sequence, f2, b.active_order, b.active_keys, b.len)
<1>0. PICK n, f, o, ks, l : b = Queues(n, f, o, ks, l)
  BY DEF Whole
<1> DEFINE c1 == [b EXCEPT !.queues = f2]
<1>1. c1 = Queues(n, f2, o, ks, l)
  BY <1>0 DEF Queues
<1> HIDE DEF c1
<1>2. b.next_sequence = n /\ b.active_order = o /\ b.active_keys = ks /\ b.len = l
  BY <1>0, Parts
<1>3. c1 = Queues(b.next_sequence, f2, b.active_order, b.active_keys, b.len)
  BY <1>1, <1>2
<1> QED
  BY <1>3, Zenon DEF QueuesSet, c1

LEMMA KeyChanged ==
    ASSUME NEW b, Whole(b), NEW f2, NEW ks2, NEW o2
    PROVE  KeySet(b, f2, ks2, o2) = Queues(b.next_sequence, f2, o2, ks2, b.len)
<1>0. PICK n, f, o, ks, l : b = Queues(n, f, o, ks, l)
  BY DEF Whole
<1> DEFINE c1 == [b EXCEPT !.queues = f2]
           c2 == [c1 EXCEPT !.active_keys = ks2]
           c3 == [c2 EXCEPT !.active_order = o2]
<1>1. c1 = Queues(n, f2, o, ks, l)
  BY <1>0 DEF Queues
<1> HIDE DEF c1
<1>2. c2 = Queues(n, f2, o, ks2, l)
  BY <1>1 DEF Queues
<1> HIDE DEF c2
<1>3. c3 = Queues(n, f2, o2, ks2, l)
  BY <1>2 DEF Queues
<1> HIDE DEF c3
<1>4. b.next_sequence = n /\ b.len = l
  BY <1>0, Parts
<1>5. c3 = Queues(b.next_sequence, f2, o2, ks2, b.len)
  BY <1>3, <1>4
<1> QED
  BY <1>5, Zenon DEF KeySet, c1, c2, c3

LEMMA PopChanged ==
    ASSUME NEW b, Whole(b), NEW l2, NEW f2, NEW ks2, NEW o2
    PROVE  PopSet(b, l2, f2, ks2, o2) = Queues(b.next_sequence, f2, o2, ks2, l2)
<1>0. PICK n, f, o, ks, l : b = Queues(n, f, o, ks, l)
  BY DEF Whole
<1> DEFINE c1 == [b EXCEPT !.len = l2]
           c2 == [c1 EXCEPT !.queues = f2]
           c3 == [c2 EXCEPT !.active_keys = ks2]
           c4 == [c3 EXCEPT !.active_order = o2]
<1>1. c1 = Queues(n, f, o, ks, l2)
  BY <1>0 DEF Queues
<1> HIDE DEF c1
<1>2. c2 = Queues(n, f2, o, ks, l2)
  BY <1>1 DEF Queues
<1> HIDE DEF c2
<1>3. c3 = Queues(n, f2, o, ks2, l2)
  BY <1>2 DEF Queues
<1> HIDE DEF c3
<1>4. c4 = Queues(n, f2, o2, ks2, l2)
  BY <1>3 DEF Queues
<1> HIDE DEF c4
<1>5. b.next_sequence = n
  BY <1>0, Parts
<1>6. c4 = Queues(b.next_sequence, f2, o2, ks2, l2)
  BY <1>4, <1>5
<1> QED
  BY <1>6, Zenon DEF PopSet, c1, c2, c3, c4

LEMMA AllChanged ==
    ASSUME NEW b, Whole(b), NEW n2, NEW f2, NEW l2, NEW ks2, NEW o2
    PROVE  AllSet(b, n2, f2, l2, ks2, o2) = Queues(n2, f2, o2, ks2, l2)
<1>0. PICK n, f, o, ks, l : b = Queues(n, f, o, ks, l)
  BY DEF Whole
<1> DEFINE c1 == [b EXCEPT !.next_sequence = n2]
           c2 == [c1 EXCEPT !.queues = f2]
           c3 == [c2 EXCEPT !.len = l2]
           c4 == [c3 EXCEPT !.active_keys = ks2]
           c5 == [c4 EXCEPT !.active_order = o2]
<1>1. c1 = Queues(n2, f, o, ks, l)
  BY <1>0 DEF Queues
<1> HIDE DEF c1
<1>2. c2 = Queues(n2, f2, o, ks, l)
  BY <1>1 DEF Queues
<1> HIDE DEF c2
<1>3. c3 = Queues(n2, f2, o, ks, l2)
  BY <1>2 DEF Queues
<1> HIDE DEF c3
<1>4. c4 = Queues(n2, f2, o, ks2, l2)
  BY <1>3 DEF Queues
<1> HIDE DEF c4
<1>5. c5 = Queues(n2, f2, o2, ks2, l2)
  BY <1>4 DEF Queues
<1> HIDE DEF c5
<1> QED
  BY <1>5, Zenon DEF AllSet, c1, c2, c3, c4, c5

LEMMA SoundParts ==
    ASSUME NEW n \in Nat, NEW f, NEW o, NEW l, Agree(f, o)
    PROVE  Sound(Queues(n, f, o, DOMAIN f, l))
<1> DEFINE b == Queues(n, f, o, DOMAIN f, l)
<1>1. b.next_sequence = n /\ b.queues = f /\ b.active_order = o /\ b.active_keys = DOMAIN f /\ b.len = l
  BY Parts
<1>2. b = Queues(b.next_sequence, b.queues, b.active_order, DOMAIN b.queues, b.len)
  BY <1>1
<1> HIDE DEF b
<1>3. Sound(b)
  BY <1>1, <1>2 DEF Sound
<1> QED
  BY <1>3 DEF b

\* The map of b with the sequence s for key k, and without key k.
LEMMA OneQueueLess ==
    ASSUME NEW b, Sound(b), NEW k \in DOMAIN b.queues, NEW o, Order(o, (DOMAIN b.queues) \ {k})
    PROVE  /\ Agree(WithoutQueue(b, k), o)
           /\ DOMAIN WithoutQueue(b, k) = (DOMAIN b.queues) \ {k}
           /\ Shrunk(b.queues, WithoutQueue(b, k), k, 1, Len(b.queues[k]))
<1> DEFINE f == b.queues
           g == WithoutQueue(b, k)
<1>1. Agree(f, b.active_order)
  BY DEF Sound
<1>2. DOMAIN g = (DOMAIN f) \ {k} /\ (\A j \in DOMAIN g : g[j] = f[j]) /\ g = [j \in DOMAIN g |-> g[j]]
  BY DEF WithoutQueue
<1>3. f[k] \in Seq(Transfer(k)) /\ f[k] # <<>>
  BY <1>1 DEF Agree
<1>4. Len(f[k]) \in Nat \ {0}
  BY <1>3, NotEmpty, Zenon
<1> HIDE DEF f, g
<1>5. Agree(g, o)
  <2>1. Order(o, DOMAIN g)
    BY <1>2 DEF f
  <2> QED
    BY <1>1, <1>2, <2>1 DEF Agree
<1>6. Shrunk(f, g, k, 1, Len(f[k]))
  BY <1>2, <1>4 DEF Shrunk, f
<1> QED
  BY <1>2, <1>5, <1>6 DEF f, g

LEMMA OneQueueShorter ==
    ASSUME NEW b, Sound(b), NEW k \in DOMAIN b.queues, NEW o, Order(o, DOMAIN b.queues),
           NEW s \in Seq(Transfer(k)), s # <<>>, NEW from \in 1 .. Len(b.queues[k]),
           Len(s) = Len(b.queues[k]) - 1,
           \A i \in 1 .. Len(s) : s[i] = b.queues[k][IF i < from THEN i ELSE i + 1]
    PROVE  /\ Agree(WithQueue(b, k, s), o)
           /\ DOMAIN WithQueue(b, k, s) = DOMAIN b.queues
           /\ Shrunk(b.queues, WithQueue(b, k, s), k, from, 1)
<1> DEFINE f == b.queues
           g == WithQueue(b, k, s)
<1>1. Agree(f, b.active_order)
  BY DEF Sound
<1>2. /\ DOMAIN g = DOMAIN f /\ g[k] = s /\ (\A j \in DOMAIN g : j # k => g[j] = f[j])
      /\ g = [j \in DOMAIN g |-> g[j]]
  BY DEF WithQueue
<1>3. Len(s) \in Nat \ {0}
  BY NotEmpty, Zenon
<1>4. Len(f[k]) \in Nat \ {0}
  <2>1. f[k] \in Seq(Transfer(k)) /\ f[k] # <<>>
    BY <1>1 DEF Agree
  <2> QED
    BY <2>1, NotEmpty, Zenon
<1>5. /\ k \in DOMAIN f /\ Order(o, DOMAIN f) /\ from \in 1 .. Len(f[k]) /\ Len(s) = Len(f[k]) - 1
      /\ \A i \in 1 .. Len(s) : s[i] = f[k][IF i < from THEN i ELSE i + 1]
  OBVIOUS
<1> HIDE DEF f, g
<1>6. Agree(g, o)
  BY <1>1, <1>2, <1>5 DEF Agree
<1>7. Shrunk(f, g, k, from, 1)
  <2>1. 1 # Len(f[k]) /\ from \in Nat \ {0} /\ from + 1 <= Len(f[k]) + 1
    BY <1>3, <1>4, <1>5
  <2>2. /\ Len(g[k]) = Len(f[k]) - 1
        /\ \A i \in 1 .. Len(g[k]) : g[k][i] = f[k][IF i < from THEN i ELSE i + 1]
    BY <1>2, <1>5
  <2>3. DOMAIN g = IF 1 = Len(f[k]) THEN (DOMAIN f) \ {k} ELSE DOMAIN f
    BY <1>2, <2>1
  <2>4. \A j \in (DOMAIN f) \ {k} : g[j] = f[j]
    BY <1>2
  <2>5. ASSUME NEW w, w = 1
        PROVE  Shrunk(f, g, k, from, w)
    <3>1. w \in Nat \ {0} /\ w # Len(f[k]) /\ from + w <= Len(f[k]) + 1
      BY <2>1, <2>5
    <3>2. DOMAIN g = IF w = Len(f[k]) THEN (DOMAIN f) \ {k} ELSE DOMAIN f
      BY <2>3, <2>5
    <3>3. /\ Len(g[k]) = Len(f[k]) - w
          /\ \A i \in 1 .. Len(g[k]) : g[k][i] = f[k][IF i < from THEN i ELSE i + w]
      BY <2>2, <2>5
    <3> QED
      BY <1>4, <1>5, <2>1, <2>4, <3>1, <3>2, <3>3 DEF Shrunk
  <2> QED
    BY <2>5
<1> QED
  BY <1>2, <1>6, <1>7 DEF f, g

\* The places from..from + w - 1 of key k leave the queues, for good, and the order
\* is o then.
Took(b, c, k, from, w, o) ==
    /\ Sound(c)
    /\ Shrunk(b.queues, c.queues, k, from, w)
    /\ c.len = b.len - w /\ c.active_order = o

LEMMA TakeAll ==
    ASSUME NEW b, Sound(b), NEW k \in DOMAIN b.queues, NEW o, Order(o, (DOMAIN b.queues) \ {k}),
           NEW c, NEW w, w = Len(b.queues[k]),
           c = Queues(b.next_sequence, WithoutQueue(b, k), o, b.active_keys \ {k}, b.len - w)
    PROVE  Took(b, c, k, 1, w, o)
<1> DEFINE g == WithoutQueue(b, k)
<1>1. Agree(g, o) /\ DOMAIN g = (DOMAIN b.queues) \ {k} /\ Shrunk(b.queues, g, k, 1, w)
  BY OneQueueLess, Zenon
<1>2. b.active_keys = DOMAIN b.queues /\ b.next_sequence \in Nat
  BY Parts DEF Sound
<1> HIDE DEF g
<1>3. c = Queues(b.next_sequence, g, o, DOMAIN g, b.len - w)
  BY <1>1, <1>2 DEF g
<1>4. Sound(c)
  BY <1>1, <1>2, <1>3, SoundParts
<1>5. c.queues = g /\ c.active_order = o /\ c.len = b.len - w
  BY <1>3, Parts
<1> QED
  BY <1>1, <1>4, <1>5 DEF Took

LEMMA TakeOne ==
    ASSUME NEW b, Sound(b), NEW k \in DOMAIN b.queues, NEW o, Order(o, DOMAIN b.queues),
           NEW s \in Seq(Transfer(k)), s # <<>>, NEW from \in 1 .. Len(b.queues[k]),
           Len(s) = Len(b.queues[k]) - 1,
           \A i \in 1 .. Len(s) : s[i] = b.queues[k][IF i < from THEN i ELSE i + 1],
           NEW c, c = Queues(b.next_sequence, WithQueue(b, k, s), o, b.active_keys, b.len - 1)
    PROVE  Took(b, c, k, from, 1, o)
<1> DEFINE g == WithQueue(b, k, s)
<1>1. Agree(g, o) /\ DOMAIN g = DOMAIN b.queues /\ Shrunk(b.queues, g, k, from, 1)
  BY OneQueueShorter, Zenon
<1>2. b.active_keys = DOMAIN b.queues /\ b.next_sequence \in Nat
  BY Parts DEF Sound
<1> HIDE DEF g
<1>3. c = Queues(b.next_sequence, g, o, DOMAIN g, b.len - 1)
  BY <1>1, <1>2 DEF g
<1>4. Sound(c)
  BY <1>1, <1>2, <1>3, SoundParts
<1>5. c.queues = g /\ c.active_order = o /\ c.len = b.len - 1
  BY <1>3, Parts
<1> QED
  BY <1>1, <1>4, <1>5 DEF Took

\* Sound queues, in detail.
LEMMA SoundFacts ==
    ASSUME NEW b, Sound(b)
    PROVE  /\ Whole(b)
           /\ b.active_keys = DOMAIN b.queues /\ DOMAIN b.queues \subseteq Keys
           /\ Order(b.active_order, DOMAIN b.queues)
           /\ \A k \in DOMAIN b.queues :
                /\ QueueOf(b, k) = b.queues[k] /\ b.queues[k] \in Seq(Transfer(k))
                /\ b.queues[k] # <<>> /\ Len(b.queues[k]) \in Nat \ {0}
           /\ \A k : k \notin DOMAIN b.queues => QueueOf(b, k) = <<>>
<1>1. b.active_keys = DOMAIN b.queues
  BY Parts DEF Sound
<1>2. ASSUME NEW k \in DOMAIN b.queues
      PROVE  /\ QueueOf(b, k) = b.queues[k] /\ b.queues[k] \in Seq(Transfer(k))
             /\ b.queues[k] # <<>> /\ Len(b.queues[k]) \in Nat \ {0}
  <2>1. b.queues[k] \in Seq(Transfer(k)) /\ b.queues[k] # <<>> /\ QueueOf(b, k) = b.queues[k]
    BY DEF Sound, Agree, QueueOf
  <2> QED
    BY <2>1, NotEmpty, Zenon
<1>3. \A k : k \notin DOMAIN b.queues => QueueOf(b, k) = <<>>
  BY DEF QueueOf
<1> QED
  BY <1>1, <1>2, <1>3 DEF Sound, Agree, Whole

\* pop_next serves the key at the front of the order, drops none on the way, and
\* leaves the key at the end, if it has more.
LEMMA PopTakes ==
    ASSUME NEW b, Sound(b), CanPop(b)
    PROVE  LET k == b.active_order[1]
               rest == SubSeq(b.active_order, 2, Len(b.active_order))
           IN  /\ b.active_order # <<>> /\ k \in DOMAIN b.queues
               /\ PopTransfer(b) = b.queues[k][1]
               /\ \/ Took(b, PopNext(b), k, 1, 1, rest) /\ k \notin DOMAIN PopNext(b).queues
                  \/ Took(b, PopNext(b), k, 1, 1, Append(rest, k))
<1> DEFINE o == b.active_order
           k == o[1]
           s == b.queues[k]
           rest == SubSeq(o, 2, Len(o))
<1>1. /\ Whole(b)
      /\ b.active_keys = DOMAIN b.queues /\ Order(o, DOMAIN b.queues) /\ DOMAIN b.queues \subseteq Keys
  BY SoundFacts
<1>2. o \in Seq(Keys) /\ Len(o) \in Nat /\ \A i \in 1 .. Len(o) : o[i] \in DOMAIN b.queues
  BY <1>1 DEF Order, Elements
<1>3. Servable(b) = 1 .. Len(o)
  BY <1>2, SoundFacts DEF Servable
<1>4. 1 \in 1 .. Len(o) /\ o # <<>>
  BY <1>2, <1>3 DEF CanPop
<1>5. ServedIndex(b) = 1
  <2>1. Min(1 .. Len(o)) = 1
    BY <1>2, <1>4 DEF Min
  <2> QED
    BY <1>3, <1>4, <2>1 DEF ServedIndex
<1>6. k \in DOMAIN b.queues
  BY <1>2, <1>4
<1>7. s \in Seq(Transfer(k)) /\ s # <<>> /\ Len(s) \in Nat \ {0}
  BY <1>6, SoundFacts
<1>8. /\ Head(s) = s[1] /\ Tail(s) \in Seq(Transfer(k)) /\ Len(Tail(s)) = Len(s) - 1
      /\ \A i \in 1 .. Len(Tail(s)) : Tail(s)[i] = s[i + 1]
      /\ (Tail(s) = <<>> <=> Len(s) = 1)
  <2> DEFINE S == Transfer(k)
  <2>1. s \in Seq(S) /\ s # <<>> /\ Len(s) \in Nat \ {0}
    BY <1>7
  <2> HIDE DEF S, s
  <2>2. /\ Tail(s) \in Seq(S) /\ Len(Tail(s)) = Len(s) - 1
        /\ \A i \in 1 .. Len(Tail(s)) : Tail(s)[i] = s[i + 1]
    BY <2>1, HeadTailProperties
  <2>3. Tail(s) = <<>> <=> Len(Tail(s)) = 0
    BY <2>2, EmptySeq
  <2>4. Head(s) = s[1]
    OBVIOUS
  <2> QED
    BY <2>1, <2>2, <2>3, <2>4 DEF S
<1>9. /\ Order(rest, (DOMAIN b.queues) \ {k})
  BY <1>1, <1>4, KeyLeaves
<1>10. PopTransfer(b) = s[1]
  BY <1>5, <1>8 DEF PopTransfer
<1>11. {o[i] : i \in 1 .. ServedIndex(b) - 1} = {} /\ SubSeq(o, ServedIndex(b) + 1, Len(o)) = rest
  BY <1>5
<1> DEFINE c == PopNext(b)
<1>12. c = IF Tail(s) = <<>>
           THEN Queues(b.next_sequence, WithoutQueue(b, k), rest, b.active_keys \ {k}, b.len - 1)
           ELSE Queues(b.next_sequence, WithQueue(b, k, Tail(s)), Append(rest, k), b.active_keys, b.len - 1)
  <2>1. c = IF Tail(s) = <<>>
            THEN [b EXCEPT !.len = b.len - 1, !.queues = WithoutQueue(b, k),
                           !.active_keys = b.active_keys \ ({} \union {k}), !.active_order = rest]
            ELSE [b EXCEPT !.len = b.len - 1, !.queues = WithQueue(b, k, Tail(s)),
                           !.active_keys = b.active_keys \ {}, !.active_order = Append(rest, k)]
    BY <1>5, <1>11 DEF PopNext
  <2>2. b.active_keys \ ({} \union {k}) = b.active_keys \ {k} /\ b.active_keys \ {} = b.active_keys
    OBVIOUS
  <2> HIDE DEF c, o, s, k, rest
  <2>3. c = IF Tail(s) = <<>>
            THEN PopSet(b, b.len - 1, WithoutQueue(b, k), b.active_keys \ {k}, rest)
            ELSE PopSet(b, b.len - 1, WithQueue(b, k, Tail(s)), b.active_keys, Append(rest, k))
    BY <2>1, <2>2, Zenon DEF PopSet
  <2>4. /\ PopSet(b, b.len - 1, WithoutQueue(b, k), b.active_keys \ {k}, rest)
            = Queues(b.next_sequence, WithoutQueue(b, k), rest, b.active_keys \ {k}, b.len - 1)
        /\ PopSet(b, b.len - 1, WithQueue(b, k, Tail(s)), b.active_keys, Append(rest, k))
            = Queues(b.next_sequence, WithQueue(b, k, Tail(s)), Append(rest, k), b.active_keys, b.len - 1)
    BY <1>1, PopChanged
  <2> QED
    BY <2>3, <2>4, Zenon
<1> HIDE DEF c, o, rest, k, s
<1>13. CASE Tail(s) = <<>>
  <2>1. c = Queues(b.next_sequence, WithoutQueue(b, k), rest, b.active_keys \ {k}, b.len - 1)
    BY <1>12, <1>13
  <2>2. 1 = Len(b.queues[k])
    BY <1>8, <1>13 DEF s
  <2>3. Took(b, c, k, 1, 1, rest)
    BY <1>6, <1>9, <2>1, <2>2, TakeAll, Zenon
  <2>4. k \notin DOMAIN c.queues
    BY <2>2, <2>3 DEF Took, Shrunk
  <2> QED
    BY <1>4, <1>6, <1>10, <2>3, <2>4 DEF c, o, rest, s, k
<1>14. CASE Tail(s) # <<>>
  <2>1. c = Queues(b.next_sequence, WithQueue(b, k, Tail(s)), Append(rest, k), b.active_keys, b.len - 1)
    BY <1>12, <1>14
  <2>2. Order(Append(rest, k), DOMAIN b.queues)
    <3>1. k \in Keys \ ((DOMAIN b.queues) \ {k}) /\ ((DOMAIN b.queues) \ {k}) \union {k} = DOMAIN b.queues
      BY <1>1, <1>6
    <3> DEFINE K == (DOMAIN b.queues) \ {k}
    <3>2. Order(rest, K) /\ k \in Keys \ K /\ K \union {k} = DOMAIN b.queues
      BY <1>9, <3>1
    <3> HIDE DEF K
    <3> QED
      BY <3>2, KeyJoins
  <2>3. /\ 1 \in 1 .. Len(b.queues[k]) /\ Len(Tail(s)) = Len(b.queues[k]) - 1
        /\ \A i \in 1 .. Len(Tail(s)) : Tail(s)[i] = b.queues[k][IF i < 1 THEN i ELSE i + 1]
    BY <1>7, <1>8 DEF s
  <2> DEFINE t == Tail(s)
             ap == Append(rest, k)
  <2>4. t \in Seq(Transfer(k)) /\ t # <<>>
    BY <1>8, <1>14
  <2>5. /\ c = Queues(b.next_sequence, WithQueue(b, k, t), ap, b.active_keys, b.len - 1)
        /\ Order(ap, DOMAIN b.queues) /\ Len(t) = Len(b.queues[k]) - 1
        /\ \A i \in 1 .. Len(t) : t[i] = b.queues[k][IF i < 1 THEN i ELSE i + 1]
    BY <2>1, <2>2, <2>3
  <2> HIDE DEF t, ap
  <2>6. Took(b, c, k, 1, 1, ap)
    BY <1>6, <2>3, <2>4, <2>5, TakeOne, Zenon
  <2> QED
    BY <1>4, <1>6, <1>10, <2>6 DEF c, o, rest, s, k, ap
<1> QED
  BY <1>13, <1>14

\* pop_next on queues that have nothing.
LEMMA PopNoneChangesNothing ==
    ASSUME NEW b, Sound(b), ~CanPop(b)
    PROVE  PopNext(b) = b
<1>1. /\ Whole(b) /\ b.active_keys = DOMAIN b.queues
      /\ Order(b.active_order, DOMAIN b.queues)
  BY SoundFacts
<1>2. \A i \in 1 .. Len(b.active_order) : b.active_order[i] \in DOMAIN b.queues
  BY <1>1 DEF Order, Elements
<1>3. 1 .. Len(b.active_order) = {}
  BY <1>2, SoundFacts DEF CanPop, Servable
<1>4. b.active_order = <<>>
  <2> DEFINE o == b.active_order
  <2>1. o \in Seq(Keys) /\ 1 .. Len(o) = {}
    BY <1>1, <1>3 DEF Order
  <2> HIDE DEF o
  <2>2. Len(o) \in Nat /\ 1 \notin 1 .. Len(o)
    BY <2>1
  <2>3. Len(o) = 0
    BY <2>2
  <2>4. o = <<>>
    BY <2>1, <2>3, EmptySeq
  <2> QED
    BY <2>4 DEF o
<1>5. ServedIndex(b) = 1
  BY <1>4 DEF ServedIndex, CanPop
<1>6. b.active_keys \ {b.active_order[i] : i \in 1 .. ServedIndex(b) - 1} = b.active_keys
  BY <1>5
<1>7. PopNext(b) = [b EXCEPT !.active_order = <<>>, !.active_keys = b.active_keys]
  BY <1>6 DEF PopNext
<1>8. PICK n, f, ks, l : b = Queues(n, f, <<>>, ks, l)
  BY <1>1, <1>4 DEF Whole
<1>9. b.active_keys = ks
  BY <1>8, Parts
<1>10. [Queues(n, f, <<>>, ks, l) EXCEPT !.active_order = <<>>] = Queues(n, f, <<>>, ks, l)
  BY DEF Queues
<1>11. [Queues(n, f, <<>>, ks, l) EXCEPT !.active_keys = ks] = Queues(n, f, <<>>, ks, l)
  BY DEF Queues
<1> QED
  BY <1>7, <1>8, <1>9, <1>10, <1>11

\* remove_active_key, of queues whose length was set to what the others hold.
LEMMA RemoveTakes ==
    ASSUME NEW b, Sound(b), NEW k \in DOMAIN b.queues, NEW w, w = Len(b.queues[k])
    PROVE  Took(b, RemoveActiveKey(LengthSet(b, b.len - w), k), k, 1, w, Retain(b.active_order, k))
<1> DEFINE d == LengthSet(b, b.len - w)
           c == RemoveActiveKey(d, k)
           o == Retain(b.active_order, k)
<1>1. Whole(b) /\ Order(b.active_order, DOMAIN b.queues)
  BY SoundFacts
<1>2. d = Queues(b.next_sequence, b.queues, b.active_order, b.active_keys, b.len - w)
  BY <1>1, LengthChanged
<1> HIDE DEF d
<1>3. /\ d.next_sequence = b.next_sequence /\ d.queues = b.queues /\ d.active_order = b.active_order
      /\ d.active_keys = b.active_keys /\ d.len = b.len - w
  BY <1>2, Parts
<1>4. Whole(d)
  BY <1>2, <1>3 DEF Whole
<1>5. WithoutQueue(d, k) = WithoutQueue(b, k)
  BY <1>3 DEF WithoutQueue
<1>6. c = KeySet(d, WithoutQueue(b, k), b.active_keys \ {k}, o)
  BY <1>3, <1>5 DEF RemoveActiveKey, KeySet
<1> HIDE DEF c, o
<1>7. KeySet(d, WithoutQueue(b, k), b.active_keys \ {k}, o)
        = Queues(d.next_sequence, WithoutQueue(b, k), o, b.active_keys \ {k}, d.len)
  BY <1>4, KeyChanged
<1>8. c = Queues(b.next_sequence, WithoutQueue(b, k), o, b.active_keys \ {k}, b.len - w)
  BY <1>3, <1>6, <1>7
<1>9. Order(o, (DOMAIN b.queues) \ {k})
  BY <1>1, RetainKeeps DEF o
<1>10. Took(b, c, k, 1, w, o)
  BY <1>8, <1>9, TakeAll, Zenon
<1> QED
  BY <1>10 DEF c, d, o

\* reset_endpoint takes all that one key has.
LEMMA ResetTakes ==
    ASSUME NEW b, Sound(b), NEW k
    PROVE  /\ k \notin DOMAIN b.queues => ResetEndpoint(b, k) = b /\ ResetTransfers(b, k) = <<>>
           /\ k \in DOMAIN b.queues =>
                /\ ResetTransfers(b, k) = b.queues[k]
                /\ Took(b, ResetEndpoint(b, k), k, 1, Len(b.queues[k]), Retain(b.active_order, k))
<1>1. CASE k \notin DOMAIN b.queues
  BY <1>1 DEF ResetEndpoint, ResetTransfers, QueueOf
<1>2. CASE k \in DOMAIN b.queues
  <2>1. QueueOf(b, k) = b.queues[k]
    BY <1>2 DEF QueueOf
  <2>2. ResetEndpoint(b, k) = RemoveActiveKey(LengthSet(b, b.len - Len(b.queues[k])), k)
    BY <1>2, <2>1 DEF ResetEndpoint, LengthSet
  <2>3. Took(b, RemoveActiveKey(LengthSet(b, b.len - Len(b.queues[k])), k), k, 1, Len(b.queues[k]),
             Retain(b.active_order, k))
    BY <1>2, RemoveTakes
  <2> QED
    BY <1>2, <2>1, <2>2, <2>3 DEF ResetTransfers
<1> QED
  BY <1>1, <1>2

\* The least of a set of natural numbers is one of them.
LEMMA MinIsOne ==
    ASSUME NEW S \in SUBSET Nat, S # {}
    PROVE  Min(S) \in S
BY MinExists DEF Min

\* A sequence without one of its elements.
LEMMA OneRemoved ==
    ASSUME NEW S, NEW s \in Seq(S), NEW i \in 1 .. Len(s)
    PROVE  /\ RemoveAt(s, i) \in Seq(S) /\ Len(RemoveAt(s, i)) = Len(s) - 1
           /\ \A j \in 1 .. Len(RemoveAt(s, i)) : RemoveAt(s, i)[j] = s[IF j < i THEN j ELSE j + 1]
           /\ RemoveAt(s, i) = <<>> <=> Len(s) = 1
<1> DEFINE n == Len(s)
           u == SubSeq(s, 1, i - 1)
           v == SubSeq(s, i + 1, n)
<1>1. n \in Nat /\ i \in 1 .. n
  OBVIOUS
<1>2. \A j \in 1 .. n : s[j] \in S
  BY ElementOfSeq
<1> HIDE DEF n
<1>3. u \in Seq(S) /\ Len(u) = i - 1 /\ \A j \in 1 .. i - 1 : u[j] = s[j]
  <2>1. i - 1 \in Int /\ 1 \in Int /\ \A j \in 1 .. i - 1 : s[j] \in S
    BY <1>1, <1>2
  <2>2. /\ u \in Seq(S) /\ Len(u) = IF 1 <= i - 1 THEN (i - 1) - 1 + 1 ELSE 0
        /\ \A j \in 1 .. (i - 1) - 1 + 1 : u[j] = s[1 + j - 1]
    BY <2>1, SubSeqProperties
  <2>3. (IF 1 <= i - 1 THEN (i - 1) - 1 + 1 ELSE 0) = i - 1 /\ (i - 1) - 1 + 1 = i - 1
    BY <1>1
  <2>4. \A j \in 1 .. i - 1 : 1 + j - 1 = j
    BY <1>1
  <2> HIDE DEF u
  <2> QED
    BY <2>2, <2>3, <2>4
<1>4. v \in Seq(S) /\ Len(v) = n - i /\ \A j \in 1 .. n - i : v[j] = s[i + j]
  <2>1. i + 1 \in Int /\ n \in Int /\ \A j \in i + 1 .. n : s[j] \in S
    BY <1>1, <1>2
  <2>2. /\ v \in Seq(S) /\ Len(v) = IF i + 1 <= n THEN n - (i + 1) + 1 ELSE 0
        /\ \A j \in 1 .. n - (i + 1) + 1 : v[j] = s[i + 1 + j - 1]
    BY <2>1, SubSeqProperties
  <2>3. (IF i + 1 <= n THEN n - (i + 1) + 1 ELSE 0) = n - i /\ n - (i + 1) + 1 = n - i
    BY <1>1
  <2>4. \A j \in 1 .. n - i : i + 1 + j - 1 = i + j
    BY <1>1
  <2> HIDE DEF v
  <2> QED
    BY <2>2, <2>3, <2>4
<1> HIDE DEF u, v
<1>5. /\ u \o v \in Seq(S) /\ Len(u \o v) = Len(u) + Len(v)
      /\ \A j \in 1 .. Len(u) + Len(v) : (u \o v)[j] = IF j <= Len(u) THEN u[j] ELSE v[j - Len(u)]
  BY <1>3, <1>4, ConcatProperties
<1>6. Len(u \o v) = n - 1
  BY <1>1, <1>3, <1>4, <1>5
<1>7. ASSUME NEW j \in 1 .. n - 1
      PROVE  (u \o v)[j] = s[IF j < i THEN j ELSE j + 1]
  <2>1. j \in 1 .. Len(u) + Len(v)
    BY <1>5, <1>6
  <2>2. CASE j < i
    BY <1>1, <1>3, <1>5, <2>1, <2>2
  <2>3. CASE ~(j < i)
    <3>1. (u \o v)[j] = v[j - Len(u)] /\ j - Len(u) \in 1 .. n - i /\ i + (j - Len(u)) = j + 1
      BY <1>1, <1>3, <1>5, <2>1, <2>3
    <3> QED
      BY <1>4, <2>3, <3>1
  <2> QED
    BY <2>2, <2>3
<1>8. RemoveAt(s, i) = u \o v
  BY DEF RemoveAt, u, v, n
<1>9. u \o v = <<>> <=> n = 1
  <2> DEFINE t == u \o v
  <2>1. t \in Seq(S) /\ Len(t) = n - 1
    BY <1>5, <1>6
  <2> HIDE DEF t
  <2>2. t = <<>> <=> Len(t) = 0
    BY <2>1, EmptySeq
  <2>3. t = <<>> <=> n = 1
    BY <1>1, <2>1, <2>2
  <2> QED
    BY <2>3 DEF t
<1> QED
  BY <1>5, <1>6, <1>7, <1>8, <1>9 DEF n

\* cancel takes one transfer, wherever it is in its queue.
LEMMA CancelTakes ==
    ASSUME NEW b, Sound(b), NEW id, CanCancel(b, id)
    PROVE  \E k \in DOMAIN b.queues : \E i, o :
                /\ i \in 1 .. Len(b.queues[k]) /\ CancelTransfer(b, id) = b.queues[k][i]
                /\ Took(b, Cancel(b, id), k, i, 1, o)
                /\ o = b.active_order \/ o = Retain(b.active_order, k)
<1> DEFINE k == Min(KeysWithId(b, id))
           i == CancelIndex(b.queues[k], id)
           s == b.queues[k]
           t == RemoveAt(s, i)
           c == Cancel(b, id)
           d == LengthSet(b, b.len - 1)
<1>1. Whole(b) /\ DOMAIN b.queues \subseteq Keys /\ Order(b.active_order, DOMAIN b.queues)
  BY SoundFacts
<1>2. k \in KeysWithId(b, id)
  <2>1. KeysWithId(b, id) \in SUBSET Nat /\ KeysWithId(b, id) # {}
    BY <1>1, KeysAssumption DEF KeysWithId, CanCancel
  <2> QED
    BY <2>1, MinIsOne
<1>3. k \in DOMAIN b.queues /\ HasId(s, id)
  BY <1>2 DEF KeysWithId
<1>4. s \in Seq(Transfer(k)) /\ s # <<>> /\ Len(s) \in Nat \ {0}
  BY <1>3, SoundFacts
<1>5. i \in 1 .. Len(s)
  <2> DEFINE I == {a \in 1 .. Len(s) : s[a].frame.id = id}
  <2>1. I \in SUBSET Nat /\ I # {}
    BY <1>3, <1>4 DEF HasId
  <2>2. i = Min(I)
    BY DEF CancelIndex
  <2>3. Min(I) \in I
    BY <2>1, MinIsOne
  <2> QED
    BY <2>2, <2>3
<1>6. CancelTransfer(b, id) = b.queues[k][i]
  BY DEF CancelTransfer
<1>7. /\ t \in Seq(Transfer(k)) /\ Len(t) = Len(s) - 1
      /\ \A j \in 1 .. Len(t) : t[j] = s[IF j < i THEN j ELSE j + 1]
      /\ t = <<>> <=> Len(s) = 1
  <2> HIDE DEF i, s, k
  <2> QED
    BY <1>4, <1>5, OneRemoved
<1>8. c = IF t = <<>> THEN RemoveActiveKey(d, k) ELSE QueuesSet(d, WithQueue(b, k, t))
  BY DEF Cancel, LengthSet, QueuesSet
<1> HIDE DEF c, d, i, k, t
<1>9. CASE t = <<>>
  <2>1. 1 = Len(s) /\ i = 1
    <3> HIDE DEF s
    <3>1. Len(s) = 1
      BY <1>7, <1>9
    <3> QED
      BY <1>5, <3>1
  <2>2. Took(b, RemoveActiveKey(LengthSet(b, b.len - 1), k), k, 1, 1, Retain(b.active_order, k))
    BY <1>3, <2>1, RemoveTakes
  <2>3. Took(b, c, k, i, 1, Retain(b.active_order, k))
    BY <1>8, <1>9, <2>1, <2>2 DEF d
  <2> QED
    BY <1>3, <1>5, <1>6, <2>3 DEF c
<1>10. CASE t # <<>>
  <2>1. d = Queues(b.next_sequence, b.queues, b.active_order, b.active_keys, b.len - 1)
    BY <1>1, LengthChanged DEF d
  <2>2. /\ d.next_sequence = b.next_sequence /\ d.queues = b.queues /\ d.active_order = b.active_order
        /\ d.active_keys = b.active_keys /\ d.len = b.len - 1
    BY <2>1, Parts
  <2>3. Whole(d)
    BY <2>1, <2>2 DEF Whole
  <2>4. QueuesSet(d, WithQueue(b, k, t))
          = Queues(d.next_sequence, WithQueue(b, k, t), d.active_order, d.active_keys, d.len)
    BY <2>3, QueuesChanged
  <2>5. c = Queues(b.next_sequence, WithQueue(b, k, t), b.active_order, b.active_keys, b.len - 1)
    BY <1>8, <1>10, <2>2, <2>4
  <2>6. Took(b, c, k, i, 1, b.active_order)
    BY <1>1, <1>3, <1>5, <1>7, <1>10, <2>5, TakeOne, Zenon
  <2> QED
    BY <1>3, <1>5, <1>6, <2>6 DEF c
<1> QED
  BY <1>9, <1>10

\* g is f with one transfer more, with arrival number a, behind the m that key k has.
Grown(f, g, k, a, m) ==
    /\ m \in Nat /\ (k \in DOMAIN f => m = Len(f[k])) /\ (k \notin DOMAIN f => m = 0)
    /\ DOMAIN g = (DOMAIN f) \union {k}
    /\ \A j \in (DOMAIN f) \ {k} : g[j] = f[j]
    /\ Len(g[k]) = m + 1 /\ g[k][m + 1].frame.arrival = a
    /\ \A i \in 1 .. m : g[k][i] = f[k][i]

LEMMA PlacesGrow ==
    ASSUME NEW f, NEW g, NEW k, NEW a, NEW m, NEW m1, m1 = m + 1, Grown(f, g, k, a, m)
    PROVE  /\ Places(g) = Places(f) \union {<<k, m1>>} /\ <<k, m1>> \notin Places(f)
           /\ Number(g, <<k, m1>>) = a
           /\ \A p \in Places(f) : Number(g, p) = Number(f, p)
<1>1. /\ m \in Nat /\ k \in DOMAIN g /\ Len(g[k]) = m1 /\ g[k][m1].frame.arrival = a
      /\ m1 \in 1 .. m1 /\ \A i \in 1 .. m1 : i = m1 \/ i \in 1 .. m
  BY DEF Grown
<1>2. \A j \in DOMAIN f : j \in DOMAIN g /\ (j = k => Len(f[k]) = m) /\ (j # k => g[j] = f[j])
  BY DEF Grown
<1>3. ASSUME NEW p \in Places(f)
      PROVE  p \in Places(g) /\ p # <<k, m1>> /\ Number(g, p) = Number(f, p)
  <2>1. p = <<p[1], p[2]>> /\ p[1] \in DOMAIN f /\ p[2] \in 1 .. Len(f[p[1]])
    BY PlacesAre
  <2>2. CASE p[1] # k
    <3>1. g[p[1]] = f[p[1]] /\ p[1] \in DOMAIN g
      BY <1>2, <2>1, <2>2
    <3>2. <<p[1], p[2]>> \in Places(g)
      BY <2>1, <3>1, PlacesAre
    <3>3. p # <<k, m1>>
      BY <2>2
    <3> QED
      BY <2>1, <3>1, <3>2, <3>3, Zenon DEF Number
  <2>3. CASE p[1] = k
    <3>1. p[2] \in 1 .. m /\ p[2] \in 1 .. m1
      BY <1>1, <1>2, <2>1, <2>3
    <3>2. <<k, p[2]>> \in Places(g)
      BY <1>1, <3>1, PlacesAre
    <3>3. p # <<k, m1>>
      <4>1. p[2] # m1
        BY <1>1, <3>1
      <4>2. <<k, m1>>[2] = m1
        OBVIOUS
      <4> QED
        BY <4>1, <4>2
    <3>4. g[k][p[2]] = f[k][p[2]]
      BY <3>1 DEF Grown
    <3>5. p = <<k, p[2]>>
      BY <2>1, <2>3
    <3>6. Number(g, p) = Number(f, p)
      BY <2>3, <3>4, Zenon DEF Number
    <3> QED
      BY <3>2, <3>3, <3>5, <3>6, Zenon
  <2> QED
    BY <2>2, <2>3
<1>4. ASSUME NEW p \in Places(g)
      PROVE  p \in Places(f) \/ p = <<k, m1>>
  <2>1. p = <<p[1], p[2]>> /\ p[1] \in DOMAIN g /\ p[2] \in 1 .. Len(g[p[1]])
    BY PlacesAre
  <2>2. CASE p[1] # k
    <3>1. p[1] \in DOMAIN f /\ g[p[1]] = f[p[1]]
      BY <2>1, <2>2 DEF Grown
    <3>2. <<p[1], p[2]>> \in Places(f)
      BY <2>1, <3>1, PlacesAre
    <3> QED
      BY <2>1, <3>2, Zenon
  <2>3. CASE p[1] = k /\ p[2] = m1
    BY <2>1, <2>3
  <2>4. CASE p[1] = k /\ p[2] # m1
    <3>1. p[2] \in 1 .. m
      BY <1>1, <2>1, <2>4
    <3>2. m # 0
      BY <1>1, <3>1
    <3>3. k \in DOMAIN f /\ p[2] \in 1 .. Len(f[k])
      BY <3>1, <3>2 DEF Grown
    <3>4. <<k, p[2]>> \in Places(f)
      BY <3>3, PlacesAre
    <3>5. p = <<k, p[2]>>
      BY <2>1, <2>4
    <3> QED
      BY <3>4, <3>5, Zenon
  <2> QED
    BY <2>2, <2>3, <2>4
<1>5. <<k, m1>> \in Places(g)
  BY <1>1, PlacesAre
<1>6. Number(g, <<k, m1>>) = a
  BY <1>1 DEF Number
<1>7. Places(g) = Places(f) \union {<<k, m1>>}
  BY <1>3, <1>4, <1>5, Zenon
<1> QED
  BY <1>3, <1>6, <1>7, Zenon

LEMMA BookGrows ==
    ASSUME NEW f, NEW g, NEW k, NEW m, NEW n \in Nat, NEW l, Book(f, n, l), Grown(f, g, k, n + 1, m)
    PROVE  /\ Book(g, n + 1, l)
           /\ Cardinality(Places(g)) = Cardinality(Places(f)) + 1
           /\ Increasing(f) => Increasing(g)
<1> PICK m1, n1 : m1 = m + 1 /\ n1 = n + 1
  OBVIOUS
<1> DEFINE new == <<k, m1>>
<1>1. /\ Places(g) = Places(f) \union {new} /\ new \notin Places(f) /\ Number(g, new) = n1
      /\ \A p \in Places(f) : Number(g, p) = Number(f, p)
  BY PlacesGrow
<1> HIDE DEF new
<1>2. /\ IsFiniteSet(Places(f))
      /\ \A p, r \in Places(f) : Number(f, p) = Number(f, r) => p = r
      /\ \A e, d \in l : e[1] = d[1] => e = d
      /\ Numbers(f, Places(f)) \union {e[1] : e \in l} = 1 .. n
      /\ Numbers(f, Places(f)) \intersect {e[1] : e \in l} = {}
  BY DEF Book
<1>3. IsFiniteSet(Places(g)) /\ Cardinality(Places(g)) = Cardinality(Places(f)) + 1
  <2>1. /\ IsFiniteSet(Places(f) \union {new})
        /\ Cardinality(Places(f) \union {new}) =
                IF new \in Places(f) THEN Cardinality(Places(f)) ELSE Cardinality(Places(f)) + 1
    BY <1>2, FS_AddElement, Zenon
  <2> QED
    BY <1>1, <2>1
<1>4. Numbers(g, Places(g)) = Numbers(f, Places(f)) \union {n1}
  BY <1>1 DEF Numbers
<1>5. n1 \notin 1 .. n /\ 1 .. n1 = (1 .. n) \union {n1}
  OBVIOUS
<1>6. \A p \in Places(f) : Number(f, p) # n1 /\ Number(f, p) \in 1 .. n
  BY <1>2, <1>5 DEF Numbers
<1>7. \A p, r \in Places(g) : Number(g, p) = Number(g, r) => p = r
  BY <1>1, <1>2, <1>6
<1>8. Book(g, n1, l)
  BY <1>2, <1>3, <1>4, <1>5, <1>7 DEF Book
<1>9. ASSUME Increasing(f)
      PROVE  Increasing(g)
  <2>1. ASSUME NEW j \in DOMAIN g, NEW a \in 1 .. Len(g[j]), NEW b \in 1 .. Len(g[j]), a < b
        PROVE  g[j][a].frame.arrival < g[j][b].frame.arrival
    <3>1. CASE j # k
      <4>1. j \in DOMAIN f /\ g[j] = f[j]
        BY <3>1 DEF Grown
      <4> QED
        BY <1>9, <2>1, <4>1 DEF Increasing
    <3>2. CASE j = k
      <4>1. m \in Nat /\ Len(g[k]) = m1 /\ g[k][m1].frame.arrival = n1
            /\ \A i \in 1 .. m : g[k][i] = f[k][i]
        BY DEF Grown
      <4>2. a \in 1 .. m /\ k \in DOMAIN f /\ m = Len(f[k])
        <5>1. a \in 1 .. m /\ m # 0
          BY <2>1, <3>2, <4>1
        <5> QED
          BY <5>1 DEF Grown
      <4>3. CASE b \in 1 .. m
        BY <1>9, <2>1, <3>2, <4>1, <4>2, <4>3 DEF Increasing
      <4>4. CASE b = m1
        <5>1. <<k, a>> \in Places(f)
          BY <4>2, PlacesAre
        <5>2. Number(f, <<k, a>>) \in 1 .. n
          BY <1>6, <5>1
        <5>3. f[k][a].frame.arrival < n1
          BY <5>2 DEF Number
        <5> QED
          BY <3>2, <4>1, <4>2, <4>4, <5>3
      <4> QED
        BY <2>1, <3>2, <4>1, <4>3, <4>4
    <3> QED
      BY <3>1, <3>2
  <2> QED
    BY <2>1 DEF Increasing
<1> QED
  BY <1>3, <1>8, <1>9

\* enqueue adds a transfer at the end of its key's queue, and the key to the order if
\* it had none.
LEMMA EnqueueAdds ==
    ASSUME NEW b, Sound(b), NEW id \in Ids, NEW k \in Keys, NEW a \in Nat,
           NEW f, f = [id |-> id, key |-> k, arrival |-> a]
    PROVE  /\ Sound(Enqueue(b, f)) /\ Enqueue(b, f).len = b.len + 1
           /\ \E m : Grown(b.queues, Enqueue(b, f).queues, k, a, m)
           /\ k \in DOMAIN b.queues => Enqueue(b, f).active_order = b.active_order
           /\ k \notin DOMAIN b.queues => Enqueue(b, f).active_order = Append(b.active_order, k)
<1> DEFINE t == [sequence |-> b.next_sequence, key |-> k, frame |-> f]
           s == QueueOf(b, k)
           u == Append(s, t)
           g == WithQueue(b, k, u)
           had == k \in DOMAIN b.queues
           o == IF had THEN b.active_order ELSE Append(b.active_order, k)
           ks == IF had THEN b.active_keys ELSE b.active_keys \union {k}
           n == (b.next_sequence + 1) % SequenceModulus
           c == Enqueue(b, f)
<1>1. /\ Whole(b) /\ b.active_keys = DOMAIN b.queues /\ DOMAIN b.queues \subseteq Keys
      /\ Order(b.active_order, DOMAIN b.queues)
      /\ (had => s = b.queues[k] /\ s # <<>>) /\ (~had => s = <<>>)
  BY SoundFacts
<1>2. s \in Seq(Transfer(k))
  <2>1. had => s \in Seq(Transfer(k))
    BY <1>1, SoundFacts
  <2>2. \A S : <<>> \in Seq(S)
    OBVIOUS
  <2> QED
    BY <1>1, <2>1, <2>2, Zenon
<1>3. f.key = k /\ t \in Transfer(k) /\ t.frame.arrival = a
  BY DEF Transfer, Sound
<1>4. n \in Nat
  BY SequenceAssumption DEF Sound
<1>5. c = AllSet(b, n, g, b.len + 1, ks, o)
  <2> DEFINE act == QueueOf(b, f.key) = <<>> /\ f.key \notin b.active_keys
             t1 == [sequence |-> b.next_sequence, key |-> f.key, frame |-> f]
             g1 == WithQueue(b, f.key, Append(QueueOf(b, f.key), t1))
             keys == IF act THEN b.active_keys \union {f.key} ELSE b.active_keys
             order == IF act THEN Append(b.active_order, f.key) ELSE b.active_order
  <2>1. c = AllSet(b, n, g1, b.len + 1, keys, order)
    BY Zenon DEF Enqueue, AllSet
  <2>2. act <=> ~had
    BY <1>1, <1>3
  <2>3. g1 = g
    BY <1>3
  <2>4. keys = ks
    BY <1>3, <2>2
  <2>5. order = o
    BY <1>3, <2>2
  <2> HIDE DEF c, g1, g, keys, ks, order, o
  <2> QED
    BY <2>1, <2>3, <2>4, <2>5, Zenon
<1>6. /\ u \in Seq(Transfer(k)) /\ u # <<>> /\ Len(s) \in Nat /\ Len(u) = Len(s) + 1
      /\ u[Len(s) + 1].frame.arrival = a /\ \A i \in 1 .. Len(s) : u[i] = s[i]
  <2> DEFINE S == Transfer(k)
  <2>1. s \in Seq(S) /\ t \in S
    BY <1>2, <1>3
  <2> HIDE DEF S, s, t
  <2>2. /\ u \in Seq(S) /\ u # <<>> /\ Len(s) \in Nat /\ Len(u) = Len(s) + 1
        /\ u[Len(s) + 1] = t /\ \A i \in 1 .. Len(s) : u[i] = s[i]
    BY <2>1, AppendProperties
  <2> QED
    BY <1>3, <2>2 DEF S
<1> HIDE DEF t, s, u, n, c
<1>7. /\ DOMAIN g = (DOMAIN b.queues) \union {k} /\ g[k] = u
      /\ \A j \in (DOMAIN b.queues) \ {k} : g[j] = b.queues[j]
      /\ g = [j \in DOMAIN g |-> g[j]]
  BY DEF WithQueue
<1> HIDE DEF g
<1>8. Order(o, DOMAIN g)
  <2>1. CASE had
    BY <1>1, <1>7, <2>1
  <2>2. CASE ~had
    <3> DEFINE K == DOMAIN b.queues
    <3>1. Order(b.active_order, K) /\ k \in Keys \ K
      BY <1>1, <2>2
    <3> HIDE DEF K
    <3>2. Order(Append(b.active_order, k), K \union {k})
      BY <3>1, KeyJoins
    <3> QED
      BY <1>7, <2>2, <3>2 DEF K
  <2> QED
    BY <2>1, <2>2
<1>9. Agree(g, o)
  <2>1. ASSUME NEW j \in DOMAIN g
        PROVE  g[j] \in Seq(Transfer(j)) /\ g[j] # <<>>
    <3>1. CASE j = k
      BY <1>6, <1>7, <3>1
    <3>2. CASE j # k
      <4>1. j \in DOMAIN b.queues /\ g[j] = b.queues[j]
        BY <1>7, <3>2
      <4> QED
        BY <4>1 DEF Sound, Agree
    <3> QED
      BY <3>1, <3>2
  <2>2. DOMAIN g \subseteq Keys
    BY <1>1, <1>7
  <2> HIDE DEF o
  <2> QED
    BY <1>7, <1>8, <2>1, <2>2 DEF Agree
<1>10. Grown(b.queues, g, k, a, Len(s))
  <2>1. had => Len(s) = Len(b.queues[k])
    BY <1>1
  <2>2. ~had => Len(s) = 0
    BY <1>1
  <2>3. \A i \in 1 .. Len(s) : g[k][i] = b.queues[k][i]
    <3>1. had => s = b.queues[k]
      BY <1>1
    <3>2. ~had => 1 .. Len(s) = {}
      BY <2>2
    <3> QED
      BY <1>6, <1>7, <3>1, <3>2
  <2> QED
    BY <1>6, <1>7, <2>1, <2>2, <2>3 DEF Grown
<1>11. c = Queues(n, g, o, DOMAIN g, b.len + 1)
  <2>1. ks = DOMAIN g
    BY <1>1, <1>7
  <2>2. c = AllSet(b, n, g, b.len + 1, DOMAIN g, o)
    <3> HIDE DEF o, ks
    <3> QED
      BY <1>5, <2>1, Zenon
  <2>3. AllSet(b, n, g, b.len + 1, DOMAIN g, o) = Queues(n, g, o, DOMAIN g, b.len + 1)
    BY <1>1, AllChanged
  <2> QED
    BY <2>2, <2>3
<1> HIDE DEF o
<1>12. Sound(c)
  BY <1>4, <1>9, <1>11, SoundParts
<1>13. c.len = b.len + 1 /\ c.queues = g /\ c.active_order = o
  BY <1>11, Parts
<1>14. \E m : Grown(b.queues, c.queues, k, a, m)
  BY <1>10, <1>13
<1> QED
  BY <1>12, <1>13, <1>14 DEF c, o

-----------------------------------------------------------------------------
(* The invariant, and that every call keeps it                             *)

\* The queues of b hold what is in the book, and b counts it.
Balanced(b, n, l) ==
    /\ Sound(b) /\ n \in Nat /\ Book(b.queues, n, l) /\ Increasing(b.queues)
    /\ b.len = Cardinality(Places(b.queues))

\* A key with work was passed over by another at most once, and then that one is
\* behind it in the order.
Fair(b, y) ==
    /\ y \in [Keys -> [Keys -> Nat]]
    /\ \A k \in DOMAIN b.queues : \A j \in Keys \ {k} :
            y[k][j] = 0 \/ (y[k][j] = 1 /\ ~Before(b.active_order, j, k))

QueuesInv == Balanced(q, arrived, left) /\ Fair(q, bypassed)

\* The arrival numbers of one transfer, and of all transfers of a key.
LEMMA GoneNumbers ==
    ASSUME NEW f, NEW k
    PROVE  /\ \A i \in Nat : Numbers(f, Gone(k, i, 1)) = {f[k][i].frame.arrival}
           /\ \A n \in Nat : Numbers(f, Gone(k, 1, n)) = {f[k][i].frame.arrival : i \in 1 .. n}
<1>1. \A i : Number(f, <<k, i>>) = f[k][i].frame.arrival
  BY DEF Number
<1>2. ASSUME NEW i \in Nat
      PROVE  Numbers(f, Gone(k, i, 1)) = {f[k][i].frame.arrival}
  <2>1. i .. i + 1 - 1 = {i}
    OBVIOUS
  <2>2. Gone(k, i, 1) = {<<k, i>>}
    BY <2>1 DEF Gone
  <2> QED
    BY <1>1, <2>2 DEF Numbers
<1>3. ASSUME NEW n \in Nat
      PROVE  Numbers(f, Gone(k, 1, n)) = {f[k][i].frame.arrival : i \in 1 .. n}
  <2>1. 1 .. 1 + n - 1 = 1 .. n
    OBVIOUS
  <2>2. Gone(k, 1, n) = {<<k, i>> : i \in 1 .. n}
    BY <2>1 DEF Gone
  <2>3. Numbers(f, {<<k, i>> : i \in 1 .. n}) = {Number(f, <<k, i>>) : i \in 1 .. n}
    BY DEF Numbers
  <2> QED
    BY <1>1, <2>2, <2>3
<1> QED
  BY <1>2, <1>3

\* What is taken is noted.
LEMMA TookKeeps ==
    ASSUME NEW b, NEW c, NEW k, NEW from, NEW w, NEW o, Took(b, c, k, from, w, o),
           NEW n, NEW l, Balanced(b, n, l), NEW how
    PROVE  Balanced(c, n, Noted(l, b.queues, Gone(k, from, w), how))
<1> DEFINE m == Noted(l, b.queues, Gone(k, from, w), how)
<1>1. Sound(c) /\ Shrunk(b.queues, c.queues, k, from, w) /\ c.len = b.len - w
  BY DEF Took
<1>2. n \in Nat /\ Book(b.queues, n, l) /\ Increasing(b.queues) /\ b.len = Cardinality(Places(b.queues))
  BY DEF Balanced
<1>3. Book(c.queues, n, m) /\ Cardinality(Places(c.queues)) = Cardinality(Places(b.queues)) - w
  BY <1>1, <1>2, BookShrinks
<1>4. Increasing(c.queues)
  BY <1>1, <1>2, IncreasingShrinks
<1> HIDE DEF m
<1>5. Balanced(c, n, m)
  BY <1>1, <1>2, <1>3, <1>4 DEF Balanced
<1> QED
  BY <1>5 DEF m

\* When the order only loses keys, no key is passed over.
LEMMA TookStaysFair ==
    ASSUME NEW b, NEW c, NEW k, NEW from, NEW w, NEW o, Took(b, c, k, from, w, o), Sound(b),
           o = b.active_order \/ o = Retain(b.active_order, k), NEW y, Fair(b, y)
    PROVE  Fair(c, y)
<1>1. DOMAIN c.queues \subseteq DOMAIN b.queues /\ c.active_order = o
  BY DEF Took, Shrunk
<1>2. \A j, m : Before(o, j, m) => Before(b.active_order, j, m)
  <2>1. Order(b.active_order, DOMAIN b.queues)
    BY SoundFacts
  <2> QED
    BY <2>1, RetainKeeps
<1> QED
  BY <1>1, <1>2 DEF Fair

LEMMA EnqueueKeeps ==
    ASSUME QueuesInv, NEW id \in Ids, NEW k \in Keys, DoEnqueue(id, k)
    PROVE  QueuesInv'
<1> DEFINE f == Frame(id, k)
           c == Enqueue(q, f)
           n == arrived + 1
<1>1. Sound(q) /\ Balanced(q, arrived, left) /\ arrived \in Nat /\ Fair(q, bypassed)
  BY DEF QueuesInv, Balanced
<1>2. q' = c /\ arrived' = n /\ left' = left /\ n \in Nat
      /\ bypassed' = IF HasWork(k) THEN bypassed ELSE Reset0(k)
  BY <1>1 DEF DoEnqueue
<1>3. f = [id |-> id, key |-> k, arrival |-> n]
  BY DEF Frame
<1> HIDE DEF f, n
<1>4. /\ Sound(c) /\ c.len = q.len + 1
      /\ \E m : Grown(q.queues, c.queues, k, n, m)
      /\ k \in DOMAIN q.queues => c.active_order = q.active_order
      /\ k \notin DOMAIN q.queues => c.active_order = Append(q.active_order, k)
  BY <1>1, <1>2, <1>3, EnqueueAdds
<1> HIDE DEF c
<1>5. PICK m : Grown(q.queues, c.queues, k, n, m)
  BY <1>4
<1>6. Balanced(c, n, left)
  <2>1. Book(q.queues, arrived, left) /\ Increasing(q.queues) /\ q.len = Cardinality(Places(q.queues))
    BY <1>1 DEF Balanced
  <2>2. Grown(q.queues, c.queues, k, arrived + 1, m)
    BY <1>5 DEF n
  <2>3. /\ Book(c.queues, arrived + 1, left) /\ Increasing(c.queues)
        /\ Cardinality(Places(c.queues)) = Cardinality(Places(q.queues)) + 1
    BY <1>1, <2>1, <2>2, BookGrows
  <2> QED
    BY <1>2, <1>4, <2>1, <2>3 DEF Balanced, n
<1>7. HasWork(k) <=> k \in DOMAIN q.queues
  BY <1>1, SoundFacts DEF HasWork
<1>8. DOMAIN c.queues = (DOMAIN q.queues) \union {k}
  BY <1>5 DEF Grown
<1>9. Fair(c, bypassed')
  <2>1. CASE k \in DOMAIN q.queues
    <3>1. bypassed' = bypassed /\ DOMAIN c.queues = DOMAIN q.queues /\ c.active_order = q.active_order
      BY <1>2, <1>4, <1>7, <1>8, <2>1
    <3> QED
      BY <1>1, <3>1 DEF Fair
  <2>2. CASE k \notin DOMAIN q.queues
    <3>1. bypassed' = [bypassed EXCEPT ![k] = [j \in Keys |-> 0]] /\ c.active_order = Append(q.active_order, k)
      BY <1>2, <1>4, <1>7, <2>2 DEF Reset0
    <3>2. bypassed \in [Keys -> [Keys -> Nat]]
      BY <1>1 DEF Fair
    <3>3. bypassed' \in [Keys -> [Keys -> Nat]]
      BY <3>1, <3>2
    <3>4. /\ \A j \in Keys : bypassed'[k][j] = 0
          /\ \A i \in Keys \ {k} : bypassed'[i] = bypassed[i]
      BY <3>1, <3>2
    <3>5. \A j, m2 : m2 # k /\ Before(c.active_order, j, m2) => Before(q.active_order, j, m2)
      <4>1. Order(q.active_order, DOMAIN q.queues) /\ k \in Keys \ DOMAIN q.queues
        BY <1>1, <2>2, SoundFacts
      <4>2. \A j, m2 : m2 # k /\ Before(Append(q.active_order, k), j, m2) => Before(q.active_order, j, m2)
        BY <4>1, KeyJoins, Zenon
      <4> QED
        BY <3>1, <4>2, Zenon
    <3>6. ASSUME NEW i \in DOMAIN c.queues, NEW j \in Keys \ {i}
          PROVE  bypassed'[i][j] = 0 \/ (bypassed'[i][j] = 1 /\ ~Before(c.active_order, j, i))
      <4>1. CASE i = k
        BY <3>4, <4>1
      <4>2. CASE i # k
        <5>1. i \in DOMAIN q.queues /\ i \in Keys
          BY <1>1, <1>8, <4>2, SoundFacts
        <5>2. bypassed'[i][j] = bypassed[i][j]
          BY <3>4, <4>2, <5>1
        <5>3. bypassed[i][j] = 0 \/ (bypassed[i][j] = 1 /\ ~Before(q.active_order, j, i))
          BY <1>1, <5>1 DEF Fair
        <5> QED
          BY <3>5, <4>2, <5>2, <5>3
      <4> QED
        BY <4>1, <4>2
    <3> QED
      BY <3>3, <3>6 DEF Fair
  <2> QED
    BY <2>1, <2>2
<1> QED
  BY <1>2, <1>6, <1>9 DEF QueuesInv

LEMMA PopNextKeeps ==
    ASSUME QueuesInv, DoPopNext
    PROVE  QueuesInv'
<1> DEFINE c == PopNext(q)
           o == q.active_order
           k == o[1]
           rest == SubSeq(o, 2, Len(o))
           t == PopTransfer(q)
<1>1. Sound(q) /\ Balanced(q, arrived, left) /\ Fair(q, bypassed) /\ CanPop(q)
  BY DEF QueuesInv, Balanced, DoPopNext
<1>2. /\ o # <<>> /\ k \in DOMAIN q.queues /\ t = q.queues[k][1]
      /\ \/ Took(q, c, k, 1, 1, rest) /\ k \notin DOMAIN c.queues
         \/ Took(q, c, k, 1, 1, Append(rest, k))
  BY <1>1, PopTakes
<1>3. t.key = k
  <2>1. q.queues[k] \in Seq(Transfer(k)) /\ Len(q.queues[k]) \in Nat \ {0}
    BY <1>1, <1>2, SoundFacts
  <2>2. t \in Transfer(k)
    <3>1. 1 \in 1 .. Len(q.queues[k])
      BY <2>1
    <3> QED
      BY <1>2, <2>1, <3>1, ElementOfSeq
  <2> HIDE DEF t
  <2> QED
    BY <2>2 DEF Transfer
<1>4. /\ q' = c /\ arrived' = arrived /\ left' = Leave({t.frame.arrival}, "popped")
      /\ bypassed' = [i \in Keys |->
                IF i = k THEN [j \in Keys |-> 0]
                ELSE [bypassed[i] EXCEPT ![k] = IF HasWork(i) THEN @ + 1 ELSE @]]
  BY <1>3 DEF DoPopNext
<1>5. Order(o, DOMAIN q.queues) /\ DOMAIN q.queues \subseteq Keys
      /\ \A i \in DOMAIN q.queues : HasWork(i)
  BY <1>1, SoundFacts DEF HasWork
<1>6. /\ Order(rest, (DOMAIN q.queues) \ {k})
      /\ \A j, m : Before(rest, j, m) => Before(o, j, m)
      /\ \A m \in (DOMAIN q.queues) \ {k} : Before(o, k, m)
  BY <1>2, <1>5, KeyLeaves
<1> HIDE DEF c, t
<1>7. PICK o2 : /\ Took(q, c, k, 1, 1, o2)
                /\ (o2 = rest /\ k \notin DOMAIN c.queues) \/ o2 = Append(rest, k)
  BY <1>2
<1> HIDE DEF k, o, rest
<1>8. Balanced(c, arrived, left')
  <2>1. Numbers(q.queues, Gone(k, 1, 1)) = {t.frame.arrival}
    BY <1>2, GoneNumbers
  <2>2. left' = Noted(left, q.queues, Gone(k, 1, 1), "popped")
    BY <1>4, <2>1 DEF Leave, Noted
  <2>3. Balanced(c, arrived, Noted(left, q.queues, Gone(k, 1, 1), "popped"))
    BY <1>1, <1>7, TookKeeps, Zenon
  <2> QED
    BY <2>2, <2>3
<1>9. c.active_order = o2 /\ DOMAIN c.queues \subseteq DOMAIN q.queues
  BY <1>7 DEF Took, Shrunk
<1>10. \A j, m : m # k /\ Before(o2, j, m) => Before(o, j, m) /\ j # k
  <2> DEFINE K == (DOMAIN q.queues) \ {k}
  <2>1. Order(rest, K) /\ k \in Keys \ K
    BY <1>2, <1>5, <1>6
  <2> HIDE DEF K
  <2>2. \A j, m : m # k /\ Before(Append(rest, k), j, m) => Before(rest, j, m)
    BY <2>1, KeyJoins
  <2>3. \A m : ~Before(rest, k, m)
    <3>1. \A i \in 1 .. Len(rest) : rest[i] # k
      BY <2>1 DEF Order, Elements
    <3> QED
      BY <3>1 DEF Before
  <2> QED
    BY <1>6, <1>7, <2>2, <2>3
<1>11. Fair(c, bypassed')
  <2>1. bypassed \in [Keys -> [Keys -> Nat]]
    BY <1>1 DEF Fair
  <2>2. bypassed' \in [Keys -> [Keys -> Nat]]
    <3> DEFINE Row(i) == IF i = k THEN [j \in Keys |-> 0]
                         ELSE [bypassed[i] EXCEPT ![k] = IF HasWork(i) THEN @ + 1 ELSE @]
    <3>1. ASSUME NEW i \in Keys
          PROVE  Row(i) \in [Keys -> Nat]
      <4>1. bypassed[i] \in [Keys -> Nat] /\ k \in Keys
        BY <1>2, <1>5, <2>1
      <4> QED
        BY <4>1
    <3>2. bypassed' = [i \in Keys |-> Row(i)]
      BY <1>4
    <3> HIDE DEF Row
    <3> QED
      BY <3>1, <3>2
  <2>3. ASSUME NEW i \in DOMAIN c.queues, NEW j \in Keys \ {i}
        PROVE  bypassed'[i][j] = 0 \/ (bypassed'[i][j] = 1 /\ ~Before(c.active_order, j, i))
    <3>1. i \in Keys /\ i \in DOMAIN q.queues /\ HasWork(i) /\ k \in Keys /\ j \in Keys
      BY <1>2, <1>5, <1>9
    <3>2. CASE i = k
      BY <1>4, <3>1, <3>2
    <3>3. CASE i # k /\ j = k
      <4>1. bypassed[i][k] = 0
        <5>1. Before(o, k, i)
          BY <1>6, <3>1, <3>3
        <5> QED
          BY <1>1, <3>1, <3>3, <5>1 DEF Fair, o
      <4>2. bypassed'[i][k] = bypassed[i][k] + 1
        BY <1>4, <2>1, <3>1, <3>3
      <4>3. ~Before(c.active_order, k, i)
        BY <1>9, <1>10, <3>3
      <4> QED
        BY <3>3, <4>1, <4>2, <4>3
    <3>4. CASE i # k /\ j # k
      <4>1. bypassed'[i][j] = bypassed[i][j]
        BY <1>4, <2>1, <3>1, <3>4
      <4>2. bypassed[i][j] = 0 \/ (bypassed[i][j] = 1 /\ ~Before(o, j, i))
        BY <1>1, <3>1 DEF Fair, o
      <4> QED
        BY <1>9, <1>10, <3>4, <4>1, <4>2
    <3> QED
      BY <3>2, <3>3, <3>4
  <2> QED
    BY <2>2, <2>3 DEF Fair
<1> QED
  BY <1>4, <1>8, <1>11 DEF QueuesInv

LEMMA PopNoneKeeps ==
    ASSUME QueuesInv, DoPopNone
    PROVE  QueuesInv'
<1>1. Sound(q) /\ ~CanPop(q) /\ q' = PopNext(q) /\ UNCHANGED <<arrived, left, bypassed>>
  BY DEF QueuesInv, Balanced, DoPopNone
<1>2. q' = q
  BY <1>1, PopNoneChangesNothing
<1> QED
  BY <1>1, <1>2 DEF QueuesInv

LEMMA CancelKeeps ==
    ASSUME QueuesInv, NEW id \in Ids, DoCancel(id)
    PROVE  QueuesInv'
<1> DEFINE c == Cancel(q, id)
           t == CancelTransfer(q, id)
<1>1. /\ Sound(q) /\ Balanced(q, arrived, left) /\ Fair(q, bypassed)
      /\ q' = c /\ arrived' = arrived /\ bypassed' = bypassed
      /\ left' = IF CanCancel(q, id) THEN Leave({t.frame.arrival}, "cancelled") ELSE left
  BY DEF QueuesInv, Balanced, DoCancel
<1>2. CASE ~CanCancel(q, id)
  <2>1. c = q
    BY <1>2 DEF Cancel
  <2> QED
    BY <1>1, <1>2, <2>1 DEF QueuesInv
<1>3. CASE CanCancel(q, id)
  <2>1. PICK k \in DOMAIN q.queues : \E i, o :
            /\ i \in 1 .. Len(q.queues[k]) /\ t = q.queues[k][i]
            /\ Took(q, c, k, i, 1, o)
            /\ o = q.active_order \/ o = Retain(q.active_order, k)
    BY <1>1, <1>3, CancelTakes
  <2>2. PICK i, o :
            /\ i \in 1 .. Len(q.queues[k]) /\ t = q.queues[k][i]
            /\ Took(q, c, k, i, 1, o)
            /\ o = q.active_order \/ o = Retain(q.active_order, k)
    BY <2>1
  <2> HIDE DEF c, t
  <2>3. left' = Noted(left, q.queues, Gone(k, i, 1), "cancelled")
    <3>1. i \in Nat
      BY <2>2
    <3>2. Numbers(q.queues, Gone(k, i, 1)) = {t.frame.arrival}
      BY <2>2, <3>1, GoneNumbers
    <3> QED
      BY <1>1, <1>3, <3>2 DEF Leave, Noted
  <2>4. Balanced(c, arrived, Noted(left, q.queues, Gone(k, i, 1), "cancelled"))
    BY <1>1, <2>2, TookKeeps, Zenon
  <2>5. Fair(c, bypassed)
    BY <1>1, <2>2, TookStaysFair, Zenon
  <2> QED
    BY <1>1, <2>3, <2>4, <2>5 DEF QueuesInv
<1> QED
  BY <1>2, <1>3

LEMMA ResetKeeps ==
    ASSUME QueuesInv, NEW k \in Keys, DoReset(k)
    PROVE  QueuesInv'
<1> DEFINE c == ResetEndpoint(q, k)
           s == ResetTransfers(q, k)
           o == Retain(q.active_order, k)
<1>1. /\ Sound(q) /\ Balanced(q, arrived, left) /\ Fair(q, bypassed)
      /\ q' = c /\ arrived' = arrived /\ bypassed' = bypassed
      /\ left' = Leave({s[i].frame.arrival : i \in 1 .. Len(s)}, "reset")
  BY DEF QueuesInv, Balanced, DoReset
<1>2. CASE k \notin DOMAIN q.queues
  <2>1. c = q /\ s = <<>>
    BY <1>1, <1>2, ResetTakes
  <2>2. {s[i].frame.arrival : i \in 1 .. Len(s)} = {}
    BY <2>1
  <2>3. left' = left
    BY <1>1, <2>2 DEF Leave
  <2> QED
    BY <1>1, <2>1, <2>3 DEF QueuesInv
<1>3. CASE k \in DOMAIN q.queues
  <2> DEFINE w == Len(q.queues[k])
  <2>1. s = q.queues[k] /\ Took(q, c, k, 1, w, o)
    BY <1>1, <1>3, ResetTakes
  <2>2. w \in Nat
    BY <1>1, <1>3, SoundFacts
  <2>3. {s[i].frame.arrival : i \in 1 .. Len(s)} = {q.queues[k][i].frame.arrival : i \in 1 .. w}
    BY <2>1
  <2> HIDE DEF c, s, o, w
  <2>4. left' = Noted(left, q.queues, Gone(k, 1, w), "reset")
    <3>1. Numbers(q.queues, Gone(k, 1, w)) = {q.queues[k][i].frame.arrival : i \in 1 .. w}
      BY <2>2, GoneNumbers
    <3> QED
      BY <1>1, <2>3, <3>1 DEF Leave, Noted
  <2>5. Balanced(c, arrived, Noted(left, q.queues, Gone(k, 1, w), "reset"))
    BY <1>1, <2>1, TookKeeps, Zenon
  <2>6. Fair(c, bypassed)
    BY <1>1, <2>1, TookStaysFair, Zenon DEF o
  <2> QED
    BY <1>1, <2>4, <2>5, <2>6 DEF QueuesInv
<1> QED
  BY <1>2, <1>3

\* Queues that hold nothing.
LEMMA EmptySound ==
    Sound(EmptyQueues) /\ EmptyQueues.len = 0 /\ DOMAIN EmptyQueues.queues = {}
<1>1. EmptyQueues = Queues(0, <<>>, <<>>, {}, 0)
  BY DEF EmptyQueues, Queues
<1>2. DOMAIN <<>> = {} /\ <<>> = [k \in DOMAIN <<>> |-> <<>>[k]]
  OBVIOUS
<1>3. Order(<<>>, {})
  BY DEF Order, Distinct, Elements
<1>4. Agree(<<>>, <<>>)
  BY <1>2, <1>3 DEF Agree
<1>5. Sound(Queues(0, <<>>, <<>>, DOMAIN <<>>, 0))
  BY <1>4, SoundParts
<1> QED
  BY <1>1, <1>2, <1>5, Parts

LEMMA ClearKeeps ==
    ASSUME QueuesInv, DoClear
    PROVE  QueuesInv'
<1> DEFINE c == EmptyQueues
<1>1. /\ Balanced(q, arrived, left) /\ Fair(q, bypassed)
      /\ q' = c /\ arrived' = arrived /\ bypassed' = bypassed
      /\ left' = Leave({ArrivalAt(p) : p \in Queued}, "cleared")
  BY DEF QueuesInv, DoClear, Clear
<1>2. Sound(c) /\ c.len = 0 /\ DOMAIN c.queues = {}
  BY EmptySound
<1> HIDE DEF c
<1>3. Places(c.queues) = {}
  BY <1>2 DEF Places
<1>4. Numbers(c.queues, Places(c.queues)) = {}
  BY <1>3 DEF Numbers
<1>5. {ArrivalAt(p) : p \in Queued} = Numbers(q.queues, Places(q.queues))
  BY DEF ArrivalAt, Queued, Numbers, Number, Places
<1> DEFINE N == Numbers(q.queues, Places(q.queues))
<1>6. left' = left \union {<<a, "cleared">> : a \in N}
  BY <1>1, <1>5 DEF Leave
<1>7. /\ arrived \in Nat
      /\ \A e, d \in left : e[1] = d[1] => e = d
      /\ N \union {e[1] : e \in left} = 1 .. arrived
      /\ N \intersect {e[1] : e \in left} = {}
  BY <1>1 DEF Balanced, Book
<1> HIDE DEF N
<1>8. \A a : <<a, "cleared">>[1] = a
  OBVIOUS
<1>9. \A e \in left' : e \in left \/ (e[1] \in N /\ e = <<e[1], "cleared">>)
  BY <1>6, <1>8
<1>10. {e[1] : e \in left'} = 1 .. arrived
  <2>1. \A e \in left' : e[1] \in 1 .. arrived
    BY <1>7, <1>9
  <2>2. \A a \in N : <<a, "cleared">> \in left'
    BY <1>6
  <2>3. \A e \in left : e \in left'
    BY <1>6
  <2>4. \A a \in 1 .. arrived : \E e \in left' : e[1] = a
    <3>1. \A a \in 1 .. arrived : a \in N \/ \E e \in left : e[1] = a
      BY <1>7
    <3> QED
      BY <1>8, <2>2, <2>3, <3>1
  <2> QED
    BY <2>1, <2>4
<1>11. \A e, d \in left' : e[1] = d[1] => e = d
  BY <1>7, <1>9
<1>12. IsFiniteSet(Places(c.queues)) /\ c.len = Cardinality(Places(c.queues))
  BY <1>2, <1>3, FS_EmptySet
<1>13. Increasing(c.queues)
  BY <1>2 DEF Increasing
<1>14. Book(c.queues, arrived, left')
  BY <1>3, <1>4, <1>10, <1>11, <1>12 DEF Book
<1>15. Balanced(c, arrived, left')
  BY <1>2, <1>7, <1>12, <1>13, <1>14 DEF Balanced
<1>16. Fair(c, bypassed)
  BY <1>1, <1>2 DEF Fair
<1> QED
  BY <1>1, <1>15, <1>16 DEF QueuesInv

LEMMA InitKeeps ==
    ASSUME Init
    PROVE  QueuesInv
<1> DEFINE c == EmptyQueues
<1>1. /\ q = c /\ arrived = 0 /\ left = {}
      /\ bypassed = [k \in Keys |-> [j \in Keys |-> 0]]
  BY DEF Init
<1>2. Sound(c) /\ c.len = 0 /\ DOMAIN c.queues = {}
  BY EmptySound
<1> HIDE DEF c
<1>3. Places(c.queues) = {}
  BY <1>2 DEF Places
<1>4. Numbers(c.queues, Places(c.queues)) = {} /\ {e[1] : e \in {}} = {} /\ 1 .. 0 = {}
  BY <1>3 DEF Numbers
<1>5. IsFiniteSet(Places(c.queues)) /\ c.len = Cardinality(Places(c.queues))
  BY <1>2, <1>3, FS_EmptySet
<1>6. Book(c.queues, 0, {})
  BY <1>3, <1>4, <1>5 DEF Book
<1>7. Balanced(c, 0, {})
  BY <1>2, <1>5, <1>6 DEF Balanced, Increasing
<1>8. Fair(c, bypassed)
  <2>1. bypassed \in [Keys -> [Keys -> Nat]]
    BY <1>1
  <2> QED
    BY <1>2, <2>1 DEF Fair
<1> QED
  BY <1>1, <1>7, <1>8 DEF QueuesInv

\* The invariant is inductive.
LEMMA NextKeeps ==
    ASSUME QueuesInv, [Next]_vars
    PROVE  QueuesInv'
<1>1. CASE \E id \in Ids, k \in Keys : DoEnqueue(id, k)
  BY <1>1, EnqueueKeeps
<1>2. CASE DoPopNext
  BY <1>2, PopNextKeeps
<1>3. CASE DoPopNone
  BY <1>3, PopNoneKeeps
<1>4. CASE \E id \in Ids : DoCancel(id)
  BY <1>4, CancelKeeps
<1>5. CASE \E k \in Keys : DoReset(k)
  BY <1>5, ResetKeeps
<1>6. CASE DoClear
  BY <1>6, ClearKeeps
<1>7. CASE UNCHANGED vars
  BY <1>7 DEF vars, QueuesInv
<1> QED
  BY <1>1, <1>2, <1>3, <1>4, <1>5, <1>6, <1>7 DEF Next

LEMMA AlwaysQueuesInv == Spec => []QueuesInv
<1>1. Init => QueuesInv
  BY InitKeeps
<1>2. QueuesInv /\ [Next]_vars => QueuesInv'
  BY NextKeeps
<1> QED
  BY <1>1, <1>2, PTL DEF Spec

-----------------------------------------------------------------------------
(* The theorems                                                            *)

\* A key is in the round-robin order exactly once when it has work and not at all
\* otherwise, the set of active keys mirrors the order, and no empty queue is kept,
\* after any calls (endpoint_queue.rs:55, :74-78, :107, :122-124).
THEOREM OrderMirrorsQueues == Spec => []OrderMatchesWork
<1>1. QueuesInv => OrderMatchesWork
  <2> SUFFICES ASSUME QueuesInv
               PROVE  OrderMatchesWork
    OBVIOUS
  <2>1. Sound(q)
    BY DEF QueuesInv, Balanced
  <2>2. q.active_keys = DOMAIN q.queues /\ Order(q.active_order, DOMAIN q.queues)
        /\ \A k \in DOMAIN q.queues : q.queues[k] # <<>>
    BY <2>1, SoundFacts
  <2> QED
    BY <2>2 DEF OrderMatchesWork, Order, Distinct, Elements
<1> QED
  BY <1>1, AlwaysQueuesInv, PTL

\* No transfer is lost, handed out twice, or kept when it was handed out, and len counts
\* the queued ones, after any pops, cancels, resets and clears
\* (endpoint_queue.rs:53, :73, :106, :122, :130).
THEOREM TransfersConserved == Spec => []Conservation
<1>1. QueuesInv => Conservation
  <2> SUFFICES ASSUME QueuesInv
               PROVE  Conservation
    OBVIOUS
  <2>1. Queued = Places(q.queues)
    BY DEF Queued, Places
  <2>2. \A p : ArrivalAt(p) = Number(q.queues, p)
    BY DEF ArrivalAt, Number
  <2>3. {ArrivalAt(p) : p \in Queued} = Numbers(q.queues, Places(q.queues))
    BY <2>1, <2>2 DEF Numbers
  <2>4. Book(q.queues, arrived, left) /\ q.len = Cardinality(Places(q.queues))
    BY DEF QueuesInv, Balanced
  <2> QED
    BY <2>1, <2>2, <2>3, <2>4 DEF Conservation, Book
<1> QED
  BY <1>1, AlwaysQueuesInv, PTL

\* The transfers of an endpoint are queued in the order they came, also when a cancel
\* took one from the middle (endpoint_queue.rs:49, :69, :101).
THEOREM EndpointsInOrder == Spec => []FifoPerEndpoint
<1>1. QueuesInv => FifoPerEndpoint
  BY DEF QueuesInv, Balanced, Increasing, FifoPerEndpoint
<1> QED
  BY <1>1, AlwaysQueuesInv, PTL

\* While an endpoint has work, no other is served twice before it is: the round robin
\* starves none, however many keys there are (endpoint_queue.rs:56, :78).
THEOREM NoneBypassedTwice == Spec => []BoundedBypass
<1>1. QueuesInv => BoundedBypass
  <2> SUFFICES ASSUME QueuesInv, NEW k \in Keys, NEW j \in Keys, HasWork(k), j # k
               PROVE  bypassed[k][j] <= 1
    BY DEF BoundedBypass
  <2>1. k \in DOMAIN q.queues
    BY DEF HasWork, QueueOf
  <2>2. bypassed[k][j] = 0 \/ bypassed[k][j] = 1
    BY <2>1 DEF QueuesInv, Fair
  <2> QED
    BY <2>2
<1> QED
  BY <1>1, AlwaysQueuesInv, PTL
=============================================================================
