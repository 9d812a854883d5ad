-------------------------- MODULE TinyLib_proofs ----------------------------
(***************************************************************************)
(* The proofs about the two widgets of jquery-tinylibv3.js.                *)
(*                                                                         *)
(* TinyGrid: a grid that will not load again by itself shows all of its    *)
(* view, unless a load was given up, and its list of cached pages is in    *)
(* step with its pages, for lists, screens and caches of any size.         *)
(*                                                                         *)
(* TinyList: the page shows a stretch of the notes and its token is about  *)
(* that stretch, for any number of notes, any length of an answer and any  *)
(* number of loads under way.                                              *)
(***************************************************************************)
EXTENDS TinyGrid, TinyList, FiniteSetTheorems, SequenceTheorems, TLAPS

----------------------------------------------------------------------------
(* Division into pages.                                                    *)

\* Division by a length of pages.
LEMMA DivMod ==
    ASSUME NEW a \in Int, NEW b \in Nat \ {0}
    PROVE  /\ a \div b \in Int /\ a % b \in 0 .. b - 1
           /\ a = b * (a \div b) + (a % b)
  OBVIOUS

\* A product with a smaller factor is smaller by a whole multiple.
LEMMA Multiples ==
    ASSUME NEW b \in Nat \ {0}, NEW c \in Int, NEW d \in Int, c < d
    PROVE  b * c + b <= b * d
<1>1. PICK k \in Nat : d = c + 1 + k
  <2>. WITNESS d - c - 1 \in Nat
  <2>. QED  OBVIOUS
<1>2. b * d = b * c + b + b * k
  BY <1>1
<1>3. b * k >= 0
  OBVIOUS
<1>4. b * c \in Int /\ b * k \in Int
  OBVIOUS
<1>. QED  BY <1>2, <1>3, <1>4

\* Page c begins at or before row a.
LEMMA DivLeast ==
    ASSUME NEW a \in Int, NEW b \in Nat \ {0}, NEW c \in Int
    PROVE  c <= a \div b <=> b * c <= a
<1>. DEFINE q == a \div b
            r == a % b
<1>1. q \in Int /\ r \in 0 .. b - 1 /\ a = b * q + r
  BY DivMod
<1>. HIDE DEF q, r
<1>2. b * q \in Int /\ b * c \in Int
  BY <1>1
<1>3. ASSUME c <= q  PROVE  b * c <= a
  <2>1. CASE c = q
    BY <1>1, <1>2, <2>1
  <2>2. CASE c < q
    <3>1. b * c + b <= b * q
      BY <1>1, <2>2, Multiples
    <3>. QED  BY <1>1, <1>2, <3>1
  <2>. QED  BY <1>1, <1>3, <2>1, <2>2
<1>4. ASSUME q < c  PROVE  a < b * c
  <2>1. b * q + b <= b * c
    BY <1>1, <1>4, Multiples
  <2>. QED  BY <1>1, <1>2, <2>1
<1>5. c <= q <=> b * c <= a
  BY <1>1, <1>2, <1>3, <1>4
<1>. QED  BY <1>5 DEF q

\* The page of a row has a number.
LEMMA DivNat ==
    ASSUME NEW a \in Nat, NEW b \in Nat \ {0}
    PROVE  a \div b \in Nat
<1>1. 0 <= a \div b <=> b * 0 <= a
  BY DivLeast
<1>2. a \div b \in Int
  BY DivMod
<1>. QED  BY <1>1, <1>2

\* Page c has rows of a list of a rows.
LEMMA CeilDivMore ==
    ASSUME NEW a \in Nat, NEW b \in Nat \ {0}
    PROVE  /\ CeilDiv(a, b) \in Nat
           /\ \A c \in Int : c < CeilDiv(a, b) <=> b * c < a
           /\ CeilDiv(a, b) = 0 <=> a = 0
<1>. DEFINE q == CeilDiv(a, b)
<1>1. q \in Int
  BY DivMod DEF CeilDiv
<1>2. \A c \in Int : c < q <=> b * c < a
  <2>. TAKE c \in Int
  <2>1. c + 1 <= q <=> b * (c + 1) <= a + b - 1
    BY DivLeast DEF CeilDiv
  <2>2. b * (c + 1) = b * c + b /\ b * c \in Int
    OBVIOUS
  <2>. HIDE DEF q
  <2>. QED  BY <1>1, <2>1, <2>2
<1>3. -1 < q
  <2>1. b * (-1) < a
    OBVIOUS
  <2>. QED  BY <1>2, <2>1
<1>4. 0 < q <=> 0 < a
  <2>1. 0 < q <=> b * 0 < a
    BY <1>2
  <2>. QED  BY <2>1
<1>. HIDE DEF q
<1>5. q \in Nat /\ (\A c \in Int : c < q <=> b * c < a) /\ (q = 0 <=> a = 0)
  BY <1>1, <1>2, <1>3, <1>4
<1>. QED  BY <1>5 DEF q
----------------------------------------------------------------------------
(* Sequences.                                                              *)

\* The places of K in order: each has its own number of places before it, and
\* every number below the size of K is one.
LEMMA Ranks ==
    ASSUME NEW n \in Nat, NEW K \in SUBSET (1..n), NEW c \in Nat, c < Cardinality(K)
    PROVE  \E i \in K : Cardinality({j \in K : j < i}) = c
<1>. DEFINE Before(i) == {j \in K : j < i}
            f == [i \in K |-> Cardinality(Before(i))]
            T == 0 .. Cardinality(K) - 1
<1>1. IsFiniteSet(K) /\ Cardinality(K) \in Nat
  <2>1. IsFiniteSet(1..n)
    BY FS_Interval
  <2>2. IsFiniteSet(K)
    BY <2>1, FS_Subset
  <2>. QED  BY <2>2, FS_CardinalityType
<1>2. \A i \in K : IsFiniteSet(Before(i)) /\ Cardinality(Before(i)) \in Nat
  <2>. TAKE i \in K
  <2>1. Before(i) \in SUBSET K
    OBVIOUS
  <2>2. IsFiniteSet(Before(i))
    BY <1>1, <2>1, FS_Subset
  <2>. QED  BY <2>2, FS_CardinalityType
<1>3. \A S, U : IsFiniteSet(U) /\ S \subseteq U /\ S # U => Cardinality(S) < Cardinality(U)
  <2>. TAKE S, U
  <2>. HAVE IsFiniteSet(U) /\ S \subseteq U /\ S # U
  <2>1. S \in SUBSET U
    OBVIOUS
  <2>2. IsFiniteSet(S) /\ Cardinality(S) <= Cardinality(U)
        /\ (Cardinality(U) = Cardinality(S) => U = S)
    BY <2>1, FS_Subset
  <2>3. Cardinality(S) \in Nat /\ Cardinality(U) \in Nat
    BY <2>2, FS_CardinalityType
  <2>. QED  BY <2>2, <2>3
<1>4. \A i \in K : Cardinality(Before(i)) < Cardinality(K)
  <2>. TAKE i \in K
  <2>1. Before(i) \subseteq K /\ i \notin Before(i)
    OBVIOUS
  <2>. QED  BY <1>1, <1>3, <2>1
<1>5. \A i, j \in K : i < j => Cardinality(Before(i)) < Cardinality(Before(j))
  <2>. TAKE i, j \in K
  <2>. HAVE i < j
  <2>1. i \in Int /\ j \in Int /\ \A h \in K : h \in Int
    OBVIOUS
  <2>2. Before(i) \subseteq Before(j)
    <3>. SUFFICES ASSUME NEW h \in K, h < i  PROVE h < j
      OBVIOUS
    <3>1. h \in Int
      BY <2>1
    <3>. QED  BY <2>1, <3>1
  <2>3. i \in Before(j) /\ i \notin Before(i)
    BY <2>1
  <2>. HIDE DEF Before
  <2>. QED  BY <1>2, <1>3, <2>2, <2>3
<1>6. f \in [K -> T]
  <2>1. \A i \in K : Cardinality(Before(i)) \in T
    BY <1>1, <1>2, <1>4
  <2>. HIDE DEF T, Before
  <2>. QED  BY <2>1
<1>7. \A i, j \in K : f[i] = f[j] => i = j
  <2>. TAKE i, j \in K
  <2>1. i \in Int /\ j \in Int
    OBVIOUS
  <2>2. f[i] = Cardinality(Before(i)) /\ f[j] = Cardinality(Before(j))
    OBVIOUS
  <2>. HIDE DEF f, Before
  <2>3. f[i] \in Nat /\ f[j] \in Nat
    BY <1>2, <2>2
  <2>4. (i < j => f[i] < f[j]) /\ (j < i => f[j] < f[i])
    BY <1>5, <2>2
  <2>. QED  BY <2>1, <2>3, <2>4
<1>8. f \in Injection(K, T)
  <2>1. DOMAIN f = K
    OBVIOUS
  <2>. HIDE DEF f, T
  <2>2. IsInjective(f)
    BY <1>7, <2>1 DEF IsInjective
  <2>. QED  BY <1>6, <2>2 DEF Injection
<1>9. IsFiniteSet(T) /\ Cardinality(T) = Cardinality(K)
  <2>. DEFINE k == Cardinality(K)
  <2>1. k \in Nat
    BY <1>1
  <2>. HIDE DEF k
  <2>2. IsFiniteSet(0 .. k - 1) /\ Cardinality(0 .. k - 1) = k
    <3>1. k - 1 \in Int
      BY <2>1
    <3>2. Cardinality(0 .. k - 1) = IF 0 > k - 1 THEN 0 ELSE (k - 1) - 0 + 1
      BY <3>1, FS_Interval
    <3>. QED  BY <2>1, <3>1, <3>2, FS_Interval
  <2>. QED  BY <2>2 DEF k
<1>10. f \in Surjection(K, T)
  <2>. HIDE DEF f, T
  <2>. QED  BY <1>8, <1>9, FS_Injection
<1>11. c \in T
  BY <1>1
<1>12. \E i \in K : f[i] = c
  <2>. HIDE DEF f, T
  <2>. QED  BY <1>10, <1>11 DEF Surjection
<1>. QED  BY <1>12

\* Sifting keeps elements that are in S, in the sequence, and each once if they
\* were there once.
LEMMA SiftedFacts ==
    ASSUME NEW P, NEW s \in Seq(P), NEW S
    PROVE  /\ Sifted(s, S) \in Seq(P)
           /\ ToSet(Sifted(s, S)) \subseteq S \cap ToSet(s)
           /\ IsInjective(s) => IsInjective(Sifted(s, S))
<1>. DEFINE n == Len(s)
            K == {i \in DOMAIN s : s[i] \in S}
            c == Cardinality(K)
            Before(i) == Cardinality({j \in K : j < i})
            at(k) == CHOOSE i \in K : Before(i) = k - 1
            t == Sifted(s, S)
<1>1. n \in Nat /\ DOMAIN s = 1..n /\ (\A i \in 1..n : s[i] \in P)
  BY ElementOfSeq, LenProperties
<1>2. K \in SUBSET (1..n)
  BY <1>1
<1>3. IsFiniteSet(K) /\ c \in Nat
  <2>1. IsFiniteSet(1..n)
    BY <1>1, FS_Interval
  <2>2. IsFiniteSet(K)
    BY <1>2, <2>1, FS_Subset
  <2>. QED  BY <2>2, FS_CardinalityType
<1>4. \A k \in 1..c : at(k) \in K /\ Before(at(k)) = k - 1
  <2>. TAKE k \in 1..c
  <2>1. k - 1 \in Nat /\ k - 1 < c
    BY <1>3
  <2>2. \E i \in K : Before(i) = k - 1
    <3>. HIDE DEF K
    <3>. QED  BY <1>1, <1>2, <2>1, Ranks
  <2>. HIDE DEF K, Before
  <2>. QED  BY <2>2
<1>5. t = [k \in 1..c |-> s[at(k)]]
  BY DEF Sifted
<1>6. \A i \in K : i \in 1..n /\ s[i] \in P /\ s[i] \in S /\ s[i] \in ToSet(s)
  BY <1>1 DEF ToSet
<1>. HIDE DEF K, c, at, t, n
<1>7. t \in Seq(P) /\ DOMAIN t = 1..c
  <2>1. \A k \in 1..c : s[at(k)] \in P
    BY <1>4, <1>6
  <2>. QED  BY <1>3, <1>5, <2>1
<1>8. ToSet(t) \subseteq S \cap ToSet(s)
  <2>. SUFFICES ASSUME NEW k \in 1..c  PROVE s[at(k)] \in S \cap ToSet(s)
    BY <1>5, <1>7 DEF ToSet
  <2>. QED  BY <1>4, <1>6
<1>9. ASSUME IsInjective(s)  PROVE IsInjective(t)
  <2>1. SUFFICES ASSUME NEW k \in 1..c, NEW l \in 1..c, t[k] = t[l]  PROVE k = l
    BY <1>7 DEF IsInjective
  <2>2. at(k) = at(l)
    <3>1. s[at(k)] = s[at(l)]
      BY <1>5, <2>1
    <3>2. at(k) \in DOMAIN s /\ at(l) \in DOMAIN s
      BY <1>1, <1>4, <1>6
    <3>. QED  BY <1>9, <3>1, <3>2 DEF IsInjective
  <2>3. Before(at(k)) = k - 1 /\ Before(at(l)) = l - 1
    BY <1>4
  <2>. HIDE DEF Before
  <2>4. k - 1 = l - 1
    BY <2>2, <2>3
  <2>5. k \in Int /\ l \in Int
    OBVIOUS
  <2>. QED  BY <2>4, <2>5
<1>. QED  BY <1>7, <1>8, <1>9 DEF t

\* The pages from s to e - 1, each once.
LEMMA UptoFacts ==
    ASSUME NEW P, NEW s \in Int, NEW e \in Int, \A p \in s .. e - 1 : p \in P
    PROVE  /\ Upto(s, e) \in Seq(P)
           /\ ToSet(Upto(s, e)) = s .. e - 1
           /\ IsInjective(Upto(s, e))
<1>. DEFINE n == IF e > s THEN e - s ELSE 0
            u == Upto(s, e)
<1>1. n \in Nat
  OBVIOUS
<1>2. \A i \in 1..n : s + i - 1 \in P /\ s + i - 1 \in s .. e - 1
  <2>. TAKE i \in 1..n
  <2>1. s + i - 1 \in s .. e - 1
    OBVIOUS
  <2>. QED  BY <2>1
<1>3. \A p \in s .. e - 1 : p - s + 1 \in 1..n /\ s + (p - s + 1) - 1 = p
  OBVIOUS
<1>4. u = [i \in 1..n |-> s + i - 1]
  BY DEF Upto
<1>. HIDE DEF n, u
<1>5. u \in Seq(P) /\ DOMAIN u = 1..n /\ \A i \in 1..n : u[i] = s + i - 1
  BY <1>1, <1>2, <1>4
<1>6. ToSet(u) = s .. e - 1
  <2>1. ToSet(u) \subseteq s .. e - 1
    BY <1>2, <1>5 DEF ToSet
  <2>2. ASSUME NEW p \in s .. e - 1  PROVE p \in ToSet(u)
    <3>. DEFINE i == p - s + 1
    <3>1. i \in DOMAIN u /\ u[i] = p
      BY <1>3, <1>5
    <3>. QED  BY <3>1 DEF ToSet
  <2>. QED  BY <2>1, <2>2
<1>7. IsInjective(u)
  <2>1. SUFFICES ASSUME NEW i \in 1..n, NEW j \in 1..n, u[i] = u[j]  PROVE i = j
    BY <1>5 DEF IsInjective
  <2>2. i \in Int /\ j \in Int /\ s + i - 1 = s + j - 1
    BY <1>5, <2>1
  <2>. QED  BY <2>2
<1>. QED  BY <1>5, <1>6, <1>7 DEF u

\* Turned round, a sequence has the same elements.
LEMMA ReverseFacts ==
    ASSUME NEW P, NEW s \in Seq(P)
    PROVE  /\ Reverse(s) \in Seq(P)
           /\ ToSet(Reverse(s)) \subseteq ToSet(s)
           /\ IsInjective(s) => IsInjective(Reverse(s))
<1>. DEFINE n == Len(s)
            r == Reverse(s)
<1>1. n \in Nat /\ DOMAIN s = 1..n /\ (\A i \in 1..n : s[i] \in P)
  BY ElementOfSeq, LenProperties
<1>2. \A i \in 1..n : (n - i) + 1 \in 1..n
  BY <1>1
<1>3. r = [i \in 1..n |-> s[(n - i) + 1]]
  BY DEF Reverse
<1>. HIDE DEF n, r
<1>4. r \in Seq(P) /\ DOMAIN r = 1..n /\ \A i \in 1..n : r[i] = s[(n - i) + 1]
  BY <1>1, <1>2, <1>3
<1>5. ToSet(r) \subseteq ToSet(s)
  BY <1>1, <1>2, <1>4 DEF ToSet
<1>6. ASSUME IsInjective(s)  PROVE IsInjective(r)
  <2>1. SUFFICES ASSUME NEW i \in 1..n, NEW j \in 1..n, r[i] = r[j]  PROVE i = j
    BY <1>4 DEF IsInjective
  <2>2. (n - i) + 1 = (n - j) + 1
    <3>1. s[(n - i) + 1] = s[(n - j) + 1]
      BY <1>4, <2>1
    <3>. QED  BY <1>1, <1>2, <1>6, <3>1 DEF IsInjective
  <2>3. i \in Int /\ j \in Int
    OBVIOUS
  <2>. QED  BY <1>1, <2>2, <2>3
<1>. QED  BY <1>4, <1>5, <1>6 DEF r

\* Sequences without a common element one after the other.
LEMMA ConcatFacts ==
    ASSUME NEW P, NEW s \in Seq(P), NEW t \in Seq(P)
    PROVE  /\ s \o t \in Seq(P)
           /\ ToSet(s \o t) = ToSet(s) \union ToSet(t)
           /\ IsInjective(s) /\ IsInjective(t) /\ ToSet(s) \cap ToSet(t) = {}
                  => IsInjective(s \o t)
<1>. DEFINE m == Len(s)
            n == Len(t)
            c == s \o t
<1>1. /\ m \in Nat /\ DOMAIN s = 1..m
      /\ n \in Nat /\ DOMAIN t = 1..n
  BY LenProperties
<1>2. c \in Seq(P) /\ DOMAIN c = 1 .. m + n
      /\ \A i \in 1 .. m + n : c[i] = IF i <= m THEN s[i] ELSE t[i - m]
  <2>1. c \in Seq(P) /\ Len(c) = m + n
    BY ConcatProperties
  <2>2. DOMAIN c = 1 .. m + n
    BY <2>1, LenProperties
  <2>. QED  BY <2>1, <2>2, ConcatProperties
<1>3. \A i \in 1 .. m + n : (i <= m => i \in 1..m) /\ (~(i <= m) => i - m \in 1..n)
  BY <1>1
<1>. HIDE DEF m, n, c
<1>4. ToSet(c) \subseteq ToSet(s) \union ToSet(t)
  BY <1>1, <1>2, <1>3 DEF ToSet
<1>5. ToSet(s) \subseteq ToSet(c)
  <2>1. SUFFICES ASSUME NEW i \in 1..m  PROVE s[i] \in ToSet(c)
    BY <1>1 DEF ToSet
  <2>2. i \in 1 .. m + n /\ i <= m
    BY <1>1
  <2>3. i \in DOMAIN c /\ c[i] = s[i]
    BY <1>2, <2>2
  <2>. QED  BY <2>3 DEF ToSet
<1>6. ToSet(t) \subseteq ToSet(c)
  <2>1. SUFFICES ASSUME NEW j \in 1..n  PROVE t[j] \in ToSet(c)
    BY <1>1 DEF ToSet
  <2>2. m + j \in 1 .. m + n /\ ~(m + j <= m) /\ (m + j) - m = j
    BY <1>1
  <2>3. m + j \in DOMAIN c /\ c[m + j] = t[j]
    BY <1>2, <2>2
  <2>. QED  BY <2>3 DEF ToSet
<1>7. ASSUME IsInjective(s), IsInjective(t), ToSet(s) \cap ToSet(t) = {}
      PROVE  IsInjective(c)
  <2>1. SUFFICES ASSUME NEW i \in 1 .. m + n, NEW j \in 1 .. m + n, c[i] = c[j]
                 PROVE  i = j
    BY <1>2 DEF IsInjective
  <2>2. i \in Int /\ j \in Int
    BY <1>1
  <2>3. CASE i <= m /\ j <= m
    <3>1. i \in DOMAIN s /\ j \in DOMAIN s /\ s[i] = s[j]
      BY <1>1, <1>2, <1>3, <2>1, <2>3
    <3>. QED  BY <1>7, <3>1 DEF IsInjective
  <2>4. CASE ~(i <= m) /\ ~(j <= m)
    <3>1. i - m \in DOMAIN t /\ j - m \in DOMAIN t /\ t[i - m] = t[j - m]
      BY <1>1, <1>2, <1>3, <2>1, <2>4
    <3>2. i - m = j - m
      BY <1>7, <3>1 DEF IsInjective
    <3>. QED  BY <1>1, <2>2, <3>2
  <2>5. CASE i <= m /\ ~(j <= m)
    <3>1. i \in DOMAIN s /\ j - m \in DOMAIN t /\ s[i] = t[j - m]
      BY <1>1, <1>2, <1>3, <2>1, <2>5
    <3>. QED  BY <1>7, <3>1 DEF ToSet
  <2>6. CASE ~(i <= m) /\ j <= m
    <3>1. i - m \in DOMAIN t /\ j \in DOMAIN s /\ t[i - m] = s[j]
      BY <1>1, <1>2, <1>3, <2>1, <2>6
    <3>. QED  BY <1>7, <3>1 DEF ToSet
  <2>. QED  BY <2>3, <2>4, <2>5, <2>6
<1>. QED  BY <1>2, <1>4, <1>5, <1>6, <1>7 DEF c

\* The first k elements of a sequence.
LEMMA FirstFacts ==
    ASSUME NEW P, NEW s \in Seq(P), NEW k \in 0 .. Len(s)
    PROVE  /\ SubSeq(s, 1, k) \in Seq(P)
           /\ ToSet(SubSeq(s, 1, k)) \subseteq ToSet(s)
           /\ IsInjective(s) => IsInjective(SubSeq(s, 1, k))
<1>. DEFINE n == Len(s)
            t == SubSeq(s, 1, k)
<1>1. n \in Nat /\ DOMAIN s = 1..n /\ k \in Nat /\ k <= n /\ (\A i \in 1..n : s[i] \in P)
  BY ElementOfSeq, LenProperties
<1>2. t \in Seq(P) /\ DOMAIN t = 1..k /\ \A i \in 1..k : t[i] = s[i] /\ i \in DOMAIN s
  <2>1. t = [i \in 1..k |-> s[i]]
    BY <1>1
  <2>2. \A i \in 1..k : i \in 1..n
    BY <1>1
  <2>. HIDE DEF t, n
  <2>. QED  BY <1>1, <2>1, <2>2
<1>. HIDE DEF n, t
<1>3. ToSet(t) \subseteq ToSet(s)
  BY <1>2 DEF ToSet
<1>4. IsInjective(s) => IsInjective(t)
  BY <1>2 DEF IsInjective
<1>. QED  BY <1>2, <1>3, <1>4 DEF t

----------------------------------------------------------------------------
(* TinyGrid: the view.                                                     *)

\* The last place of the scroll bar.
LastTop(v) == IF v.len > v.high THEN 2 * (v.len - v.high) ELSE 0

\* The scroll bar is inside the table.
Inside(v) == v.top <= LastTop(v)

\* The view shows rows of the list, and one at least of a list that is not empty.
Placed(v) == v.from <= v.to /\ v.to <= v.len /\ (v.len > 0 => v.from < v.to)

\* The list of cached pages and the pages are in step.
InStep(v) ==
    /\ IsInjective(v.cachelist)
    /\ {p \in PageNos : v.pages[p] # None} \subseteq ToSet(v.cachelist)

\* What holds of a grid after every handler, whatever is under way.
GridOk(v) == v \in Grids /\ Inside(v) /\ Placed(v) /\ InStep(v)

\* What the assumptions say of lengths, heights and pages.
LEMMA Constants ==
    /\ MaxLen \in Nat /\ Lens \subseteq 0..MaxLen
    /\ Heights \subseteq Nat \ {0} /\ MaxPage \in Nat /\ Tops \subseteq Nat
    /\ \A h \in Heights : 2 * NumRows(h) \in PageSizes
    /\ \A s \in PageSizes : s \in Nat /\ s >= 4 /\ s \in Pages
    /\ Pages \subseteq Nat /\ PageNos \subseteq Nat
    /\ \A s \in PageSizes : \A n \in 0..s : n \in Pages
<1>1. /\ Heights \subseteq Nat \ {0} /\ MaxPage \in Nat /\ Tops \subseteq Nat
      /\ Lens \subseteq Nat
  BY TinyGridAssumption
<1>2. MaxLen \in Lens /\ \A m \in Lens : m <= MaxLen
  <2>1. \E n \in Lens : \A m \in Lens : m <= n
    BY TinyGridAssumption
  <2>. QED  BY <2>1 DEF MaxLen
<1>3. MaxLen \in Nat /\ Lens \subseteq 0..MaxLen
  BY <1>1, <1>2
<1>4. \A h \in Heights : 2 * NumRows(h) \in PageSizes
  BY DEF PageSizes
<1>5. \A s \in PageSizes : s \in Nat /\ s >= 4
  <2>. TAKE s \in PageSizes
  <2>1. PICK h \in Heights : s = 2 * NumRows(h)
    BY DEF PageSizes
  <2>2. h \in Nat /\ h >= 1 /\ s = 2 * (h + 1)
    BY <1>1, <2>1 DEF NumRows
  <2>. QED  BY <2>2
<1>. DEFINE most == CHOOSE s \in PageSizes : \A t \in PageSizes : t <= s
<1>6. most \in PageSizes /\ \A s \in PageSizes : s <= most
  <2>1. PICK h \in Heights : \A i \in Heights : i <= h
    BY TinyGridAssumption
  <2>2. \A s \in PageSizes : s <= 2 * NumRows(h)
    <3>. TAKE s \in PageSizes
    <3>1. PICK i \in Heights : s = 2 * NumRows(i)
      BY DEF PageSizes
    <3>2. i <= h /\ i \in Nat /\ h \in Nat
      BY <1>1, <2>1
    <3>. QED  BY <3>1, <3>2 DEF NumRows
  <2>. QED  BY <1>4, <2>2
<1>7. Pages = 0..most
  BY DEF Pages
<1>. HIDE DEF most
<1>8. Pages \subseteq Nat /\ \A s \in PageSizes : s \in Pages /\ \A n \in 0..s : n \in Pages
  BY <1>5, <1>6, <1>7
<1>9. PageNos \subseteq Nat
  BY DEF PageNos
<1>. QED  BY <1>1, <1>3, <1>4, <1>5, <1>8, <1>9

\* What a grid is made of.
LEMMA GridTypes ==
    ASSUME NEW v \in Grids
    PROVE  /\ v.len \in 0..(MaxLen + 1) /\ v.len \in Nat /\ v.from \in Nat /\ v.to \in Nat
           /\ v.top \in Nat /\ v.scrolled \in BOOLEAN
           /\ v.high \in Heights /\ v.high \in Nat \ {0} /\ v.want \in PageSizes
           /\ v.want \in Nat /\ v.want >= 4
           /\ v.pagesize \in PageSizes \union {0} /\ v.pagesize \in Nat
           /\ v.pages \in [PageNos -> Pages \union {None}]
           /\ v.cachelist \in Seq(PageNos) /\ v.timer \in BOOLEAN /\ v.lock \in 0..2
<1>1. /\ v.len \in 0..(MaxLen + 1) /\ v.from \in Nat /\ v.to \in Nat
      /\ v.top \in Nat /\ v.scrolled \in BOOLEAN
      /\ v.high \in Heights /\ v.want \in PageSizes
      /\ v.pagesize \in PageSizes \union {0}
      /\ v.pages \in [PageNos -> Pages \union {None}]
      /\ v.cachelist \in Seq(PageNos) /\ v.timer \in BOOLEAN /\ v.lock \in 0..2
  BY DEF Grids
<1>2. v.len \in Nat
  BY <1>1, Constants
<1>3. v.high \in Nat \ {0}
  BY <1>1, Constants
<1>4. v.want \in Nat /\ v.want >= 4
  BY <1>1, Constants
<1>5. v.pagesize \in Nat
  <2>1. CASE v.pagesize = 0
    BY <2>1
  <2>2. CASE v.pagesize \in PageSizes
    BY <2>2, Constants
  <2>. QED  BY <1>1, <2>1, <2>2
<1>. QED  BY <1>1, <1>2, <1>3, <1>4, <1>5

\* ScrollTo moves the scroll bar only, keeps it inside the table, and a move is an
\* event that the grid has still to hear of.
LEMMA ScrollToFacts ==
    ASSUME NEW v \in Grids, NEW t \in Nat
    PROVE  LET w == ScrollTo(v, t) IN
           /\ w \in Grids /\ Inside(w)
           /\ w.len = v.len /\ w.from = v.from /\ w.to = v.to /\ w.high = v.high
           /\ w.want = v.want /\ w.pagesize = v.pagesize /\ w.pages = v.pages
           /\ w.cachelist = v.cachelist /\ w.timer = v.timer /\ w.lock = v.lock
           /\ w.scrolled \/ w = v
<1>. DEFINE last == IF v.len > v.high THEN 2 * (v.len - v.high) ELSE 0
            new == Smaller(t, last)
            scrolled == v.scrolled \/ new # v.top
            w == ScrollTo(v, t)
<1>1. last \in Nat
  BY GridTypes
<1>2. new \in Nat /\ new <= last
  BY <1>1 DEF Smaller
<1>3. w = [v EXCEPT !.top = new, !.scrolled = scrolled]
  BY DEF ScrollTo
<1>4. scrolled \in BOOLEAN
  OBVIOUS
<1>5. ~scrolled => new = v.top /\ scrolled = v.scrolled
  BY GridTypes
<1>. HIDE DEF last, new, scrolled, w
<1>6. w \in Grids
  BY <1>2, <1>3, <1>4 DEF Grids
<1>7. /\ w.top = new /\ w.scrolled = scrolled
      /\ w.len = v.len /\ w.from = v.from /\ w.to = v.to /\ w.high = v.high
      /\ w.want = v.want /\ w.pagesize = v.pagesize /\ w.pages = v.pages
      /\ w.cachelist = v.cachelist /\ w.timer = v.timer /\ w.lock = v.lock
  BY <1>3 DEF Grids
<1>8. ~scrolled => w = v
  BY <1>3, <1>5 DEF Grids
<1>9. Inside(w)
  BY <1>2, <1>7 DEF Inside, LastTop, last
<1>. QED  BY <1>6, <1>7, <1>8, <1>9 DEF w

\* Change puts the view where the scroll bar is; a row at least is on the screen.
LEMMA ChangeFacts ==
    ASSUME NEW v \in Grids, Inside(v), NEW d \in BOOLEAN
    PROVE  LET w == Change(v, d) IN
           /\ w \in Grids /\ Inside(w) /\ Placed(w)
           /\ w.len = v.len /\ w.pagesize = v.pagesize /\ w.pages = v.pages
           /\ w.cachelist = v.cachelist /\ w.lock = v.lock
           /\ ~d => w.timer
<1>. DEFINE want == 2 * NumRows(v.high)
            from == v.top \div 2
            mid == CeilDiv(v.top + 2 * v.high, 2)
            to == Smaller(mid, v.len)
            timer == v.timer \/ ~d
            w == Change(v, d)
<1>0. v.top \in Nat /\ v.len \in Nat /\ v.high \in Nat \ {0} /\ v.high \in Heights
  BY GridTypes
<1>1. want \in PageSizes
  BY <1>0, Constants
<1>2. from \in Nat /\ 2 * from <= v.top /\ v.top < 2 * from + 2
  BY <1>0
<1>3. mid \in Nat /\ v.top + 2 * v.high <= 2 * mid
  BY <1>0 DEF CeilDiv
<1>4. to \in Nat /\ to <= v.len /\ (to = mid \/ to = v.len)
  BY <1>0, <1>3 DEF Smaller
<1>5. w = [v EXCEPT !.want = want, !.from = from, !.to = to, !.timer = timer]
  BY DEF Change
<1>6. timer \in BOOLEAN /\ (~d => timer)
  OBVIOUS
<1>7. v.top <= (IF v.len > v.high THEN 2 * (v.len - v.high) ELSE 0)
  BY DEF Inside, LastTop
<1>. HIDE DEF want, from, mid, to, timer, w
<1>8. from <= to /\ (v.len > 0 => from < to)
  <2>1. CASE to = mid
    <3>1. 2 * from < 2 * mid
      BY <1>0, <1>2, <1>3
    <3>. QED  BY <1>2, <1>3, <2>1, <3>1
  <2>2. CASE to = v.len
    <3>1. CASE v.len > v.high
      BY <1>0, <1>2, <1>7, <2>2, <3>1
    <3>2. CASE ~(v.len > v.high)
      BY <1>0, <1>2, <1>7, <2>2, <3>2
    <3>. QED  BY <3>1, <3>2
  <2>. QED  BY <1>4, <2>1, <2>2
<1>9. w \in Grids
  BY <1>1, <1>2, <1>4, <1>5, <1>6 DEF Grids
<1>10. /\ w.from = from /\ w.to = to /\ w.timer = timer
       /\ w.len = v.len /\ w.pagesize = v.pagesize /\ w.pages = v.pages
       /\ w.cachelist = v.cachelist /\ w.lock = v.lock /\ w.top = v.top /\ w.high = v.high
  BY <1>5 DEF Grids
<1>11. Placed(w)
  BY <1>4, <1>8, <1>10 DEF Placed
<1>12. Inside(w)
  BY <1>10 DEF Inside, LastTop
<1>. QED  BY <1>6, <1>9, <1>10, <1>11, <1>12 DEF w

\* Without its cache a grid is in step.
LEMMA ClearFacts ==
    ASSUME NEW v \in Grids
    PROVE  LET w == Clear(v) IN
           /\ w \in Grids /\ InStep(w)
           /\ w.len = v.len /\ w.from = v.from /\ w.to = v.to /\ w.high = v.high
           /\ w.top = v.top /\ w.want = v.want /\ w.pagesize = v.pagesize
           /\ w.timer = v.timer /\ w.lock = v.lock
<1>. DEFINE w == Clear(v)
<1>1. NoPages \in [PageNos -> Pages \union {None}] /\ <<>> \in Seq(PageNos)
      /\ \A p \in PageNos : NoPages[p] = None
  BY DEF NoPages
<1>2. w = [v EXCEPT !.pages = NoPages, !.cachelist = <<>>]
  BY DEF Clear
<1>. HIDE DEF w
<1>3. w \in Grids
  BY <1>1, <1>2 DEF Grids
<1>4. /\ w.pages = NoPages /\ w.cachelist = <<>>
      /\ w.len = v.len /\ w.from = v.from /\ w.to = v.to /\ w.high = v.high
      /\ w.top = v.top /\ w.want = v.want /\ w.pagesize = v.pagesize
      /\ w.timer = v.timer /\ w.lock = v.lock
  BY <1>2 DEF Grids
<1>5. InStep(w)
  <2>1. IsInjective(w.cachelist)
    BY <1>4 DEF IsInjective
  <2>2. {p \in PageNos : w.pages[p] # None} = {}
    BY <1>1, <1>4
  <2>. QED  BY <2>1, <2>2 DEF InStep
<1>. QED  BY <1>3, <1>4, <1>5 DEF w

\* Another length: the scroll bar stays inside, pages behind the end are dropped.
LEMMA SetLenFacts ==
    ASSUME NEW v \in Grids, InStep(v), NEW n \in 0..(MaxLen + 1)
    PROVE  LET w == SetLen(v, n) IN
           /\ w \in Grids /\ Inside(w) /\ InStep(w)
           /\ w.len = n /\ w.pagesize = v.pagesize /\ w.lock = v.lock
<1>. DEFINE gone == IF v.pagesize = 0 THEN {}
                    ELSE CeilDiv(n, v.pagesize) .. CeilDiv(v.len, v.pagesize) - 1
            pages == [p \in PageNos |-> IF p \in gone THEN None ELSE v.pages[p]]
            u == [v EXCEPT !.len = n, !.pages = pages]
            w == SetLen(v, n)
<1>1. v.pages \in [PageNos -> Pages \union {None}] /\ v.top \in Nat
  BY GridTypes
<1>. HIDE DEF gone
<1>2. pages \in [PageNos -> Pages \union {None}]
      /\ \A p \in PageNos : pages[p] # None => v.pages[p] # None
  BY <1>1
<1>3. [v EXCEPT !.len = n,
                !.pages = [p \in PageNos |-> IF p \in gone THEN None ELSE @[p]]] = u
  OBVIOUS
<1>4. w = ScrollTo(u, v.top)
  BY DEF SetLen, gone
<1>. HIDE DEF pages, w
<1>5. u \in Grids
  BY <1>2 DEF Grids
<1>6. /\ u.len = n /\ u.pages = pages /\ u.cachelist = v.cachelist
      /\ u.pagesize = v.pagesize /\ u.lock = v.lock
  BY DEF Grids
<1>. HIDE DEF u
<1>7. /\ w \in Grids /\ Inside(w)
      /\ w.len = u.len /\ w.pagesize = u.pagesize /\ w.pages = u.pages
      /\ w.cachelist = u.cachelist /\ w.lock = u.lock
  BY <1>1, <1>4, <1>5, ScrollToFacts
<1>8. InStep(w)
  BY <1>2, <1>6, <1>7 DEF InStep
<1>. QED  BY <1>6, <1>7, <1>8 DEF w

\* A forced update leaves the grid in order; it is put off by the lock or starts
\* the timer, unless there are no rows.
LEMMA ForcedUpdate ==
    ASSUME NEW v, GridOk(v), NEW n \in -1..(MaxLen + 1), NEW inv \in BOOLEAN, NEW d \in BOOLEAN
    PROVE  LET w == Update(v, n, TRUE, inv, d) IN
           /\ GridOk(w) /\ w.pagesize = v.pagesize
           /\ w.lock = 2 \/ w.timer \/ w.len = 0
<1>. DEFINE refresh == n >= 0 /\ n # v.len
            sized == IF refresh THEN SetLen(v, n) ELSE v
            kept == IF inv THEN Clear(sized) ELSE sized
            dontLoad == n = 0 \/ (n < 0 /\ v.len = 0 /\ d)
            w == Update(v, n, TRUE, inv, d)
<1>0. v \in Grids /\ Inside(v) /\ Placed(v) /\ InStep(v) /\ v.lock \in 0..2 /\ v.len \in Nat
  BY GridTypes DEF GridOk
<1>1. CASE v.lock > 0
  <2>1. w = [v EXCEPT !.lock = 2]
    BY <1>1 DEF Update
  <2>. HIDE DEF w
  <2>2. w \in Grids
    BY <1>0, <2>1 DEF Grids
  <2>3. /\ w.len = v.len /\ w.from = v.from /\ w.to = v.to /\ w.high = v.high
        /\ w.top = v.top /\ w.pagesize = v.pagesize /\ w.pages = v.pages
        /\ w.cachelist = v.cachelist /\ w.lock = 2
    BY <1>0, <2>1 DEF Grids
  <2>4. Inside(w) /\ Placed(w) /\ InStep(w)
    BY <1>0, <2>3 DEF Inside, LastTop, Placed, InStep
  <2>. QED  BY <2>2, <2>3, <2>4 DEF w, GridOk
<1>2. CASE ~(v.lock > 0)
  <2>1. w = Change(kept, dontLoad) /\ dontLoad \in BOOLEAN
    BY <1>2 DEF Update
  <2>2. n \in 0..(MaxLen + 1) \/ n < 0
    OBVIOUS
  <2>3. /\ sized \in Grids /\ Inside(sized) /\ InStep(sized)
        /\ sized.pagesize = v.pagesize /\ sized.len = (IF n < 0 THEN v.len ELSE n)
    <3>1. CASE refresh
      <4>1. n \in 0..(MaxLen + 1) /\ sized = SetLen(v, n)
        BY <2>2, <3>1
      <4>. HIDE DEF sized
      <4>2. /\ sized \in Grids /\ Inside(sized) /\ InStep(sized)
            /\ sized.pagesize = v.pagesize /\ sized.len = n
        BY <1>0, <4>1, SetLenFacts
      <4>. QED  BY <3>1, <4>1, <4>2
    <3>2. CASE ~refresh
      BY <1>0, <2>2, <3>2
    <3>. QED  BY <3>1, <3>2
  <2>. HIDE DEF sized
  <2>4. /\ kept \in Grids /\ Inside(kept) /\ InStep(kept)
        /\ kept.pagesize = v.pagesize /\ kept.len = (IF n < 0 THEN v.len ELSE n)
    <3>1. CASE inv
      <4>1. kept = Clear(sized)
        BY <3>1
      <4>. HIDE DEF kept
      <4>2. /\ kept \in Grids /\ InStep(kept)
            /\ kept.len = sized.len /\ kept.high = sized.high /\ kept.top = sized.top
            /\ kept.pagesize = sized.pagesize
        BY <2>3, <4>1, ClearFacts
      <4>3. Inside(kept)
        BY <2>3, <4>2 DEF Inside, LastTop
      <4>. QED  BY <2>3, <4>2, <4>3
    <3>2. CASE ~inv
      BY <2>3, <3>2
    <3>. QED  BY <3>1, <3>2
  <2>. HIDE DEF kept
  <2>5. dontLoad => kept.len = 0
    BY <2>4
  <2>. HIDE DEF w, dontLoad
  <2>6. /\ w \in Grids /\ Inside(w) /\ Placed(w)
        /\ w.len = kept.len /\ w.pagesize = kept.pagesize /\ w.pages = kept.pages
        /\ w.cachelist = kept.cachelist /\ (~dontLoad => w.timer)
    BY <2>1, <2>4, ChangeFacts
  <2>7. InStep(w)
    BY <2>4, <2>6 DEF InStep
  <2>8. w.timer \/ w.len = 0
    BY <2>5, <2>6
  <2>. QED  BY <2>4, <2>6, <2>7, <2>8 DEF w, GridOk
<1>. QED  BY <1>1, <1>2

----------------------------------------------------------------------------
(* TinyGrid: loading.                                                      *)

\* Each row of the view is in the cache, or on a page that was overlooked.
Shows(v) ==
    v.pagesize > 0 /\
        \A r \in v.from .. v.to - 1 :
            LET p == r \div v.pagesize
            IN  /\ v.pages[p] # None
                /\ \/ r % v.pagesize < v.pages[p]
                   \/ v.to % v.pagesize = 0 /\ p = v.to \div v.pagesize - 1

\* Before it loads a grid has pages of a length, and keeps those of that length.
LEMMA EnlargedFacts ==
    ASSUME NEW v, GridOk(v)
    PROVE  LET w == Enlarged(v) IN
           GridOk(w) /\ w.pagesize > 0 /\ w.len = v.len
<1>. DEFINE c == Clear(v)
            w == Enlarged(v)
<1>0. v \in Grids /\ Inside(v) /\ Placed(v) /\ InStep(v)
      /\ v.want \in PageSizes /\ v.want \in Nat /\ v.want >= 4 /\ v.pagesize \in Nat
  BY GridTypes DEF GridOk
<1>1. CASE v.pagesize < v.want
  <2>1. w = [c EXCEPT !.pagesize = v.want]
    BY <1>1 DEF Enlarged
  <2>2. /\ c \in Grids /\ InStep(c)
        /\ c.len = v.len /\ c.from = v.from /\ c.to = v.to /\ c.high = v.high /\ c.top = v.top
    BY <1>0, ClearFacts
  <2>. HIDE DEF c, w
  <2>3. w \in Grids
    BY <1>0, <2>1, <2>2 DEF Grids
  <2>4. /\ w.len = c.len /\ w.from = c.from /\ w.to = c.to /\ w.high = c.high
        /\ w.top = c.top /\ w.pagesize = v.want /\ w.pages = c.pages
        /\ w.cachelist = c.cachelist
    BY <2>1, <2>2 DEF Grids
  <2>5. Inside(w) /\ Placed(w) /\ InStep(w)
    BY <1>0, <2>2, <2>4 DEF Inside, LastTop, Placed, InStep
  <2>. QED  BY <1>0, <2>2, <2>3, <2>4, <2>5 DEF w, GridOk
<1>2. CASE ~(v.pagesize < v.want)
  <2>1. w = v
    BY <1>2 DEF Enlarged
  <2>. HIDE DEF w
  <2>2. v.pagesize > 0
    BY <1>0, <1>2
  <2>. QED  BY <2>1, <2>2 DEF w
<1>. QED  BY <1>1, <1>2

\* A page of which a list has rows has a number.
LEMMA PageNumbers ==
    ASSUME NEW n \in 0..(MaxLen + 1), NEW b \in Nat \ {0}, b >= 4
    PROVE  /\ \A p \in Nat : p < CeilDiv(n, b) => p \in PageNos
           /\ n <= MaxLen => CeilDiv(n, b) <= CeilDiv(MaxLen, 4)
<1>0. MaxLen \in Nat /\ n \in Nat /\ CeilDiv(MaxLen, 4) \in Nat /\ CeilDiv(n, b) \in Nat
  BY Constants, CeilDivMore
<1>1. \A p \in Nat : b * p >= 4 * p /\ b * p \in Nat
  <2>. TAKE p \in Nat
  <2>1. PICK k \in Nat : b = 4 + k
    <3>. WITNESS b - 4 \in Nat
    <3>. QED  OBVIOUS
  <2>2. b * p = 4 * p + k * p /\ k * p >= 0 /\ k * p \in Nat
    BY <2>1
  <2>. QED  BY <2>2
<1>2. ASSUME NEW p \in Nat, p < CeilDiv(n, b)  PROVE p \in PageNos
  <2>1. b * p < n
    BY <1>0, <1>2, CeilDivMore
  <2>2. 4 * (p - 1) < MaxLen
    BY <1>0, <1>1, <2>1
  <2>3. p - 1 < CeilDiv(MaxLen, 4)
    BY <1>0, <2>2, CeilDivMore
  <2>. QED  BY <1>0, <2>3 DEF PageNos
<1>3. ASSUME n <= MaxLen, CeilDiv(MaxLen, 4) < CeilDiv(n, b)  PROVE FALSE
  <2>. DEFINE c == CeilDiv(MaxLen, 4)
  <2>1. b * c < n
    BY <1>0, <1>3, CeilDivMore
  <2>2. 4 * c < MaxLen
    BY <1>0, <1>1, <1>3, <2>1
  <2>3. c < c
    BY <1>0, <2>2, CeilDivMore
  <2>. QED  BY <1>0, <2>3
<1>. QED  BY <1>0, <1>2, <1>3

\* The first and the last page of the view.
LEMMA ViewPages ==
    ASSUME NEW v, GridOk(v), v.pagesize > 0, v.len > 0
    PROVE  LET s == v.from \div v.pagesize
               e == CeilDiv(v.to, v.pagesize) IN
           /\ s \in Nat /\ e \in Nat /\ s <= e - 1 /\ e - 1 \in PageNos
           /\ \A r \in v.from .. v.to - 1 :
                  r \div v.pagesize \in Int /\ s <= r \div v.pagesize
                  /\ r \div v.pagesize <= e - 1
<1>. DEFINE b == v.pagesize
            s == v.from \div b
            e == CeilDiv(v.to, b)
<1>0. /\ v.from \in Nat /\ v.to \in Nat /\ v.from < v.to /\ v.to \in 0..(MaxLen + 1)
      /\ b \in Nat \ {0} /\ b >= 4
  <2>1. v \in Grids /\ Placed(v)
    BY DEF GridOk
  <2>2. v.pagesize \in PageSizes
    BY <2>1, GridTypes
  <2>. QED  BY <2>1, <2>2, GridTypes, Constants DEF Placed
<1>. HIDE DEF b
<1>1. s \in Nat
  BY <1>0, DivNat
<1>2. e \in Nat /\ \A c \in Int : c < e <=> b * c < v.to
  BY <1>0, CeilDivMore
<1>3. ASSUME NEW r \in v.from .. v.to - 1
      PROVE  r \div b \in Int /\ s <= r \div b /\ r \div b <= e - 1
  <2>1. r \in Nat /\ v.from <= r /\ r < v.to
    BY <1>0
  <2>2. r \div b \in Int /\ b * (r \div b) <= r
    BY <1>0, <2>1, DivLeast, DivMod
  <2>3. b * s <= v.from
    BY <1>0, <1>1, DivLeast
  <2>4. s <= r \div b
    <3>1. b * s <= r
      BY <1>0, <1>1, <2>1, <2>3
    <3>. QED  BY <1>0, <1>1, <2>1, <3>1, DivLeast
  <2>5. r \div b < e
    <3>1. b * (r \div b) < v.to
      BY <1>0, <2>1, <2>2
    <3>. QED  BY <1>2, <2>2, <3>1
  <2>. QED  BY <1>2, <2>2, <2>4, <2>5
<1>4. s <= e - 1
  <2>1. v.from \in v.from .. v.to - 1
    BY <1>0
  <2>. QED  BY <1>3, <2>1
<1>5. e - 1 \in PageNos
  BY <1>0, <1>1, <1>2, <1>4, PageNumbers
<1>. QED  BY <1>1, <1>2, <1>3, <1>4, <1>5 DEF b

\* What is asked for, if anything, is a range of pages.
LEMMA MissingRange ==
    ASSUME NEW v, GridOk(v), v.pagesize > 0
    PROVE  Missing(v) = None \/ Missing(v) \in Nat \X Nat
<1>. DEFINE s == v.from \div v.pagesize
            e == CeilDiv(v.to, v.pagesize)
            s2 == IF FirstLoaded(v, s) THEN s + 1 ELSE s
            e2 == IF LastLoaded(v, e) THEN e - 1 ELSE e
<1>1. s \in Nat /\ e \in Nat
  <2>1. v \in Grids
    BY DEF GridOk
  <2>2. v.from \in Nat /\ v.to \in Nat /\ v.pagesize \in Nat \ {0}
    BY <2>1, GridTypes
  <2>. QED  BY <2>2, DivNat, CeilDivMore
<1>2. v.len > 0 => s <= e - 1
  BY ViewPages
<1>3. v \in Grids /\ v.len \in Nat
  BY GridTypes DEF GridOk
<1>4. Missing(v) = IF v.len = 0 THEN <<s, e>>
                   ELSE IF s = e - 1 THEN IF LastLoaded(v, e) THEN None ELSE <<s, e>>
                   ELSE IF s2 >= e2 THEN None ELSE <<s2, e2>>
  BY DEF Missing
<1>. HIDE DEF s, e
<1>5. s2 \in Nat /\ (v.len > 0 => e2 \in Nat)
  BY <1>1, <1>2
<1>. HIDE DEF s2, e2
<1>. QED  BY <1>1, <1>3, <1>4, <1>5

\* When nothing is asked for, the view is shown: it has two pages at most, the
\* first is whole, and the last as long as the view needs it.
LEMMA MissingNone ==
    ASSUME NEW v, GridOk(v), v.pagesize > 0, v.len > 0, Missing(v) = None
    PROVE  Shows(v)
<1>. DEFINE b == v.pagesize
            s == v.from \div b
            e == CeilDiv(v.to, b)
            s2 == IF FirstLoaded(v, s) THEN s + 1 ELSE s
            e2 == IF LastLoaded(v, e) THEN e - 1 ELSE e
<1>0. /\ v \in Grids /\ v.to \in Nat /\ v.from \in Nat /\ b \in Nat \ {0} /\ v.from < v.to
      /\ v.pages \in [PageNos -> Pages \union {None}]
  <2>1. v \in Grids /\ Placed(v)
    BY DEF GridOk
  <2>. QED  BY <2>1, GridTypes DEF Placed
<1>1. /\ s \in Nat /\ e \in Nat /\ s <= e - 1 /\ e - 1 \in PageNos
      /\ \A r \in v.from .. v.to - 1 : r \div b \in Int /\ s <= r \div b /\ r \div b <= e - 1
  BY ViewPages
<1>2. None # <<s, e>> /\ (s2 \in Nat /\ e2 \in Nat => None # <<s2, e2>>)
  BY <1>1, NoneInGrid
<1>3. s2 \in Nat /\ e2 \in Nat
  BY <1>1
<1>4. IF s = e - 1 THEN LastLoaded(v, e) ELSE s2 >= e2
  BY <1>1, <1>2, <1>3 DEF Missing
<1>5. ASSUME NEW r \in v.from .. v.to - 1, r \div b = e - 1, LastLoaded(v, e)
      PROVE  /\ v.pages[e - 1] # None
             /\ r % b < v.pages[e - 1] \/ (v.to % b = 0 /\ e - 1 = v.to \div b - 1)
  <2>. DEFINE p == v.pages[e - 1]
              m == v.to % b
              q == v.to \div b
  <2>1. p # None /\ (p = b \/ p >= m)
    BY <1>5 DEF LastLoaded
  <2>2. p \in Nat
    BY <1>0, <1>1, <2>1, Constants
  <2>3. r \in Nat /\ r < v.to
    BY <1>0
  <2>4. r = b * (e - 1) + (r % b) /\ r % b \in 0 .. b - 1
    <3>1. r \in Int /\ r \div b = e - 1
      BY <1>5, <2>3
    <3>2. r = b * (r \div b) + (r % b) /\ r % b \in 0 .. b - 1
      BY ONLY <1>0, <3>1, DivMod
    <3>. QED  BY <3>1, <3>2
  <2>5. v.to = b * q + m /\ m \in 0 .. b - 1 /\ q \in Int
    <3>1. v.to \in Int
      BY <1>0
    <3>. QED  BY ONLY <1>0, <3>1, DivMod
  <2>6. CASE p = b
    BY <1>0, <2>1, <2>4, <2>6
  <2>7. CASE p >= m /\ m = 0
    <3>1. \A c \in Int : c < e <=> b * c < v.to
      BY <1>0, CeilDivMore
    <3>2. b * q = v.to
      BY <1>0, <2>5, <2>7
    <3>3. ~(q < e)
      BY <1>0, <2>5, <3>1, <3>2
    <3>4. q - 1 < e
      <4>1. b * (q - 1) < v.to
        <5>1. b * (q - 1) + b <= b * q
          BY <1>0, <2>5, Multiples
        <5>2. b * (q - 1) \in Int
          BY <1>0, <2>5
        <5>. QED  BY <1>0, <3>2, <5>1, <5>2
      <4>. QED  BY <2>5, <3>1, <4>1
    <3>5. e - 1 = q - 1
      BY <1>1, <2>5, <3>3, <3>4
    <3>. QED  BY <2>1, <2>7, <3>5
  <2>8. CASE p >= m /\ m > 0
    <3>. DEFINE f == r % b
    <3>1. e - 1 = q
      <4>1. \A c \in Int : c < e <=> b * c < v.to
        BY <1>0, CeilDivMore
      <4>2. b * q < v.to
        <5>1. b * q \in Int
          BY <1>0, <2>5
        <5>. QED  BY <1>0, <2>5, <2>8, <5>1
      <4>3. q < e
        BY <2>5, <4>1, <4>2
      <4>4. ~(q + 1 < e)
        <5>1. b * (q + 1) = b * q + b /\ b * q \in Int
          BY <1>0, <2>5
        <5>2. ~(b * (q + 1) < v.to)
          BY <1>0, <2>5, <5>1
        <5>. QED  BY <2>5, <4>1, <5>2
      <4>. QED  BY <1>1, <2>5, <4>3, <4>4
    <3>2. f < m
      <4>1. r = b * q + f /\ b * q \in Int /\ f \in Int
        BY <1>0, <2>4, <2>5, <3>1
      <4>. HIDE DEF f, m, q
      <4>. QED  BY <1>0, <2>3, <2>5, <4>1
    <3>. HIDE DEF m, p
    <3>3. f < p
      BY <2>2, <2>4, <2>5, <2>8, <3>2
    <3>. QED  BY <2>1, <3>3 DEF p, f
  <2>9. (p = b) \/ (p >= m /\ m = 0) \/ (p >= m /\ m > 0)
    BY <2>1, <2>5
  <2>. QED  BY <2>6, <2>7, <2>8, <2>9
<1>6. ASSUME NEW r \in v.from .. v.to - 1, r \div b = s, FirstLoaded(v, s)
      PROVE  v.pages[s] # None /\ r % b < v.pages[s]
  <2>1. v.pages[s] # None /\ v.pages[s] = b
    BY <1>6 DEF FirstLoaded
  <2>2. r % b < b
    BY <1>0, DivMod
  <2>. QED  BY <2>1, <2>2
<1>7. ASSUME NEW r \in v.from .. v.to - 1
      PROVE  LET p == r \div b IN
             /\ v.pages[p] # None
             /\ r % b < v.pages[p] \/ (v.to % b = 0 /\ p = v.to \div b - 1)
  <2>1. r \div b \in Int /\ s <= r \div b /\ r \div b <= e - 1
    BY <1>1
  <2>. HIDE DEF s, e
  <2>2. CASE s = e - 1
    <3>1. r \div b = e - 1 /\ LastLoaded(v, e)
      BY <1>1, <1>4, <2>1, <2>2
    <3>. QED  BY <1>5, <3>1
  <2>3. CASE s # e - 1
    <3>1. FirstLoaded(v, s) /\ LastLoaded(v, e) /\ (r \div b = s \/ r \div b = e - 1)
      BY <1>1, <1>4, <2>1, <2>3
    <3>. QED  BY <1>5, <1>6, <3>1
  <2>. QED  BY <2>2, <2>3
<1>. QED  BY <1>7 DEF Shows

\* The new list of pages: those that were asked for are in it, and none twice.
LEMMA CachedFacts ==
    ASSUME NEW v \in Grids, IsInjective(v.cachelist), NEW r, r.s \in Nat, r.e \in Nat,
           v.pagesize > 0,
           NEW max \in Nat, \A p \in Nat : p < max => p \in PageNos
    PROVE  LET order == Cached(v, r, max) IN
           /\ order \in Seq(PageNos) /\ IsInjective(order)
           /\ ToSet(Asked(v, r, max)) \subseteq ToSet(order)
<1>. DEFINE asked == Asked(v, r, max)
            seen == Seen(v, max)
            live == Live(v, max)
            kept == Sifted(seen, live \ ToSet(asked))
            gone == ToSet(seen) \union ToSet(asked)
            rest == Sifted(v.cachelist, live \ gone)
            others == Others(v, ToSet(seen), ToSet(asked), max)
            order == Cached(v, r, max)
<1>0. /\ v.from \in Nat /\ v.to \in Nat /\ v.pagesize \in Nat \ {0}
      /\ v.cachelist \in Seq(PageNos) /\ MaxPage \in Nat
  BY GridTypes, Constants
<1>1. asked \in Seq(PageNos) /\ IsInjective(asked)
  <2>. DEFINE e == Smaller(r.e, max)
  <2>1. e \in Int /\ e <= max
    BY DEF Smaller
  <2>2. \A p \in r.s .. e - 1 : p \in PageNos
    BY <2>1
  <2>3. asked = Upto(r.s, e)
    BY DEF Asked
  <2>. HIDE DEF e, asked
  <2>. QED  BY <2>1, <2>2, <2>3, UptoFacts
<1>2. seen \in Seq(PageNos) /\ IsInjective(seen)
  <2>. DEFINE s == v.from \div v.pagesize
              e == Smaller(CeilDiv(v.to, v.pagesize), max)
  <2>1. s \in Nat
    BY <1>0, DivNat
  <2>2. CeilDiv(v.to, v.pagesize) \in Nat
    BY <1>0, CeilDivMore
  <2>3. e \in Int /\ e <= max
    BY <2>2 DEF Smaller
  <2>4. seen = Upto(s, e)
    BY DEF Seen
  <2>. HIDE DEF s, e, seen
  <2>5. \A p \in s .. e - 1 : p \in PageNos
    BY <2>1, <2>3
  <2>. QED  BY <2>1, <2>3, <2>4, <2>5, UptoFacts
<1>. HIDE DEF asked, seen, live
<1>3. /\ kept \in Seq(PageNos) /\ IsInjective(kept)
      /\ ToSet(kept) \subseteq (live \ ToSet(asked)) \cap ToSet(seen)
  BY <1>2, SiftedFacts
<1>4. /\ rest \in Seq(PageNos) /\ IsInjective(rest)
      /\ ToSet(rest) \subseteq (live \ gone) \cap ToSet(v.cachelist)
  <2>. HIDE DEF gone
  <2>. QED  BY <1>0, SiftedFacts
<1>5. others = SubSeq(rest, 1, Smaller(MaxPage, Len(rest)))
  BY DEF Others, live
<1>6. order = Reverse(kept) \o asked \o others
  BY DEF Cached, asked, seen, live
<1>. HIDE DEF kept, rest, others, order
<1>7. /\ others \in Seq(PageNos) /\ IsInjective(others)
      /\ ToSet(others) \subseteq ToSet(rest)
  <2>1. Len(rest) \in Nat
    BY <1>4, LenProperties
  <2>2. Smaller(MaxPage, Len(rest)) \in 0 .. Len(rest)
    BY <1>0, <2>1 DEF Smaller
  <2>. QED  BY <1>4, <1>5, <2>2, FirstFacts
<1>8. /\ Reverse(kept) \in Seq(PageNos) /\ IsInjective(Reverse(kept))
      /\ ToSet(Reverse(kept)) \subseteq ToSet(kept)
  BY <1>3, ReverseFacts
<1>9. /\ ToSet(Reverse(kept)) \cap ToSet(asked) = {}
      /\ ToSet(Reverse(kept)) \cap ToSet(others) = {}
      /\ ToSet(asked) \cap ToSet(others) = {}
  BY <1>3, <1>4, <1>7, <1>8
<1>. DEFINE front == Reverse(kept) \o asked
<1>10. /\ front \in Seq(PageNos) /\ IsInjective(front)
       /\ ToSet(front) = ToSet(Reverse(kept)) \union ToSet(asked)
  BY <1>1, <1>8, <1>9, ConcatFacts
<1>11. order = front \o others
  BY <1>6
<1>. HIDE DEF front
<1>12. ToSet(front) \cap ToSet(others) = {}
  BY <1>9, <1>10
<1>13. /\ order \in Seq(PageNos) /\ IsInjective(order)
       /\ ToSet(order) = ToSet(front) \union ToSet(others)
  BY <1>7, <1>10, <1>11, <1>12, ConcatFacts
<1>14. ToSet(asked) \subseteq ToSet(order)
  BY <1>10, <1>13
<1>. QED  BY <1>13, <1>14 DEF order, asked

\* Merging puts the pages in step with the new list.
LEMMA MergeFacts ==
    ASSUME NEW v, GridOk(v), NEW r, \A p \in PageNos : PageOf(r, p) \in Pages,
           NEW order \in Seq(PageNos), IsInjective(order), NEW asked, asked \subseteq ToSet(order)
    PROVE  LET w == Merge(v, r, order, asked) IN
           GridOk(w) /\ w.pagesize = v.pagesize
<1>. DEFINE pages == [p \in PageNos |-> IF p \in asked THEN PageOf(r, p)
                                        ELSE IF p \in ToSet(order) THEN v.pages[p] ELSE None]
            w == Merge(v, r, order, asked)
<1>0. v \in Grids /\ Inside(v) /\ Placed(v) /\ v.pages \in [PageNos -> Pages \union {None}]
  BY GridTypes DEF GridOk
<1>1. pages \in [PageNos -> Pages \union {None}]
      /\ \A p \in PageNos : pages[p] # None => p \in ToSet(order)
  BY <1>0
<1>2. w = [v EXCEPT !.cachelist = order, !.pages = pages]
  BY DEF Merge
<1>. HIDE DEF pages, w
<1>3. w \in Grids
  BY <1>0, <1>1, <1>2 DEF Grids
<1>4. /\ w.len = v.len /\ w.from = v.from /\ w.to = v.to /\ w.high = v.high
      /\ w.top = v.top /\ w.pagesize = v.pagesize /\ w.pages = pages /\ w.cachelist = order
  BY <1>0, <1>2 DEF Grids
<1>5. Inside(w) /\ Placed(w) /\ InStep(w)
  BY <1>0, <1>1, <1>4 DEF Inside, LastTop, Placed, InStep
<1>. QED  BY <1>3, <1>4, <1>5 DEF w, GridOk

----------------------------------------------------------------------------
(* TinyGrid: the inductive invariant.                                      *)

\* A load that is out is for pages of the length that the grid's pages have, and
\* the server reads the rows before it reads the length of the list.
LoadSized ==
    req # None /\ req.kind = "load" =>
        g.pagesize > 0 /\ req.size = g.pagesize /\ (req.len # None => req.rows # None)

\* Nothing will load again by itself: no timer, no scrolling to hear of, no load
\* out, nothing put off by the lock.  A seek may be out: it loads nothing.
Resting ==
    ~g.timer /\ ~g.scrolled /\ (req = None \/ req.kind = "seek") /\ g.lock < 2

\* The inductive invariant: a grid that rests shows all its view, unless a load
\* was given up or its list is empty.
GridIInv ==
    /\ TypeOK /\ GridOk(g) /\ LoadSized
    /\ Resting /\ ~lost /\ g.len > 0 => Shows(g)

\* The invariant gives what was wanted.
LEMMA GridIInvImplies == GridIInv => TypeOK /\ IdleShowsAll /\ CacheInStep
<1>. SUFFICES ASSUME GridIInv  PROVE TypeOK /\ IdleShowsAll /\ CacheInStep
  OBVIOUS
<1>1. TypeOK /\ CacheInStep
  BY DEF GridIInv, GridOk, InStep, CacheInStep
<1>2. IdleShowsAll
  <2>. SUFFICES ASSUME ~Due, ~lost, g.len > 0
                PROVE  g.pagesize > 0 /\
                       \A r \in g.from .. g.to - 1 :
                           LET p == r \div g.pagesize
                           IN  /\ g.pages[p] # None
                               /\ r % g.pagesize < g.pages[p] \/ Overlooked(p)
    BY DEF IdleShowsAll
  <2>1. Resting
    <3>1. g.lock \in 0..2
      BY GridTypes DEF GridIInv, GridOk
    <3>. QED  BY <3>1 DEF Resting, Due
  <2>2. Shows(g)
    BY <2>1 DEF GridIInv
  <2>. QED  BY <2>2 DEF Shows, Overlooked
<1>. QED  BY <1>1, <1>2

\* The first grid is empty, or its timer runs.
LEMMA GridInit == Init => GridIInv
<1>. SUFFICES ASSUME Init  PROVE GridIInv
  OBVIOUS
<1>1. PICK n \in {0, 1}, h \in Heights :
        g = Change([len |-> n, from |-> 0, to |-> 0, top |-> 0,
                    scrolled |-> FALSE, high |-> h, want |-> 2 * NumRows(h), pagesize |-> 0,
                    pages |-> NoPages, cachelist |-> <<>>, timer |-> FALSE, lock |-> 0],
                   n = 0)
  BY DEF Init
<1>. DEFINE v == [len |-> n, from |-> 0, to |-> 0, top |-> 0,
                  scrolled |-> FALSE, high |-> h, want |-> 2 * NumRows(h), pagesize |-> 0,
                  pages |-> NoPages, cachelist |-> <<>>, timer |-> FALSE, lock |-> 0]
            d == n = 0
<1>2. srv \in Lens /\ req = None /\ lost = FALSE
  BY DEF Init
<1>3. v \in Grids /\ Inside(v) /\ InStep(v) /\ v.len = n
  <2>1. NoPages \in [PageNos -> Pages \union {None}] /\ <<>> \in Seq(PageNos)
        /\ \A p \in PageNos : NoPages[p] = None
    BY DEF NoPages
  <2>2. n \in 0..(MaxLen + 1) /\ 2 * NumRows(h) \in PageSizes /\ n \in Nat /\ h \in Nat
    BY Constants
  <2>3. v \in Grids
    BY <2>1, <2>2 DEF Grids
  <2>4. Inside(v)
    BY <2>2 DEF Inside, LastTop
  <2>5. InStep(v)
    <3>1. IsInjective(<<>>)
      BY DEF IsInjective
    <3>2. {p \in PageNos : v.pages[p] # None} = {}
      BY <2>1
    <3>. QED  BY <3>1, <3>2 DEF InStep
  <2>. QED  BY <2>3, <2>4, <2>5
<1>4. g = Change(v, d) /\ d \in BOOLEAN
  BY <1>1
<1>5. d => v.len = 0
  BY <1>3
<1>. HIDE DEF v, d
<1>6. /\ g \in Grids /\ Inside(g) /\ Placed(g)
      /\ g.len = v.len /\ g.pages = v.pages /\ g.cachelist = v.cachelist
      /\ ~d => g.timer
  BY <1>3, <1>4, ChangeFacts
<1>7. GridOk(g)
  BY <1>3, <1>6 DEF GridOk, InStep
<1>8. TypeOK
  BY <1>2, <1>6 DEF TypeOK
<1>9. LoadSized
  BY <1>2 DEF LoadSized
<1>10. ~(Resting /\ ~lost /\ g.len > 0)
  BY <1>5, <1>6 DEF Resting
<1>. QED  BY <1>7, <1>8, <1>9, <1>10 DEF GridIInv

----------------------------------------------------------------------------
(* TinyGrid: the steps.                                                    *)

\* A step that leaves the grid in order and not at rest, or showing what it did,
\* keeps the invariant.
LEMMA StepFacts ==
    ASSUME GridIInv, srv' \in Lens, req' = None \/ req' \in Requests, lost' \in BOOLEAN,
           GridOk(g'), LoadSized',
           (Resting /\ ~lost /\ g.len > 0)' => Shows(g')
    PROVE  GridIInv'
  BY DEF GridIInv, TypeOK, GridOk

\* A grid that is in order and not at rest, or empty, keeps the invariant.
LEMMA BusyStep ==
    ASSUME GridIInv, srv' = srv, req' = req, lost' = lost,
           GridOk(g'), g'.pagesize = g.pagesize,
           g'.lock = 2 \/ g'.timer \/ g'.len = 0
    PROVE  GridIInv'
<1>1. ~(Resting /\ ~lost /\ g.len > 0)'
  BY DEF Resting
<1>2. LoadSized'
  BY DEF GridIInv, LoadSized
<1>. QED  BY <1>1, <1>2, StepFacts DEF GridIInv, TypeOK

\* A grid in which only the lock differs is in order, and shows the same.
LEMMA LockFacts ==
    ASSUME NEW v, GridOk(v), NEW l \in 0..2
    PROVE  LET w == [v EXCEPT !.lock = l] IN
           /\ GridOk(w) /\ w.pagesize = v.pagesize /\ w.timer = v.timer
           /\ w.scrolled = v.scrolled /\ w.len = v.len /\ w.lock = l
           /\ Shows(v) => Shows(w)
<1>. DEFINE w == [v EXCEPT !.lock = l]
<1>1. w \in Grids
  BY DEF GridOk, Grids
<1>2. /\ w.len = v.len /\ w.from = v.from /\ w.to = v.to /\ w.high = v.high
      /\ w.top = v.top /\ w.pagesize = v.pagesize /\ w.pages = v.pages
      /\ w.cachelist = v.cachelist /\ w.timer = v.timer /\ w.scrolled = v.scrolled
      /\ w.lock = l
  BY DEF GridOk, Grids
<1>. HIDE DEF w
<1>3. Inside(w) /\ Placed(w) /\ InStep(w)
  BY <1>2 DEF GridOk, Inside, LastTop, Placed, InStep
<1>4. Shows(v) => Shows(w)
  BY <1>2 DEF Shows
<1>. QED  BY <1>1, <1>2, <1>3, <1>4 DEF w, GridOk

\* The user scrolls.
LEMMA ScrollBarStep ==
    ASSUME GridIInv, NEW t \in Tops, ScrollBar(t)  PROVE GridIInv'
<1>1. /\ g' = ScrollTo(g, t) /\ g' # g /\ UNCHANGED <<srv, req, lost>> /\ t \in Nat
      /\ g \in Grids
  BY Constants DEF ScrollBar, GridIInv, GridOk
<1>2. /\ g' \in Grids /\ Inside(g') /\ g'.scrolled
      /\ g'.len = g.len /\ g'.from = g.from /\ g'.to = g.to /\ g'.pages = g.pages
      /\ g'.cachelist = g.cachelist /\ g'.pagesize = g.pagesize
  BY <1>1, ScrollToFacts
<1>3. GridOk(g')
  BY <1>2 DEF GridIInv, GridOk, Placed, InStep
<1>4. LoadSized' /\ ~Resting'
  BY <1>1, <1>2 DEF GridIInv, LoadSized, Resting
<1>. QED  BY <1>1, <1>3, <1>4, StepFacts DEF GridIInv, TypeOK

\* The page asks for other rows, or for the same again.
LEMMA AskStep ==
    ASSUME GridIInv, NEW n \in {-1, 0, 1}, Ask(n)  PROVE GridIInv'
<1>1. n \in -1..(MaxLen + 1)
  BY Constants
<1>2. GridOk(g)
  BY DEF GridIInv
<1>3. g' = Update(g, n, TRUE, TRUE, FALSE) /\ UNCHANGED <<srv, req, lost>>
  BY DEF Ask
<1>4. TRUE \in BOOLEAN /\ FALSE \in BOOLEAN
  OBVIOUS
<1>5. /\ GridOk(g') /\ g'.pagesize = g.pagesize
      /\ g'.lock = 2 \/ g'.timer \/ g'.len = 0
  BY <1>1, <1>2, <1>3, <1>4, ForcedUpdate, Zenon
<1>6. UNCHANGED <<srv, req, lost>>
  BY DEF Ask
<1>. QED  BY <1>5, <1>6, BusyStep

\* A row is sought: a load that is out is given up.
LEMMA SeekStep == ASSUME GridIInv, Seek  PROVE GridIInv'
<1>1. /\ req' = [kind |-> "seek"] /\ lost' = (lost \/ (req # None /\ req.kind = "load"))
      /\ srv' = srv /\ g' = g
  BY DEF Seek
<1>2. req' \in Requests /\ req'.kind = "seek"
  BY <1>1 DEF Requests
<1>3. req = None \/ req \in Requests
  BY DEF GridIInv, TypeOK
<1>4. req # None => req.kind \in {"load", "seek"}
  BY <1>3 DEF Requests
<1>5. (Resting /\ ~lost /\ g.len > 0)' => Resting /\ ~lost /\ g.len > 0
  BY <1>1, <1>4 DEF Resting
<1>6. LoadSized'
  BY <1>2 DEF LoadSized
<1>. QED  BY <1>1, <1>2, <1>5, <1>6, StepFacts DEF GridIInv, TypeOK

\* A cell is edited.
LEMMA EditStep == ASSUME GridIInv, Edit  PROVE GridIInv'
<1>1. g' = [g EXCEPT !.lock = 1] /\ UNCHANGED <<srv, req, lost>> /\ g.lock = 0 /\ GridOk(g)
  BY DEF Edit, GridIInv
<1>2. /\ GridOk(g') /\ g'.pagesize = g.pagesize /\ g'.timer = g.timer
      /\ g'.scrolled = g.scrolled /\ g'.len = g.len
      /\ Shows(g) => Shows(g')
  <2>1. 1 \in 0..2
    OBVIOUS
  <2>. QED  BY ONLY <1>1, <2>1, LockFacts
<1>3. (Resting /\ ~lost /\ g.len > 0)' => Resting /\ ~lost /\ g.len > 0
  BY <1>1, <1>2 DEF Resting
<1>4. LoadSized'
  BY <1>1, <1>2 DEF GridIInv, LoadSized
<1>. QED  BY <1>1, <1>2, <1>3, <1>4, StepFacts DEF GridIInv, TypeOK

\* The editor is left: what was put off is loaded.
LEMMA LeaveStep == ASSUME GridIInv, Leave  PROVE GridIInv'
<1>. DEFINE v == [g EXCEPT !.lock = 0]
<1>1. /\ UNCHANGED <<srv, req, lost>> /\ g.lock > 0 /\ GridOk(g)
      /\ g' = IF g.lock > 1 THEN Update(v, -1, TRUE, TRUE, FALSE) ELSE v
  BY DEF Leave, GridIInv
<1>2. /\ GridOk(v) /\ v.pagesize = g.pagesize /\ v.timer = g.timer
      /\ v.scrolled = g.scrolled /\ v.len = g.len /\ v.lock = 0
      /\ Shows(g) => Shows(v)
  <2>1. 0 \in 0..2
    OBVIOUS
  <2>. QED  BY ONLY <1>1, <2>1, LockFacts
<1>. HIDE DEF v
<1>3. CASE g.lock > 1
  <2>1. -1 \in -1..(MaxLen + 1)
    BY Constants
  <2>2. g' = Update(v, -1, TRUE, TRUE, FALSE)
    BY <1>1, <1>3
  <2>3. TRUE \in BOOLEAN /\ FALSE \in BOOLEAN
    OBVIOUS
  <2>4. /\ GridOk(g') /\ g'.pagesize = g.pagesize
        /\ g'.lock = 2 \/ g'.timer \/ g'.len = 0
    BY <1>2, <2>1, <2>2, <2>3, ForcedUpdate, Zenon
  <2>5. UNCHANGED <<srv, req, lost>>
    BY DEF Leave
  <2>. QED  BY <2>4, <2>5, BusyStep
<1>4. CASE ~(g.lock > 1)
  <2>1. g' = v
    BY <1>1, <1>4
  <2>2. (Resting /\ ~lost /\ g.len > 0)' => Resting /\ ~lost /\ g.len > 0
    <3>1. g.lock < 2
      <4>1. g.lock \in 0..2
        BY <1>1, GridTypes DEF GridOk
      <4>. QED  BY <1>4, <4>1
    <3>. QED  BY <1>1, <1>2, <2>1, <3>1 DEF Resting
  <2>3. LoadSized'
    BY <1>1, <1>2, <2>1 DEF GridIInv, LoadSized
  <2>. QED  BY <1>1, <1>2, <2>1, <2>2, <2>3, StepFacts DEF GridIInv, TypeOK
<1>. QED  BY <1>3, <1>4

\* The window is resized.
LEMMA ResizeStep ==
    ASSUME GridIInv, NEW h \in Heights, Resize(h)  PROVE GridIInv'
<1>. DEFINE u == [g EXCEPT !.high = h]
            v == ScrollTo(u, g.top)
<1>1. UNCHANGED <<srv, req, lost>> /\ g' = Update(v, -1, TRUE, FALSE, TRUE)
  BY DEF Resize
<1>2. g \in Grids /\ Placed(g) /\ InStep(g) /\ g.top \in Nat
  BY GridTypes DEF GridIInv, GridOk
<1>3. u \in Grids
  BY <1>2 DEF Grids
<1>4. /\ u.len = g.len /\ u.from = g.from /\ u.to = g.to /\ u.pages = g.pages
      /\ u.cachelist = g.cachelist /\ u.pagesize = g.pagesize
  BY <1>2 DEF Grids
<1>. HIDE DEF u
<1>5. /\ v \in Grids /\ Inside(v)
      /\ v.len = u.len /\ v.from = u.from /\ v.to = u.to /\ v.pages = u.pages
      /\ v.cachelist = u.cachelist /\ v.pagesize = u.pagesize
  BY <1>2, <1>3, ScrollToFacts
<1>. HIDE DEF v
<1>6. GridOk(v) /\ v.pagesize = g.pagesize
  BY <1>2, <1>4, <1>5 DEF GridOk, Placed, InStep
<1>7. -1 \in -1..(MaxLen + 1)
  BY Constants
<1>8. TRUE \in BOOLEAN /\ FALSE \in BOOLEAN
  OBVIOUS
<1>9. /\ GridOk(g') /\ g'.pagesize = g.pagesize
      /\ g'.lock = 2 \/ g'.timer \/ g'.len = 0
  BY <1>1, <1>6, <1>7, <1>8, ForcedUpdate, Zenon
<1>10. UNCHANGED <<srv, req, lost>>
  BY DEF Resize
<1>. QED  BY <1>9, <1>10, BusyStep

\* The grid hears of the scrolling.
LEMMA ScrollEventStep == ASSUME GridIInv, ScrollEvent  PROVE GridIInv'
<1>. DEFINE v == [g EXCEPT !.scrolled = FALSE]
<1>1. UNCHANGED <<srv, req, lost>> /\ g' = Update(v, -1, TRUE, FALSE, FALSE) /\ GridOk(g)
  BY DEF ScrollEvent, GridIInv
<1>2. v \in Grids
  BY <1>1 DEF GridOk, Grids
<1>3. /\ v.len = g.len /\ v.from = g.from /\ v.to = g.to /\ v.pages = g.pages
      /\ v.cachelist = g.cachelist /\ v.pagesize = g.pagesize /\ v.top = g.top
      /\ v.high = g.high
  BY <1>1 DEF GridOk, Grids
<1>. HIDE DEF v
<1>4. GridOk(v)
  BY <1>1, <1>2, <1>3 DEF GridOk, Inside, LastTop, Placed, InStep
<1>5. -1 \in -1..(MaxLen + 1)
  BY Constants
<1>6. TRUE \in BOOLEAN /\ FALSE \in BOOLEAN
  OBVIOUS
<1>7. v.pagesize = g.pagesize
  BY <1>3
<1>8. /\ GridOk(g') /\ g'.pagesize = g.pagesize
      /\ g'.lock = 2 \/ g'.timer \/ g'.len = 0
  BY <1>1, <1>4, <1>5, <1>6, <1>7, ForcedUpdate, Zenon
<1>9. UNCHANGED <<srv, req, lost>>
  BY DEF ScrollEvent
<1>. QED  BY <1>8, <1>9, BusyStep

\* The timer fires: nothing is asked for only when the view is shown.
LEMMA LoadDataStep == ASSUME GridIInv, LoadData  PROVE GridIInv'
<1>. DEFINE u == [g EXCEPT !.timer = FALSE]
            v == Enlarged(u)
            m == Missing(v)
            load == [kind |-> "load", s |-> m[1], e |-> m[2], size |-> v.pagesize,
                     rows |-> None, len |-> None]
<1>1. GridOk(g) /\ srv' = srv /\ srv \in Lens /\ (req = None \/ req \in Requests)
      /\ lost \in BOOLEAN
  BY DEF LoadData, GridIInv, TypeOK
<1>2. u \in Grids
  BY <1>1 DEF GridOk, Grids
<1>3. /\ u.len = g.len /\ u.from = g.from /\ u.to = g.to /\ u.pages = g.pages
      /\ u.cachelist = g.cachelist /\ u.pagesize = g.pagesize /\ u.top = g.top
      /\ u.high = g.high
  BY <1>1 DEF GridOk, Grids
<1>4. \/ req # None /\ g' = u /\ lost' = (lost \/ req.kind = "seek") /\ req' = req
      \/ req = None /\ g' = v /\ req' = (IF m = None THEN None ELSE load) /\ lost' = FALSE
  BY DEF LoadData
<1>. HIDE DEF u
<1>5. GridOk(u)
  BY <1>1, <1>2, <1>3 DEF GridOk, Inside, LastTop, Placed, InStep
<1>6. GridOk(v) /\ v.pagesize > 0 /\ v.pagesize \in PageSizes
  <2>1. GridOk(v) /\ v.pagesize > 0
    BY <1>5, EnlargedFacts
  <2>. HIDE DEF v
  <2>2. v.pagesize \in PageSizes \union {0}
    BY <2>1, GridTypes DEF GridOk
  <2>. QED  BY <2>1, <2>2
<1>. HIDE DEF v
<1>7. m = None \/ m \in Nat \X Nat
  BY <1>6, MissingRange
<1>8. m = None /\ v.len > 0 => Shows(v)
  BY <1>6, MissingNone
<1>. HIDE DEF m
<1>9. CASE req # None /\ g' = u /\ lost' = (lost \/ req.kind = "seek") /\ req' = req
  <2>1. LoadSized'
    BY <1>3, <1>9 DEF GridIInv, LoadSized
  <2>2. ~(Resting /\ ~lost /\ g.len > 0)'
    BY <1>9 DEF Resting
  <2>. QED  BY <1>1, <1>5, <1>9, <2>1, <2>2, StepFacts
<1>10. CASE req = None /\ g' = v /\ req' = (IF m = None THEN None ELSE load) /\ lost' = FALSE
  <2>1. LoadSized'
    BY <1>6, <1>10 DEF LoadSized
  <2>2. CASE m = None
    <3>1. req' = None
      BY <1>10, <2>2
    <3>2. (Resting /\ ~lost /\ g.len > 0)' => Shows(g')
      BY <1>8, <1>10, <2>2
    <3>. QED  BY <1>1, <1>6, <1>10, <2>1, <3>1, <3>2, StepFacts
  <2>3. CASE m # None
    <3>1. req' = load /\ load \in Requests
      <4>1. m[1] \in Nat /\ m[2] \in Nat
        BY <1>7, <2>3
      <4>. QED  BY <1>6, <1>10, <2>3, <4>1 DEF Requests
    <3>2. req' # None /\ req'.kind = "load"
      BY <3>1, NoneInGrid
    <3>3. ~(Resting /\ ~lost /\ g.len > 0)'
      BY <3>2 DEF Resting
    <3>. QED  BY <1>1, <1>6, <1>10, <2>1, <3>1, <3>3, StepFacts
  <2>. QED  BY <2>2, <2>3
<1>. QED  BY <1>4, <1>9, <1>10

\* The rows of a page are no more than a page has.
LEMMA RowsOfPage ==
    ASSUME NEW n \in Nat, NEW size \in PageSizes, NEW p \in PageNos
    PROVE  RowsOf(p, n, size) \in Pages
<1>1. size \in Nat /\ size >= 4 /\ p \in Nat /\ \A m \in 0..size : m \in Pages
  BY Constants
<1>. DEFINE k == p * size
<1>2. k \in Int
  BY <1>1
<1>3. RowsOf(p, n, size) = IF k >= n THEN 0 ELSE Smaller(size, n - k)
  BY DEF RowsOf
<1>. HIDE DEF k
<1>4. RowsOf(p, n, size) \in 0..size
  BY <1>1, <1>2, <1>3 DEF Smaller
<1>. QED  BY <1>1, <1>4

\* A request for rows, its parts.
LEMMA LoadParts ==
    ASSUME GridIInv, req # None, req.kind = "load"
    PROVE  /\ req \in [kind : {"load"}, s : Nat, e : Nat, size : PageSizes,
                       rows : Lens \union {None}, len : Lens \union {None}]
           /\ g.pagesize \in PageSizes /\ req.size = g.pagesize
           /\ req.len # None => req.rows # None
<1>1. req \in Requests /\ g.pagesize > 0 /\ req.size = g.pagesize
      /\ (req.len # None => req.rows # None)
  BY DEF GridIInv, TypeOK, LoadSized
<1>2. req \in [kind : {"load"}, s : Nat, e : Nat, size : PageSizes,
               rows : Lens \union {None}, len : Lens \union {None}]
  BY <1>1 DEF Requests
<1>. QED  BY <1>1, <1>2

\* The server reads the rows, or the length of the list.
LEMMA AnswerStep == ASSUME GridIInv, GetRows \/ GetLen  PROVE GridIInv'
<1>1. /\ req # None /\ req.kind = "load" /\ UNCHANGED <<srv, g, lost>>
      /\ srv \in Lens /\ lost \in BOOLEAN /\ GridOk(g)
      /\ \/ req' = [req EXCEPT !.rows = srv]
         \/ req' = [req EXCEPT !.len = srv] /\ req.rows # None
  BY DEF GetRows, GetLen, GridIInv, TypeOK
<1>2. /\ req \in [kind : {"load"}, s : Nat, e : Nat, size : PageSizes,
                  rows : Lens \union {None}, len : Lens \union {None}]
      /\ g.pagesize \in PageSizes /\ req.size = g.pagesize
  BY <1>1, LoadParts
<1>3. /\ req' \in [kind : {"load"}, s : Nat, e : Nat, size : PageSizes,
                   rows : Lens \union {None}, len : Lens \union {None}]
      /\ req'.size = req.size
      /\ req'.len # None => req'.rows # None
  <2>1. srv # None
    BY <1>1, NoneInGrid
  <2>2. req.len # None => req.rows # None
    BY <1>1, LoadParts
  <2>. QED  BY <1>1, <1>2, <2>1, <2>2
<1>4. req' \in Requests /\ req'.kind = "load"
  BY <1>3 DEF Requests
<1>5. req' # None
  BY <1>4, NoneInGrid
<1>6. LoadSized'
  <2>1. g'.pagesize > 0
    BY <1>1 DEF GridIInv, LoadSized
  <2>. QED  BY <1>1, <1>2, <1>3, <2>1 DEF LoadSized
<1>7. ~(Resting /\ ~lost /\ g.len > 0)'
  BY <1>4, <1>5 DEF Resting
<1>. QED  BY <1>1, <1>4, <1>6, <1>7, StepFacts

\* A page of a list is full, unless it is the last one, and that has the rest.
LEMMA WholePage ==
    ASSUME NEW n \in Nat, NEW size \in Nat \ {0}, NEW p \in Nat, p < CeilDiv(n, size)
    PROVE  \/ RowsOf(p, n, size) = size
           \/ p + 1 = CeilDiv(n, size) /\ RowsOf(p, n, size) >= n % size
<1>. DEFINE max == CeilDiv(n, size)
            k == size * p
            m == n % size
<1>1. max \in Nat /\ \A c \in Int : c < max <=> size * c < n
  BY CeilDivMore
<1>2. k \in Nat /\ k < n /\ p * size = k
  <2>1. k \in Nat /\ p * size = k
    OBVIOUS
  <2>2. k < n
    BY <1>1
  <2>. QED  BY <2>1, <2>2
<1>3. RowsOf(p, n, size) = Smaller(size, n - k)
  <2>. HIDE DEF k
  <2>. QED  BY <1>2 DEF RowsOf
<1>4. CASE p + 1 < max
  <2>1. size * (p + 1) < n
    BY <1>1, <1>4
  <2>2. size * (p + 1) = k + size
    OBVIOUS
  <2>. HIDE DEF k, max
  <2>. QED  BY <1>2, <1>3, <2>1, <2>2 DEF Smaller
<1>5. CASE ~(p + 1 < max)
  <2>1. p + 1 = max
    BY <1>1, <1>5
  <2>. DEFINE q == n \div size
              l == size * q
  <2>2. n = l + m /\ m \in 0 .. size - 1 /\ q \in Int
    <3>1. n \in Int /\ size \in Nat \ {0}
      OBVIOUS
    <3>. QED  BY ONLY <3>1, DivMod
  <2>3. p <= q
    <3>1. size * p <= n
      BY <1>2
    <3>2. p <= n \div size <=> size * p <= n
      BY DivLeast
    <3>. QED  BY <3>1, <3>2
  <2>4. k <= l /\ l \in Int
    <3>. HIDE DEF q
    <3>1. CASE p = q
      BY <1>2, <3>1
    <3>2. CASE p < q
      <4>1. size * p + size <= size * q
        BY <2>2, <3>2, Multiples
      <4>2. size * q \in Int
        BY <2>2
      <4>. QED  BY <1>2, <4>1, <4>2
    <3>. QED  BY <2>2, <2>3, <3>1, <3>2
  <2>. HIDE DEF k, l, m, q
  <2>5. Smaller(size, n - k) >= m
    BY <1>2, <2>2, <2>4 DEF Smaller
  <2>. QED  BY <1>3, <2>1, <2>5 DEF m
<1>. QED  BY <1>4, <1>5

\* An answer whose rows and length belong together is not too short.
LEMMA NotShort ==
    ASSUME NEW v, NEW r, v.pagesize \in Nat \ {0}, r.size = v.pagesize,
           r.rows = r.len, r.len \in Nat, r.s \in Nat, r.e \in Nat
    PROVE  ~Short(v, r, CeilDiv(r.len, v.pagesize))
<1>. DEFINE max == CeilDiv(r.len, v.pagesize)
<1>1. max \in Nat
  BY CeilDivMore
<1>2. ASSUME NEW p \in r.s .. Smaller(r.e, max) - 1
      PROVE  PageOf(r, p) = v.pagesize \/ (p + 1 = max /\ PageOf(r, p) >= r.len % v.pagesize)
  <2>1. p \in Nat /\ p < max
    BY <1>1 DEF Smaller
  <2>2. PageOf(r, p) = RowsOf(p, r.len, v.pagesize)
    BY DEF PageOf
  <2>. QED  BY <2>1, <2>2, WholePage
<1>3. ASSUME NEW p \in r.s .. Smaller(r.e, max) - 1, PageOf(r, p) >= r.len % v.pagesize,
             PageOf(r, p) < r.len % v.pagesize
      PROVE  FALSE
  <2>1. p \in Nat
    BY <1>1 DEF Smaller
  <2>2. r.len % v.pagesize \in Int
    <3>1. r.len \in Int /\ v.pagesize \in Nat \ {0}
      OBVIOUS
    <3>2. r.len % v.pagesize \in 0 .. v.pagesize - 1
      BY ONLY <3>1, DivMod
    <3>. QED  BY ONLY <3>1, <3>2
  <2>3. PageOf(r, p) \in Int
    <3>1. PageOf(r, p) = RowsOf(p, r.len, v.pagesize)
      BY DEF PageOf
    <3>2. p * v.pagesize \in Int
      BY <2>1
    <3>. QED  BY <3>1, <3>2 DEF RowsOf, Smaller
  <2>. QED  BY <1>3, <2>2, <2>3
<1>. HIDE DEF max
<1>. QED  BY <1>2, <1>3 DEF Short, max

\* An answer is merged, which starts the timer again, or thrown away.
LEMMA LoadDataCallbackStep == ASSUME GridIInv, LoadDataCallback  PROVE GridIInv'
<1>. DEFINE max == CeilDiv(req.len, g.pagesize)
            order == Cached(g, req, max)
            asked == ToSet(Asked(g, req, max))
            v == Merge(g, req, order, asked)
            n == req.len
            short == Short(g, req, max)
<1>1. /\ req # None /\ req.kind = "load" /\ req.len # None /\ req' = None
      /\ srv' = srv /\ srv \in Lens /\ lost \in BOOLEAN /\ GridOk(g)
  BY DEF LoadDataCallback, GridIInv, TypeOK
<1>2. /\ n = 0 /\ g.len = 0 => g' = g /\ lost' = lost
      /\ ~(n = 0 /\ g.len = 0) /\ short => g' = g /\ lost' = (lost \/ req.rows # req.len)
      /\ ~(n = 0 /\ g.len = 0) /\ ~short =>
             g' = Update(v, n, TRUE, FALSE, FALSE) /\ lost' = lost
  BY DEF LoadDataCallback
<1>3. /\ req.s \in Nat /\ req.e \in Nat /\ n \in Lens /\ req.rows \in Lens
      /\ req.size = g.pagesize /\ g.pagesize \in PageSizes
  <2>1. /\ req \in [kind : {"load"}, s : Nat, e : Nat, size : PageSizes,
                    rows : Lens \union {None}, len : Lens \union {None}]
        /\ g.pagesize \in PageSizes /\ req.size = g.pagesize
        /\ req.len # None => req.rows # None
    BY <1>1, LoadParts
  <2>. QED  BY <1>1, <2>1
<1>4. /\ g \in Grids /\ IsInjective(g.cachelist)
      /\ g.pagesize \in Nat \ {0} /\ g.pagesize >= 4 /\ g.pagesize > 0
  <2>1. g \in Grids /\ IsInjective(g.cachelist)
    BY <1>1 DEF GridOk, InStep
  <2>2. g.pagesize \in Nat /\ g.pagesize >= 4
    BY <1>3, Constants
  <2>. QED  BY <2>1, <2>2
<1>5. n \in Nat /\ n \in 0..(MaxLen + 1) /\ n \in -1..(MaxLen + 1)
  <2>1. n \in 0..MaxLen /\ MaxLen \in Nat
    BY <1>3, Constants
  <2>. HIDE DEF n
  <2>. QED  BY <2>1
<1>6. max \in Nat /\ \A p \in Nat : p < max => p \in PageNos
  BY <1>4, <1>5, CeilDivMore, PageNumbers
<1>7. short => req.rows # req.len
  BY <1>3, <1>4, <1>5, NotShort
<1>8. \A p \in PageNos : PageOf(req, p) \in Pages
  <2>1. Lens \subseteq Nat
    <3>1. MaxLen \in Nat /\ Lens \subseteq 0..MaxLen
      BY Constants
    <3>. QED  BY ONLY <3>1
  <2>2. req.rows \in Nat /\ req.size \in PageSizes
    BY ONLY <1>3, <2>1
  <2>. QED  BY <2>2, RowsOfPage DEF PageOf
<1>. HIDE DEF max, n, short
<1>9. order \in Seq(PageNos) /\ IsInjective(order) /\ asked \subseteq ToSet(order)
  BY <1>3, <1>4, <1>6, CachedFacts
<1>. HIDE DEF order, asked
<1>10. GridOk(v) /\ v.pagesize = g.pagesize
  BY <1>1, <1>8, <1>9, MergeFacts
<1>. HIDE DEF v
<1>11. LoadSized'
  BY <1>1 DEF LoadSized
<1>12. CASE n = 0 /\ g.len = 0
  <2>1. g' = g /\ lost' = lost
    BY <1>2, <1>12
  <2>2. ~(Resting /\ ~lost /\ g.len > 0)'
    BY <1>12, <2>1
  <2>. QED  BY <1>1, <1>11, <2>1, <2>2, StepFacts
<1>13. CASE ~(n = 0 /\ g.len = 0) /\ short
  <2>1. g' = g /\ lost' = TRUE
    BY <1>2, <1>7, <1>13
  <2>. QED  BY <1>1, <1>11, <2>1, StepFacts
<1>14. CASE ~(n = 0 /\ g.len = 0) /\ ~short
  <2>1. g' = Update(v, n, TRUE, FALSE, FALSE) /\ lost' = lost
    BY <1>2, <1>14
  <2>2. FALSE \in BOOLEAN
    OBVIOUS
  <2>3. GridOk(g') /\ (g'.lock = 2 \/ g'.timer \/ g'.len = 0)
    BY <1>5, <1>10, <2>1, <2>2, ForcedUpdate, Zenon
  <2>4. lost' \in BOOLEAN
    BY <1>1, <2>1
  <2>. HIDE <2>1
  <2>5. ~(Resting /\ ~lost /\ g.len > 0)'
    BY <2>3 DEF Resting
  <2>. QED  BY <1>1, <1>11, <2>3, <2>4, <2>5, StepFacts
<1>. QED  BY <1>12, <1>13, <1>14

\* The row that was sought is shown: the scroll bar moves, or all stays as it is.
LEMMA SeekCallbackStep == ASSUME GridIInv, SeekCallback  PROVE GridIInv'
<1>. DEFINE v == IF g.lock > 0 THEN [g EXCEPT !.lock = 2] ELSE g
<1>1. /\ req # None /\ req.kind = "seek" /\ req' = None /\ srv' = srv /\ lost' = lost
      /\ srv \in Lens /\ lost \in BOOLEAN /\ GridOk(g)
  BY DEF SeekCallback, GridIInv, TypeOK
<1>2. Update(g, -1, FALSE, FALSE, FALSE) = v
  BY DEF Update
<1>3. PICK r \in -1 .. (MaxLen - 1) :
        g' = IF r \in 0 .. v.len - 1 THEN ScrollTo(v, 2 * r) ELSE v
  BY <1>2 DEF SeekCallback
<1>4. /\ GridOk(v) /\ v.len = g.len /\ v.timer = g.timer /\ v.scrolled = g.scrolled
      /\ v.lock = 2 \/ v = g
      /\ Shows(g) => Shows(v)
  <2>1. CASE g.lock > 0
    <3>1. v = [g EXCEPT !.lock = 2] /\ 2 \in 0..2
      BY <2>1
    <3>. HIDE DEF v
    <3>. QED  BY <1>1, <3>1, LockFacts
  <2>2. CASE ~(g.lock > 0)
    BY <1>1, <2>2
  <2>. QED  BY <2>1, <2>2
<1>. HIDE DEF v
<1>5. LoadSized'
  BY <1>1 DEF LoadSized
<1>6. (Resting /\ ~lost /\ g.len > 0)' /\ g' = v => Shows(g')
  <2>. SUFFICES ASSUME Resting', ~lost', g'.len > 0, g' = v  PROVE Shows(g')
    OBVIOUS
  <2>1. Resting /\ ~lost /\ g.len > 0
    BY <1>1, <1>4 DEF Resting
  <2>. QED  BY <1>4, <2>1 DEF GridIInv
<1>7. CASE r \in 0 .. v.len - 1
  <2>. DEFINE w == ScrollTo(v, 2 * r)
  <2>1. r \in Nat /\ 2 * r \in Nat /\ v \in Grids
    <3>1. v \in Grids
      BY <1>4 DEF GridOk
    <3>2. v.len \in Nat
      BY <3>1, GridTypes
    <3>. QED  BY <1>7, <3>1, <3>2
  <2>2. g' = w
    BY <1>3, <1>7
  <2>3. /\ w \in Grids /\ Inside(w)
        /\ w.len = v.len /\ w.from = v.from /\ w.to = v.to /\ w.pages = v.pages
        /\ w.cachelist = v.cachelist
        /\ w.scrolled \/ w = v
    BY <2>1, ScrollToFacts
  <2>. HIDE DEF w
  <2>4. GridOk(w)
    BY <1>4, <2>3 DEF GridOk, Placed, InStep
  <2>5. (Resting /\ ~lost /\ g.len > 0)' => Shows(g')
    <3>1. CASE w = v
      BY <1>6, <2>2, <3>1
    <3>2. CASE w.scrolled
      BY <2>2, <3>2 DEF Resting
    <3>. QED  BY <2>3, <3>1, <3>2
  <2>. QED  BY <1>1, <1>5, <2>2, <2>4, <2>5, StepFacts
<1>8. CASE ~(r \in 0 .. v.len - 1)
  <2>1. g' = v
    BY <1>3, <1>8
  <2>. QED  BY <1>1, <1>4, <1>5, <1>6, <2>1, StepFacts
<1>. QED  BY <1>7, <1>8

\* A request fails: a load is given up.
LEMMA AjaxErrorStep == ASSUME GridIInv, AjaxError  PROVE GridIInv'
<1>1. /\ req # None /\ req' = None /\ lost' = (lost \/ req.kind = "load")
      /\ srv' = srv /\ g' = g /\ req \in Requests
  BY DEF AjaxError, GridIInv, TypeOK
<1>2. req.kind \in {"load", "seek"}
  BY <1>1 DEF Requests
<1>3. (Resting /\ ~lost /\ g.len > 0)' => Resting /\ ~lost /\ g.len > 0
  BY <1>1, <1>2 DEF Resting
<1>4. LoadSized'
  BY <1>1 DEF LoadSized
<1>. QED  BY <1>1, <1>3, <1>4, StepFacts DEF GridIInv, TypeOK

\* The list changes, or nothing does.
LEMMA OtherStep ==
    ASSUME GridIInv, ListChanges \/ UNCHANGED vars  PROVE GridIInv'
<1>1. srv' \in Lens /\ g' = g /\ req' = req /\ lost' = lost
  BY DEF ListChanges, vars, GridIInv, TypeOK
<1>2. /\ LoadSized' = LoadSized
      /\ (Resting /\ ~lost /\ g.len > 0)' = (Resting /\ ~lost /\ g.len > 0)
  BY <1>1 DEF LoadSized, Resting
<1>. QED  BY <1>1, <1>2, StepFacts DEF GridIInv, TypeOK

\* Every step keeps the invariant.
LEMMA GridStep == GridIInv /\ [Next]_vars => GridIInv'
<1>. SUFFICES ASSUME GridIInv, [Next]_vars  PROVE GridIInv'
  OBVIOUS
<1>1. ASSUME NEW t \in Tops, ScrollBar(t)  PROVE GridIInv'
  BY <1>1, ScrollBarStep
<1>2. ASSUME NEW n \in {-1, 0, 1}, Ask(n)  PROVE GridIInv'
  BY <1>2, AskStep
<1>3. CASE Seek
  BY <1>3, SeekStep
<1>4. CASE Edit
  BY <1>4, EditStep
<1>5. ASSUME NEW h \in Heights, Resize(h)  PROVE GridIInv'
  BY <1>5, ResizeStep
<1>6. CASE Leave
  BY <1>6, LeaveStep
<1>7. CASE ScrollEvent
  BY <1>7, ScrollEventStep
<1>8. CASE LoadData
  BY <1>8, LoadDataStep
<1>9. CASE GetRows \/ GetLen
  BY <1>9, AnswerStep
<1>10. CASE LoadDataCallback
  BY <1>10, LoadDataCallbackStep
<1>11. CASE SeekCallback
  BY <1>11, SeekCallbackStep
<1>12. CASE AjaxError
  BY <1>12, AjaxErrorStep
<1>13. CASE ListChanges \/ UNCHANGED vars
  BY <1>13, OtherStep
<1>. QED  BY <1>1, <1>2, <1>3, <1>4, <1>5, <1>6, <1>7, <1>8, <1>9, <1>10, <1>11, <1>12, <1>13
          DEF Next, User, Browser

\* The inductive invariant of the grid: whenever nothing will load again by itself,
\* each visible row is in the cache or overlooked, unless a load was given up; the
\* list of cached pages is in step with the pages at every step.
THEOREM GridInvariant == Spec => []GridIInv
<1>1. Init => GridIInv
  BY GridInit
<1>2. GridIInv /\ [Next]_vars => GridIInv'
  BY GridStep
<1>. QED  BY <1>1, <1>2, PTL DEF Spec

\* The variables keep their types: no page is asked for or kept that a list of the
\* longest length has not, and no page has more rows than a page can have.
THEOREM GridTypesOK == Spec => []TypeOK
<1>1. GridIInv => TypeOK
  BY GridIInvImplies
<1>. QED  BY <1>1, GridInvariant, PTL

\* No row stays blank: when nothing is under way, each visible row is in the cache,
\* unless a load was given up or its page was overlooked.
THEOREM NoRowBlank == Spec => []IdleShowsAll
<1>1. GridIInv => IdleShowsAll
  BY GridIInvImplies
<1>. QED  BY <1>1, GridInvariant, PTL

\* No page is listed twice and none is kept that the list does not know, whatever
\* the order of scrolling, answers and updates.
THEOREM CacheListTrue == Spec => []CacheInStep
<1>1. GridIInv => CacheInStep
  BY GridIInvImplies
<1>. QED  BY <1>1, GridInvariant, PTL

----------------------------------------------------------------------------
(* TinyList: the inductive invariant.                                      *)

\* A request as it is sent, with the answer it has got.
ListRequests == [seq : 1..MaxSeq, direction : {Up, Down}, token : Tokens, hint : 0..MaxNotes,
                 ans : Replies \union {None}]

\* The ids from t down to b.
Desc(t, b) == [i \in 1 .. t - b + 1 |-> t - i + 1]

\* A token is about a stretch of the notes there are.
Ends(token, n) == token # None => token.b <= token.t /\ token.t <= n

\* What the page shows is the stretch of its token.
Shown == list = (IF data.token = None THEN <<>> ELSE Desc(data.token.t, data.token.b))

\* An answer continues the token of its request at one end.
Continues(token, direction, ans, n) ==
    /\ Ends(ans.token, n)
    /\ token = None =>
           ans.lst = (IF ans.token = None THEN <<>> ELSE Desc(ans.token.t, ans.token.b))
    /\ token # None /\ direction = Down =>
           /\ ans.token # None /\ ans.token.t = token.t /\ ans.token.b <= token.b
           /\ ans.lst = Desc(token.b - 1, ans.token.b)
    /\ token # None /\ direction = Up =>
           /\ ans.token # None /\ ans.token.b = token.b /\ ans.token.t >= token.t
           /\ ans.lst = Desc(ans.token.t, token.t + 1)

\* The last load has the token of the page, and there is only one of it.
OutOk ==
    /\ out \subseteq ListRequests
    /\ \A r \in out :
        /\ r.seq <= data.seq
        /\ r.seq = data.seq => r.token = data.token
        /\ Ends(r.token, notes)
        /\ r.ans # None => Continues(r.token, r.direction, r.ans, notes)
    /\ \A r, s \in out : r.seq = s.seq => r = s

\* The types of what the list keeps.
Data == [seq : 0..MaxSeq, token : Tokens, direction : {Up, Down},
         loads : BOOLEAN, timer : BOOLEAN, hint : 0..MaxNotes]

\* The inductive invariant: the page shows the stretch of its token, the last load has
\* that token, and each answer continues the token of its own request.
ListIInv ==
    /\ notes \in 0..MaxNotes /\ list \in Seq(1..MaxNotes) /\ data \in Data
    /\ Ends(data.token, notes) /\ Shown /\ OutOk

----------------------------------------------------------------------------
(* TinyList: stretches.                                                    *)

\* What the assumptions say of bounds, tokens and None.
LEMMA TokenFacts ==
    /\ MaxNotes \in Nat /\ PageLen \in Nat \ {0} /\ MaxSeq \in Nat
    /\ \A token \in Tokens : token # None => token \in [t : 1..MaxNotes, b : 1..MaxNotes]
    /\ None \notin [t : 1..MaxNotes, b : 1..MaxNotes]
    /\ None \notin Replies
  BY TinyListAssumption, NoneInList DEF Tokens

\* A stretch is a sequence of its ids, from its top to its bottom.
LEMMA DescFacts ==
    ASSUME NEW t \in Int, NEW b \in Int, b <= t + 1
    PROVE  /\ Desc(t, b) \in Seq(b..t) /\ Len(Desc(t, b)) = t - b + 1
           /\ \A i \in 1 .. t - b + 1 : Desc(t, b)[i] = t - i + 1
           /\ b = t + 1 => Desc(t, b) = <<>>
           /\ b <= t => Desc(t, b) # <<>> /\ Desc(t, b)[1] = t /\ Desc(t, b)[t - b + 1] = b
<1>. DEFINE n == t - b + 1
<1>1. n \in Nat
  OBVIOUS
<1>2. \A i \in 1..n : t - i + 1 \in b..t
  OBVIOUS
<1>3. Desc(t, b) = [i \in 1..n |-> t - i + 1]
  BY DEF Desc
<1>. HIDE DEF n
<1>4. Desc(t, b) \in Seq(b..t) /\ Len(Desc(t, b)) = n
  BY <1>1, <1>2, <1>3
<1>5. \A i \in 1..n : Desc(t, b)[i] = t - i + 1
  BY <1>3
<1>6. n = 0 => Desc(t, b) = <<>>
  BY <1>1, <1>4
<1>7. n # 0 => Desc(t, b) # <<>> /\ Desc(t, b)[1] = t /\ Desc(t, b)[n] = b
  <2>. SUFFICES ASSUME n # 0
                PROVE  Desc(t, b) # <<>> /\ Desc(t, b)[1] = t /\ Desc(t, b)[n] = b
    OBVIOUS
  <2>1. Desc(t, b) # <<>>
    BY <1>1, <1>4
  <2>2. Desc(t, b)[1] = t
    BY <1>1, <1>5
  <2>3. Desc(t, b)[n] = t - n + 1
    BY <1>1, <1>5
  <2>. QED
    BY <2>1, <2>2, <2>3 DEF n
<1>. QED
  BY <1>4, <1>5, <1>6, <1>7 DEF n

\* A stretch is a sequence of integers.
LEMMA DescSeq ==
    ASSUME NEW t \in Int, NEW b \in Int, b <= t + 1
    PROVE  Desc(t, b) \in Seq(Int)
<1>1. Desc(t, b) \in Seq(b..t)
  BY DescFacts
<1>2. b..t \subseteq Int
  OBVIOUS
<1>. QED
  BY <1>1, <1>2, SeqMonotonic

\* Two stretches that meet are one.
LEMMA DescConcat ==
    ASSUME NEW t \in Int, NEW m \in Int, NEW b \in Int, m <= t + 1, b <= m
    PROVE  Desc(t, m) \o Desc(m - 1, b) = Desc(t, b)
<1>. DEFINE x == Desc(t, m)
            y == Desc(m - 1, b)
            z == Desc(t, b)
<1>1. /\ x \in Seq(Int) /\ Len(x) = t - m + 1
      /\ \A i \in 1 .. t - m + 1 : x[i] = t - i + 1
  BY DescFacts, DescSeq
<1>2. m - 1 \in Int /\ b <= (m - 1) + 1
  OBVIOUS
<1>3. /\ y \in Seq(Int) /\ Len(y) = (m - 1) - b + 1
      /\ \A i \in 1 .. (m - 1) - b + 1 : y[i] = (m - 1) - i + 1
  BY <1>2, DescFacts, DescSeq
<1>4. /\ z \in Seq(Int) /\ Len(z) = t - b + 1
      /\ \A i \in 1 .. t - b + 1 : z[i] = t - i + 1
  <2>1. b <= t + 1
    OBVIOUS
  <2>. QED
    BY <2>1, DescFacts, DescSeq
<1>. HIDE DEF x, y, z
<1>5. /\ x \o y \in Seq(Int) /\ Len(x \o y) = Len(x) + Len(y)
      /\ \A i \in 1 .. Len(x) + Len(y) :
            (x \o y)[i] = IF i <= Len(x) THEN x[i] ELSE y[i - Len(x)]
  BY <1>1, <1>3, ConcatProperties
<1>6. Len(x \o y) = Len(z)
  BY <1>1, <1>3, <1>4, <1>5
<1>7. ASSUME NEW i \in 1 .. Len(x \o y) PROVE (x \o y)[i] = z[i]
  <2>1. i \in 1 .. t - b + 1 /\ i \in 1 .. Len(x) + Len(y) /\ i \in Int
    BY <1>4, <1>5, <1>6
  <2>2. z[i] = t - i + 1
    BY <2>1, <1>4
  <2>3. CASE i <= t - m + 1
    <3>1. i \in 1 .. t - m + 1
      BY <2>1, <2>3
    <3>2. (x \o y)[i] = x[i]
      BY <1>1, <1>5, <2>1, <2>3
    <3>. QED
      BY <1>1, <2>2, <3>1, <3>2
  <2>4. CASE ~(i <= t - m + 1)
    <3>. DEFINE j == i - (t - m + 1)
    <3>1. j \in 1 .. (m - 1) - b + 1
      BY <2>1, <2>4
    <3>2. (x \o y)[i] = y[j]
      BY <1>1, <1>5, <2>1, <2>4
    <3>3. y[j] = (m - 1) - j + 1
      BY <1>3, <3>1
    <3>. QED
      BY <2>1, <2>2, <3>2, <3>3
  <2>. QED
    BY <2>3, <2>4
<1>8. x \o y = z
  BY <1>4, <1>5, <1>6, <1>7, SeqEqual
<1>. QED
  BY <1>8 DEF x, y, z

\* A stretch has its ends as a token.
LEMMA TokenOfDesc ==
    ASSUME NEW t \in Int, NEW b \in Int, b <= t + 1
    PROVE  /\ b = t + 1 => TokenOf(Desc(t, b)) = None
           /\ b <= t => /\ TokenOf(Desc(t, b)) = [t |-> t, b |-> b]
                        /\ Head(Desc(t, b)) = t /\ Last(Desc(t, b)) = b
<1>. DEFINE x == Desc(t, b)
<1>1. /\ Len(x) = t - b + 1
      /\ b = t + 1 => x = <<>>
      /\ b <= t => x # <<>> /\ x[1] = t /\ x[t - b + 1] = b
  BY DescFacts
<1>. HIDE DEF x
<1>2. b <= t => Head(x) = t /\ Last(x) = b
  BY <1>1 DEF Last
<1>3. b = t + 1 => TokenOf(x) = None
  BY <1>1 DEF TokenOf
<1>4. b <= t => TokenOf(x) = [t |-> t, b |-> b]
  BY <1>1, <1>2 DEF TokenOf
<1>. QED
  BY <1>2, <1>3, <1>4 DEF x

----------------------------------------------------------------------------
(* TinyList: the server.                                                   *)

\* A stretch no longer than a page is the list of an answer.
LEMMA DescPage ==
    ASSUME NEW t \in 0..MaxNotes, NEW b \in 1 .. MaxNotes + 1, b <= t + 1, t - b + 1 <= PageLen
    PROVE  Desc(t, b) \in SeqOf(1..MaxNotes, PageLen)
<1>. DEFINE k == t - b + 1
<1>1. MaxNotes \in Nat /\ PageLen \in Nat
  BY TinyListAssumption
<1>2. k \in 0..PageLen
  BY <1>1
<1>3. \A i \in 1..k : t - i + 1 \in 1..MaxNotes
  BY <1>1
<1>4. Desc(t, b) = [i \in 1..k |-> t - i + 1]
  BY DEF Desc
<1>. HIDE DEF k
<1>5. Desc(t, b) \in [1..k -> 1..MaxNotes]
  BY <1>3, <1>4
<1>. QED
  BY <1>2, <1>5 DEF SeqOf

\* What the server finds below m is a stretch from m down, no longer than a page.
LEMMA BelowFacts ==
    ASSUME NEW m \in 0..MaxNotes
    PROVE  \E b \in 1 .. MaxNotes + 1 :
              /\ b <= m + 1 /\ m - b + 1 <= PageLen
              /\ m > 0 => b <= m
              /\ Below(m) = Desc(m, b)
<1>. DEFINE k == IF m < PageLen THEN m ELSE PageLen
<1>1. MaxNotes \in Nat /\ PageLen \in Nat \ {0}
  BY TinyListAssumption
<1>2. /\ m - k + 1 \in 1 .. MaxNotes + 1
      /\ m - k + 1 <= m + 1 /\ m - (m - k + 1) + 1 <= PageLen
      /\ m > 0 => m - k + 1 <= m
      /\ k = m - (m - k + 1) + 1
  BY <1>1
<1>3. Below(m) = [i \in 1..k |-> m - i + 1]
  BY DEF Below
<1>. HIDE DEF k
<1>4. Below(m) = Desc(m, m - k + 1)
  BY <1>2, <1>3 DEF Desc
<1>. QED
  BY <1>2, <1>4

\* What the server finds above is a stretch down to m, no longer than a page.
LEMMA AboveFacts ==
    ASSUME NEW m \in 1 .. MaxNotes + 1, NEW n \in 0..MaxNotes, m <= n + 1
    PROVE  \E t \in 0..n :
              /\ m <= t + 1 /\ t - m + 1 <= PageLen
              /\ Above(m, n) = Desc(t, m)
<1>. DEFINE j == IF n - m + 1 < PageLen THEN n - m + 1 ELSE PageLen
            k == IF j > 0 THEN j ELSE 0
<1>1. MaxNotes \in Nat /\ PageLen \in Nat \ {0}
  BY TinyListAssumption
<1>2. /\ m + k - 1 \in 0..n
      /\ m <= (m + k - 1) + 1 /\ (m + k - 1) - m + 1 <= PageLen
      /\ k = (m + k - 1) - m + 1
      /\ j = k
  BY <1>1
<1>3. Above(m, n) = [i \in 1..k |-> m + j - i]
  BY DEF Above
<1>. HIDE DEF k, j
<1>4. k \in Int
  BY <1>1 DEF k, j
<1>5. \A i \in 1..k : m + j - i = (m + k - 1) - i + 1
  BY <1>2, <1>4
<1>6. Above(m, n) = [i \in 1..k |-> (m + k - 1) - i + 1]
  BY <1>3, <1>5
<1>7. Above(m, n) = Desc(m + k - 1, m)
  BY <1>2, <1>6 DEF Desc
<1>. QED
  BY <1>2, <1>7

\* A token and the list of an answer that are about ids there are.
LEMMA TokenType ==
    ASSUME NEW t \in 1..MaxNotes, NEW b \in 1..MaxNotes
    PROVE  [t |-> t, b |-> b] \in Tokens /\ [t |-> t, b |-> b] # None
  BY NoneInList DEF Tokens

\* The answer to the first load.
LEMMA FirstReply ==
    ASSUME NEW hint \in 0..MaxNotes, NEW n \in 0..MaxNotes
    PROVE  \E t \in 0..n, b \in 1 .. MaxNotes + 1 :
              /\ b <= t + 1 /\ t - b + 1 <= PageLen
              /\ First(hint, n) = Desc(t, b)
<1>1. MaxNotes \in Nat
  BY TinyListAssumption
<1>2. PICK m \in 0..n : First(hint, n) = Below(m)
  <2>1. CASE hint # 0
    <3>1. (IF hint <= n THEN hint ELSE n) \in 0..n
      BY <1>1
    <3>. QED
      BY <2>1, <3>1 DEF First
  <2>2. CASE hint = 0
    <3>1. n \in 0..n
      BY <1>1
    <3>. QED
      BY <2>2, <3>1 DEF First
  <2>. QED
    BY <2>1, <2>2
<1>3. m \in 0..MaxNotes
  BY <1>1
<1>. QED
  BY <1>2, <1>3, BelowFacts

\* What fn_get_cust_note answers continues the token it is given.
LEMMA ReplyContinues ==
    ASSUME NEW token \in Tokens, NEW direction \in {Up, Down}, NEW hint \in 0..MaxNotes,
           NEW n \in 0..MaxNotes, Ends(token, n)
    PROVE  /\ Reply(token, direction, hint, n) \in Replies
           /\ Continues(token, direction, Reply(token, direction, hint, n), n)
<1>. DEFINE ans == Reply(token, direction, hint, n)
<1>1. MaxNotes \in Nat /\ PageLen \in Nat \ {0} /\ Up # Down
  BY TinyListAssumption DEF Up, Down
<1>2. CASE token = None
  <2>1. PICK t \in 0..n, b \in 1 .. MaxNotes + 1 :
            /\ b <= t + 1 /\ t - b + 1 <= PageLen
            /\ First(hint, n) = Desc(t, b)
    BY FirstReply
  <2>2. ans = [token |-> TokenOf(Desc(t, b)), lst |-> Desc(t, b)]
    BY <1>2, <2>1 DEF Reply
  <2>3. t \in 0..MaxNotes /\ t \in Int /\ b \in Int /\ b <= t + 1
    BY <1>1, <2>1
  <2>4. Desc(t, b) \in SeqOf(1..MaxNotes, PageLen)
    BY <2>1, <2>3, DescPage
  <2>5. CASE b = t + 1
    <3>1. TokenOf(Desc(t, b)) = None /\ Desc(t, b) = <<>>
      BY <2>3, <2>5, TokenOfDesc, DescFacts
    <3>2. ans.token = None /\ ans.lst = <<>>
      BY <2>2, <3>1
    <3>3. ans \in Replies
      BY <2>2, <2>4, <3>1 DEF Replies, Tokens
    <3>. QED
      BY <1>2, <3>2, <3>3 DEF Continues, Ends
  <2>6. CASE b # t + 1
    <3>1. b <= t /\ t \in 1..MaxNotes /\ b \in 1..MaxNotes
      BY <1>1, <2>3, <2>6
    <3>2. TokenOf(Desc(t, b)) = [t |-> t, b |-> b]
      BY <2>3, <3>1, TokenOfDesc
    <3>3. ans.token = [t |-> t, b |-> b] /\ ans.lst = Desc(t, b)
      BY <2>2, <3>2
    <3>4. ans.token.t = t /\ ans.token.b = b /\ ans.token \in Tokens /\ ans.token # None
      BY <3>1, <3>3, TokenType
    <3>5. ans \in Replies
      BY <2>2, <2>4, <3>2, <3>3, <3>4 DEF Replies
    <3>6. t <= n
      BY <2>1
    <3>. QED
      BY <1>2, <3>1, <3>3, <3>4, <3>5, <3>6 DEF Continues, Ends
  <2>. QED
    BY <2>5, <2>6
<1>3. ASSUME token # None
      PROVE  /\ token = [t |-> token.t, b |-> token.b]
             /\ token.t \in 1..MaxNotes /\ token.b \in 1..MaxNotes
             /\ token.b <= token.t /\ token.t <= n
  BY <1>3 DEF Tokens, Ends
<1>4. CASE token # None /\ direction = Down
  <2>. DEFINE m == token.b - 1
  <2>1. m \in 0..MaxNotes /\ m \in Int
    BY <1>1, <1>3, <1>4
  <2>2. PICK b \in 1 .. MaxNotes + 1 :
            b <= m + 1 /\ m - b + 1 <= PageLen /\ Below(m) = Desc(m, b)
    BY <2>1, BelowFacts
  <2>3. b \in Int /\ Desc(m, b) \in SeqOf(1..MaxNotes, PageLen)
    BY <2>1, <2>2, DescPage
  <2>4. ans = [lst |-> Desc(m, b),
               token |-> IF Desc(m, b) = <<>> THEN token
                         ELSE [token EXCEPT !.b = Last(Desc(m, b))]]
    BY <1>4, <2>2 DEF Reply
  <2>5. ans.token = [t |-> token.t, b |-> b]
    <3>1. CASE b = m + 1
      <4>1. Desc(m, b) = <<>>
        BY <2>1, <2>2, <2>3, <3>1, DescFacts
      <4>2. ans.token = token
        BY <2>4, <4>1
      <4>3. b = token.b
        BY <1>3, <1>4, <3>1
      <4>. QED
        BY <1>3, <1>4, <4>2, <4>3
    <3>2. CASE b # m + 1
      <4>1. b <= m
        BY <2>1, <2>2, <2>3, <3>2
      <4>2. Desc(m, b) # <<>> /\ Last(Desc(m, b)) = b
        BY <2>1, <2>2, <2>3, <4>1, DescFacts, TokenOfDesc
      <4>3. ans.token = [token EXCEPT !.b = b]
        BY <2>4, <4>2
      <4>. QED
        BY <1>3, <1>4, <4>3
    <3>. QED
      BY <3>1, <3>2
  <2>6. b \in 1..MaxNotes /\ b <= token.b
    BY <1>1, <1>3, <1>4, <2>2
  <2>7. ans.token \in Tokens /\ ans.token # None /\ ans.token.t = token.t /\ ans.token.b = b
    BY <1>3, <1>4, <2>5, <2>6, TokenType
  <2>8. ans.lst = Desc(token.b - 1, b)
    BY <2>4
  <2>9. ans \in Replies
    BY <2>3, <2>4, <2>7 DEF Replies
  <2>10. Ends(ans.token, n)
    BY <1>1, <1>3, <1>4, <2>6, <2>7 DEF Ends
  <2>. HIDE DEF ans
  <2>11. Continues(token, direction, ans, n)
    BY <1>1, <1>4, <2>6, <2>7, <2>8, <2>10 DEF Continues
  <2>. QED
    BY <2>9, <2>11 DEF ans
<1>5. CASE token # None /\ direction = Up
  <2>. DEFINE m == token.t + 1
  <2>1. m \in 1 .. MaxNotes + 1 /\ m \in Int /\ m <= n + 1
    BY <1>1, <1>3, <1>5
  <2>2. PICK t \in 0..n :
            m <= t + 1 /\ t - m + 1 <= PageLen /\ Above(m, n) = Desc(t, m)
    BY <2>1, AboveFacts
  <2>3. t \in 0..MaxNotes /\ t \in Int /\ Desc(t, m) \in SeqOf(1..MaxNotes, PageLen)
    <3>1. t \in 0..MaxNotes /\ t \in Int
      BY <1>1, <2>2
    <3>. QED
      BY <2>1, <2>2, <3>1, DescPage
  <2>4. ans = [lst |-> Desc(t, m),
               token |-> IF Desc(t, m) = <<>> THEN token
                         ELSE [token EXCEPT !.t = Head(Desc(t, m))]]
    BY <1>1, <1>5, <2>2 DEF Reply
  <2>5. ans.token = [t |-> t, b |-> token.b]
    <3>1. CASE m = t + 1
      <4>1. Desc(t, m) = <<>>
        BY <2>1, <2>2, <2>3, <3>1, DescFacts
      <4>2. ans.token = token
        BY <2>4, <4>1
      <4>3. t = token.t
        BY <1>3, <1>5, <2>3, <3>1
      <4>. QED
        BY <1>3, <1>5, <4>2, <4>3
    <3>2. CASE m # t + 1
      <4>1. m <= t
        BY <2>1, <2>2, <2>3, <3>2
      <4>2. Desc(t, m) # <<>> /\ Head(Desc(t, m)) = t
        BY <2>1, <2>2, <2>3, <4>1, DescFacts, TokenOfDesc
      <4>3. ans.token = [token EXCEPT !.t = t]
        BY <2>4, <4>2
      <4>. QED
        BY <1>3, <1>5, <4>3
    <3>. QED
      BY <3>1, <3>2
  <2>6. t \in 1..MaxNotes /\ token.t <= t
    BY <1>1, <1>3, <1>5, <2>2, <2>3
  <2>7. ans.token \in Tokens /\ ans.token # None /\ ans.token.t = t /\ ans.token.b = token.b
    BY <1>3, <1>5, <2>5, <2>6, TokenType
  <2>8. ans.lst = Desc(t, token.t + 1)
    BY <2>4
  <2>9. ans \in Replies
    BY <2>3, <2>4, <2>7 DEF Replies
  <2>10. Ends(ans.token, n)
    BY <1>1, <1>3, <1>5, <2>2, <2>6, <2>7 DEF Ends
  <2>. HIDE DEF ans
  <2>11. Continues(token, direction, ans, n)
    BY <1>1, <1>5, <2>6, <2>7, <2>8, <2>10 DEF Continues
  <2>. QED
    BY <2>9, <2>11 DEF ans
<1>. QED
  BY <1>2, <1>4, <1>5

----------------------------------------------------------------------------
(* TinyList: the invariant is inductive.                                   *)

\* The invariant holds the types of ListTypeOK.
LEMMA IInvTypes == ListIInv => ListTypeOK
<1>1. ASSUME OutOk, NEW r \in out
      PROVE  /\ r.seq \in 1..MaxSeq /\ r.direction \in {Up, Down}
             /\ r.token \in Tokens /\ r.hint \in 0..MaxNotes
             /\ r.ans = None \/ r.ans \in Replies
  <2>1. r \in ListRequests
    BY <1>1 DEF OutOk
  <2>. QED
    BY <2>1 DEF ListRequests
<1>. QED
  BY <1>1 DEF ListIInv, ListTypeOK, Data

\* New notes leave true what is known of the older ones.
LEMMA EndsLater ==
    ASSUME NEW token \in Tokens, NEW n \in Int, NEW m \in Int, n <= m, Ends(token, n)
    PROVE  Ends(token, m)
<1>1. CASE token = None
  BY <1>1 DEF Ends
<1>2. CASE token # None
  <2>1. token.t \in Int /\ token.t <= n /\ token.b <= token.t
    BY <1>2, TokenFacts DEF Ends
  <2>. QED
    BY <2>1 DEF Ends
<1>. QED
  BY <1>1, <1>2

\* An answer that continues a token does so whatever is written later.
LEMMA ContinuesLater ==
    ASSUME NEW token, NEW direction, NEW ans \in Replies, NEW n \in Int, NEW m \in Int, n <= m,
           Continues(token, direction, ans, n)
    PROVE  Continues(token, direction, ans, m)
<1>1. ans.token \in Tokens
  BY DEF Replies
<1>2. Ends(ans.token, m)
  BY <1>1, EndsLater DEF Continues
<1>. QED
  BY <1>2 DEF Continues

\* The list a token stands for.
LEMMA ShownTyped ==
    ASSUME NEW token \in Tokens, Ends(token, notes), notes \in 0..MaxNotes
    PROVE  (IF token = None THEN <<>> ELSE Desc(token.t, token.b)) \in Seq(1..MaxNotes)
<1>1. CASE token = None
  BY <1>1
<1>2. CASE token # None
  <2>1. token.t \in 1..MaxNotes /\ token.b \in 1..MaxNotes /\ token.b <= token.t
    BY <1>2, TokenFacts DEF Ends
  <2>2. Desc(token.t, token.b) \in Seq(token.b..token.t)
    <3>1. token.t \in Int /\ token.b \in Int /\ token.b <= token.t + 1
      BY <2>1, TokenFacts
    <3>. QED
      BY <3>1, DescFacts
  <2>3. token.b..token.t \subseteq 1..MaxNotes
    BY <2>1, TokenFacts
  <2>4. Desc(token.t, token.b) \in Seq(1..MaxNotes)
    BY <2>2, <2>3, SeqMonotonic
  <2>. QED
    BY <1>2, <2>4
<1>. QED
  BY <1>1, <1>2

\* A step that starts a timer or writes a note.
LEMMA PageStep ==
    ASSUME ListIInv, notes' \in notes..MaxNotes, list' = list, out' = out,
           data' \in Data, data'.seq = data.seq, data'.token = data.token
    PROVE  ListIInv'
<1>1. /\ notes \in 0..MaxNotes /\ list \in Seq(1..MaxNotes) /\ data \in Data
      /\ Ends(data.token, notes) /\ Shown /\ OutOk
  BY DEF ListIInv
<1>2. notes' \in 0..MaxNotes /\ notes \in Int /\ notes' \in Int /\ notes <= notes'
  BY <1>1, TokenFacts
<1>3. Ends(data'.token, notes')
  <2>1. data.token \in Tokens
    BY <1>1 DEF Data
  <2>. QED
    BY <1>1, <1>2, <2>1, EndsLater
<1>4. Shown'
  BY <1>1 DEF Shown
<1>5. OutOk'
  <2>1. ASSUME NEW r \in out
        PROVE  /\ r.seq <= data'.seq
               /\ r.seq = data'.seq => r.token = data'.token
               /\ Ends(r.token, notes')
               /\ r.ans # None => Continues(r.token, r.direction, r.ans, notes')
    <3>1. r \in ListRequests
      BY <1>1 DEF OutOk
    <3>2. /\ r.seq <= data.seq
          /\ r.seq = data.seq => r.token = data.token
          /\ Ends(r.token, notes)
          /\ r.ans # None => Continues(r.token, r.direction, r.ans, notes)
      BY <1>1 DEF OutOk
    <3>3. r.token \in Tokens /\ (r.ans # None => r.ans \in Replies)
      BY <3>1 DEF ListRequests
    <3>4. Ends(r.token, notes')
      BY <1>2, <3>2, <3>3, EndsLater
    <3>5. r.ans # None => Continues(r.token, r.direction, r.ans, notes')
      BY <1>2, <3>2, <3>3, ContinuesLater
    <3>. QED
      BY <3>2, <3>4, <3>5
  <2>. QED
    BY <1>1, <2>1 DEF OutOk
<1>. QED
  BY <1>1, <1>2, <1>3, <1>4, <1>5 DEF ListIInv

\* ListRequests that have come back leave the others as they are.
LEMMA Fewer ==
    ASSUME OutOk, out' \subseteq out, notes' = notes, data'.seq = data.seq,
           data'.token = data.token \/ \A r \in out' : r.seq # data.seq
    PROVE  OutOk'
<1>1. ASSUME NEW r \in out'
      PROVE  /\ r.seq <= data'.seq
             /\ r.seq = data'.seq => r.token = data'.token
             /\ Ends(r.token, notes')
             /\ r.ans # None => Continues(r.token, r.direction, r.ans, notes')
  BY DEF OutOk
<1>. QED
  BY <1>1 DEF OutOk

\* The server answers a request, whether it is the last one or not.
LEMMA ServeKeeps == ASSUME ListIInv, NEW r \in out, Serve(r) PROVE ListIInv'
<1>. DEFINE a == Reply(r.token, r.direction, r.hint, notes)
            s == [r EXCEPT !.ans = a]
<1>1. /\ notes \in 0..MaxNotes /\ list \in Seq(1..MaxNotes) /\ data \in Data
      /\ Ends(data.token, notes) /\ Shown /\ OutOk
  BY DEF ListIInv
<1>2. /\ out' = (out \ {r}) \union {s}
      /\ notes' = notes /\ list' = list /\ data' = data
  BY DEF Serve
<1>3. r \in ListRequests /\ Ends(r.token, notes)
  BY <1>1 DEF OutOk
<1>4. r.token \in Tokens /\ r.direction \in {Up, Down} /\ r.hint \in 0..MaxNotes
  BY <1>3 DEF ListRequests
<1>5. a \in Replies /\ Continues(r.token, r.direction, a, notes)
  BY <1>1, <1>3, <1>4, ReplyContinues
<1>. HIDE DEF a
<1>6. /\ s \in ListRequests
      /\ s.seq = r.seq /\ s.direction = r.direction /\ s.token = r.token /\ s.ans = a
  BY <1>3, <1>5 DEF ListRequests
<1>. HIDE DEF s
<1>7. ASSUME NEW q \in out'
      PROVE  /\ q \in ListRequests
             /\ q.seq <= data.seq
             /\ q.seq = data.seq => q.token = data.token
             /\ Ends(q.token, notes)
             /\ q.ans # None => Continues(q.token, q.direction, q.ans, notes)
  <2>1. CASE q = s
    BY <1>1, <1>5, <1>6, <2>1 DEF OutOk
  <2>2. CASE q \in out
    BY <1>1, <2>2 DEF OutOk
  <2>. QED
    BY <1>2, <2>1, <2>2
<1>8. ASSUME NEW p \in out', NEW q \in out', p.seq = q.seq PROVE p = q
  <2>1. ASSUME NEW u \in out, u # r PROVE u.seq # r.seq
    BY <1>1, <2>1 DEF OutOk
  <2>2. CASE p = s \/ q = s
    BY <1>2, <1>6, <1>8, <2>1, <2>2
  <2>3. CASE p # s /\ q # s
    BY <1>1, <1>2, <1>8, <2>3 DEF OutOk
  <2>. QED
    BY <2>2, <2>3
<1>9. OutOk'
  BY <1>2, <1>7, <1>8 DEF OutOk
<1>10. Shown'
  BY <1>1, <1>2 DEF Shown
<1>. QED
  BY <1>1, <1>2, <1>9, <1>10 DEF ListIInv

\* refresh empties the page and leaves every request that is out behind.
LEMMA RefreshKeeps == ASSUME ListIInv, NEW h \in 0..notes, Refresh(h) PROVE ListIInv'
<1>1. /\ notes \in 0..MaxNotes /\ data \in Data /\ OutOk
  BY DEF ListIInv
<1>2. /\ data.seq \in 0..MaxSeq /\ data.seq < MaxSeq /\ h \in 0..MaxNotes
      /\ notes' = notes /\ out' = out /\ list' = <<>>
      /\ data' = [data EXCEPT !.seq = data.seq + 1, !.token = None, !.direction = Down,
                              !.loads = TRUE, !.timer = TRUE, !.hint = h]
  BY <1>1, TokenFacts DEF Refresh, Data
<1>3. data' \in Data /\ data'.seq = data.seq + 1 /\ data'.token = None
  <2>1. data.seq + 1 \in 0..MaxSeq /\ None \in Tokens
    BY <1>2, TokenFacts DEF Tokens
  <2>. QED
    BY <1>1, <1>2, <2>1 DEF Data
<1>4. list' \in Seq(1..MaxNotes) /\ Shown' /\ Ends(data'.token, notes')
  BY <1>2, <1>3 DEF Shown, Ends
<1>5. ASSUME NEW r \in out
      PROVE  /\ r.seq <= data'.seq /\ r.seq # data'.seq
             /\ Ends(r.token, notes)
             /\ r.ans # None => Continues(r.token, r.direction, r.ans, notes)
  <2>1. r \in ListRequests /\ r.seq <= data.seq
    BY <1>1 DEF OutOk
  <2>2. r.seq \in Int
    BY <2>1 DEF ListRequests
  <2>3. r.seq <= data'.seq /\ r.seq # data'.seq
    BY <1>2, <1>3, <2>1, <2>2
  <2>. QED
    BY <1>1, <2>3 DEF OutOk
<1>6. OutOk'
  BY <1>1, <1>2, <1>5 DEF OutOk
<1>. QED
  BY <1>1, <1>2, <1>3, <1>4, <1>6 DEF ListIInv

\* A load takes the token of the page along under a number of its own.
LEMMA LoadKeeps == ASSUME ListIInv, Load PROVE ListIInv'
<1>. DEFINE s == [seq |-> data.seq + 1, direction |-> data.direction,
                  token |-> data.token, hint |-> data.hint, ans |-> None]
<1>1. /\ notes \in 0..MaxNotes /\ list \in Seq(1..MaxNotes) /\ data \in Data
      /\ Ends(data.token, notes) /\ Shown /\ OutOk
  BY DEF ListIInv
<1>2. /\ data.seq \in 0..MaxSeq /\ data.seq < MaxSeq
      /\ notes' = notes /\ list' = list /\ out' = out \union {s}
      /\ data' = [data EXCEPT !.timer = FALSE, !.seq = data.seq + 1]
  BY <1>1 DEF Load, Data
<1>3. data' \in Data /\ data'.seq = data.seq + 1 /\ data'.token = data.token
  <2>1. data.seq + 1 \in 0..MaxSeq
    BY <1>2, TokenFacts
  <2>. QED
    BY <1>1, <1>2, <2>1 DEF Data
<1>4. Shown' /\ Ends(data'.token, notes')
  BY <1>1, <1>2, <1>3 DEF Shown
<1>5. ASSUME NEW r \in out
      PROVE  /\ r \in ListRequests
             /\ r.seq <= data'.seq /\ r.seq # data'.seq
             /\ Ends(r.token, notes)
             /\ r.ans # None => Continues(r.token, r.direction, r.ans, notes)
  <2>1. r \in ListRequests /\ r.seq <= data.seq
    BY <1>1 DEF OutOk
  <2>2. r.seq \in Int
    BY <2>1 DEF ListRequests
  <2>3. r.seq <= data'.seq /\ r.seq # data'.seq
    BY <1>2, <1>3, <2>1, <2>2
  <2>. QED
    BY <1>1, <2>1, <2>3 DEF OutOk
<1>6. s \in ListRequests
  BY <1>1, <1>2, TokenFacts DEF ListRequests, Data
<1>7. s.seq = data'.seq /\ s.token = data'.token /\ s.ans = None
  BY <1>3
<1>. HIDE DEF s
<1>8. ASSUME NEW q \in out'
      PROVE  /\ q \in ListRequests
             /\ q.seq <= data'.seq
             /\ q.seq = data'.seq => q.token = data'.token
             /\ Ends(q.token, notes')
             /\ q.ans # None => Continues(q.token, q.direction, q.ans, notes')
  <2>1. CASE q = s
    BY <1>2, <1>3, <1>4, <1>6, <1>7, <2>1
  <2>2. CASE q \in out
    BY <1>2, <1>5, <2>2
  <2>. QED
    BY <1>2, <2>1, <2>2
<1>9. ASSUME NEW p \in out', NEW q \in out', p.seq = q.seq PROVE p = q
  <2>1. CASE p \in out /\ q \in out
    BY <1>1, <1>9, <2>1 DEF OutOk
  <2>2. CASE p = s \/ q = s
    BY <1>2, <1>5, <1>7, <1>9, <2>2
  <2>. QED
    BY <1>2, <2>1, <2>2
<1>10. OutOk'
  BY <1>8, <1>9 DEF OutOk
<1>. QED
  BY <1>1, <1>2, <1>3, <1>4, <1>10 DEF ListIInv

\* A request that fails changes nothing on the page.
LEMMA FailKeeps == ASSUME ListIInv, NEW r \in out, Fail(r) PROVE ListIInv'
<1>1. /\ notes \in 0..MaxNotes /\ list \in Seq(1..MaxNotes) /\ data \in Data
      /\ Ends(data.token, notes) /\ Shown /\ OutOk
  BY DEF ListIInv
<1>2. out' \subseteq out /\ notes' = notes /\ list' = list /\ data' = data
  BY DEF Fail
<1>3. OutOk'
  BY <1>1, <1>2, Fewer
<1>4. Shown'
  BY <1>1, <1>2 DEF Shown
<1>. QED
  BY <1>1, <1>2, <1>3, <1>4 DEF ListIInv

\* The answer to the last load joins what the page shows.
LEMMA Joined ==
    ASSUME ListIInv, NEW r \in out, r.ans # None, r.seq = data.seq
    PROVE  (IF r.direction = Up THEN r.ans.lst \o list ELSE list \o r.ans.lst)
               = (IF r.ans.token = None THEN <<>> ELSE Desc(r.ans.token.t, r.ans.token.b))
<1>. DEFINE T == data.token
            a == r.ans
<1>1. /\ notes \in 0..MaxNotes /\ data \in Data /\ Ends(T, notes) /\ Shown /\ OutOk
  BY DEF ListIInv
<1>2. T \in Tokens
  BY <1>1 DEF Data
<1>3. r \in ListRequests /\ Continues(T, r.direction, a, notes)
  BY <1>1 DEF OutOk
<1>4. r.direction \in {Up, Down} /\ a \in Replies /\ Up # Down
  BY <1>3 DEF ListRequests, Up, Down
<1>5. a.token \in Tokens /\ Ends(a.token, notes)
  BY <1>3, <1>4 DEF Replies, Continues
<1>6. a.token # None => /\ a.token.t \in Int /\ a.token.b \in Int /\ a.token.b <= a.token.t
  BY <1>5, TokenFacts DEF Ends
<1>7. CASE T = None
  <2>1. list = <<>>
    BY <1>1, <1>7 DEF Shown
  <2>2. a.lst = (IF a.token = None THEN <<>> ELSE Desc(a.token.t, a.token.b))
    BY <1>3, <1>7 DEF Continues
  <2>3. a.lst \in Seq(Int)
    <3>1. CASE a.token = None
      BY <2>2, <3>1
    <3>2. CASE a.token # None
      <4>1. a.token.t \in Int /\ a.token.b \in Int /\ a.token.b <= a.token.t + 1
        BY <1>6, <3>2
      <4>. QED
        BY <2>2, <3>2, <4>1, DescSeq
    <3>. QED
      BY <3>1, <3>2
  <2>4. a.lst \o list = a.lst /\ list \o a.lst = a.lst
    BY <2>1, <2>3, ConcatEmptySeq
  <2>. QED
    BY <2>2, <2>4
<1>8. CASE T # None
  <2>1. T.t \in Int /\ T.b \in Int /\ T.b <= T.t /\ list = Desc(T.t, T.b)
    BY <1>1, <1>2, <1>8, TokenFacts DEF Ends, Shown
  <2>2. CASE r.direction = Down
    <3>1. /\ a.token # None /\ a.token.t = T.t /\ a.token.b <= T.b
          /\ a.lst = Desc(T.b - 1, a.token.b)
      BY <1>3, <1>8, <2>2 DEF Continues
    <3>2. a.token.b \in Int /\ T.b <= T.t + 1
      BY <1>6, <2>1, <3>1
    <3>3. Desc(T.t, T.b) \o Desc(T.b - 1, a.token.b) = Desc(T.t, a.token.b)
      BY <2>1, <3>1, <3>2, DescConcat
    <3>. QED
      BY <1>4, <2>1, <2>2, <3>1, <3>3
  <2>3. CASE r.direction = Up
    <3>1. /\ a.token # None /\ a.token.b = T.b /\ a.token.t >= T.t
          /\ a.lst = Desc(a.token.t, T.t + 1)
      BY <1>3, <1>4, <1>8, <2>3 DEF Continues
    <3>2. /\ a.token.t \in Int /\ T.t + 1 \in Int /\ T.t + 1 <= a.token.t + 1
          /\ T.b <= T.t + 1 /\ (T.t + 1) - 1 = T.t
      BY <1>6, <2>1, <3>1
    <3>3. Desc(a.token.t, T.t + 1) \o Desc((T.t + 1) - 1, T.b) = Desc(a.token.t, T.b)
      BY <2>1, <3>2, DescConcat
    <3>. QED
      BY <2>1, <2>3, <3>1, <3>2, <3>3
  <2>. QED
    BY <1>4, <2>2, <2>3
<1>. QED
  BY <1>7, <1>8

\* The answer to the last load is shown, any other is dropped.
LEMMA LoadCallbackKeeps == ASSUME ListIInv, NEW r \in out, LoadCallback(r) PROVE ListIInv'
<1>1. /\ notes \in 0..MaxNotes /\ list \in Seq(1..MaxNotes) /\ data \in Data
      /\ Ends(data.token, notes) /\ Shown /\ OutOk
  BY DEF ListIInv
<1>2. r.ans # None /\ out' = out \ {r} /\ notes' = notes
  BY DEF LoadCallback
<1>3. CASE ~Current(r)
  <2>1. data' = data /\ list' = list
    BY <1>3 DEF LoadCallback
  <2>2. OutOk'
    BY <1>1, <1>2, <2>1, Fewer
  <2>3. Shown'
    BY <1>1, <2>1 DEF Shown
  <2>. QED
    BY <1>1, <1>2, <2>1, <2>2, <2>3 DEF ListIInv
<1>4. CASE Current(r)
  <2>1. r.seq = data.seq
    BY <1>4 DEF Current
  <2>2. /\ data' = [data EXCEPT !.token = r.ans.token]
        /\ list' = IF r.direction = Up THEN r.ans.lst \o list ELSE list \o r.ans.lst
    BY <1>4 DEF LoadCallback
  <2>3. r \in ListRequests /\ Continues(r.token, r.direction, r.ans, notes)
    BY <1>1, <1>2 DEF OutOk
  <2>4. r.ans \in Replies
    BY <1>2, <2>3 DEF ListRequests
  <2>5. r.ans.token \in Tokens /\ Ends(r.ans.token, notes)
    BY <2>3, <2>4 DEF Replies, Continues
  <2>6. data' \in Data /\ data'.seq = data.seq /\ data'.token = r.ans.token
    BY <1>1, <2>2, <2>5 DEF Data
  <2>7. list' = (IF r.ans.token = None THEN <<>> ELSE Desc(r.ans.token.t, r.ans.token.b))
    BY <1>2, <2>1, <2>2, Joined
  <2>8. list' \in Seq(1..MaxNotes) /\ Shown'
    BY <1>1, <2>5, <2>6, <2>7, ShownTyped DEF Shown
  <2>9. \A q \in out' : q.seq # data.seq
    BY <1>1, <1>2, <2>1 DEF OutOk
  <2>10. OutOk'
    BY <1>1, <1>2, <2>6, <2>9, Fewer
  <2>. QED
    BY <1>1, <1>2, <2>5, <2>6, <2>8, <2>10 DEF ListIInv
<1>. QED
  BY <1>3, <1>4

\* The page starts empty and without a token.
LEMMA InitIInv == ListInit => ListIInv
<1>. SUFFICES ASSUME ListInit PROVE ListIInv
  OBVIOUS
<1>1. data \in Data /\ data.token = None
  BY TokenFacts DEF ListInit, Data, Tokens
<1>2. list \in Seq(1..MaxNotes) /\ Shown /\ Ends(data.token, notes)
  BY <1>1 DEF ListInit, Shown, Ends
<1>3. OutOk
  BY DEF ListInit, OutOk
<1>. QED
  BY <1>1, <1>2, <1>3 DEF ListInit, ListIInv

\* Every step keeps the invariant.
LEMMA NextIInv == ListIInv /\ [ListNext]_listVars => ListIInv'
<1>. SUFFICES ASSUME ListIInv, [ListNext]_listVars PROVE ListIInv'
  OBVIOUS
<1>1. notes \in 0..MaxNotes /\ data \in Data /\ notes \in Int /\ notes \in notes..MaxNotes
  BY TokenFacts DEF ListIInv
<1>2. ASSUME NEW d \in {Up, Down}, SetupTimer(d)
      PROVE  data' \in Data /\ data'.seq = data.seq /\ data'.token = data.token
  BY <1>1, <1>2 DEF SetupTimer, Data
<1>3. CASE SomebodyWrites
  BY <1>1, <1>3, TokenFacts, PageStep DEF SomebodyWrites
<1>4. CASE Write
  <2>1. SetupTimer(Up) /\ notes' \in notes..MaxNotes /\ list' = list /\ out' = out
    BY <1>1, <1>4, TokenFacts DEF Write
  <2>. QED
    BY <1>2, <2>1, PageStep
<1>5. CASE Load
  BY <1>5, LoadKeeps
<1>6. ASSUME NEW d \in {Up, Down}, Scroll(d) PROVE ListIInv'
  <2>1. SetupTimer(d) /\ notes' = notes /\ list' = list /\ out' = out
    BY <1>6 DEF Scroll
  <2>. QED
    BY <1>1, <1>2, <2>1, PageStep
<1>7. ASSUME NEW h \in 0..notes, Refresh(h) PROVE ListIInv'
  BY <1>7, RefreshKeeps
<1>8. ASSUME NEW r \in out, Serve(r) \/ LoadCallback(r) \/ Fail(r) PROVE ListIInv'
  BY <1>8, ServeKeeps, LoadCallbackKeeps, FailKeeps
<1>9. CASE UNCHANGED listVars
  BY <1>1, <1>9, PageStep DEF listVars
<1>. QED
  BY <1>3, <1>4, <1>5, <1>6, <1>7, <1>8, <1>9 DEF ListNext

\* The page and its token go together in every state that can be reached.
THEOREM ListInvariant == ListSpec => []ListIInv
  BY InitIInv, NextIInv, PTL DEF ListSpec

----------------------------------------------------------------------------
(* TinyList: what it says.                                                 *)

\* A stretch has neither gap nor repetition.
LEMMA IInvContiguous == ListIInv => Contiguous
<1>. SUFFICES ASSUME ListIInv, NEW i \in 1 .. Len(list) - 1 PROVE list[i + 1] = list[i] - 1
  BY DEF Contiguous
<1>1. data \in Data /\ Ends(data.token, notes) /\ Shown
  BY DEF ListIInv
<1>2. CASE data.token = None
  BY <1>1, <1>2 DEF Shown
<1>3. CASE data.token # None
  <2>. DEFINE t == data.token.t
              b == data.token.b
  <2>1. t \in Int /\ b \in Int /\ b <= t + 1 /\ list = Desc(t, b)
    BY <1>1, <1>3, TokenFacts DEF Ends, Shown, Data
  <2>. HIDE DEF t, b
  <2>2. Len(list) = t - b + 1 /\ \A j \in 1 .. t - b + 1 : list[j] = t - j + 1
    BY <2>1, DescFacts
  <2>3. i \in 1 .. t - b + 1 /\ i + 1 \in 1 .. t - b + 1
    BY <2>1, <2>2
  <2>4. list[i] = t - i + 1 /\ list[i + 1] = t - (i + 1) + 1
    BY <2>2, <2>3
  <2>. QED
    BY <2>1, <2>3, <2>4
<1>. QED
  BY <1>2, <1>3

\* The ends of a stretch are its token.
LEMMA IInvToken == ListIInv => TokenOfList
<1>. SUFFICES ASSUME ListIInv PROVE data.token = TokenOf(list)
  BY DEF TokenOfList
<1>1. data \in Data /\ Ends(data.token, notes) /\ Shown
  BY DEF ListIInv
<1>2. CASE data.token = None
  BY <1>1, <1>2 DEF Shown, TokenOf
<1>3. CASE data.token # None
  <2>1. /\ data.token.t \in Int /\ data.token.b \in Int /\ data.token.b <= data.token.t
        /\ data.token = [t |-> data.token.t, b |-> data.token.b]
        /\ list = Desc(data.token.t, data.token.b)
    BY <1>1, <1>3, TokenFacts DEF Ends, Shown, Data
  <2>2. TokenOf(Desc(data.token.t, data.token.b)) = [t |-> data.token.t, b |-> data.token.b]
    BY <2>1, TokenOfDesc
  <2>. QED
    BY <2>1, <2>2
<1>. QED
  BY <1>2, <1>3

\* Whatever is out and however answers overtake each other, every variable has
\* its type: no answer reaches past the notes there are.
THEOREM ListTypesOK == ListSpec => []ListTypeOK
  BY ListInvariant, IInvTypes, PTL

\* The page shows a stretch of the notes without a gap or a repetition.
THEOREM Stretch == ListSpec => []Contiguous
  BY ListInvariant, IInvContiguous, PTL

\* The token is about what the page shows.
THEOREM TokenTrue == ListSpec => []TokenOfList
  BY ListInvariant, IInvToken, PTL
=============================================================================
