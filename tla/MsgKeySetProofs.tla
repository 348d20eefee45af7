--------------------------- MODULE MsgKeySetProofs ---------------------------
(***************************************************************************)
(* What holds of the run-length words for every number of them: each       *)
(* operation does to the set what NumberSet says, and the gaps are found   *)
(* and counted.                                                            *)
(***************************************************************************)
EXTENDS MsgKeySet, SeqLemmas, FiniteSetTheorems

-----------------------------------------------------------------------------
(* Loops.                                                                  *)

\* What holds at first and is kept by each turn of a loop holds after n turns.
LEMMA Induction ==
    ASSUME NEW n \in Nat, NEW T, 0 \in T,
           \A k \in 1..n : k - 1 \in T => k \in T
    PROVE  \A k \in 0..n : k \in T
<1> SUFFICES ASSUME {k \in 0..n : k \notin T} # {} PROVE FALSE
  OBVIOUS
<1> DEFINE U == {k \in 0..n : k \notin T}
<1>1. U \in SUBSET Nat /\ U # {}
  OBVIOUS
<1>2. Min(U) \in U /\ \A y \in U : Min(U) <= y
  BY <1>1, MinNat
<1>3. Min(U) \in 1..n /\ Min(U) - 1 \in 0..n /\ ~ (Min(U) <= Min(U) - 1)
  BY <1>2
<1>4. Min(U) - 1 \in T
  BY <1>2, <1>3
<1>. QED  BY <1>2, <1>3, <1>4

\* f is what n turns of a loop make of base.
Turns(f, n, base, step) ==
    f = [k \in 0..n |-> IF k = 0 THEN base ELSE step[<<f[k - 1], k>>]]

\* A loop of n turns that goes from element to element of S has a result: the
\* function written by recursion exists.
LEMMA LoopExists ==
    ASSUME NEW S, NEW n \in Nat, NEW base \in S, NEW step \in [S \X (1..n) -> S]
    PROVE  \E f \in [0..n -> S] : Turns(f, n, base, step)
<1> DEFINE Is(f, m) == /\ f \in [0..m -> S]
                       /\ f = [k \in 0..m |-> IF k = 0 THEN base ELSE step[<<f[k - 1], k>>]]
           T == {m \in 0..n : \E f \in [0..m -> S] : Is(f, m)}
<1>1. 0 \in T
  <2> DEFINE f == [k \in 0..0 |-> base]
  <2>1. f \in [0..0 -> S]
    OBVIOUS
  <2>2. f = [k \in 0..0 |-> IF k = 0 THEN base ELSE step[<<f[k - 1], k>>]]
    OBVIOUS
  <2>3. Is(f, 0)
    BY <2>1, <2>2
  <2> HIDE DEF f, Is
  <2>. QED  BY <2>1, <2>3
<1>2. ASSUME NEW m \in 1..n, m - 1 \in T
      PROVE  m \in T
  <2>1. PICK f \in [0..m - 1 -> S] : Is(f, m - 1)
    <3> HIDE DEF Is
    <3>. QED  BY <1>2
  <2>2. f[m - 1] \in S /\ step[<<f[m - 1], m>>] \in S
    BY <2>1
  <2> DEFINE g == [k \in 0..m |-> IF k = m THEN step[<<f[m - 1], m>>] ELSE f[k]]
  <2>3. g \in [0..m -> S]
    BY <2>1, <2>2
  <2>4. \A k \in 0..m - 1 : g[k] = f[k] /\ k \in 0..m
    OBVIOUS
  <2>5. ASSUME NEW k \in 0..m
        PROVE  g[k] = IF k = 0 THEN base ELSE step[<<g[k - 1], k>>]
    <3>1. CASE k = m
      <4>1. g[k - 1] = f[m - 1] /\ k # 0
        BY <2>4, <3>1
      <4>. QED  BY <3>1, <4>1
    <3>2. CASE k # m
      <4>1. k \in 0..m - 1 /\ g[k] = f[k]
        BY <2>4, <3>2
      <4>2. f[k] = IF k = 0 THEN base ELSE step[<<f[k - 1], k>>]
        BY <2>1, <4>1
      <4>3. k # 0 => g[k - 1] = f[k - 1]
        BY <2>4, <4>1
      <4>. QED  BY <4>1, <4>2, <4>3
    <3>. QED  BY <3>1, <3>2
  <2>6. Is(g, m)
    <3> HIDE DEF g
    <3>. QED  BY <2>3, <2>5
  <2> HIDE DEF g, Is
  <2>. QED  BY <2>3, <2>6
<1>3. \A m \in 0..n : m \in T
  <2> HIDE DEF T
  <2>. QED  BY <1>1, <1>2, Induction
<1>4. PICK f \in [0..n -> S] : Is(f, n)
  <2> HIDE DEF Is
  <2>. QED  BY <1>3
<1>5. Turns(f, n, base, step)
  BY <1>4 DEF Turns
<1>. QED  BY <1>5

-----------------------------------------------------------------------------
(* Chunks by their last words.                                             *)

Words == -Largest..Largest

Ends(d) == {l \in DOMAIN d : d[l] >= 0}

\* The chunk that ends with word l has the numbers d[l]..Until(d, l).
Until(d, l) == IF l > 1 /\ d[l - 1] < 0 THEN d[l] - d[l - 1] ELSE d[l]

\* Every length has its word behind it.
Shaped(d) == \A i \in DOMAIN d : d[i] < 0 => i + 1 \in DOMAIN d /\ d[i + 1] >= 0

\* Words as the code takes them for.
Good(d) == /\ d \in Seq(Words)
           /\ Shaped(d)
           /\ \A l \in Ends(d) : Until(d, l) <= Largest
           /\ \A l, m \in Ends(d) : l < m => Until(d, l) < d[m]

\* The numbers of the chunks up to word k, and of those behind it.
UpTo(d, k) == {n \in Numbers : \E l \in Ends(d) : l <= k /\ d[l] <= n /\ n <= Until(d, l)}
Beyond(d, k) == {n \in Numbers : \E l \in Ends(d) : l > k /\ d[l] <= n /\ n <= Until(d, l)}
Keys(d) == UpTo(d, Len(d))

\* A place between two chunks, in front of the first or behind the last.
Cut(d, k) == k = 0 \/ k \in Ends(d)

Before(A, B) == \A x \in A, y \in B : x < y

LEMMA SeqFacts ==
    ASSUME NEW d \in Seq(Words)
    PROVE  /\ Len(d) \in Nat /\ DOMAIN d = 1..Len(d)
           /\ \A i \in 1..Len(d) : d[i] \in Int /\ -Largest <= d[i] /\ d[i] <= Largest
           /\ Largest \in Nat
<1>1. Largest \in Nat
  BY KeySetAssumption
<1>2. \A i \in 1..Len(d) : d[i] \in Words
  OBVIOUS
<1>. QED  BY <1>1, <1>2 DEF Words

LEMMA UntilFacts ==
    ASSUME NEW d, Good(d), NEW l \in Ends(d)
    PROVE  /\ l \in 1..Len(d) /\ d[l] \in Numbers /\ Until(d, l) \in Numbers
           /\ d[l] <= Until(d, l)
           /\ l > 1 /\ d[l - 1] < 0 => Until(d, l) > d[l]
<1>1. /\ d \in Seq(Words) /\ l \in DOMAIN d /\ d[l] >= 0 /\ Until(d, l) <= Largest
  BY DEF Good, Ends
<1>2. l > 1 => l - 1 \in 1..Len(d)
  BY <1>1, SeqFacts
<1>. QED  BY <1>1, <1>2, SeqFacts DEF Until, Numbers

\* The words up to a cut, and those behind it.
LEMMA Prefix ==
    ASSUME NEW d, Good(d), NEW k, Cut(d, k)
    PROVE  LET s == SubSeq(d, 1, k)
           IN  /\ Good(s) /\ Len(s) = k /\ Keys(s) = UpTo(d, k)
               /\ \A i \in 1..k : s[i] = d[i]
<1> DEFINE s == SubSeq(d, 1, k)
<1>1. d \in Seq(Words) /\ k \in 0..Len(d)
  BY SeqFacts DEF Good, Cut, Ends
<1>2. /\ s \in Seq(Words) /\ Len(s) = k
      /\ \A i \in 1..k : s[i] = d[i]
  <2>1. \A i \in 1..k : d[i] \in Words
    BY <1>1
  <2>2. k \in Int /\ 1 \in Int
    BY <1>1, SeqFacts
  <2>3. /\ s \in Seq(Words) /\ Len(s) = IF 1 <= k THEN k - 1 + 1 ELSE 0
        /\ \A i \in 1..k - 1 + 1 : s[i] = d[1 + i - 1]
    BY <2>1, <2>2, SubSeqProperties
  <2>. QED  BY <1>1, <2>3, SeqFacts
<1> HIDE DEF s
<1>3. DOMAIN s = 1..k /\ Len(s) = k
  BY <1>2
<1>4. \A i \in 1..k : i \in 1..Len(d)
  BY <1>1, SeqFacts
<1>5. Ends(s) = {l \in Ends(d) : l <= k}
  BY <1>1, <1>2, <1>3, <1>4, SeqFacts DEF Ends
<1>6. \A l \in Ends(s) : Until(s, l) = Until(d, l) /\ s[l] = d[l]
  <2> SUFFICES ASSUME NEW l \in Ends(s) PROVE Until(s, l) = Until(d, l) /\ s[l] = d[l]
    OBVIOUS
  <2>1. l \in 1..k /\ (l > 1 => l - 1 \in 1..k)
    BY <1>1, <1>3, SeqFacts DEF Ends
  <2>. QED  BY <1>2, <2>1 DEF Until
<1>7. Shaped(s)
  <2> SUFFICES ASSUME NEW i \in 1..k, s[i] < 0 PROVE i + 1 \in 1..k /\ s[i + 1] >= 0
    BY <1>3 DEF Shaped
  <2>1. d[i] < 0 /\ i + 1 \in 1..Len(d) /\ d[i + 1] >= 0
    BY <1>1, <1>2, <1>4, SeqFacts DEF Good, Shaped
  <2>2. d[k] >= 0
    BY DEF Cut, Ends
  <2>3. i # k
    BY <2>1, <2>2, <1>1, <1>4, SeqFacts
  <2>. QED  BY <1>1, <1>2, <2>1, <2>3, SeqFacts
<1>8. Good(s)
  BY <1>2, <1>5, <1>6, <1>7 DEF Good
<1>9. Keys(s) = UpTo(d, k)
  BY <1>1, <1>3, <1>5, <1>6, SeqFacts DEF Keys, UpTo
<1>. QED  BY <1>2, <1>8, <1>9 DEF s

LEMMA Suffix ==
    ASSUME NEW d, Good(d), NEW k, Cut(d, k)
    PROVE  LET t == SubSeq(d, k + 1, Len(d))
           IN  /\ Good(t) /\ Len(t) = Len(d) - k /\ Keys(t) = Beyond(d, k)
               /\ \A i \in 1..(Len(d) - k) : t[i] = d[k + i]
<1> DEFINE t == SubSeq(d, k + 1, Len(d))
           n == Len(d) - k
<1>1. d \in Seq(Words) /\ k \in 0..Len(d) /\ Len(d) \in Nat /\ n \in Nat
  BY SeqFacts DEF Good, Cut, Ends
<1>2. /\ t \in Seq(Words) /\ Len(t) = n
      /\ \A i \in 1..n : t[i] = d[k + i]
  <2>1. \A i \in k + 1..Len(d) : d[i] \in Words
    BY <1>1
  <2>2. /\ t \in Seq(Words)
        /\ Len(t) = IF k + 1 <= Len(d) THEN Len(d) - (k + 1) + 1 ELSE 0
        /\ \A i \in 1..Len(d) - (k + 1) + 1 : t[i] = d[k + 1 + i - 1]
    BY <1>1, <2>1, SubSeqProperties
  <2>3. \A i \in 1..n : k + 1 + i - 1 = k + i /\ i \in 1..Len(d) - (k + 1) + 1
    BY <1>1
  <2>4. Len(t) = n
    BY <1>1, <2>2
  <2>5. \A i \in 1..n : t[i] = d[k + i]
    BY <2>2, <2>3
  <2>. QED  BY <2>2, <2>4, <2>5
<1> HIDE DEF t
<1>3. DOMAIN t = 1..n /\ Len(t) = n
  BY <1>2
<1>4. \A i \in 1..n : k + i \in 1..Len(d) /\ d[k + i] \in Int
  BY <1>1, SeqFacts
<1>5. \A i : i \in Ends(t) <=> i \in Int /\ i > 0 /\ k + i \in Ends(d)
  <2>1. \A i \in Int : i > 0 /\ k + i \in 1..Len(d) => i \in 1..n
    BY <1>1
  <2>. QED  BY <1>1, <1>2, <1>3, <1>4, <2>1, SeqFacts DEF Ends
<1>6. \A i \in Ends(t) : Until(t, i) = Until(d, k + i) /\ t[i] = d[k + i]
  <2> SUFFICES ASSUME NEW i \in Ends(t) PROVE Until(t, i) = Until(d, k + i) /\ t[i] = d[k + i]
    OBVIOUS
  <2>1. i \in 1..n
    BY <1>3 DEF Ends
  <2>2. CASE i = 1
    <3>1. k + i > 1 => ~ (d[k + i - 1] < 0)
      BY <1>1, <2>2, SeqFacts DEF Cut, Ends
    <3>. QED  BY <1>1, <1>2, <2>1, <2>2, <3>1 DEF Until
  <2>3. CASE i > 1
    <3>1. i - 1 \in 1..n /\ k + (i - 1) = k + i - 1 /\ k + i > 1
      BY <1>1, <2>1, <2>3
    <3>2. t[i - 1] = d[k + i - 1] /\ t[i] = d[k + i]
      BY <1>2, <2>1, <3>1
    <3>. QED  BY <1>1, <2>1, <2>3, <3>1, <3>2 DEF Until
  <2>. QED  BY <1>1, <2>1, <2>2, <2>3
<1>7. Shaped(t)
  <2> SUFFICES ASSUME NEW i \in 1..n, t[i] < 0 PROVE i + 1 \in 1..n /\ t[i + 1] >= 0
    BY <1>3 DEF Shaped
  <2>1. d[k + i] < 0 /\ k + i + 1 \in 1..Len(d) /\ d[k + i + 1] >= 0
    BY <1>1, <1>2, <1>4, SeqFacts DEF Good, Shaped
  <2>2. i + 1 \in 1..n /\ k + (i + 1) = k + i + 1
    BY <1>1, <2>1
  <2>. QED  BY <1>2, <2>1, <2>2
<1>8. Good(t)
  <2>1. \A l \in Ends(t) : Until(t, l) <= Largest
    BY <1>5, <1>6 DEF Good
  <2>2. ASSUME NEW l \in Ends(t), NEW m \in Ends(t), l < m
        PROVE  Until(t, l) < t[m]
    <3>1. k + l \in Ends(d) /\ k + m \in Ends(d) /\ k + l < k + m
      BY <1>1, <1>5, <2>2
    <3>. QED  BY <1>6, <3>1 DEF Good
  <2>. QED  BY <1>2, <1>7, <2>1, <2>2 DEF Good
<1>9. Keys(t) = Beyond(d, k)
  <2>1. ASSUME NEW x \in Keys(t)
        PROVE  x \in Beyond(d, k)
    <3>1. PICK i \in Ends(t) : t[i] <= x /\ x <= Until(t, i)
      BY DEF Keys, UpTo
    <3>2. k + i \in Ends(d) /\ k + i > k
      BY <1>1, <1>5
    <3>. QED  BY <1>6, <3>1, <3>2 DEF Keys, UpTo, Beyond
  <2>2. ASSUME NEW x \in Beyond(d, k)
        PROVE  x \in Keys(t)
    <3>1. PICK l \in Ends(d) : l > k /\ d[l] <= x /\ x <= Until(d, l)
      BY DEF Beyond
    <3>2. l \in 1..Len(d)
      BY <1>1, SeqFacts DEF Ends
    <3>3. l - k \in Int /\ l - k > 0 /\ k + (l - k) = l /\ l - k <= n
      BY <1>1, <3>1, <3>2
    <3>4. l - k \in Ends(t)
      BY <1>5, <3>3
    <3>. QED  BY <1>3, <1>6, <3>1, <3>3, <3>4 DEF Keys, UpTo, Beyond
  <2>. QED  BY <2>1, <2>2
<1>. QED  BY <1>2, <1>8, <1>9 DEF t

\* The numbers are those on both sides of a cut, the lower ones first.
LEMMA Sides ==
    ASSUME NEW d, Good(d), NEW k, Cut(d, k)
    PROVE  Keys(d) = UpTo(d, k) \cup Beyond(d, k) /\ Before(UpTo(d, k), Beyond(d, k))
<1>1. d \in Seq(Words) /\ k \in 0..Len(d) /\ Len(d) \in Nat
  BY SeqFacts DEF Good, Cut, Ends
<1>2. Ends(d) \subseteq 1..Len(d)
  BY <1>1, SeqFacts DEF Ends
<1>3. Keys(d) = UpTo(d, k) \cup Beyond(d, k)
  BY <1>1, <1>2 DEF Keys, UpTo, Beyond
<1>4. ASSUME NEW x \in UpTo(d, k), NEW y \in Beyond(d, k)
      PROVE  x < y
  <2>1. PICK l \in Ends(d) : l <= k /\ x <= Until(d, l)
    BY DEF UpTo
  <2>2. PICK m \in Ends(d) : m > k /\ d[m] <= y
    BY DEF Beyond
  <2>3. l < m
    BY <1>1, <1>2, <2>1, <2>2
  <2>4. Until(d, l) < d[m] /\ Until(d, l) \in Int /\ d[m] \in Int
    BY <2>3, UntilFacts DEF Good, Numbers
  <2>. QED  BY <2>1, <2>2, <2>4 DEF UpTo, Beyond, Numbers
<1>. QED  BY <1>3, <1>4 DEF Before

\* Words behind words.
LEMMA Joined ==
    ASSUME NEW a, NEW b, Good(a), Good(b), Before(Keys(a), Keys(b))
    PROVE  Good(a \o b) /\ Keys(a \o b) = Keys(a) \cup Keys(b)
<1> DEFINE c == a \o b
           k == Len(a)
           n == Len(b)
<1>1. a \in Seq(Words) /\ b \in Seq(Words) /\ k \in Nat /\ n \in Nat
  BY SeqFacts DEF Good
<1>2. /\ c \in Seq(Words) /\ Len(c) = k + n
      /\ \A i \in 1..(k + n) : c[i] = IF i <= k THEN a[i] ELSE b[i - k]
  BY <1>1, ConcatProperties
<1> HIDE DEF c, k, n
<1>3. DOMAIN a = 1..k /\ DOMAIN b = 1..n /\ DOMAIN c = 1..(k + n)
  BY <1>1, <1>2 DEF k, n
<1>4. \A i \in 1..k : i \in 1..(k + n) /\ c[i] = a[i]
  BY <1>1, <1>2
<1>5. \A i \in 1..n : k + i \in 1..(k + n) /\ c[k + i] = b[i]
  <2> SUFFICES ASSUME NEW i \in 1..n PROVE k + i \in 1..(k + n) /\ c[k + i] = b[i]
    OBVIOUS
  <2>1. k + i \in 1..(k + n) /\ ~ (k + i <= k) /\ k + i - k = i
    BY <1>1
  <2>. QED  BY <1>1, <1>2, <2>1
<1>6. \A i \in 1..(k + n) : i \in 1..k \/ \E j \in 1..n : i = k + j
  <2> SUFFICES ASSUME NEW i \in 1..(k + n), i \notin 1..k PROVE \E j \in 1..n : i = k + j
    OBVIOUS
  <2>1. i - k \in 1..n /\ i = k + (i - k)
    BY <1>1
  <2>. QED  BY <2>1
<1>7. \A i \in Ends(a) : i \in Ends(c) /\ c[i] = a[i] /\ Until(c, i) = Until(a, i)
  <2> SUFFICES ASSUME NEW i \in Ends(a)
               PROVE  i \in Ends(c) /\ c[i] = a[i] /\ Until(c, i) = Until(a, i)
    OBVIOUS
  <2>1. i \in 1..k /\ (i > 1 => i - 1 \in 1..k)
    BY <1>1, <1>3 DEF Ends
  <2>. QED  BY <1>3, <1>4, <2>1 DEF Ends, Until
<1>8. \A j \in Ends(b) : k + j \in Ends(c) /\ c[k + j] = b[j] /\ Until(c, k + j) = Until(b, j)
  <2> SUFFICES ASSUME NEW j \in Ends(b)
               PROVE  k + j \in Ends(c) /\ c[k + j] = b[j] /\ Until(c, k + j) = Until(b, j)
    OBVIOUS
  <2>1. j \in 1..n
    BY <1>3 DEF Ends
  <2>2. k + j \in Ends(c) /\ c[k + j] = b[j]
    BY <1>3, <1>5, <2>1 DEF Ends
  <2>3. CASE j = 1
    <3>1. k + j > 1 => ~ (c[k + j - 1] < 0)
      <4> SUFFICES ASSUME k + j > 1 PROVE ~ (c[k + j - 1] < 0)
        OBVIOUS
      <4>1. k \in 1..k /\ k + j - 1 = k /\ k + 1 \notin 1..k
        BY <1>1, <2>3
      <4>2. ~ (a[k] < 0)
        BY <1>3, <4>1 DEF Good, Shaped
      <4>. QED  BY <1>4, <4>1, <4>2
    <3>. QED  BY <1>1, <2>1, <2>2, <2>3, <3>1 DEF Until
  <2>4. CASE j > 1
    <3>1. j - 1 \in 1..n /\ k + (j - 1) = k + j - 1 /\ k + j > 1
      BY <1>1, <2>1, <2>4
    <3>2. c[k + j - 1] = b[j - 1]
      BY <1>5, <3>1
    <3>. QED  BY <1>1, <2>1, <2>2, <2>4, <3>1, <3>2 DEF Until
  <2>. QED  BY <2>1, <2>2, <2>3, <2>4
<1>9. \A i \in Ends(c) : i \in Ends(a) \/ \E j \in Ends(b) : i = k + j
  <2> SUFFICES ASSUME NEW i \in Ends(c) PROVE i \in Ends(a) \/ \E j \in Ends(b) : i = k + j
    OBVIOUS
  <2>1. i \in 1..(k + n) /\ c[i] >= 0
    BY <1>3 DEF Ends
  <2>2. CASE i \in 1..k
    BY <1>3, <1>4, <2>1, <2>2 DEF Ends
  <2>3. CASE i \notin 1..k
    <3>1. PICK j \in 1..n : i = k + j
      BY <1>6, <2>1, <2>3
    <3>. QED  BY <1>3, <1>5, <2>1, <3>1 DEF Ends
  <2>. QED  BY <2>2, <2>3
<1>10. Shaped(c)
  <2> SUFFICES ASSUME NEW i \in 1..(k + n), c[i] < 0
               PROVE  i + 1 \in 1..(k + n) /\ c[i + 1] >= 0
    BY <1>3 DEF Shaped
  <2>1. CASE i \in 1..k
    <3>1. a[i] < 0
      BY <1>4, <2>1
    <3>2. i + 1 \in 1..k /\ a[i + 1] >= 0
      BY <1>3, <2>1, <3>1 DEF Good, Shaped
    <3>. QED  BY <1>4, <3>2
  <2>2. CASE i \notin 1..k
    <3>1. PICK j \in 1..n : i = k + j
      BY <1>6, <2>2
    <3>2. b[j] < 0
      BY <1>5, <3>1
    <3>3. j + 1 \in 1..n /\ b[j + 1] >= 0
      BY <1>3, <3>2 DEF Good, Shaped
    <3>4. k + (j + 1) = i + 1
      BY <1>1, <3>1
    <3>. QED  BY <1>5, <3>3, <3>4
  <2>. QED  BY <2>1, <2>2
<1>11. \A l \in Ends(c) : Until(c, l) <= Largest
  BY <1>7, <1>8, <1>9 DEF Good
<1>12. ASSUME NEW l \in Ends(c), NEW m \in Ends(c), l < m
       PROVE  Until(c, l) < c[m]
  <2>1. Ends(a) \subseteq 1..k /\ Ends(b) \subseteq 1..n
    BY <1>3 DEF Ends
  <2>2. CASE m \in Ends(a)
    <3>1. l \in Ends(a)
      BY <1>1, <1>9, <1>12, <2>1, <2>2
    <3>. QED  BY <1>7, <1>12, <2>2, <3>1 DEF Good
  <2>3. CASE m \notin Ends(a)
    <3>1. PICK j \in Ends(b) : m = k + j
      BY <1>9, <2>3
    <3>2. CASE l \in Ends(a)
      <4>1. /\ Until(a, l) \in Numbers /\ a[l] <= Until(a, l) /\ l <= k
            /\ b[j] \in Numbers /\ b[j] <= Until(b, j) /\ j <= n
        BY <2>1, <3>2, UntilFacts
      <4>2. Until(a, l) \in Keys(a)
        BY <1>1, <3>2, <4>1 DEF Keys, UpTo, k, Numbers
      <4>3. b[j] \in Keys(b)
        BY <1>1, <4>1 DEF Keys, UpTo, n, Numbers
      <4>. QED  BY <1>7, <1>8, <3>1, <3>2, <4>2, <4>3 DEF Before
    <3>3. CASE l \notin Ends(a)
      <4>1. PICK i \in Ends(b) : l = k + i
        BY <1>9, <3>3
      <4>2. i < j
        BY <1>1, <1>12, <2>1, <3>1, <4>1
      <4>. QED  BY <1>8, <3>1, <4>1, <4>2 DEF Good
    <3>. QED  BY <3>2, <3>3
  <2>. QED  BY <2>2, <2>3
<1>13. Good(c)
  BY <1>2, <1>10, <1>11, <1>12 DEF Good
<1>14. Keys(c) = Keys(a) \cup Keys(b)
  <2>1. Ends(a) \subseteq 1..k /\ Ends(b) \subseteq 1..n /\ Ends(c) \subseteq 1..(k + n)
    BY <1>3 DEF Ends
  <2>2. \A x : x \in Keys(a) <=> x \in Numbers /\ \E i \in Ends(a) : a[i] <= x /\ x <= Until(a, i)
    BY <2>1 DEF Keys, UpTo, k
  <2>3. \A x : x \in Keys(b) <=> x \in Numbers /\ \E i \in Ends(b) : b[i] <= x /\ x <= Until(b, i)
    BY <2>1 DEF Keys, UpTo, n
  <2>4. \A x : x \in Keys(c) <=> x \in Numbers /\ \E i \in Ends(c) : c[i] <= x /\ x <= Until(c, i)
    BY <1>2, <2>1 DEF Keys, UpTo
  <2>5. \A x : x \in Keys(a) => x \in Keys(c)
    BY <1>7, <2>2, <2>4
  <2>6. \A x : x \in Keys(b) => x \in Keys(c)
    BY <1>8, <2>3, <2>4
  <2>7. ASSUME NEW x \in Keys(c)
        PROVE  x \in Keys(a) \/ x \in Keys(b)
    <3>1. x \in Numbers
      BY <2>4
    <3>2. PICK i \in Ends(c) : c[i] <= x /\ x <= Until(c, i)
      BY <2>4
    <3>3. CASE i \in Ends(a)
      BY <1>7, <2>2, <3>1, <3>2, <3>3
    <3>4. CASE i \notin Ends(a)
      <4>1. PICK j \in Ends(b) : i = k + j
        BY <1>9, <3>4
      <4>. QED  BY <1>8, <2>3, <3>1, <3>2, <4>1
    <3>. QED  BY <3>3, <3>4
  <2>. QED  BY <2>5, <2>6, <2>7
<1>. QED  BY <1>13, <1>14 DEF c

-----------------------------------------------------------------------------
(* Chunks by their first words, as the code walks over them.               *)

EndOf(d, i) == i + Size(d, i) - 1

LEMMA StartOfEnd ==
    ASSUME NEW d, Good(d), NEW l \in Ends(d)
    PROVE  /\ StartOf(d, l) \in Starts(d) /\ EndOf(d, StartOf(d, l)) = l
           /\ From(d, StartOf(d, l)) = d[l] /\ To(d, StartOf(d, l)) = Until(d, l)
           /\ StartOf(d, l) \in 1..l
<1>1. d \in Seq(Words) /\ l \in 1..Len(d) /\ d[l] >= 0 /\ DOMAIN d = 1..Len(d)
  BY SeqFacts DEF Good, Ends
<1>2. CASE l > 1 /\ d[l - 1] < 0
  <2>1. l - 1 \in 1..Len(d) /\ StartOf(d, l) = l - 1 /\ l - 1 + 1 = l /\ d[l - 1] \in Int
    BY <1>1, <1>2, SeqFacts DEF StartOf
  <2>2. l - 1 = 1 \/ ~ (d[l - 1 - 1] < 0)
    <3> SUFFICES ASSUME l - 1 # 1, d[l - 1 - 1] < 0 PROVE FALSE
      OBVIOUS
    <3>1. l - 1 - 1 \in DOMAIN d /\ l - 1 - 1 + 1 = l - 1
      BY <1>1, <2>1, SeqFacts
    <3>2. d[l - 1] >= 0
      BY <3>1 DEF Good, Shaped
    <3>. QED  BY <1>2, <2>1, <3>2
  <2>3. l - 1 \in Starts(d)
    <3>1. l - 1 # 1 => l - 1 - 1 \in 1..Len(d)
      BY <1>1, <2>1, SeqFacts
    <3>. QED  BY <1>1, <2>1, <2>2, <3>1, SeqFacts DEF Starts
  <2>4. From(d, l - 1) = d[l] /\ To(d, l - 1) = Until(d, l) /\ EndOf(d, l - 1) = l
    BY <1>1, <1>2, <2>1, SeqFacts DEF From, To, Until, EndOf, Size
  <2>. QED  BY <1>1, <2>1, <2>3, <2>4
<1>3. CASE ~ (l > 1 /\ d[l - 1] < 0)
  <2>1. StartOf(d, l) = l /\ (l > 1 => l - 1 \in 1..Len(d))
    BY <1>1, <1>3, SeqFacts DEF StartOf
  <2>2. l \in Starts(d)
    BY <1>1, <1>3, <2>1, SeqFacts DEF Starts
  <2>3. From(d, l) = d[l] /\ To(d, l) = Until(d, l) /\ EndOf(d, l) = l
    BY <1>1, <1>3, SeqFacts DEF From, To, Until, EndOf, Size
  <2>. QED  BY <1>1, <2>1, <2>2, <2>3
<1>. QED  BY <1>2, <1>3

LEMMA EndOfStart ==
    ASSUME NEW d, Good(d), NEW i \in Starts(d)
    PROVE  /\ EndOf(d, i) \in Ends(d) /\ StartOf(d, EndOf(d, i)) = i
           /\ From(d, i) = d[EndOf(d, i)] /\ To(d, i) = Until(d, EndOf(d, i))
           /\ From(d, i) \in Numbers /\ To(d, i) \in Numbers /\ From(d, i) <= To(d, i)
           /\ i \in 1..Len(d) /\ EndOf(d, i) \in i..Len(d) /\ Cut(d, i - 1)
<1>1. d \in Seq(Words) /\ i \in 1..Len(d) /\ DOMAIN d = 1..Len(d)
  BY SeqFacts DEF Good, Starts
<1>2. /\ EndOf(d, i) \in Ends(d) /\ StartOf(d, EndOf(d, i)) = i
      /\ EndOf(d, i) \in i..Len(d)
  <2>1. CASE d[i] < 0
    <3>1. i + 1 \in 1..Len(d) /\ d[i + 1] >= 0
      BY <1>1, <2>1 DEF Good, Shaped
    <3>2. EndOf(d, i) = i + 1 /\ i + 1 > 1 /\ i + 1 - 1 = i
      BY <1>1, <2>1 DEF EndOf, Size
    <3>. QED  BY <1>1, <2>1, <3>1, <3>2 DEF Ends, StartOf
  <2>2. CASE ~ (d[i] < 0)
    <3>1. EndOf(d, i) = i /\ d[i] >= 0
      BY <1>1, <2>2, SeqFacts DEF EndOf, Size
    <3>2. ~ (i > 1 /\ d[i - 1] < 0)
      <4> SUFFICES ASSUME i > 1 PROVE ~ (d[i - 1] < 0)
        OBVIOUS
      <4>1. i - 1 \in 1..Len(d) /\ d[i - 1] >= 0
        BY <1>1 DEF Starts
      <4>. QED  BY <1>1, <4>1, SeqFacts
    <3>. QED  BY <1>1, <3>1, <3>2 DEF Ends, StartOf
  <2>. QED  BY <2>1, <2>2
<1>3. Cut(d, i - 1)
  <2>1. i # 1 => i - 1 \in 1..Len(d) /\ d[i - 1] >= 0
    BY <1>1 DEF Starts
  <2>. QED  BY <1>1, <2>1 DEF Cut, Ends
<1>4. /\ From(d, i) = d[EndOf(d, i)] /\ To(d, i) = Until(d, EndOf(d, i))
  BY <1>2, StartOfEnd
<1>. QED  BY <1>1, <1>2, <1>3, <1>4, UntilFacts

\* Behind a cut a chunk starts.
LEMMA StartBehind ==
    ASSUME NEW d, Good(d), NEW k, Cut(d, k), k < Len(d)
    PROVE  k + 1 \in Starts(d)
<1>1. d \in Seq(Words) /\ k \in 0..Len(d) /\ DOMAIN d = 1..Len(d)
  BY SeqFacts DEF Good, Cut, Ends
<1>2. k + 1 \in 1..Len(d) /\ k + 1 - 1 = k
  BY <1>1, SeqFacts
<1>. QED  BY <1>1, <1>2 DEF Cut, Ends, Starts

\* The end of the chunk before a cut, of the last chunk if it is the last one.
LEMMA LastIsCut ==
    ASSUME NEW d, Good(d)
    PROVE  Cut(d, Len(d)) /\ (d # <<>> => Len(d) \in Ends(d))
<1>1. d \in Seq(Words) /\ Len(d) \in Nat /\ DOMAIN d = 1..Len(d)
  BY SeqFacts DEF Good
<1>2. ASSUME Len(d) # 0 PROVE Len(d) \in Ends(d)
  <2>1. Len(d) \in 1..Len(d) /\ Len(d) + 1 \notin 1..Len(d) /\ d[Len(d)] \in Int
    BY <1>1, <1>2, SeqFacts
  <2>2. ~ (d[Len(d)] < 0)
    BY <1>1, <2>1 DEF Good, Shaped
  <2>. QED  BY <1>1, <2>1, <2>2 DEF Ends
<1>3. d # <<>> => Len(d) # 0
  BY <1>1
<1>. QED  BY <1>2, <1>3 DEF Cut

\* Starts and ends of chunks are in the same order.
LEMMA EndsBefore ==
    ASSUME NEW d, Good(d), NEW i \in Starts(d), NEW l \in Ends(d)
    PROVE  /\ l < i <=> StartOf(d, l) < i
           /\ EndOf(d, i) < l <=> i < StartOf(d, l)
           /\ EndOf(d, i) = l <=> i = StartOf(d, l)
<1>1. d \in Seq(Words) /\ i \in 1..Len(d) /\ l \in 1..Len(d) /\ DOMAIN d = 1..Len(d) /\ d[l] >= 0
      /\ d[l] \in Int /\ Len(d) \in Nat
  BY SeqFacts DEF Good, Starts, Ends
<1>2. StartOf(d, l) = l \/ (StartOf(d, l) = l - 1 /\ l > 1 /\ d[l - 1] < 0 /\ l \notin Starts(d))
  <2>1. l > 1 => l - 1 \in 1..Len(d) /\ d[l - 1] \in Int
    BY <1>1, SeqFacts
  <2>2. l > 1 /\ d[l - 1] < 0 => l \notin Starts(d)
    BY <1>1, <2>1 DEF Starts
  <2>. QED  BY <2>2 DEF StartOf
<1>3. EndOf(d, i) = i \/ (EndOf(d, i) = i + 1 /\ i \notin Ends(d))
  <2>1. d[i] \in Int
    BY <1>1, SeqFacts
  <2>. QED  BY <1>1, <2>1 DEF EndOf, Size, Ends
<1>4. EndOf(d, i) = l <=> i = StartOf(d, l)
  BY StartOfEnd, EndOfStart
<1>5. l < i <=> StartOf(d, l) < i
  BY <1>1, <1>2
<1>6. EndOf(d, i) < l <=> i < StartOf(d, l)
  BY <1>1, <1>2, <1>3, <1>4
<1>. QED  BY <1>4, <1>5, <1>6

LEMMA StartsInOrder ==
    ASSUME NEW d, Good(d), NEW i \in Starts(d), NEW j \in Starts(d), i < j
    PROVE  To(d, i) < From(d, j) /\ EndOf(d, i) < j
<1>1. EndOf(d, i) \in Ends(d) /\ EndOf(d, j) \in Ends(d)
      /\ StartOf(d, EndOf(d, i)) = i /\ StartOf(d, EndOf(d, j)) = j
  BY EndOfStart
<1>2. EndOf(d, i) < EndOf(d, j) /\ EndOf(d, i) < j
  BY <1>1, EndsBefore
<1>. QED  BY <1>1, <1>2, EndOfStart DEF Good

\* A number is in the set if a chunk holds it.
LEMMA KeysHeld ==
    ASSUME NEW d, Good(d)
    PROVE  /\ Keys(d) = Members(d) /\ Keys(d) \subseteq Numbers
           /\ \A n : n \in Keys(d) <=> n \in Numbers /\ \E i \in Starts(d) : Holds(d, i, n)
<1>1. d \in Seq(Words) /\ DOMAIN d = 1..Len(d)
  BY SeqFacts DEF Good
<1>2. \A n : n \in Keys(d) <=> n \in Numbers /\ \E l \in Ends(d) : d[l] <= n /\ n <= Until(d, l)
  BY <1>1 DEF Keys, UpTo, Ends
<1>3. \A n : n \in Keys(d) <=> n \in Numbers /\ \E i \in Starts(d) : Holds(d, i, n)
  BY <1>2, StartOfEnd, EndOfStart DEF Holds
<1>4. \A n : n \in Members(d) <=> \E i \in Starts(d) : n \in From(d, i)..To(d, i)
  BY DEF Members
<1>5. \A i \in Starts(d) : \A n : n \in From(d, i)..To(d, i) <=> n \in Numbers /\ Holds(d, i, n)
  <2> SUFFICES ASSUME NEW i \in Starts(d), NEW n
               PROVE  n \in From(d, i)..To(d, i) <=> n \in Numbers /\ Holds(d, i, n)
    OBVIOUS
  <2>1. From(d, i) \in Numbers /\ To(d, i) \in Numbers /\ Largest \in Nat
    BY <1>1, SeqFacts, EndOfStart
  <2>. QED  BY <2>1 DEF Holds, Numbers
<1>6. Keys(d) = Members(d)
  BY <1>3, <1>4, <1>5
<1>. QED  BY <1>2, <1>3, <1>6

\* The numbers on the sides of a cut by the chunks that start there.
LEMMA SidesHeld ==
    ASSUME NEW d, Good(d), NEW k, Cut(d, k)
    PROVE  /\ \A n : n \in UpTo(d, k) <=> n \in Numbers /\ \E i \in Starts(d) : i <= k /\ Holds(d, i, n)
           /\ \A n : n \in Beyond(d, k) <=> n \in Numbers /\ \E i \in Starts(d) : i > k /\ Holds(d, i, n)
<1>1. d \in Seq(Words) /\ DOMAIN d = 1..Len(d) /\ k \in 0..Len(d) /\ Len(d) \in Nat
  BY SeqFacts DEF Good, Cut, Ends
<1>2. \A i \in Starts(d) : i > k <=> EndOf(d, i) > k
  <2> SUFFICES ASSUME NEW i \in Starts(d) PROVE i > k <=> EndOf(d, i) > k
    OBVIOUS
  <2>1. i \in 1..Len(d) /\ EndOf(d, i) \in i..Len(d)
    BY EndOfStart
  <2>2. CASE k = 0
    BY <1>1, <2>1, <2>2
  <2>3. CASE k \in Ends(d)
    <3>1. ~ (EndOf(d, i) < k) => ~ (i < StartOf(d, k))
      BY <2>3, EndsBefore
    <3>2. EndOf(d, i) = k <=> i = StartOf(d, k)
      BY <2>3, EndsBefore
    <3>3. StartOf(d, k) \in 1..k
      BY <2>3, StartOfEnd
    <3>4. k < i <=> StartOf(d, k) < i
      BY <2>3, EndsBefore
    <3>. QED  BY <1>1, <2>1, <3>1, <3>2, <3>3, <3>4
  <2>. QED  BY <2>2, <2>3 DEF Cut
<1>3. \A n : n \in UpTo(d, k) <=> n \in Numbers /\ \E i \in Starts(d) : i <= k /\ Holds(d, i, n)
  <2>1. ASSUME NEW n \in UpTo(d, k)
        PROVE  \E i \in Starts(d) : i <= k /\ Holds(d, i, n)
    <3>1. PICK l \in Ends(d) : l <= k /\ d[l] <= n /\ n <= Until(d, l)
      BY DEF UpTo
    <3>2. l \in 1..Len(d) /\ StartOf(d, l) \in 1..l
      BY <1>1, StartOfEnd DEF Ends
    <3>3. StartOf(d, l) \in Starts(d) /\ Holds(d, StartOf(d, l), n)
      BY <3>1, StartOfEnd DEF Holds
    <3>4. StartOf(d, l) <= k
      BY <1>1, <3>1, <3>2
    <3>. QED  BY <3>3, <3>4
  <2>2. ASSUME NEW n \in Numbers, NEW i \in Starts(d), i <= k, Holds(d, i, n)
        PROVE  n \in UpTo(d, k)
    <3>1. EndOf(d, i) \in Ends(d) /\ EndOf(d, i) <= k
      BY <1>1, <1>2, <2>2, EndOfStart
    <3>. QED  BY <2>2, <3>1, EndOfStart DEF Holds, UpTo
  <2>. QED  BY <2>1, <2>2 DEF UpTo
<1>4. \A n : n \in Beyond(d, k) <=> n \in Numbers /\ \E i \in Starts(d) : i > k /\ Holds(d, i, n)
  <2>1. ASSUME NEW n \in Beyond(d, k)
        PROVE  \E i \in Starts(d) : i > k /\ Holds(d, i, n)
    <3>1. PICK l \in Ends(d) : l > k /\ d[l] <= n /\ n <= Until(d, l)
      BY DEF Beyond
    <3>2. StartOf(d, l) \in Starts(d) /\ Holds(d, StartOf(d, l), n) /\ EndOf(d, StartOf(d, l)) = l
      BY <3>1, StartOfEnd DEF Holds
    <3>. QED  BY <1>2, <3>1, <3>2
  <2>2. ASSUME NEW n \in Numbers, NEW i \in Starts(d), i > k, Holds(d, i, n)
        PROVE  n \in Beyond(d, k)
    <3>1. EndOf(d, i) \in Ends(d) /\ EndOf(d, i) > k
      BY <1>2, <2>2, EndOfStart
    <3>. QED  BY <2>2, <3>1, EndOfStart DEF Holds, Beyond
  <2>. QED  BY <2>1, <2>2 DEF Beyond
<1>. QED  BY <1>3, <1>4

-----------------------------------------------------------------------------
(* What the operators return.                                              *)

LEMMA MaxTwo ==
    ASSUME NEW a \in Int, NEW b \in Int
    PROVE  Max({a, b}) = IF a >= b THEN a ELSE b
<1>1. \E x \in {a, b} : \A y \in {a, b} : x >= y
  OBVIOUS
<1>2. Max({a, b}) \in {a, b} /\ \A y \in {a, b} : Max({a, b}) >= y
  BY <1>1, Zenon DEF Max
<1>. QED  BY <1>2

LEMMA MinTwo ==
    ASSUME NEW a \in Int, NEW b \in Int
    PROVE  Min({a, b}) = IF a <= b THEN a ELSE b
<1>1. \E x \in {a, b} : \A y \in {a, b} : x <= y
  OBVIOUS
<1>2. Min({a, b}) \in {a, b} /\ \A y \in {a, b} : Min({a, b}) <= y
  BY <1>1, Zenon DEF Min
<1>. QED  BY <1>2

LEMMA MaxThree ==
    ASSUME NEW a \in Int, NEW b \in Int, NEW c \in Int
    PROVE  /\ Max({a, b, c}) \in {a, b, c}
           /\ Max({a, b, c}) >= a /\ Max({a, b, c}) >= b /\ Max({a, b, c}) >= c
<1>1. \E x \in {a, b, c} : \A y \in {a, b, c} : x >= y
  OBVIOUS
<1>2. Max({a, b, c}) \in {a, b, c} /\ \A y \in {a, b, c} : Max({a, b, c}) >= y
  BY <1>1, Zenon DEF Max
<1>. QED  BY <1>2

\* A set of naturals up to n has a greatest element.
LEMMA MaxNat ==
    ASSUME NEW n \in Nat, NEW T \in SUBSET (0..n), T # {}
    PROVE  Max(T) \in T /\ \A y \in T : Max(T) >= y
<1> DEFINE U == {k \in 0..n : n - k \in T}
<1>1. U \in SUBSET Nat /\ U # {}
  <2>1. PICK x \in T : TRUE
    OBVIOUS
  <2>2. x \in 0..n /\ n - x \in 0..n /\ n - (n - x) = x
    BY <2>1
  <2>3. n - x \in U
    BY <2>1, <2>2
  <2>4. U \subseteq Nat
    OBVIOUS
  <2> HIDE DEF U
  <2>. QED  BY <2>3, <2>4
<1>2. Min(U) \in U /\ \A y \in U : Min(U) <= y
  BY <1>1, MinNat
<1> DEFINE x == n - Min(U)
<1>3. x \in T /\ Min(U) \in 0..n
  BY <1>2
<1>4. ASSUME NEW y \in T PROVE x >= y
  <2>1. n - y \in U
    <3>1. n - y \in 0..n /\ n - (n - y) = y
      OBVIOUS
    <3>. QED  BY <3>1
  <2>2. Min(U) <= n - y /\ Min(U) \in 0..n
    BY <1>2, <2>1
  <2>. QED  BY <2>2
<1> HIDE DEF x
<1>5. \E z \in T : \A y \in T : z >= y
  BY <1>3, <1>4
<1>. QED  BY <1>5, Zenon DEF Max

LEMMA SearchFinds ==
    ASSUME NEW d, Good(d), NEW i \in Nat, i >= 1, NEW n \in Int
    PROVE  LET s == Search(d, i, n)
           IN  /\ s \in Nat /\ s >= i
               /\ \A j \in Starts(d) : i <= j /\ j < s => To(d, j) < n
               /\ \/ s \in Starts(d) /\ To(d, s) >= n
                  \/ s > Len(d) /\ s = IF i >= Len(d) + 1 THEN i ELSE Len(d) + 1
<1> DEFINE far == {j \in Starts(d) : j >= i /\ To(d, j) >= n}
           e == IF i >= Len(d) + 1 THEN i ELSE Len(d) + 1
           s == Search(d, i, n)
<1>1. Len(d) \in Nat /\ \A j \in Starts(d) : j \in 1..Len(d) /\ To(d, j) \in Int
  BY SeqFacts, EndOfStart DEF Good, Numbers
<1>2. s = Min(far \cup {e})
  <2>1. Max({i, Len(d) + 1}) = e
    BY <1>1, MaxTwo
  <2>. QED  BY <2>1 DEF Search
<1> HIDE DEF s
<1>3. (far \cup {e}) \in SUBSET Nat /\ far \cup {e} # {}
  BY <1>1
<1>4. s \in far \cup {e} /\ \A y \in far \cup {e} : s <= y
  BY <1>2, <1>3, MinNat
<1>5. s \in Nat /\ s >= i
  BY <1>1, <1>4
<1>6. ASSUME NEW j \in Starts(d), i <= j, j < s
      PROVE  To(d, j) < n
  <2>1. j \notin far
    BY <1>1, <1>4, <1>5, <1>6
  <2>. QED  BY <1>1, <1>6, <2>1
<1>7. \/ s \in Starts(d) /\ To(d, s) >= n
      \/ s > Len(d) /\ s = e
  BY <1>1, <1>4
<1>. QED  BY <1>5, <1>6, <1>7 DEF s

\* A search from the start ends at a cut: what is before it ends before n.
LEMMA SearchCuts ==
    ASSUME NEW d, Good(d), NEW n \in Int
    PROVE  LET s == Search(d, 1, n)
           IN  /\ s \in 1..(Len(d) + 1) /\ Cut(d, s - 1)
               /\ \A j \in Starts(d) : j < s => To(d, j) < n
               /\ \A j \in Starts(d) : j >= s => To(d, j) >= n
               /\ s <= Len(d) => s \in Starts(d)
<1> DEFINE s == Search(d, 1, n)
<1>1. Len(d) \in Nat /\ \A j \in Starts(d) : j \in 1..Len(d) /\ To(d, j) \in Int /\ From(d, j) \in Int
                                             /\ From(d, j) <= To(d, j)
  BY SeqFacts, EndOfStart DEF Good, Numbers
<1>2. /\ s \in Nat /\ s >= 1
      /\ \A j \in Starts(d) : 1 <= j /\ j < s => To(d, j) < n
      /\ \/ s \in Starts(d) /\ To(d, s) >= n
         \/ s > Len(d) /\ s = IF 1 >= Len(d) + 1 THEN 1 ELSE Len(d) + 1
  <2>1. 1 \in Nat /\ 1 >= 1
    OBVIOUS
  <2>. QED  BY <2>1, SearchFinds
<1> HIDE DEF s
<1>3. CASE s \in Starts(d) /\ To(d, s) >= n
  <2>1. Cut(d, s - 1)
    BY <1>3, EndOfStart
  <2>2. ASSUME NEW j \in Starts(d), j >= s
        PROVE  To(d, j) >= n
    <3>1. CASE j = s
      BY <1>3, <3>1
    <3>2. CASE j > s
      <4>1. To(d, s) < From(d, j)
        BY <1>3, <3>2, StartsInOrder
      <4>. QED  BY <1>1, <1>3, <4>1
    <3>. QED  BY <1>1, <1>2, <2>2, <3>1, <3>2
  <2>. QED  BY <1>1, <1>2, <1>3, <2>1, <2>2 DEF s
<1>4. CASE s > Len(d) /\ s = IF 1 >= Len(d) + 1 THEN 1 ELSE Len(d) + 1
  <2>1. s = Len(d) + 1 /\ s - 1 = Len(d)
    BY <1>1, <1>4
  <2>2. Cut(d, s - 1)
    BY <2>1, LastIsCut
  <2>. QED  BY <1>1, <1>2, <2>1, <2>2 DEF s
<1>. QED  BY <1>2, <1>3, <1>4

\* One chunk, two literals, nothing.
LEMMA OneChunk ==
    ASSUME NEW from \in Numbers, NEW to \in Numbers, from <= to
    PROVE  /\ Good(Emit(from, to)) /\ Keys(Emit(from, to)) = from..to
           /\ Len(Emit(from, to)) \in {1, 2}
<1> DEFINE e == Emit(from, to)
<1>1. Largest \in Nat /\ from \in Nat /\ to \in Nat /\ from <= Largest /\ to <= Largest
  BY KeySetAssumption DEF Numbers
<1>2. CASE from = to
  <2>1. e = <<from>>
    BY <1>2 DEF Emit
  <2>2. e \in Seq(Words) /\ Len(e) = 1 /\ DOMAIN e = {1} /\ e[1] = from
    BY <1>1, <2>1 DEF Words
  <2> HIDE DEF e
  <2>3. Ends(e) = {1} /\ Until(e, 1) = from
    BY <1>1, <2>2 DEF Ends, Until
  <2>4. Good(e)
    BY <1>1, <2>2, <2>3 DEF Good, Shaped
  <2>5. Keys(e) = from..to
    BY <1>1, <1>2, <2>2, <2>3 DEF Keys, UpTo, Numbers
  <2>. QED  BY <2>2, <2>4, <2>5 DEF e
<1>3. CASE from # to
  <2>1. e = <<-(to - from), from>>
    BY <1>3 DEF Emit
  <2>2. e \in Seq(Words) /\ Len(e) = 2 /\ DOMAIN e = {1, 2} /\ e[1] = -(to - from) /\ e[2] = from
    <3>1. -(to - from) \in Words /\ from \in Words
      BY <1>1 DEF Words
    <3>. QED  BY <2>1, <3>1
  <2> HIDE DEF e
  <2>3. Ends(e) = {2} /\ Until(e, 2) = to
    BY <1>1, <1>3, <2>2 DEF Ends, Until
  <2>4. Good(e)
    BY <1>1, <2>2, <2>3 DEF Good, Shaped
  <2>5. Keys(e) = from..to
    BY <1>1, <2>2, <2>3 DEF Keys, UpTo, Numbers
  <2>. QED  BY <2>2, <2>4, <2>5 DEF e
<1>. QED  BY <1>2, <1>3

LEMMA TwoLiterals ==
    ASSUME NEW x \in Numbers, NEW y \in Numbers, x < y
    PROVE  Good(<<x, y>>) /\ Keys(<<x, y>>) = {x, y}
<1> DEFINE e == <<x, y>>
<1>1. Largest \in Nat /\ x \in Nat /\ y \in Nat /\ x <= Largest /\ y <= Largest
  BY KeySetAssumption DEF Numbers
<1>2. e \in Seq(Words) /\ Len(e) = 2 /\ DOMAIN e = {1, 2} /\ e[1] = x /\ e[2] = y
  <2>1. x \in Words /\ y \in Words
    BY <1>1 DEF Words
  <2>. QED  BY <2>1
<1> HIDE DEF e
<1>3. Ends(e) = {1, 2} /\ Until(e, 1) = x /\ Until(e, 2) = y
  BY <1>1, <1>2 DEF Ends, Until
<1>4. Good(e)
  BY <1>1, <1>2, <1>3 DEF Good, Shaped
<1>5. Keys(e) = {x, y}
  BY <1>1, <1>2, <1>3 DEF Keys, UpTo, Numbers
<1>. QED  BY <1>4, <1>5 DEF e

LEMMA OneLiteral ==
    ASSUME NEW x \in Numbers
    PROVE  Good(<<x>>) /\ Keys(<<x>>) = {x}
<1>1. x \in Int /\ Emit(x, x) = <<x>> /\ x..x = {x}
  BY DEF Numbers, Emit
<1>. QED  BY <1>1, OneChunk

LEMMA NoChunk == Good(<<>>) /\ Keys(<<>>) = {}
<1>1. <<>> \in Seq(Words) /\ DOMAIN <<>> = {}
  OBVIOUS
<1>2. Ends(<<>>) = {}
  BY <1>1 DEF Ends
<1>. QED  BY <1>1, <1>2 DEF Good, Shaped, Keys, UpTo

\* The chunk at word i, what is before it and what is behind it.
LEMMA Around ==
    ASSUME NEW d, Good(d), NEW i \in Starts(d)
    PROVE  LET e == EndOf(d, i)
               chunk == From(d, i)..To(d, i)
           IN  /\ Cut(d, i - 1) /\ Cut(d, e) /\ e \in Ends(d)
               /\ UpTo(d, e) = UpTo(d, i - 1) \cup chunk
               /\ Beyond(d, i - 1) = chunk \cup Beyond(d, e)
               /\ Keys(d) = UpTo(d, i - 1) \cup chunk \cup Beyond(d, e)
               /\ Before(UpTo(d, i - 1), chunk) /\ Before(chunk, Beyond(d, e))
               /\ Before(UpTo(d, i - 1), Beyond(d, e))
<1> DEFINE e == EndOf(d, i)
           chunk == From(d, i)..To(d, i)
<1>1. /\ Cut(d, i - 1) /\ Cut(d, e) /\ e \in Ends(d) /\ i \in Nat /\ e \in Nat /\ i <= e
      /\ \A j \in Starts(d) : j \in Nat
  <2>1. d \in Seq(Words) /\ Len(d) \in Nat
    BY SeqFacts DEF Good
  <2>. QED  BY <2>1, EndOfStart DEF Cut
<1>2. \A j \in Starts(d) : (j <= i - 1 <=> j < i) /\ (j > i - 1 <=> j = i \/ j > e)
                           /\ (j <= e <=> j < i \/ j = i)
  <2> SUFFICES ASSUME NEW j \in Starts(d)
               PROVE  (j <= i - 1 <=> j < i) /\ (j > i - 1 <=> j = i \/ j > e)
                           /\ (j <= e <=> j < i \/ j = i)
    OBVIOUS
  <2>1. i < j => e < j
    BY StartsInOrder
  <2>. QED  BY <1>1, <2>1
<1>3. \A n : n \in chunk <=> n \in Numbers /\ Holds(d, i, n)
  <2>1. From(d, i) \in Numbers /\ To(d, i) \in Numbers /\ Largest \in Nat
    BY SeqFacts, EndOfStart DEF Good
  <2>. QED  BY <2>1 DEF Holds, Numbers
<1>4. \A n : n \in UpTo(d, i - 1) <=> n \in Numbers /\ \E j \in Starts(d) : j < i /\ Holds(d, j, n)
  BY <1>1, <1>2, SidesHeld
<1>5. \A n : n \in UpTo(d, e) <=> n \in Numbers /\ \E j \in Starts(d) : (j < i \/ j = i) /\ Holds(d, j, n)
  BY <1>1, <1>2, SidesHeld
<1>6. \A n : n \in Beyond(d, i - 1) <=> n \in Numbers /\ \E j \in Starts(d) : (j = i \/ j > e) /\ Holds(d, j, n)
  BY <1>1, <1>2, SidesHeld
<1>7. \A n : n \in Beyond(d, e) <=> n \in Numbers /\ \E j \in Starts(d) : j > e /\ Holds(d, j, n)
  BY <1>1, SidesHeld
<1> HIDE DEF chunk, e
<1>8. UpTo(d, e) = UpTo(d, i - 1) \cup chunk
  BY <1>3, <1>4, <1>5
<1>9. Beyond(d, i - 1) = chunk \cup Beyond(d, e)
  BY <1>3, <1>6, <1>7
<1>10. Keys(d) = UpTo(d, i - 1) \cup Beyond(d, i - 1) /\ Before(UpTo(d, i - 1), Beyond(d, i - 1))
  BY <1>1, Sides
<1>11. Before(UpTo(d, e), Beyond(d, e))
  BY <1>1, Sides
<1>. QED  BY <1>1, <1>8, <1>9, <1>10, <1>11 DEF Before, chunk, e

LEMMA LastChunk ==
    ASSUME NEW d, Good(d), d # <<>>
    PROVE  LET k == StartOf(d, Len(d))
           IN  /\ k \in Starts(d) /\ EndOf(d, k) = Len(d) /\ Cut(d, k - 1)
               /\ Keys(d) = UpTo(d, k - 1) \cup From(d, k)..To(d, k)
               /\ Before(UpTo(d, k - 1), From(d, k)..To(d, k))
<1> DEFINE k == StartOf(d, Len(d))
<1>1. Len(d) \in Ends(d)
  BY LastIsCut
<1>2. k \in Starts(d) /\ EndOf(d, k) = Len(d)
  BY <1>1, StartOfEnd
<1> HIDE DEF k
<1>3. /\ Cut(d, k - 1) /\ UpTo(d, Len(d)) = UpTo(d, k - 1) \cup From(d, k)..To(d, k)
      /\ Before(UpTo(d, k - 1), From(d, k)..To(d, k))
  BY <1>2, Around
<1>. QED  BY <1>2, <1>3 DEF Keys, k

\* A loop that keeps T, a set of pairs of what it has made and of the turn it has
\* come to, has a result.
LEMMA LoopKeeps ==
    ASSUME NEW S, NEW n \in Nat, NEW T \in SUBSET (S \X (0..n)), NEW base, <<base, 0>> \in T,
           NEW step,
           \A x \in S, k \in 1..n : <<x, k - 1>> \in T => <<step[<<x, k>>], k>> \in T
    PROVE  \E f \in [0..n -> S] :
             /\ Turns(f, n, base, step)
             /\ \A k \in 0..n : <<f[k], k>> \in T
<1> DEFINE kept == [z \in S \X (1..n) |->
                      IF <<z[1], z[2] - 1>> \in T THEN step[z] ELSE base]
<1>1. base \in S
  OBVIOUS
<1>2. kept \in [S \X (1..n) -> S]
  <2> SUFFICES ASSUME NEW x \in S, NEW k \in 1..n
               PROVE  (IF <<x, k - 1>> \in T THEN step[<<x, k>>] ELSE base) \in S
    OBVIOUS
  <2>1. <<x, k - 1>> \in T => step[<<x, k>>] \in S
    OBVIOUS
  <2>. QED  BY <1>1, <2>1
<1>3. \A x \in S, k \in 1..n : <<x, k - 1>> \in T => kept[<<x, k>>] = step[<<x, k>>]
  OBVIOUS
<1> HIDE DEF kept
<1>4. PICK f \in [0..n -> S] : Turns(f, n, base, kept)
  BY <1>1, <1>2, LoopExists
<1>5. \A k \in 0..n : f[k] = IF k = 0 THEN base ELSE kept[<<f[k - 1], k>>]
  BY <1>4 DEF Turns
<1> DEFINE U == {k \in 0..n : <<f[k], k>> \in T}
<1>6. 0 \in U
  BY <1>5
<1>7. ASSUME NEW k \in 1..n, k - 1 \in U
      PROVE  k \in U
  <2>1. k \in 0..n /\ k # 0 /\ k - 1 \in 0..n /\ f[k - 1] \in S /\ <<f[k - 1], k - 1>> \in T
    BY <1>7
  <2>2. f[k] = kept[<<f[k - 1], k>>]
    BY <1>5, <2>1
  <2>3. f[k] = step[<<f[k - 1], k>>]
    BY <1>3, <2>1, <2>2
  <2>. QED  BY <2>1, <2>3
<1>8. \A k \in 0..n : k \in U
  <2> HIDE DEF U
  <2>. QED  BY <1>6, <1>7, Induction
<1>9. \A k \in 0..n : f[k] = IF k = 0 THEN base ELSE step[<<f[k - 1], k>>]
  <2> SUFFICES ASSUME NEW k \in 0..n, k # 0 PROVE f[k] = step[<<f[k - 1], k>>]
    BY <1>5
  <2>1. k \in 1..n /\ k - 1 \in 0..n /\ f[k - 1] \in S /\ <<f[k - 1], k - 1>> \in T
    BY <1>8
  <2>2. f[k] = kept[<<f[k - 1], k>>]
    BY <1>5
  <2>. QED  BY <1>3, <2>1, <2>2
<1>10. Turns(f, n, base, step)
  BY <1>9 DEF Turns
<1>. QED  BY <1>8, <1>10

\* What a turn of the loops over the chunks adds.
LEMMA TurnAdds ==
    ASSUME NEW d, Good(d), NEW l \in 1..Len(d)
    PROVE  LET i == StartOf(d, l)
           IN  /\ d[l] < 0 => UpTo(d, l) = UpTo(d, l - 1)
               /\ ~ (d[l] < 0) =>
                    /\ UpTo(d, l) = UpTo(d, l - 1) \cup From(d, i)..To(d, i)
                    /\ Before(UpTo(d, l - 1), From(d, i)..To(d, i))
                    /\ From(d, i) \in Numbers /\ To(d, i) \in Numbers /\ From(d, i) <= To(d, i)
<1> DEFINE i == StartOf(d, l)
<1>1. d \in Seq(Words) /\ Len(d) \in Nat /\ DOMAIN d = 1..Len(d) /\ l \in Nat /\ d[l] \in Int
  BY SeqFacts DEF Good
<1>2. CASE d[l] < 0
  <2>1. \A m \in Ends(d) : m \in Nat /\ (m <= l <=> m <= l - 1)
    BY <1>1, <1>2 DEF Ends
  <2>2. UpTo(d, l) = UpTo(d, l - 1)
    BY <2>1 DEF UpTo
  <2>. QED  BY <1>2, <2>2
<1>3. CASE ~ (d[l] < 0)
  <2>1. l \in Ends(d)
    BY <1>1, <1>3 DEF Ends
  <2>2. i \in Starts(d) /\ EndOf(d, i) = l
    BY <2>1, StartOfEnd
  <2>3. UpTo(d, i - 1) = UpTo(d, l - 1)
    <3>1. i = l \/ (i = l - 1 /\ l > 1 /\ d[l - 1] < 0)
      BY DEF StartOf
    <3>2. ASSUME i = l - 1, l > 1, d[l - 1] < 0
          PROVE  \A m \in Ends(d) : m \in Nat /\ (m <= l - 1 <=> m <= i - 1)
      <4>1. l - 1 \in 1..Len(d) /\ d[l - 1] \in Int
        BY <1>1, <3>2, SeqFacts
      <4>. QED  BY <1>1, <3>2, <4>1 DEF Ends
    <3>3. ASSUME i = l - 1, l > 1, d[l - 1] < 0
          PROVE  UpTo(d, i - 1) = UpTo(d, l - 1)
      BY <3>2, <3>3 DEF UpTo
    <3>. QED  BY <3>1, <3>3
  <2> HIDE DEF i
  <2>4. /\ UpTo(d, l) = UpTo(d, l - 1) \cup From(d, i)..To(d, i)
        /\ Before(UpTo(d, l - 1), From(d, i)..To(d, i))
    BY <2>2, <2>3, Around
  <2>. QED  BY <1>3, <2>2, <2>4, EndOfStart DEF i
<1>. QED  BY <1>2, <1>3

\* One turn of Optimize.
LEMMA MergeKeeps ==
    ASSUME NEW d, Good(d), NEW l \in 1..Len(d), NEW out, Good(out), Keys(out) = UpTo(d, l - 1)
    PROVE  Good(Merge(d, l, out)) /\ Keys(Merge(d, l, out)) = UpTo(d, l)
<1> DEFINE i == StartOf(d, l)
           k == StartOf(out, Len(out))
           chunk == From(d, i)..To(d, i)
<1>1. CASE d[l] < 0
  BY <1>1, TurnAdds DEF Merge
<1>2. CASE ~ (d[l] < 0)
  <2>1. UpTo(d, l) = Keys(out) \cup chunk /\ Before(Keys(out), chunk)
    BY <1>2, TurnAdds
  <2>2. From(d, i) \in Numbers /\ To(d, i) \in Numbers /\ From(d, i) <= To(d, i)
    BY <1>2, TurnAdds
  <2>3. From(d, i) \in Int /\ To(d, i) \in Int
    BY <2>2 DEF Numbers
  <2> HIDE DEF i, k
  <2>4. CASE out # <<>> /\ To(out, k) + 1 = From(d, i)
    <3> DEFINE pre == SubSeq(out, 1, k - 1)
               new == Emit(From(out, k), To(d, i))
    <3>1. Merge(d, l, out) = pre \o new
      BY <1>2, <2>4 DEF Merge, i, k
    <3>2. /\ k \in Starts(out) /\ Cut(out, k - 1)
          /\ Keys(out) = UpTo(out, k - 1) \cup From(out, k)..To(out, k)
          /\ Before(UpTo(out, k - 1), From(out, k)..To(out, k))
      BY <2>4, LastChunk DEF k
    <3>3. /\ From(out, k) \in Numbers /\ From(out, k) \in Int /\ To(out, k) \in Int
          /\ From(out, k) <= To(out, k)
      BY <3>2, EndOfStart DEF Numbers
    <3>4. From(out, k) <= To(d, i)
      BY <2>2, <2>3, <2>4, <3>3
    <3>5. Good(pre) /\ Keys(pre) = UpTo(out, k - 1)
      BY <3>2, Prefix
    <3>6. Good(new) /\ Keys(new) = From(out, k)..To(d, i)
      BY <2>2, <2>3, <3>3, <3>4, OneChunk
    <3> HIDE DEF pre, new
    <3>7. From(out, k)..To(d, i) = From(out, k)..To(out, k) \cup chunk
      BY <2>2, <2>3, <2>4, <3>3
    <3>8. Before(Keys(pre), Keys(new))
      <4>1. UpTo(out, k - 1) \subseteq Keys(out)
        BY <3>2
      <4>. QED  BY <2>1, <3>2, <3>5, <3>6, <3>7, <4>1 DEF Before
    <3>9. Good(pre \o new) /\ Keys(pre \o new) = Keys(pre) \cup Keys(new)
      BY <3>5, <3>6, <3>8, Joined
    <3>. QED  BY <2>1, <3>1, <3>2, <3>5, <3>6, <3>7, <3>9
  <2>5. CASE ~ (out # <<>> /\ To(out, k) + 1 = From(d, i))
    <3> DEFINE new == Emit(From(d, i), To(d, i))
    <3>1. Merge(d, l, out) = out \o new
      BY <1>2, <2>5 DEF Merge, i, k
    <3>2. Good(new) /\ Keys(new) = chunk
      BY <2>2, <2>3, OneChunk
    <3> HIDE DEF new
    <3>. QED  BY <2>1, <3>1, <3>2, Joined
  <2>. QED  BY <2>4, <2>5
<1>. QED  BY <1>1, <1>2

\* The words with neighbours merged are words of the same numbers.
LEMMA MergedKeeps ==
    ASSUME NEW d, Good(d)
    PROVE  Good(Merged(d)) /\ Keys(Merged(d)) = Keys(d)
<1> DEFINE S == Seq(Words)
           n == Len(d)
           T == {z \in S \X (0..n) : Good(z[1]) /\ Keys(z[1]) = UpTo(d, z[2])}
           step == [z \in S \X (1..n) |-> Merge(d, z[2], z[1])]
           g == CHOOSE f : f = [l \in 0..n |-> IF l = 0 THEN <<>> ELSE Merge(d, l, f[l - 1])]
<1>1. n \in Nat /\ d \in S
  BY SeqFacts DEF Good
<1>2. T \in SUBSET (S \X (0..n))
  OBVIOUS
<1>3. \A x, l : <<x, l>> \in T <=> l \in 0..n /\ Good(x) /\ Keys(x) = UpTo(d, l)
  BY DEF Good
<1>4. UpTo(d, 0) = {}
  BY <1>1, SeqFacts DEF UpTo, Ends
<1>5. <<<<>>, 0>> \in T
  <2>1. 0 \in 0..n
    BY <1>1
  <2> HIDE DEF T
  <2>. QED  BY <1>3, <1>4, <2>1, NoChunk
<1>6. \A x \in S, l \in 1..n : step[<<x, l>>] = Merge(d, l, x)
  OBVIOUS
<1>7. \A x, l : l \in 1..n /\ <<x, l - 1>> \in T => <<Merge(d, l, x), l>> \in T
  BY <1>1, <1>3, MergeKeeps
<1> HIDE DEF S, T, step
<1>8. PICK f \in [0..n -> S] : Turns(f, n, <<>>, step)
  <2>1. \A x \in S, k \in 1..n : <<x, k - 1>> \in T => <<step[<<x, k>>], k>> \in T
    BY <1>6, <1>7
  <2>2. \E f \in [0..n -> S] : Turns(f, n, <<>>, step) /\ \A k \in 0..n : <<f[k], k>> \in T
    BY <1>1, <1>2, <1>5, <2>1, LoopKeeps
  <2>. QED  BY <2>2
<1>9. f = [l \in 0..n |-> IF l = 0 THEN <<>> ELSE Merge(d, l, f[l - 1])]
  <2>1. \A l \in 0..n : l # 0 => step[<<f[l - 1], l>>] = Merge(d, l, f[l - 1])
    BY <1>1, <1>6, <1>8
  <2>. QED  BY <1>8, <2>1 DEF Turns
<1>10. g = [l \in 0..n |-> IF l = 0 THEN <<>> ELSE Merge(d, l, g[l - 1])]
  BY <1>9
<1>11. Merged(d) = g[n]
  BY DEF Merged
<1> HIDE DEF g
<1> DEFINE U == {l \in 0..n : <<g[l], l>> \in T}
<1>12. 0 \in U
  BY <1>1, <1>5, <1>10
<1>13. ASSUME NEW l \in 1..n, l - 1 \in U
       PROVE  l \in U
  <2>1. l \in 0..n /\ g[l] = Merge(d, l, g[l - 1])
    BY <1>1, <1>10
  <2>. QED  BY <1>7, <1>13, <2>1
<1>14. \A l \in 0..n : l \in U
  <2> HIDE DEF U
  <2>. QED  BY <1>1, <1>12, <1>13, Induction
<1>15. <<Merged(d), n>> \in T
  BY <1>1, <1>11, <1>14
<1>. QED  BY <1>3, <1>15 DEF Keys

\* Pairs as two literals.
LEMMA UnpairedKeeps ==
    ASSUME NEW d, Good(d)
    PROVE  Good(Unpaired(d)) /\ Keys(Unpaired(d)) = Keys(d)
<1> DEFINE u == Unpaired(d)
           n == Len(d)
<1>1. d \in Seq(Words) /\ n \in Nat /\ DOMAIN d = 1..n /\ \A i \in 1..n : d[i] \in Int
  BY SeqFacts DEF Good
<1>2. u = [i \in 1..n |-> IF d[i] = -1 THEN d[i + 1]
                         ELSE IF i > 1 /\ d[i - 1] = -1 THEN d[i] + 1 ELSE d[i]]
  BY <1>1 DEF Unpaired
<1> HIDE DEF u, n
<1>3. \A i \in 1..n : d[i] < 0 => i + 1 \in 1..n /\ i + 1 \in Ends(d)
  BY <1>1 DEF Good, Shaped, Ends
\* A pair, a range, and a literal.
<1>4. ASSUME NEW i \in 1..n, d[i] = -1
      PROVE  /\ i + 1 \in Ends(d) /\ u[i] = d[i + 1] /\ u[i] \in Numbers
             /\ u[i + 1] = u[i] + 1 /\ u[i + 1] = Until(d, i + 1) /\ u[i + 1] \in Numbers
             /\ ~ (i > 1 /\ u[i - 1] < 0)
  <2>1. i + 1 \in 1..n /\ i + 1 \in Ends(d) /\ i + 1 > 1 /\ i + 1 - 1 = i
    BY <1>1, <1>3, <1>4
  <2>2. d[i + 1] \in Numbers /\ Until(d, i + 1) = d[i + 1] + 1 /\ Until(d, i + 1) \in Numbers
    BY <1>4, <2>1, UntilFacts DEF Until, Numbers
  <2>3. u[i] = d[i + 1] /\ d[i + 1] # -1 /\ d[i + 1] >= 0
    BY <1>2, <1>4, <2>2 DEF Numbers
  <2>4. u[i + 1] = d[i + 1] + 1
    BY <1>2, <1>4, <2>1, <2>3
  <2>5. ASSUME i > 1
        PROVE  ~ (u[i - 1] < 0)
    <3>1. i - 1 \in 1..n /\ i - 1 + 1 = i
      BY <1>1, <2>5
    <3>2. ~ (d[i - 1] < 0)
      <4> SUFFICES ASSUME d[i - 1] < 0 PROVE FALSE
        OBVIOUS
      <4>1. i \in Ends(d)
        BY <1>3, <3>1
      <4>. QED  BY <1>4, <4>1 DEF Ends
    <3>3. d[i - 1] \in Int
      BY <1>1, <3>1
    <3>4. u[i - 1] = d[i - 1] \/ u[i - 1] = d[i - 1] + 1
      BY <1>2, <3>1, <3>2, <3>3
    <3>. QED  BY <3>2, <3>3, <3>4
  <2>. QED  BY <2>1, <2>2, <2>3, <2>4, <2>5
<1>5. ASSUME NEW i \in 1..n, d[i] < -1
      PROVE  /\ i + 1 \in Ends(d) /\ u[i] = d[i] /\ u[i + 1] = d[i + 1]
  <2>1. i + 1 \in 1..n /\ i + 1 \in Ends(d) /\ i + 1 > 1 /\ i + 1 - 1 = i
    BY <1>1, <1>3, <1>5
  <2>2. ~ (i > 1 /\ d[i - 1] = -1)
    <3> SUFFICES ASSUME i > 1, d[i - 1] = -1 PROVE FALSE
      OBVIOUS
    <3>1. i - 1 \in 1..n /\ i - 1 + 1 = i
      BY <1>1
    <3>2. i \in Ends(d)
      BY <1>3, <3>1
    <3>. QED  BY <1>1, <1>5, <3>2 DEF Ends
  <2>3. d[i + 1] # -1 /\ d[i] # -1
    BY <1>1, <1>5, <2>1 DEF Ends
  <2>. QED  BY <1>2, <2>1, <2>2, <2>3
<1>6. ASSUME NEW i \in Ends(d)
      PROVE  /\ u[i] \in Numbers /\ d[i] <= u[i] /\ u[i] <= Until(d, i)
             /\ i \in Ends(u) /\ i \in 1..n
             /\ IF i > 1 /\ d[i - 1] = -1
                  THEN /\ i - 1 \in Ends(u) /\ u[i - 1] = d[i] /\ Until(u, i - 1) = d[i]
                       /\ u[i] = d[i] + 1 /\ Until(u, i) = u[i] /\ Until(d, i) = d[i] + 1
                  ELSE u[i] = d[i] /\ Until(u, i) = Until(d, i)
  <2>1. i \in 1..n /\ d[i] >= 0 /\ d[i] \in Int /\ d[i] \in Numbers /\ (i > 1 => i - 1 \in 1..n)
        /\ DOMAIN u = 1..n /\ i - 1 + 1 = i /\ Until(d, i) \in Numbers /\ d[i] <= Until(d, i)
    BY <1>1, <1>2, UntilFacts DEF Ends, Numbers
  <2>2. CASE i > 1 /\ d[i - 1] = -1
    <3>1. /\ u[i - 1] = d[i] /\ u[i - 1] \in Numbers /\ u[i] = u[i - 1] + 1
          /\ u[i] = Until(d, i) /\ u[i] \in Numbers /\ ~ (i - 1 > 1 /\ u[i - 1 - 1] < 0)
      BY <1>4, <2>1, <2>2
    <3>2. i \in Ends(u) /\ i - 1 \in Ends(u)
      BY <2>1, <2>2, <3>1 DEF Ends, Numbers
    <3>3. Until(u, i) = u[i] /\ Until(u, i - 1) = u[i - 1]
      BY <2>1, <3>1 DEF Until, Numbers
    <3>. QED  BY <2>1, <2>2, <3>1, <3>2, <3>3 DEF Numbers
  <2>3. CASE ~ (i > 1 /\ d[i - 1] = -1)
    <3>1. u[i] = d[i]
      BY <1>2, <2>1, <2>3
    <3>2. Until(u, i) = Until(d, i)
      <4>1. CASE i > 1 /\ d[i - 1] < 0
        <5>1. d[i - 1] < -1
          BY <1>1, <2>1, <2>3, <4>1
        <5>2. u[i - 1] = d[i - 1]
          BY <1>5, <2>1, <4>1, <5>1
        <5>. QED  BY <3>1, <4>1, <5>2 DEF Until
      <4>2. CASE i > 1 /\ ~ (d[i - 1] < 0)
        <5>1. u[i - 1] = d[i - 1] \/ u[i - 1] = d[i - 1] + 1
          BY <1>1, <1>2, <2>1, <4>2
        <5>2. ~ (u[i - 1] < 0)
          BY <1>1, <2>1, <4>2, <5>1
        <5>. QED  BY <3>1, <4>2, <5>2 DEF Until
      <4>3. CASE ~ (i > 1)
        BY <3>1, <4>3 DEF Until
      <4>. QED  BY <4>1, <4>2, <4>3
    <3>. QED  BY <2>1, <2>3, <3>1, <3>2 DEF Ends, Numbers
  <2>. QED  BY <2>2, <2>3
<1> DEFINE h(e) == IF d[e] = -1 THEN e + 1 ELSE e
<1>7. ASSUME NEW e \in Ends(u)
      PROVE  /\ e \in 1..n /\ h(e) \in Ends(d) /\ u[e] \in Numbers /\ Until(u, e) \in Numbers
             /\ d[h(e)] <= u[e] /\ Until(u, e) <= Until(d, h(e))
             /\ d[e] = -1 => Until(u, e) = d[h(e)] /\ u[e + 1] = Until(u, e) + 1
  <2>1. e \in 1..n /\ u[e] >= 0 /\ d[e] \in Int
    BY <1>1, <1>2 DEF Ends
  <2>2. CASE d[e] = -1
    <3>1. e + 1 \in Ends(d) /\ e + 1 > 1 /\ e + 1 - 1 = e /\ u[e] \in Numbers
      BY <1>4, <2>1, <2>2
    <3>2. u[e] = d[e + 1] /\ Until(u, e) = d[e + 1] /\ Until(d, e + 1) = d[e + 1] + 1
          /\ u[e + 1] = d[e + 1] + 1
      <4> DEFINE i == e + 1
      <4>1. i \in Ends(d) /\ i > 1 /\ i - 1 = e /\ d[i - 1] = -1
        BY <1>1, <2>1, <2>2, <3>1
      <4> HIDE DEF i
      <4>2. u[e] = d[i] /\ Until(u, e) = d[i] /\ Until(d, i) = d[i] + 1 /\ u[i] = d[i] + 1
        BY <1>6, <4>1
      <4>. QED  BY <4>2 DEF i
    <3>. QED  BY <2>1, <2>2, <3>1, <3>2 DEF Numbers
  <2>3. CASE d[e] # -1
    <3>1. ~ (d[e] < 0)
      <4> SUFFICES ASSUME d[e] < -1 PROVE FALSE
        BY <2>1, <2>3
      <4>1. u[e] = d[e]
        BY <1>5, <2>1
      <4>. QED  BY <2>1, <4>1
    <3>2. e \in Ends(d)
      BY <1>1, <2>1, <3>1 DEF Ends
    <3>3. Until(d, e) \in Numbers /\ d[e] \in Numbers
      BY <3>2, UntilFacts
    <3>. QED  BY <1>6, <2>1, <2>3, <3>2, <3>3 DEF Numbers
  <2>. QED  BY <2>2, <2>3
<1>8. u \in Seq(Words) /\ Len(u) = n
  <2>1. ASSUME NEW i \in 1..n
        PROVE  u[i] \in Words
    <3>1. CASE d[i] = -1
      BY <1>4, <3>1, SeqFacts, <1>1 DEF Numbers, Words
    <3>2. CASE d[i] < -1
      BY <1>5, <3>2, <1>1
    <3>3. CASE d[i] >= 0
      <4>1. i \in Ends(d)
        BY <1>1, <3>3 DEF Ends
      <4>. QED  BY <1>6, <4>1, SeqFacts, <1>1 DEF Numbers, Words
    <3>. QED  BY <1>1, <3>1, <3>2, <3>3
  <2>2. u \in [1..n -> Words]
    BY <1>2, <2>1
  <2>. QED  BY <1>1, <2>2, FunctionIsSeq
<1>9. Shaped(u)
  <2> SUFFICES ASSUME NEW i \in 1..n, u[i] < 0
               PROVE  i + 1 \in 1..n /\ u[i + 1] >= 0
    BY <1>2 DEF Shaped
  <2>1. d[i] < -1
    <3>1. d[i] # -1
      BY <1>4 DEF Numbers
    <3>2. ~ (d[i] >= 0)
      <4> SUFFICES ASSUME d[i] >= 0 PROVE FALSE
        OBVIOUS
      <4>1. i \in Ends(d)
        BY <1>1 DEF Ends
      <4>. QED  BY <1>6, <4>1 DEF Numbers
    <3>. QED  BY <1>1, <3>1, <3>2
  <2>. QED  BY <1>1, <1>5, <2>1 DEF Ends
<1>10. ASSUME NEW e \in Ends(u), NEW f \in Ends(u), e < f
       PROVE  Until(u, e) < u[f]
  <2>1. e \in Nat /\ f \in Nat /\ h(e) \in Nat /\ h(f) \in Nat /\ d[h(e)] \in Numbers
        /\ Until(d, h(e)) \in Numbers /\ d[h(f)] \in Numbers
    BY <1>1, <1>7, UntilFacts
  <2>2. CASE h(e) = h(f)
    <3>1. d[e] = -1 /\ f = e + 1
      BY <1>10, <2>1, <2>2
    <3>. QED  BY <1>7, <3>1 DEF Numbers
  <2>3. CASE h(e) # h(f)
    <3>1. h(e) < h(f)
      BY <1>10, <2>1, <2>3
    <3>2. Until(d, h(e)) < d[h(f)]
      BY <1>7, <3>1 DEF Good
    <3>. QED  BY <1>7, <2>1, <3>2 DEF Numbers
  <2>. QED  BY <2>2, <2>3
<1>11. Good(u)
  BY <1>7, <1>8, <1>9, <1>10 DEF Good, Numbers
<1>12. \A x : x \in Keys(d) <=> x \in Numbers /\ \E l \in Ends(d) : d[l] <= x /\ x <= Until(d, l)
  BY <1>1 DEF Keys, UpTo, Ends, n
<1>13. \A x : x \in Keys(u) <=> x \in Numbers /\ \E l \in Ends(u) : u[l] <= x /\ x <= Until(u, l)
  BY <1>7, <1>8 DEF Keys, UpTo
<1>14. ASSUME NEW x \in Keys(u)
       PROVE  x \in Keys(d)
  <2>1. PICK e \in Ends(u) : u[e] <= x /\ x <= Until(u, e)
    BY <1>13
  <2>2. x \in Int /\ u[e] \in Int /\ Until(u, e) \in Int /\ h(e) \in Ends(d) /\ d[h(e)] \in Int
        /\ Until(d, h(e)) \in Int /\ d[h(e)] <= u[e] /\ Until(u, e) <= Until(d, h(e))
    BY <1>7, <1>13, UntilFacts DEF Numbers
  <2> HIDE DEF h
  <2>3. d[h(e)] <= x /\ x <= Until(d, h(e))
    BY <2>1, <2>2
  <2>. QED  BY <1>12, <1>13, <2>2, <2>3
<1>15. ASSUME NEW x \in Keys(d)
       PROVE  x \in Keys(u)
  <2>1. PICK l \in Ends(d) : d[l] <= x /\ x <= Until(d, l)
    BY <1>12
  <2>2. x \in Numbers /\ x \in Int /\ d[l] \in Int /\ l \in Ends(u)
    BY <1>6, <1>12, <2>1, UntilFacts DEF Numbers
  <2>3. CASE l > 1 /\ d[l - 1] = -1
    <3>1. /\ l - 1 \in Ends(u) /\ u[l - 1] = d[l] /\ Until(u, l - 1) = d[l]
          /\ u[l] = d[l] + 1 /\ Until(u, l) = d[l] + 1 /\ Until(d, l) = d[l] + 1
      BY <1>6, <2>3
    <3>2. x = d[l] \/ x = d[l] + 1
      BY <2>1, <2>2, <3>1
    <3>. QED  BY <1>13, <2>2, <3>1, <3>2
  <2>4. CASE ~ (l > 1 /\ d[l - 1] = -1)
    BY <1>6, <1>13, <2>1, <2>2, <2>4
  <2>. QED  BY <2>3, <2>4
<1>. QED  BY <1>11, <1>14, <1>15 DEF u

LEMMA OptimizeKeeps ==
    ASSUME NEW d, Good(d)
    PROVE  Good(Optimize(d)) /\ Keys(Optimize(d)) = Keys(d)
  BY MergedKeeps, UnpairedKeeps DEF Optimize

-----------------------------------------------------------------------------
(* Operations.                                                             *)

LEMMA JoinedThree ==
    ASSUME NEW a, NEW b, NEW c, Good(a), Good(b), Good(c), Before(Keys(a), Keys(b)),
           Before(Keys(b), Keys(c)), Before(Keys(a), Keys(c))
    PROVE  Good(a \o b \o c) /\ Keys(a \o b \o c) = Keys(a) \cup Keys(b) \cup Keys(c)
<1> DEFINE ab == a \o b
<1>1. Good(ab) /\ Keys(ab) = Keys(a) \cup Keys(b)
  BY Joined
<1> HIDE DEF ab
<1>2. Before(Keys(ab), Keys(c))
  BY <1>1 DEF Before
<1>3. Good(ab \o c) /\ Keys(ab \o c) = Keys(ab) \cup Keys(c)
  BY <1>1, <1>2, Joined
<1>. QED  BY <1>1, <1>3 DEF ab

\* New words between two cuts take the place of the chunks between them.
LEMMA Replaced ==
    ASSUME NEW d, Good(d), NEW k, Cut(d, k), NEW m, Cut(d, m), NEW b, Good(b),
           Before(UpTo(d, k), Keys(b)), Before(Keys(b), Beyond(d, m)), k <= m
    PROVE  LET e == SubSeq(d, 1, k) \o b \o SubSeq(d, m + 1, Len(d))
           IN  Good(e) /\ Keys(e) = UpTo(d, k) \cup Keys(b) \cup Beyond(d, m)
<1> DEFINE pre == SubSeq(d, 1, k)
           suf == SubSeq(d, m + 1, Len(d))
<1>1. d \in Seq(Words) /\ Len(d) \in Nat /\ k \in Nat /\ m \in Nat /\ Ends(d) \subseteq Nat
  BY SeqFacts DEF Good, Cut, Ends
<1>2. Good(pre) /\ Keys(pre) = UpTo(d, k)
  BY Prefix
<1>3. Good(suf) /\ Keys(suf) = Beyond(d, m)
  BY Suffix
<1>4. Before(UpTo(d, k), Beyond(d, m))
  <2>1. UpTo(d, k) \subseteq UpTo(d, m)
    BY <1>1 DEF UpTo
  <2>. QED  BY <2>1, Sides DEF Before
<1> HIDE DEF pre, suf
<1>5. Good(pre \o b \o suf) /\ Keys(pre \o b \o suf) = Keys(pre) \cup Keys(b) \cup Keys(suf)
  BY <1>2, <1>3, <1>4, JoinedThree
<1>. QED  BY <1>2, <1>3, <1>5 DEF pre, suf

LEMMA InsertKeeps ==
    ASSUME NEW d, Good(d), NEW n \in Numbers, n \notin Keys(d)
    PROVE  LET e == InsertAt(d, Search(d, 1, n), n)
           IN  Good(e) /\ Keys(e) = Keys(d) \cup {n}
<1> DEFINE s == Search(d, 1, n)
           k == s - 1
           e == SubSeq(d, 1, k) \o <<n>> \o SubSeq(d, k + 1, Len(d))
<1>1. d \in Seq(Words) /\ Len(d) \in Nat /\ n \in Int
  BY SeqFacts DEF Good, Numbers
<1>2. /\ s \in 1..(Len(d) + 1) /\ Cut(d, k)
      /\ \A j \in Starts(d) : j < s => To(d, j) < n
      /\ \A j \in Starts(d) : j >= s => To(d, j) >= n
  BY <1>1, SearchCuts
<1> HIDE DEF s
<1>3. k \in Nat /\ k + 1 = s /\ \A j \in Starts(d) : j \in Nat /\ To(d, j) \in Int /\ From(d, j) \in Int
  BY <1>1, <1>2, EndOfStart DEF Numbers
<1>4. InsertAt(d, s, n) = e
  BY <1>3 DEF InsertAt
<1> DEFINE b == <<n>>
<1>5. Good(b) /\ Keys(b) = {n}
  BY OneLiteral
<1>6. \A x \in UpTo(d, k) : x < n
  <2> SUFFICES ASSUME NEW x \in UpTo(d, k) PROVE x < n
    OBVIOUS
  <2>1. PICK j \in Starts(d) : j <= k /\ Holds(d, j, x)
    BY <1>2, SidesHeld
  <2>2. x \in Int /\ j < s
    BY <1>3, <2>1 DEF UpTo, Numbers
  <2>. QED  BY <1>1, <1>2, <1>3, <2>1, <2>2 DEF Holds
<1>7. \A x \in Beyond(d, k) : n < x
  <2> SUFFICES ASSUME NEW x \in Beyond(d, k) PROVE n < x
    OBVIOUS
  <2>1. PICK j \in Starts(d) : j > k /\ Holds(d, j, x)
    BY <1>2, SidesHeld
  <2>2. x \in Int /\ j >= s
    BY <1>3, <2>1 DEF Beyond, Numbers
  <2>3. ~ Holds(d, j, n)
    BY KeysHeld
  <2>. QED  BY <1>1, <1>2, <1>3, <2>1, <2>2, <2>3 DEF Holds
<1> HIDE DEF b
<1>8. Before(UpTo(d, k), Keys(b)) /\ Before(Keys(b), Beyond(d, k))
  BY <1>5, <1>6, <1>7 DEF Before
<1>9. /\ Good(SubSeq(d, 1, k) \o b \o SubSeq(d, k + 1, Len(d)))
      /\ Keys(SubSeq(d, 1, k) \o b \o SubSeq(d, k + 1, Len(d)))
            = UpTo(d, k) \cup Keys(b) \cup Beyond(d, k)
  <2>1. k <= k
    BY <1>3
  <2> HIDE DEF k
  <2>. QED  BY <1>2, <1>5, <1>8, <2>1, Replaced
<1>10. Keys(d) = UpTo(d, k) \cup Beyond(d, k)
  BY <1>2, Sides
<1>. QED  BY <1>4, <1>5, <1>9, <1>10 DEF s, b

\* What Remove leaves of a range.
LEMMA WithoutKeeps ==
    ASSUME NEW from \in Numbers, NEW to \in Numbers, NEW n \in Numbers,
           from < to, from <= n, n <= to
    PROVE  Good(Without(from, to, n)) /\ Keys(Without(from, to, n)) = (from..to) \ {n}
<1>1. from \in Int /\ to \in Int /\ n \in Int /\ \A x \in from..to : x \in Numbers
  BY KeySetAssumption DEF Numbers
<1>2. CASE to = from + 1
  <2> DEFINE x == IF n = from THEN to ELSE from
  <2>1. Without(from, to, n) = <<x>>
    BY <1>1, <1>2 DEF Without
  <2>2. x \in Numbers /\ {x} = (from..to) \ {n}
    BY <1>1, <1>2
  <2>. QED  BY <2>1, <2>2, OneLiteral
<1>3. CASE to = from + 2
  <2> DEFINE x == IF n = from THEN from + 1 ELSE from
             y == IF n = to THEN to - 1 ELSE to
  <2>1. Without(from, to, n) = <<x, y>>
    BY <1>1, <1>3 DEF Without
  <2>2. x \in Numbers /\ y \in Numbers /\ x < y /\ {x, y} = (from..to) \ {n}
    BY <1>1, <1>3
  <2> HIDE DEF x, y
  <2>. QED  BY <2>1, <2>2, TwoLiterals
<1>4. CASE to > from + 2 /\ n = from
  <2>1. Without(from, to, n) = <<from - to + 1, from + 1>>
    BY <1>1, <1>4 DEF Without
  <2>2. from - to + 1 = -(to - (from + 1)) /\ from + 1 # to
    BY <1>1, <1>4
  <2>3. Without(from, to, n) = Emit(from + 1, to)
    BY <2>1, <2>2 DEF Emit
  <2>4. from + 1 \in Numbers /\ from + 1 <= to /\ (from + 1)..to = (from..to) \ {n}
    BY <1>1, <1>4
  <2>. QED  BY <2>3, <2>4, OneChunk
<1>5. CASE to > from + 2 /\ n = to
  <2>1. Without(from, to, n) = <<from - to + 1, from>>
    BY <1>1, <1>5 DEF Without
  <2>2. from - to + 1 = -(to - 1 - from) /\ from # to - 1
    BY <1>1, <1>5
  <2>3. Without(from, to, n) = Emit(from, to - 1)
    BY <2>1, <2>2 DEF Emit
  <2>4. to - 1 \in Numbers /\ from <= to - 1 /\ from..(to - 1) = (from..to) \ {n}
    BY <1>1, <1>5
  <2>. QED  BY <2>3, <2>4, OneChunk
<1>6. CASE to > from + 2 /\ n # from /\ n # to
  <2> DEFINE a == Emit(from, n - 1)
             b == Emit(n + 1, to)
  <2>1. Without(from, to, n) = a \o b
    BY <1>1, <1>6 DEF Without
  <2>2. n - 1 \in Numbers /\ n + 1 \in Numbers /\ from <= n - 1 /\ n + 1 <= to
    BY <1>1, <1>6
  <2>3. Good(a) /\ Keys(a) = from..(n - 1) /\ Good(b) /\ Keys(b) = (n + 1)..to
    BY <2>2, OneChunk
  <2> HIDE DEF a, b
  <2>4. Before(Keys(a), Keys(b))
    BY <1>1, <2>3 DEF Before
  <2>5. Good(a \o b) /\ Keys(a \o b) = Keys(a) \cup Keys(b)
    BY <2>3, <2>4, Joined
  <2>6. from..(n - 1) \cup (n + 1)..to = (from..to) \ {n}
    BY <1>1, <1>6
  <2>. QED  BY <2>1, <2>3, <2>5, <2>6
<1>. QED  BY <1>1, <1>2, <1>3, <1>4, <1>5, <1>6

\* The words without n, which the chunk at word i holds.
LEMMA RemoveKeeps ==
    ASSUME NEW d, Good(d), NEW n \in Numbers, NEW i \in Starts(d), Holds(d, i, n)
    PROVE  LET left == IF d[i] < 0 THEN Without(From(d, i), To(d, i), n) ELSE <<>>
               e == SubSeq(d, 1, i - 1) \o left \o SubSeq(d, i + Size(d, i), Len(d))
           IN  Good(e) /\ Keys(e) = Keys(d) \ {n}
<1> DEFINE left == IF d[i] < 0 THEN Without(From(d, i), To(d, i), n) ELSE <<>>
           e == EndOf(d, i)
           chunk == From(d, i)..To(d, i)
<1>1. /\ From(d, i) \in Numbers /\ To(d, i) \in Numbers /\ From(d, i) <= n /\ n <= To(d, i)
      /\ From(d, i) \in Int /\ To(d, i) \in Int /\ n \in Int /\ n \in chunk
  <2>1. From(d, i) \in Numbers /\ To(d, i) \in Numbers
    BY EndOfStart
  <2>. QED  BY <2>1 DEF Holds, Numbers
<1>2. d \in Seq(Words) /\ Len(d) \in Nat /\ i \in 1..Len(d) /\ d[i] \in Int /\ e \in i..Len(d)
  BY SeqFacts, EndOfStart DEF Good
<1>3. /\ Cut(d, i - 1) /\ Cut(d, e)
      /\ Keys(d) = UpTo(d, i - 1) \cup chunk \cup Beyond(d, e)
      /\ Before(UpTo(d, i - 1), chunk) /\ Before(chunk, Beyond(d, e))
  BY Around
<1>4. Good(left) /\ Keys(left) = chunk \ {n}
  <2>1. CASE d[i] < 0
    <3>1. From(d, i) < To(d, i)
      BY <1>1, <1>2, <2>1 DEF From, To
    <3>. QED  BY <1>1, <2>1, <3>1, WithoutKeeps
  <2>2. CASE ~ (d[i] < 0)
    <3>1. From(d, i) = To(d, i)
      BY <2>2 DEF From, To
    <3>2. chunk \ {n} = {}
      BY <1>1, <3>1
    <3>. QED  BY <2>2, <3>2, NoChunk
  <2>. QED  BY <2>1, <2>2
<1>5. i + Size(d, i) = e + 1 /\ i - 1 <= e
  BY <1>2 DEF EndOf, Size
<1> HIDE DEF e, left
<1>6. Before(UpTo(d, i - 1), Keys(left)) /\ Before(Keys(left), Beyond(d, e))
  BY <1>3, <1>4 DEF Before
<1> DEFINE new == SubSeq(d, 1, i - 1) \o left \o SubSeq(d, e + 1, Len(d))
<1>7. Good(new) /\ Keys(new) = UpTo(d, i - 1) \cup Keys(left) \cup Beyond(d, e)
  BY <1>3, <1>4, <1>5, <1>6, Replaced
<1>8. n \notin UpTo(d, i - 1) /\ n \notin Beyond(d, e)
  BY <1>1, <1>3 DEF Before
<1>9. Keys(new) = Keys(d) \ {n}
  <2> HIDE DEF new
  <2>. QED  BY <1>3, <1>4, <1>7, <1>8
<1>. QED  BY <1>5, <1>7, <1>9 DEF left

\* The first chunk from word i on that is apart from the numbers up to end.
LEMMA FirstApart ==
    ASSUME NEW d, Good(d), NEW i \in Nat, i <= Len(d) + 1, NEW end
    PROVE  LET j == Min({k \in Starts(d) : k >= i /\ Apart(d, i, k, end)} \cup {Len(d) + 1})
           IN  /\ j \in i..(Len(d) + 1) /\ Cut(d, j - 1)
               /\ j <= Len(d) => j \in Starts(d) /\ Apart(d, i, j, end)
               /\ \A k \in Starts(d) : i <= k /\ k < j => ~ Apart(d, i, k, end)
<1> DEFINE far == {k \in Starts(d) : k >= i /\ Apart(d, i, k, end)}
           j == Min(far \cup {Len(d) + 1})
<1>1. Len(d) \in Nat /\ \A k \in Starts(d) : k \in 1..Len(d)
  BY SeqFacts, EndOfStart DEF Good
<1>2. (far \cup {Len(d) + 1}) \in SUBSET Nat /\ far \cup {Len(d) + 1} # {}
  BY <1>1
<1>3. j \in far \cup {Len(d) + 1} /\ \A y \in far \cup {Len(d) + 1} : j <= y
  BY <1>2, MinNat
<1> HIDE DEF j
<1>4. j \in i..(Len(d) + 1) /\ (j <= Len(d) => j \in Starts(d) /\ Apart(d, i, j, end))
  BY <1>1, <1>3
<1>5. Cut(d, j - 1)
  <2>1. CASE j <= Len(d)
    BY <1>4, <2>1, EndOfStart
  <2>2. CASE ~ (j <= Len(d))
    <3>1. j - 1 = Len(d)
      BY <1>1, <1>4, <2>2
    <3>. QED  BY <3>1, LastIsCut
  <2>. QED  BY <2>1, <2>2
<1>6. ASSUME NEW k \in Starts(d), i <= k, k < j
      PROVE  ~ Apart(d, i, k, end)
  <2>1. k \notin far
    BY <1>1, <1>3, <1>4, <1>6
  <2>. QED  BY <1>1, <1>6, <2>1
<1>. QED  BY <1>4, <1>5, <1>6 DEF j

\* The chunks from i to behind the last one that is not apart, together with the
\* new range, leave no number out.
LEMMA NothingBetween ==
    ASSUME NEW d, Good(d), NEW i \in Starts(d), NEW last \in Starts(d), i <= last,
           NEW start \in Int, NEW end \in Int, start <= end, To(d, i) >= start - 1,
           \A k \in Starts(d) : i <= k /\ k <= last => ~ Apart(d, i, k, end),
           NEW x \in Int, From(d, i) <= x \/ start <= x, x <= To(d, last) \/ x <= end
    PROVE  \/ start <= x /\ x <= end
           \/ \E k \in Starts(d) : i <= k /\ k <= last /\ Holds(d, k, x)
<1>1. /\ d \in Seq(Words) /\ Len(d) \in Nat
      /\ \A k \in Starts(d) : k \in Nat /\ From(d, k) \in Int /\ To(d, k) \in Int
                              /\ From(d, k) <= To(d, k)
  BY SeqFacts, EndOfStart DEF Good, Numbers
<1>2. CASE x < start
  <2>1. Holds(d, i, x)
    BY <1>1, <1>2 DEF Holds
  <2>2. i <= i
    BY <1>1
  <2>. QED  BY <2>1, <2>2
<1>3. CASE x > end
  <2> DEFINE T == {k \in Starts(d) : i <= k /\ k <= last /\ To(d, k) >= x}
             k == Min(T)
  <2>1. last \in T
    BY <1>1, <1>3
  <2>2. T \in SUBSET Nat /\ T # {}
    BY <1>1, <2>1
  <2>3. k \in T /\ \A y \in T : k <= y
    BY <2>2, MinNat
  <2> HIDE DEF k
  <2>4. k \in Starts(d) /\ i <= k /\ k <= last /\ To(d, k) >= x /\ k \in Nat /\ i \in Nat
        /\ last \in Nat /\ From(d, k) \in Int
    BY <1>1, <2>3
  <2>5. ASSUME From(d, k) > x
        PROVE  FALSE
    <3>1. From(d, k) > end + 1
      BY <1>1, <1>3, <2>4, <2>5
    <3> DEFINE p == StartOf(d, k - 1)
    <3>2. k > i /\ ~ (From(d, k) > To(d, p) + 1)
      BY <2>4, <3>1 DEF Apart
    <3>3. k - 1 \in Ends(d)
      <4>1. Cut(d, k - 1)
        BY <2>4, EndOfStart
      <4>2. k - 1 # 0
        BY <1>1, <2>4, <3>2, EndOfStart
      <4>. QED  BY <4>1, <4>2 DEF Cut
    <3>4. p \in Starts(d) /\ p \in 1..(k - 1)
      BY <3>3, StartOfEnd
    <3>5. ~ (k - 1 < i)
      BY <2>4, <3>2
    <3>6. ~ (p < i)
      BY <3>3, <3>5, EndsBefore
    <3> HIDE DEF p
    <3>7. i <= p /\ p <= last /\ p < k /\ p \in Nat
      BY <1>1, <2>4, <3>4, <3>6
    <3>8. p \notin T
      BY <2>3, <2>4, <3>7
    <3>9. To(d, p) < x /\ To(d, p) \in Int
      BY <1>1, <3>4, <3>7, <3>8
    <3>. QED  BY <2>4, <2>5, <3>2, <3>9
  <2>6. Holds(d, k, x)
    BY <2>4, <2>5 DEF Holds
  <2>. QED  BY <2>4, <2>6
<1>. QED  BY <1>2, <1>3

LEMMA AddRangeKeeps ==
    ASSUME NEW d, Good(d), NEW start \in Numbers, NEW end \in Numbers, start < end
    PROVE  LET i == Search(d, 1, start - 1)
               j == Min({k \in Starts(d) : k >= i /\ Apart(d, i, k, end)} \cup {Len(d) + 1})
               from == IF j > i THEN Min({start, From(d, i)}) ELSE start
               to == IF j > i THEN Max({end, To(d, StartOf(d, j - 1))}) ELSE end
               e == SubSeq(d, 1, i - 1) \o Emit(from, to) \o SubSeq(d, j, Len(d))
           IN  Good(e) /\ Keys(e) = Keys(d) \cup start..end
<1> DEFINE i == Search(d, 1, start - 1)
           j == Min({k \in Starts(d) : k >= i /\ Apart(d, i, k, end)} \cup {Len(d) + 1})
           last == StartOf(d, j - 1)
           from == IF j > i THEN Min({start, From(d, i)}) ELSE start
           to == IF j > i THEN Max({end, To(d, last)}) ELSE end
<1>1. /\ d \in Seq(Words) /\ Len(d) \in Nat /\ start \in Int /\ end \in Int /\ start - 1 \in Int
      /\ start \in Nat /\ end <= Largest /\ Largest \in Nat
      /\ \A x \in start..end : x \in Numbers
  BY SeqFacts DEF Good, Numbers
<1>2. /\ i \in 1..(Len(d) + 1) /\ Cut(d, i - 1)
      /\ \A k \in Starts(d) : k < i => To(d, k) < start - 1
      /\ \A k \in Starts(d) : k >= i => To(d, k) >= start - 1
      /\ i <= Len(d) => i \in Starts(d)
  BY <1>1, SearchCuts
<1> HIDE DEF i
<1>3. i \in Nat /\ i <= Len(d) + 1 /\ i - 1 \in Nat
  BY <1>1, <1>2
<1>4. /\ j \in i..(Len(d) + 1) /\ Cut(d, j - 1)
      /\ j <= Len(d) => j \in Starts(d) /\ Apart(d, i, j, end)
      /\ \A k \in Starts(d) : i <= k /\ k < j => ~ Apart(d, i, k, end)
  BY <1>3, FirstApart
<1> HIDE DEF j
<1>5. j \in Nat /\ j - 1 \in Nat /\ i <= j /\ j - 1 + 1 = j /\ i - 1 <= j - 1
  BY <1>1, <1>3, <1>4
<1>6. \A k \in Starts(d) : /\ k \in 1..Len(d) /\ From(d, k) \in Int /\ To(d, k) \in Int
                           /\ From(d, k) <= To(d, k) /\ 0 <= From(d, k) /\ To(d, k) <= Largest
                           /\ From(d, k) \in Numbers /\ To(d, k) \in Numbers
  BY <1>1, EndOfStart DEF Numbers
<1>7. ASSUME j > i
      PROVE  /\ i \in Starts(d) /\ last \in Starts(d) /\ i <= last /\ EndOf(d, last) = j - 1
             /\ \A k \in Starts(d) : k < j <=> k <= last
  <2>1. i \in Starts(d) /\ j - 1 # 0
    BY <1>1, <1>2, <1>4, <1>5, <1>7
  <2>2. j - 1 \in Ends(d)
    BY <1>4, <2>1 DEF Cut
  <2>3. last \in Starts(d) /\ EndOf(d, last) = j - 1 /\ last \in 1..(j - 1)
    BY <2>2, StartOfEnd
  <2>4. ~ (j - 1 < i)
    BY <1>3, <1>5, <1>7
  <2>5. ~ (last < i)
    BY <2>1, <2>2, <2>4, EndsBefore
  <2> HIDE DEF last
  <2>6. \A k \in Starts(d) : last < k => j - 1 < k
    BY <2>3, StartsInOrder
  <2>7. \A k \in Starts(d) : k < j <=> k <= last
    BY <1>3, <1>5, <1>6, <2>3, <2>6
  <2>. QED  BY <1>3, <1>5, <1>6, <2>1, <2>3, <2>5, <2>7
<1>8. /\ from \in Numbers /\ to \in Numbers /\ from \in Int /\ to \in Int
      /\ from <= start /\ end <= to /\ from <= to
      /\ j > i => from <= From(d, i) /\ To(d, last) <= to
      /\ from = start \/ (j > i /\ from = From(d, i))
      /\ to = end \/ (j > i /\ to = To(d, last))
  <2>1. CASE j > i
    <3>1. from = IF start <= From(d, i) THEN start ELSE From(d, i)
      BY <1>1, <1>6, <1>7, <2>1, MinTwo
    <3>2. to = IF end >= To(d, last) THEN end ELSE To(d, last)
      BY <1>1, <1>6, <1>7, <2>1, MaxTwo
    <3>3. From(d, i) \in Numbers /\ To(d, last) \in Numbers /\ From(d, i) \in Int
          /\ To(d, last) \in Int
      BY <1>6, <1>7, <2>1
    <3> HIDE DEF last, from, to
    <3>. QED  BY <1>1, <2>1, <3>1, <3>2, <3>3
  <2>2. CASE ~ (j > i)
    BY <1>1, <2>2
  <2>. QED  BY <2>1, <2>2
<1> HIDE DEF last, from, to
<1>9. Good(Emit(from, to)) /\ Keys(Emit(from, to)) = from..to
  BY <1>8, OneChunk
<1>10. Before(UpTo(d, i - 1), from..to)
  <2> SUFFICES ASSUME NEW x \in UpTo(d, i - 1) PROVE x < from
    BY <1>8 DEF Before, UpTo, Numbers
  <2>1. PICK k \in Starts(d) : k <= i - 1 /\ Holds(d, k, x)
    BY <1>2, SidesHeld
  <2>2. x \in Int /\ k < i /\ To(d, k) < start - 1 /\ x <= To(d, k)
    BY <1>2, <1>3, <1>6, <2>1 DEF UpTo, Numbers, Holds
  <2>3. CASE from = start
    BY <1>1, <1>6, <2>2, <2>3
  <2>4. CASE j > i /\ from = From(d, i)
    <3>1. To(d, k) < From(d, i)
      BY <1>7, <2>2, <2>4, StartsInOrder
    <3>. QED  BY <1>6, <1>7, <2>2, <2>4, <3>1
  <2>. QED  BY <1>8, <2>3, <2>4
<1>11. Before(from..to, Beyond(d, j - 1))
  <2> SUFFICES ASSUME NEW y \in Beyond(d, j - 1) PROVE to < y
    BY <1>8 DEF Before, Beyond, Numbers
  <2>1. PICK k \in Starts(d) : k > j - 1 /\ Holds(d, k, y)
    BY <1>4, SidesHeld
  <2>2. y \in Int /\ k >= j /\ From(d, k) <= y /\ k \in 1..Len(d)
    BY <1>5, <1>6, <2>1 DEF Beyond, Numbers, Holds
  <2>3. j \in Starts(d) /\ Apart(d, i, j, end)
    BY <1>1, <1>4, <1>5, <2>2
  <2>4. From(d, j) <= From(d, k)
    <3>1. j < k => To(d, j) < From(d, k)
      BY <2>3, StartsInOrder
    <3>2. j < k \/ j = k
      BY <1>5, <2>2
    <3>. QED  BY <1>6, <2>3, <3>1, <3>2
  <2>5. From(d, j) > end + 1 /\ (j > i => From(d, j) > To(d, last) + 1)
    BY <2>3 DEF Apart, last
  <2>6. From(d, j) \in Int /\ From(d, k) \in Int /\ (j > i => To(d, last) \in Int)
    BY <1>6, <1>7, <2>3
  <2>7. From(d, j) > to
    BY <1>1, <1>8, <2>5, <2>6
  <2>. QED  BY <1>8, <2>2, <2>4, <2>6, <2>7
<1> DEFINE b == Emit(from, to)
           e == SubSeq(d, 1, i - 1) \o b \o SubSeq(d, j - 1 + 1, Len(d))
<1>12. Good(e) /\ Keys(e) = UpTo(d, i - 1) \cup Keys(b) \cup Beyond(d, j - 1)
  <2>1. Before(UpTo(d, i - 1), Keys(b)) /\ Before(Keys(b), Beyond(d, j - 1)) /\ Good(b)
    BY <1>9, <1>10, <1>11
  <2> HIDE DEF b
  <2>. QED  BY <1>2, <1>4, <1>5, <2>1, Replaced
<1>13. ASSUME NEW x
       PROVE  x \in Keys(e) <=> x \in Keys(d) \/ x \in start..end
  <2>1. /\ x \in UpTo(d, i - 1) <=> x \in Numbers /\ \E k \in Starts(d) : k <= i - 1 /\ Holds(d, k, x)
        /\ x \in Beyond(d, j - 1) <=> x \in Numbers /\ \E k \in Starts(d) : k > j - 1 /\ Holds(d, k, x)
        /\ x \in Keys(d) <=> x \in Numbers /\ \E k \in Starts(d) : Holds(d, k, x)
    BY <1>2, <1>4, SidesHeld, KeysHeld
  <2>2. ASSUME x \in from..to
        PROVE  x \in Keys(d) \/ x \in start..end
    <3>1. x \in Int /\ from <= x /\ x <= to /\ x \in Numbers
      BY <1>1, <1>8, <2>2 DEF Numbers
    <3>2. CASE j > i
      <4>1. From(d, i) <= x \/ start <= x
        BY <1>1, <1>8, <3>1
      <4>2. x <= To(d, last) \/ x <= end
        BY <1>1, <1>8, <3>1
      <4>3. \A k \in Starts(d) : i <= k /\ k <= last => ~ Apart(d, i, k, end)
        BY <1>4, <1>7, <3>2
      <4>4. start <= end /\ To(d, i) >= start - 1
        BY <1>1, <1>2, <1>3, <1>7, <3>2
      <4>5. \/ start <= x /\ x <= end
            \/ \E k \in Starts(d) : i <= k /\ k <= last /\ Holds(d, k, x)
        BY <1>1, <1>7, <3>1, <3>2, <4>1, <4>2, <4>3, <4>4, NothingBetween
      <4>. QED  BY <1>1, <2>1, <3>1, <4>5
    <3>3. CASE ~ (j > i)
      BY <1>1, <1>8, <3>1, <3>3
    <3>. QED  BY <3>2, <3>3
  <2>3. ASSUME x \in start..end
        PROVE  x \in from..to
    BY <1>1, <1>8, <2>3
  <2>4. ASSUME x \in Keys(d), x \notin UpTo(d, i - 1), x \notin Beyond(d, j - 1)
        PROVE  x \in from..to
    <3>1. PICK k \in Starts(d) : Holds(d, k, x)
      BY <2>1, <2>4
    <3>2. x \in Int /\ x \in Numbers /\ ~ (k <= i - 1) /\ ~ (k > j - 1)
      BY <2>1, <2>4, <3>1 DEF Numbers
    <3>3. i <= k /\ k < j
      BY <1>3, <1>5, <1>6, <3>2
    <3>4. j > i /\ k <= last
      BY <1>3, <1>5, <1>6, <1>7, <3>3
    <3>5. From(d, i) <= From(d, k)
      <4>1. i < k => To(d, i) < From(d, k)
        BY <1>7, <3>4, StartsInOrder
      <4>. QED  BY <1>3, <1>6, <1>7, <3>3, <3>4, <4>1
    <3>6. To(d, k) <= To(d, last)
      <4>1. k < last => To(d, k) < From(d, last)
        BY <1>7, <3>4, StartsInOrder
      <4>. QED  BY <1>6, <1>7, <3>4, <4>1
    <3>7. from <= x /\ x <= to
      BY <1>6, <1>7, <1>8, <3>1, <3>2, <3>4, <3>5, <3>6 DEF Holds
    <3>. QED  BY <1>8, <3>2, <3>7
  <2>5. Keys(b) = from..to
    BY <1>9
  <2>6. (x \in UpTo(d, i - 1) => x \in Keys(d)) /\ (x \in Beyond(d, j - 1) => x \in Keys(d))
    BY <2>1
  <2> HIDE DEF b, e
  <2>. QED  BY <1>12, <2>2, <2>3, <2>4, <2>5, <2>6
<1>14. Keys(e) = Keys(d) \cup start..end
  <2> HIDE DEF e
  <2>. QED  BY <1>13
<1>15. e = SubSeq(d, 1, i - 1) \o Emit(from, to) \o SubSeq(d, j, Len(d))
  BY <1>5
<1>. QED  BY <1>12, <1>14, <1>15 DEF i, j, from, to, last

\* Words that begin with all of a have the chunks of a, and one may start behind.
LEMMA SameStarts ==
    ASSUME NEW a, Good(a), NEW c \in Seq(Words), Len(a) <= Len(c),
           \A i \in 1..Len(a) : c[i] = a[i]
    PROVE  /\ \A i \in 1..Len(a) : i \in Starts(a) <=> i \in Starts(c)
           /\ \A i \in Starts(a) : To(c, i) = To(a, i)
           /\ Len(a) < Len(c) => Len(a) + 1 \in Starts(c)
<1> DEFINE n == Len(a)
<1>1. /\ a \in Seq(Words) /\ n \in Nat /\ DOMAIN a = 1..n /\ DOMAIN c = 1..Len(c)
      /\ Len(c) \in Nat /\ \A i \in 1..n : i \in 1..Len(c)
  BY SeqFacts DEF Good
<1>2. \A i \in 1..n : i \in Starts(a) <=> i \in Starts(c)
  <2> SUFFICES ASSUME NEW i \in 1..n PROVE i \in Starts(a) <=> i \in Starts(c)
    OBVIOUS
  <2>1. i # 1 => i - 1 \in 1..n
    BY <1>1
  <2>2. i # 1 => c[i - 1] = a[i - 1]
    BY <2>1
  <2>. QED  BY <1>1, <2>2 DEF Starts
<1>3. \A i \in Starts(a) : To(c, i) = To(a, i)
  <2> SUFFICES ASSUME NEW i \in Starts(a) PROVE To(c, i) = To(a, i)
    OBVIOUS
  <2>1. i \in 1..n /\ (a[i] < 0 => i + 1 \in 1..n)
    BY <1>1 DEF Starts, Good, Shaped
  <2>. QED  BY <2>1 DEF To
<1>4. n < Len(c) => n + 1 \in Starts(c)
  <2> SUFFICES ASSUME n < Len(c) PROVE n + 1 \in Starts(c)
    OBVIOUS
  <2>1. n + 1 \in 1..Len(c) /\ n + 1 - 1 = n
    BY <1>1
  <2>2. n = 0 \/ n \in Ends(a)
    BY LastIsCut DEF Cut
  <2>3. n + 1 = 1 \/ c[n] >= 0
    BY <1>1, <2>2 DEF Ends
  <2>. QED  BY <1>1, <2>1, <2>3 DEF Starts
<1>. QED  BY <1>2, <1>3, <1>4

\* No number is beyond the last member by more than one.
LEMMA LastMember ==
    ASSUME NEW d, Good(d)
    PROVE  /\ GetLastMember(d) \in Int
           /\ \A x \in Keys(d) : x \in Int /\ x <= GetLastMember(d) + 1
           /\ d = <<>> => GetLastMember(d) = 0
<1>1. d \in Seq(Words) /\ Len(d) \in Nat
  BY SeqFacts DEF Good
<1>2. CASE d = <<>>
  BY <1>2, NoChunk DEF GetLastMember
<1>3. CASE d # <<>>
  <2> DEFINE l == Len(d)
             k == StartOf(d, l)
  <2>1. l \in Ends(d)
    BY <1>3, LastIsCut
  <2>2. /\ l \in 1..l /\ d[l] \in Int /\ Until(d, l) \in Int /\ From(d, k) = d[l]
        /\ To(d, k) = Until(d, l) /\ d[l] <= Until(d, l)
    BY <1>1, <2>1, UntilFacts, StartOfEnd DEF Numbers
  <2>3. GetLastMember(d) = IF l > 1 /\ d[l - 1] < 0 THEN Until(d, l) - 1 ELSE Until(d, l)
    BY <1>1, <2>2 DEF GetLastMember, Until
  <2>4. Keys(d) = UpTo(d, k - 1) \cup From(d, k)..To(d, k)
        /\ Before(UpTo(d, k - 1), From(d, k)..To(d, k))
    BY <1>3, LastChunk
  <2>5. \A x \in Keys(d) : x \in Int /\ x <= Until(d, l)
    <3>1. Until(d, l) \in From(d, k)..To(d, k)
      BY <2>2
    <3>2. \A x \in UpTo(d, k - 1) : x \in Int
      BY DEF UpTo, Numbers
    <3>. QED  BY <2>2, <2>4, <3>1, <3>2 DEF Before
  <2>. QED  BY <1>3, <2>2, <2>3, <2>5
<1>. QED  BY <1>2, <1>3

\* Cutting off, and what it does to places in the words.
LEMMA TrimmedKeeps ==
    ASSUME NEW d, Good(d), NEW mark \in Numbers
    PROVE  LET e == Trimmed(d, mark)
           IN  /\ Good(e) /\ Keys(e) \subseteq Keys(d)
               /\ \A x \in Keys(d) : x <= mark => x \in Keys(e)
               /\ \A x, y \in Keys(e) : x > mark /\ y > mark => x = y
               /\ \A i \in Starts(e) : i \in Starts(d) /\ To(e, i) <= To(d, i)
               /\ \A i \in Starts(d) : i \in Starts(e) \/ i > Len(e)
               /\ Len(e) <= Len(d)
<1> DEFINE K == {k \in DOMAIN d : d[k] >= 0 /\ (k = 1 \/ d[k] <= mark)}
           l == Max({0} \cup K)
           e == Trimmed(d, mark)
<1>1. /\ d \in Seq(Words) /\ Len(d) \in Nat /\ DOMAIN d = 1..Len(d) /\ mark \in Int
      /\ \A x \in Keys(d) : x \in Int
  BY SeqFacts DEF Good, Numbers, Keys, UpTo
<1>2. ({0} \cup K) \in SUBSET (0..Len(d)) /\ {0} \cup K # {}
  BY <1>1
<1>3. l \in {0} \cup K /\ \A y \in {0} \cup K : l >= y
  BY <1>1, <1>2, MaxNat
<1>4. e = IF l > 1 /\ d[l - 1] < 0 /\ d[l] - d[l - 1] - 1 > mark
            THEN SubSeq(d, 1, l - 2) \o Emit(d[l], mark) ELSE SubSeq(d, 1, l)
  BY DEF Trimmed
<1> HIDE DEF e, l
<1>5. l \in 0..Len(d) /\ l \in Nat /\ (l # 0 => l \in Ends(d) /\ (l = 1 \/ d[l] <= mark))
  BY <1>1, <1>3 DEF Ends
<1>6. Cut(d, l)
  BY <1>5 DEF Cut
<1>7. \A x \in Keys(d) : x <= mark => x \in UpTo(d, l)
  <2> SUFFICES ASSUME NEW x \in Keys(d), x <= mark PROVE x \in UpTo(d, l)
    OBVIOUS
  <2>1. x \in Numbers /\ x \in Int
    BY <1>1 DEF Keys, UpTo
  <2>2. PICK m \in Ends(d) : d[m] <= x /\ x <= Until(d, m)
    BY DEF Keys, UpTo
  <2>3. m \in 1..Len(d) /\ d[m] \in Int /\ d[m] >= 0 /\ d[m] <= mark
    BY <1>1, <2>1, <2>2, SeqFacts DEF Ends
  <2>4. m <= l
    BY <1>1, <1>3, <2>3
  <2>. QED  BY <2>1, <2>2, <2>4 DEF UpTo
<1>8. UpTo(d, l) \subseteq Keys(d)
  BY <1>6, Sides
<1> DEFINE s == SubSeq(d, 1, l)
<1>9. Good(s) /\ Len(s) = l /\ Keys(s) = UpTo(d, l) /\ \A i \in 1..l : s[i] = d[i]
  BY <1>6, Prefix
<1> HIDE DEF s
<1>10. /\ \A i \in 1..l : i \in Starts(s) <=> i \in Starts(d)
       /\ \A i \in Starts(s) : To(d, i) = To(s, i)
  <2>1. Len(s) <= Len(d) /\ \A i \in 1..Len(s) : d[i] = s[i]
    BY <1>1, <1>5, <1>9
  <2>. QED  BY <1>1, <1>9, <2>1, SameStarts
<1>11. CASE l > 1 /\ d[l - 1] < 0 /\ d[l] - d[l - 1] - 1 > mark
  <2> DEFINE pre == SubSeq(d, 1, l - 2)
             new == Emit(d[l], mark)
  <2>1. /\ l \in Ends(d) /\ d[l] \in Numbers /\ d[l] <= mark /\ d[l] \in Int
        /\ l - 1 \in Starts(d) /\ Cut(d, l - 2) /\ l - 2 \in Nat
        /\ UpTo(d, l) = UpTo(d, l - 2) \cup d[l]..Until(d, l)
        /\ Before(UpTo(d, l - 2), d[l]..Until(d, l)) /\ To(d, l - 1) = Until(d, l)
        /\ Until(d, l) > mark /\ Until(d, l) \in Int
    <3>1. l \in Ends(d) /\ d[l] \in Numbers /\ d[l] <= mark /\ d[l] \in Int
          /\ Until(d, l) \in Int /\ d[l - 1] \in Int
      <4>1. l \in Ends(d) /\ d[l] <= mark /\ l - 1 \in 1..Len(d)
        BY <1>1, <1>5, <1>11
      <4>. QED  BY <1>1, <4>1, UntilFacts, SeqFacts DEF Numbers
    <3>2. StartOf(d, l) = l - 1
      BY <1>11 DEF StartOf
    <3>3. /\ l - 1 \in Starts(d) /\ EndOf(d, l - 1) = l /\ From(d, l - 1) = d[l]
          /\ To(d, l - 1) = Until(d, l)
      BY <3>1, <3>2, StartOfEnd
    <3>4. l - 1 - 1 = l - 2 /\ l - 2 \in Nat
      BY <1>5, <1>11
    <3>5. /\ Cut(d, l - 1 - 1) /\ UpTo(d, EndOf(d, l - 1)) = UpTo(d, l - 1 - 1) \cup From(d, l - 1)..To(d, l - 1)
          /\ Before(UpTo(d, l - 1 - 1), From(d, l - 1)..To(d, l - 1))
      BY <3>3, Around
    <3>6. Until(d, l) > mark
      BY <1>1, <1>11, <3>1 DEF Until
    <3>. QED  BY <3>1, <3>3, <3>4, <3>5, <3>6
  <2>2. /\ Good(pre) /\ Len(pre) = l - 2 /\ Keys(pre) = UpTo(d, l - 2)
        /\ \A i \in 1..(l - 2) : pre[i] = d[i]
    BY <2>1, Prefix
  <2>3. Good(new) /\ Keys(new) = d[l]..mark /\ Len(new) \in {1, 2}
    BY <2>1, OneChunk
  <2>4. new = IF d[l] = mark THEN <<d[l]>> ELSE <<-(mark - d[l]), d[l]>>
    BY DEF Emit
  <2>5. e = pre \o new
    BY <1>4, <1>11
  <2> HIDE DEF pre, new
  <2>6. d[l]..mark \subseteq d[l]..Until(d, l)
    BY <1>1, <2>1
  <2>7. Good(e) /\ Keys(e) = UpTo(d, l - 2) \cup d[l]..mark
    <3>1. Before(Keys(pre), Keys(new))
      BY <2>1, <2>2, <2>3, <2>6 DEF Before
    <3>. QED  BY <2>2, <2>3, <2>5, <3>1, Joined
  <2>8. \A x \in UpTo(d, l - 2) : x \in Int /\ x < mark
    <3>1. d[l] \in d[l]..Until(d, l)
      BY <1>1, <2>1
    <3>. QED  BY <1>1, <2>1, <3>1 DEF Before, UpTo, Numbers
  <2>9. Keys(e) \subseteq Keys(d)
    BY <1>8, <2>1, <2>6, <2>7
  <2>10. \A x \in Keys(d) : x <= mark => x \in Keys(e)
    <3> SUFFICES ASSUME NEW x \in Keys(d), x <= mark, x \notin UpTo(d, l - 2)
                 PROVE  x \in d[l]..mark
      BY <2>7
    <3>1. x \in d[l]..Until(d, l)
      BY <1>7, <2>1
    <3>. QED  BY <1>1, <2>1, <3>1
  <2>11. \A x \in Keys(e) : ~ (x > mark)
    BY <1>1, <2>1, <2>7, <2>8
  <2>12. /\ e \in Seq(Words) /\ Len(e) = l - 2 + Len(new) /\ Len(e) > l - 2 /\ Len(e) <= l
         /\ \A i \in 1..(l - 2) : e[i] = d[i]
         /\ e[l - 1] = new[1] /\ (Len(new) = 2 => e[l] = new[2])
    <3>1. pre \in Seq(Words) /\ new \in Seq(Words)
      BY <2>2, <2>3 DEF Good
    <3>2. /\ e \in Seq(Words) /\ Len(e) = l - 2 + Len(new)
          /\ \A i \in 1..(l - 2 + Len(new)) : e[i] = IF i <= l - 2 THEN pre[i] ELSE new[i - (l - 2)]
      <4>1. Len(pre) = l - 2
        BY <2>2
      <4>2. /\ pre \o new \in Seq(Words) /\ Len(pre \o new) = Len(pre) + Len(new)
            /\ \A i \in 1..(Len(pre) + Len(new)) :
                 (pre \o new)[i] = IF i <= Len(pre) THEN pre[i] ELSE new[i - Len(pre)]
        BY <3>1, ConcatProperties, Zenon
      <4>. QED  BY <4>1, <4>2, <2>5, Zenon
    <3>3. \A i \in 1..(l - 2) : i \in 1..(l - 2 + Len(new)) /\ i <= l - 2
      BY <2>1, <2>3
    <3> DEFINE m == Len(new)
    <3>4. m \in Int /\ 1 <= m /\ m <= 2
      <4>1. m = 1 \/ m = 2
        BY <2>3
      <4> HIDE DEF m
      <4>. QED  BY <4>1
    <3>5. l - 1 \in 1..(l - 2 + m) /\ ~ (l - 1 <= l - 2) /\ l - 1 - (l - 2) = 1
          /\ l - 2 + m > l - 2 /\ l - 2 + m <= l
      <4> HIDE DEF m
      <4>. QED  BY <1>5, <2>1, <3>4
    <3>6. Len(new) = 2 => l \in 1..(l - 2 + Len(new)) /\ ~ (l <= l - 2) /\ l - (l - 2) = 2
      BY <1>5, <2>1, <2>3
    <3>7. \A i \in 1..(l - 2) : e[i] = d[i]
      BY <2>2, <3>2, <3>3
    <3>8. e[l - 1] = new[1]
      BY <3>2, <3>5
    <3>9. Len(new) = 2 => e[l] = new[2]
      BY <3>2, <3>6
    <3>. QED  BY <3>2, <3>5, <3>7, <3>8, <3>9
  <2>13. /\ \A i \in 1..(l - 2) : i \in Starts(pre) <=> i \in Starts(e)
         /\ \A i \in Starts(pre) : To(e, i) = To(pre, i)
         /\ l - 1 \in Starts(e)
    <3>1. Len(pre) <= Len(e) /\ Len(pre) < Len(e) /\ \A i \in 1..Len(pre) : e[i] = pre[i]
      BY <1>5, <2>1, <2>2, <2>12
    <3>2. Len(pre) + 1 = l - 1
      BY <1>5, <2>2
    <3>. QED  BY <2>2, <2>12, <3>1, <3>2, SameStarts
  <2>14. /\ \A i \in 1..(l - 2) : i \in Starts(pre) <=> i \in Starts(d)
         /\ \A i \in Starts(pre) : To(d, i) = To(pre, i)
    <3>1. Len(pre) <= Len(d) /\ \A i \in 1..Len(pre) : d[i] = pre[i]
      BY <1>1, <1>5, <2>1, <2>2
    <3>. QED  BY <1>1, <2>2, <3>1, SameStarts
  <2>15. To(e, l - 1) = mark /\ (Len(e) = l => l \notin Starts(e))
    <3>1. CASE d[l] = mark
      <4>1. new = <<d[l]>> /\ Len(new) = 1 /\ new[1] = mark
        BY <2>4, <3>1
      <4>2. e[l - 1] = mark /\ ~ (mark < 0) /\ Len(e) # l
        BY <1>1, <1>5, <2>1, <2>12, <4>1 DEF Numbers
      <4>. QED  BY <4>2 DEF To
    <3>2. CASE d[l] # mark
      <4>1. Len(new) = 2 /\ new[1] = -(mark - d[l]) /\ new[2] = d[l]
        BY <2>4, <3>2
      <4>2. e[l - 1] = -(mark - d[l]) /\ e[l] = d[l] /\ e[l - 1] < 0
        BY <1>1, <2>1, <2>12, <3>2, <4>1
      <4>3. l - 1 + 1 = l /\ d[l] - (-(mark - d[l])) = mark /\ l # 1
        BY <1>1, <1>5, <1>11, <2>1
      <4>4. To(e, l - 1) = mark
        BY <4>2, <4>3 DEF To
      <4>5. ~ (e[l - 1] >= 0)
        BY <1>1, <2>1, <4>2
      <4>. QED  BY <4>3, <4>4, <4>5 DEF Starts
    <3>. QED  BY <3>1, <3>2
  <2>16. \A i \in Starts(e) : i \in 1..(l - 2) \/ i = l - 1
    <3>1. \A i \in Starts(e) : i \in 1..Len(e) /\ i \in Nat
      BY <2>12, SeqFacts DEF Starts
    <3>. QED  BY <1>5, <2>1, <2>12, <2>15, <3>1
  <2>17. \A i \in Starts(e) : i \in Starts(d) /\ To(e, i) <= To(d, i)
    <3>1. \A i \in Starts(d) : To(d, i) \in Int
      BY EndOfStart DEF Numbers
    <3>. QED  BY <1>1, <2>1, <2>13, <2>14, <2>15, <2>16, <3>1
  <2>18. \A i \in Starts(d) : i \in Starts(e) \/ i > Len(e)
    <3> SUFFICES ASSUME NEW i \in Starts(d), ~ (i > Len(e)) PROVE i \in Starts(e)
      OBVIOUS
    <3>1. i \in Nat /\ i >= 1 /\ i <= l
      BY <1>1, <1>5, <2>1, <2>3, <2>12 DEF Starts
    <3>2. l \notin Starts(d)
      <4>1. l - 1 \in 1..Len(d) /\ l # 1 /\ d[l - 1] \in Int
        BY <1>1, <1>5, <1>11, SeqFacts
      <4>. QED  BY <1>1, <1>11, <4>1 DEF Starts
    <3>3. i \in 1..(l - 2) \/ i = l - 1
      BY <1>5, <2>1, <3>1, <3>2
    <3>. QED  BY <2>13, <2>14, <3>3
  <2>19. Len(e) <= Len(d)
    <3>1. Len(e) \in Int /\ Len(e) <= l
      BY <1>5, <2>1, <2>12, SeqFacts
    <3>. QED  BY <1>1, <1>5, <3>1
  <2>. QED  BY <2>7, <2>9, <2>10, <2>11, <2>17, <2>18, <2>19 DEF e
<1>12. CASE ~ (l > 1 /\ d[l - 1] < 0 /\ d[l] - d[l - 1] - 1 > mark)
  <2>1. e = s
    BY <1>4, <1>12 DEF s
  <2>2. \A x, y \in Keys(e) : x > mark /\ y > mark => x = y
    <3>1. CASE l = 0
      <4>1. Ends(d) \subseteq Nat \ {0}
        BY <1>1 DEF Ends
      <4>2. UpTo(d, l) = {}
        BY <3>1, <4>1 DEF UpTo
      <4>. QED  BY <1>9, <2>1, <4>2
    <3>2. CASE l # 0
      <4>1. l \in Ends(d) /\ d[l] \in Int /\ Until(d, l) \in Int /\ d[l] <= Until(d, l)
            /\ (l = 1 \/ d[l] <= mark)
        BY <1>5, <3>2, UntilFacts DEF Numbers
      <4> DEFINE k == StartOf(d, l)
      <4>2. k \in Starts(d) /\ EndOf(d, k) = l /\ From(d, k) = d[l] /\ To(d, k) = Until(d, l)
        BY <4>1, StartOfEnd
      <4> HIDE DEF k
      <4>3. /\ UpTo(d, l) = UpTo(d, k - 1) \cup d[l]..Until(d, l)
            /\ Before(UpTo(d, k - 1), d[l]..Until(d, l))
        BY <4>2, Around
      <4>4. \A x \in UpTo(d, k - 1) : x \in Int /\ x < d[l]
        <5>1. d[l] \in d[l]..Until(d, l)
          BY <4>1
        <5>. QED  BY <4>3, <5>1 DEF Before, UpTo, Numbers
      <4>5. CASE l > 1 /\ d[l - 1] < 0
        <5>1. l - 1 \in 1..Len(d) /\ d[l] <= mark
          BY <1>1, <1>5, <4>1, <4>5
        <5>2. Until(d, l) - 1 <= mark
          BY <1>1, <1>12, <4>1, <4>5, <5>1, SeqFacts DEF Until
        <5>3. \A x \in UpTo(d, l) : x \in Int /\ (x > mark => x = Until(d, l))
          BY <1>1, <4>1, <4>3, <4>4, <5>1, <5>2
        <5>. QED  BY <1>9, <2>1, <5>3
      <4>6. CASE ~ (l > 1 /\ d[l - 1] < 0)
        <5>1. Until(d, l) = d[l]
          BY <4>6 DEF Until
        <5>2. CASE d[l] <= mark
          <6>1. \A x \in UpTo(d, l) : ~ (x > mark)
            BY <1>1, <4>1, <4>3, <4>4, <5>1, <5>2
          <6>. QED  BY <1>9, <2>1, <6>1
        <5>3. CASE ~ (d[l] <= mark)
          <6>1. k - 1 = 0
            <7>1. l = 1
              BY <4>1, <5>3
            <7>. QED  BY <4>6, <7>1 DEF StartOf, k
          <6>2. UpTo(d, k - 1) = {}
            <7>1. Ends(d) \subseteq Nat \ {0}
              BY <1>1 DEF Ends
            <7>. QED  BY <6>1, <7>1 DEF UpTo
          <6>3. \A x \in UpTo(d, l) : x = d[l]
            BY <4>1, <4>3, <5>1, <6>2
          <6>. QED  BY <1>9, <2>1, <6>3
        <5>. QED  BY <5>2, <5>3
      <4>. QED  BY <4>5, <4>6
    <3>. QED  BY <3>1, <3>2
  <2>3. \A i \in Starts(d) : i \in Nat /\ i >= 1 /\ To(d, i) \in Int
    BY EndOfStart DEF Numbers
  <2>4. \A i \in Starts(s) : i \in 1..l
    BY <1>9, SeqFacts DEF Good, Starts
  <2>5. \A i \in Starts(e) : i \in Starts(d) /\ To(e, i) <= To(d, i)
    BY <1>10, <2>1, <2>3, <2>4
  <2>6. \A i \in Starts(d) : i \in Starts(e) \/ i > Len(e)
    BY <1>5, <1>9, <1>10, <2>1, <2>3
  <2>7. Len(e) <= Len(d)
    BY <1>1, <1>5, <1>9, <2>1
  <2>. QED  BY <1>7, <1>8, <1>9, <2>1, <2>2, <2>5, <2>6, <2>7 DEF e
<1>. QED  BY <1>11, <1>12

-----------------------------------------------------------------------------
(* Saving and loading.                                                     *)

\* Lines as KeySetAssumption has them.
Tidy(line) == /\ line \in Seq(Numbers \X Numbers)
              /\ \A i \in DOMAIN line : line[i][1] <= line[i][2]
              /\ \A i, j \in DOMAIN line : i < j => line[i][2] < line[j][1]
              /\ \A i \in DOMAIN line : line[i][1] = 1 => i = 1

\* The numbers in the first k ranges of a line, and what is loaded of them.
InLine(line, k) == {n \in Numbers : \E i \in 1..k : line[i][1] <= n /\ n <= line[i][2]}
Loaded(line, k) == InLine(line, k) \cup {n \in {0} : \E i \in 1..k : line[i][1] = 1}

LEMMA TidyFacts ==
    ASSUME NEW line, Tidy(line)
    PROVE  /\ Len(line) \in Nat /\ DOMAIN line = 1..Len(line)
           /\ \A i \in 1..Len(line) : /\ line[i][1] \in Numbers /\ line[i][2] \in Numbers
                                      /\ line[i][1] \in Nat /\ line[i][2] \in Nat
                                      /\ line[i] = <<line[i][1], line[i][2]>>
<1>1. line \in Seq(Numbers \X Numbers)
  BY DEF Tidy
<1>2. \A i \in 1..Len(line) : line[i] \in Numbers \X Numbers
  BY <1>1
<1>3. \A z \in Numbers \X Numbers : /\ z[1] \in Numbers /\ z[2] \in Numbers
                                    /\ z[1] \in Nat /\ z[2] \in Nat /\ z = <<z[1], z[2]>>
  BY DEF Numbers
<1>. QED  BY <1>1, <1>2, <1>3

LEMMA LoadKeeps ==
    ASSUME NEW line, Tidy(line), NEW k \in 1..Len(line), NEW w, Good(w),
           Keys(w) = Loaded(line, k - 1)
    PROVE  LET e == w \o Emit(IF line[k][1] = 1 THEN 0 ELSE line[k][1], line[k][2])
           IN  Good(e) /\ Keys(e) = Loaded(line, k)
<1> DEFINE from == IF line[k][1] = 1 THEN 0 ELSE line[k][1]
           to == line[k][2]
           new == Emit(from, to)
<1>1. /\ Len(line) \in Nat /\ k \in Nat /\ line[k][1] \in Numbers /\ to \in Numbers
      /\ line[k][1] \in Nat /\ to \in Nat /\ line[k][1] <= to
      /\ \A i \in 1..k : i \in 1..Len(line) /\ line[i][1] \in Nat /\ line[i][2] \in Nat
                         /\ (line[i][1] = 1 => i = 1)
      /\ \A i \in 1..k - 1 : i \in 1..k /\ i # k /\ line[i][2] < line[k][1]
  BY TidyFacts DEF Tidy
<1>2. from \in Numbers /\ from \in Nat /\ from <= to /\ \A n \in from..to : n \in Numbers
  BY <1>1, KeySetAssumption DEF Numbers
<1>3. Good(new) /\ Keys(new) = from..to
  BY <1>1, <1>2, OneChunk
<1>4. \A x \in Loaded(line, k - 1) : x \in Nat /\ x < from
  <2> SUFFICES ASSUME NEW x \in Loaded(line, k - 1) PROVE x \in Nat /\ x < from
    OBVIOUS
  <2>1. PICK i \in 1..k - 1 : x \in Nat /\ x <= line[i][2]
    BY <1>1 DEF Loaded, InLine, Numbers
  <2>2. i \in 1..k /\ line[i][2] < line[k][1] /\ k # 1 /\ line[i][2] \in Nat
    BY <1>1, <2>1
  <2>3. from = line[k][1]
    BY <1>1, <2>2
  <2>. QED  BY <1>1, <2>1, <2>2, <2>3
<1> HIDE DEF new
<1>5. Before(Keys(w), Keys(new))
  BY <1>2, <1>3, <1>4 DEF Before
<1>6. Good(w \o new) /\ Keys(w \o new) = Keys(w) \cup from..to
  BY <1>3, <1>5, Joined
<1>7. Loaded(line, k) = Loaded(line, k - 1) \cup from..to
  <2>1. \A i : i \in 1..k <=> i \in 1..k - 1 \/ i = k
    BY <1>1
  <2>2. \A x : x \in InLine(line, k) <=> x \in InLine(line, k - 1) \/ x \in line[k][1]..to
    <3>1. \A x : x \in line[k][1]..to <=> x \in Numbers /\ line[k][1] <= x /\ x <= to
      BY <1>1, KeySetAssumption DEF Numbers
    <3>. QED  BY <2>1, <3>1 DEF InLine
  <2>3. CASE line[k][1] = 1
    <3>1. from..to = line[k][1]..to \cup {0}
      BY <1>1, <2>3
    <3>2. \E i \in 1..k : line[i][1] = 1
      BY <1>1, <2>3
    <3>3. Loaded(line, k) = InLine(line, k) \cup {0}
      BY <3>2 DEF Loaded
    <3>4. k - 1 = 0 /\ Loaded(line, k - 1) = {} /\ InLine(line, k - 1) = {}
      BY <1>1, <2>3 DEF Loaded, InLine
    <3>. QED  BY <2>2, <3>1, <3>3, <3>4
  <2>4. CASE line[k][1] # 1
    <3>1. (\E i \in 1..k : line[i][1] = 1) <=> (\E i \in 1..k - 1 : line[i][1] = 1)
      BY <2>1, <2>4
    <3>2. from = line[k][1]
      BY <2>4
    <3>. QED  BY <2>2, <3>1, <3>2 DEF Loaded
  <2>. QED  BY <2>3, <2>4
<1>. QED  BY <1>6, <1>7 DEF new

LEMMA ParsedKeeps ==
    ASSUME NEW line, Tidy(line)
    PROVE  Good(Parsed(line)) /\ Keys(Parsed(line)) = Loaded(line, Len(line))
<1> DEFINE S == Seq(Words)
           n == Len(line)
           More(w, k) == w \o Emit(IF line[k][1] = 1 THEN 0 ELSE line[k][1], line[k][2])
           T == {z \in S \X (0..n) : Good(z[1]) /\ Keys(z[1]) = Loaded(line, z[2])}
           step == [z \in S \X (1..n) |-> More(z[1], z[2])]
           g == CHOOSE f : f = [k \in 0..n |-> IF k = 0 THEN <<>> ELSE More(f[k - 1], k)]
<1>1. n \in Nat
  BY TidyFacts
<1>2. T \in SUBSET (S \X (0..n))
  OBVIOUS
<1>3. \A w, k : <<w, k>> \in T <=> k \in 0..n /\ Good(w) /\ Keys(w) = Loaded(line, k)
  BY DEF Good
<1>4. <<<<>>, 0>> \in T
  <2>1. 0 \in 0..n /\ Loaded(line, 0) = {}
    BY <1>1 DEF Loaded, InLine
  <2> HIDE DEF T
  <2>. QED  BY <1>3, <2>1, NoChunk
<1>5. \A w \in S, k \in 1..n : step[<<w, k>>] = More(w, k)
  OBVIOUS
<1>6. ASSUME NEW w, NEW k \in 1..n, <<w, k - 1>> \in T
      PROVE  <<More(w, k), k>> \in T
  <2>1. k \in 0..n /\ Good(w) /\ Keys(w) = Loaded(line, k - 1)
    <3> HIDE DEF T
    <3>. QED  BY <1>1, <1>3, <1>6
  <2>2. Good(More(w, k)) /\ Keys(More(w, k)) = Loaded(line, k)
    BY <2>1, LoadKeeps
  <2> HIDE DEF T, More
  <2>. QED  BY <1>3, <2>1, <2>2
<1>7. Parsed(line) = g[n]
  BY DEF Parsed
<1> HIDE DEF S, T, step, More
<1>8. PICK f \in [0..n -> S] : Turns(f, n, <<>>, step)
  <2>1. \A w \in S, k \in 1..n : <<w, k - 1>> \in T => <<step[<<w, k>>], k>> \in T
    BY <1>5, <1>6
  <2>2. \E f \in [0..n -> S] : Turns(f, n, <<>>, step) /\ \A k \in 0..n : <<f[k], k>> \in T
    BY <1>1, <1>2, <1>4, <2>1, LoopKeeps
  <2>. QED  BY <2>2
<1>9. f = [k \in 0..n |-> IF k = 0 THEN <<>> ELSE More(f[k - 1], k)]
  <2>1. \A k \in 0..n : k # 0 => step[<<f[k - 1], k>>] = More(f[k - 1], k)
    BY <1>1, <1>5, <1>8
  <2>. QED  BY <1>8, <2>1 DEF Turns
<1>10. g = [k \in 0..n |-> IF k = 0 THEN <<>> ELSE More(g[k - 1], k)]
  BY <1>9
<1> HIDE DEF g
<1> DEFINE U == {k \in 0..n : <<g[k], k>> \in T}
<1>11. 0 \in U
  BY <1>1, <1>4, <1>10
<1>12. ASSUME NEW k \in 1..n, k - 1 \in U
       PROVE  k \in U
  <2>1. k \in 0..n /\ g[k] = More(g[k - 1], k)
    BY <1>1, <1>10
  <2>. QED  BY <1>6, <1>12, <2>1
<1>13. \A k \in 0..n : k \in U
  <2> HIDE DEF U
  <2>. QED  BY <1>1, <1>11, <1>12, Induction
<1>14. <<Parsed(line), n>> \in T
  BY <1>1, <1>7, <1>13
<1>. QED  BY <1>3, <1>14

\* What is to be written is behind what is written.
LEMMA WriteKeeps ==
    ASSUME NEW d, Good(d), NEW l \in 1..Len(d), NEW line, Tidy(line),
           \A i \in 1..Len(line) : line[i][1] >= 1,
           InLine(line, Len(line)) = UpTo(d, l - 1) \ {0}
    PROVE  LET e == Written(d, l, line)
           IN  /\ Tidy(e) /\ \A i \in 1..Len(e) : e[i][1] >= 1
               /\ InLine(e, Len(e)) = UpTo(d, l) \ {0}
<1> DEFINE i == StartOf(d, l)
           n == Len(line)
           z == IF line = <<>> THEN 0 ELSE Last(line)[2] + 1
           from == Max({1, From(d, i), z})
           to == To(d, i)
           e == Written(d, l, line)
<1>1. n \in Nat /\ DOMAIN line = 1..n /\ line \in Seq(Numbers \X Numbers)
      /\ \A k \in 1..n : /\ line[k][1] \in Numbers /\ line[k][2] \in Numbers
                         /\ line[k][1] \in Nat /\ line[k][2] \in Nat
                         /\ line[k][1] <= line[k][2]
  BY TidyFacts DEF Tidy
<1>2. CASE d[l] < 0
  BY <1>2, TurnAdds DEF Written
<1>3. CASE ~ (d[l] < 0)
  <2>1. /\ UpTo(d, l) = UpTo(d, l - 1) \cup From(d, i)..to
        /\ Before(UpTo(d, l - 1), From(d, i)..to)
        /\ From(d, i) \in Numbers /\ to \in Numbers /\ From(d, i) <= to
    BY <1>3, TurnAdds
  <2>2. From(d, i) \in Nat /\ to \in Nat /\ From(d, i) \in From(d, i)..to
    BY <2>1 DEF Numbers
  <2>3. \A k \in 1..n : line[k][2] < From(d, i)
    <3> SUFFICES ASSUME NEW k \in 1..n PROVE line[k][2] < From(d, i)
      OBVIOUS
    <3>1. line[k][2] \in InLine(line, n)
      <4>1. line[k][2] \in Numbers /\ line[k][1] <= line[k][2] /\ line[k][2] <= line[k][2]
        BY <1>1
      <4>. QED  BY <4>1 DEF InLine
    <3>. QED  BY <2>1, <2>2, <3>1 DEF Before
  <2>4. z \in Int /\ (z <= 0 \/ z <= From(d, i))
    <3>1. CASE line = <<>>
      BY <3>1
    <3>2. CASE line # <<>>
      <4>1. n \in 1..n /\ z = line[n][2] + 1
        BY <1>1, <3>2 DEF Last
      <4>. QED  BY <1>1, <2>2, <2>3, <4>1
    <3>. QED  BY <3>1, <3>2
  <2> HIDE DEF i, z
  <2>5. from = IF From(d, i) >= 1 THEN From(d, i) ELSE 1
    <3>1. from \in {1, From(d, i), z} /\ from >= 1 /\ from >= From(d, i) /\ from >= z
      <4>1. 1 \in Int /\ From(d, i) \in Int /\ z \in Int
        BY <2>2, <2>4
      <4>. QED  BY <4>1, MaxThree
    <3> HIDE DEF from
    <3>. QED  BY <2>2, <2>4, <3>1
  <2>6. e = IF from > to THEN line ELSE Append(line, <<from, to>>)
    BY <1>3 DEF Written, i, z
  <2> HIDE DEF from, e
  <2>7. CASE from > to
    <3>1. From(d, i)..to = {0}
      BY <2>1, <2>2, <2>5, <2>7
    <3>. QED  BY <2>1, <2>6, <2>7, <3>1 DEF e
  <2>8. CASE ~ (from > to)
    <3> DEFINE r == <<from, to>>
    <3>1. from \in Numbers /\ from \in Nat /\ from >= 1 /\ From(d, i) <= from /\ from <= to
      BY <2>1, <2>2, <2>5, <2>8, KeySetAssumption DEF Numbers
    <3>2. r \in Numbers \X Numbers /\ r[1] = from /\ r[2] = to
      BY <2>1, <3>1
    <3> HIDE DEF r
    <3>3. /\ e \in Seq(Numbers \X Numbers) /\ Len(e) = n + 1 /\ e[n + 1] = r
          /\ \A k \in 1..n : e[k] = line[k]
      <4>1. e = Append(line, r)
        BY <2>6, <2>8 DEF r
      <4>. QED  BY <1>1, <3>2, <4>1, AppendProperties
    <3>4. DOMAIN e = 1..n + 1 /\ \A k : k \in 1..n + 1 <=> k \in 1..n \/ k = n + 1
      BY <1>1, <3>3
    <3>5. \A k \in 1..n + 1 : e[k][1] <= e[k][2] /\ e[k][1] >= 1
      BY <1>1, <3>1, <3>2, <3>3, <3>4
    <3>6. ASSUME NEW j \in 1..n + 1, NEW k \in 1..n + 1, j < k
          PROVE  e[j][2] < e[k][1]
      <4>1. j \in 1..n
        BY <1>1, <3>6
      <4>2. CASE k \in 1..n
        BY <1>1, <3>3, <3>6, <4>1, <4>2 DEF Tidy
      <4>3. CASE k = n + 1
        <5>1. e[k][1] = from /\ e[j] = line[j] /\ line[j][2] < From(d, i) /\ line[j][2] \in Nat
          BY <1>1, <2>3, <3>2, <3>3, <4>1, <4>3
        <5>. QED  BY <2>2, <3>1, <5>1
      <4>. QED  BY <3>4, <4>2, <4>3
    <3>7. ASSUME NEW k \in 1..n + 1, e[k][1] = 1
          PROVE  k = 1
      <4> SUFFICES ASSUME k # 1 PROVE FALSE
        OBVIOUS
      <4>1. 1 \in 1..n + 1 /\ 1 < k /\ 1 \in 1..n
        BY <1>1
      <4>2. e[1][2] < 1 /\ e[1][1] <= e[1][2] /\ e[1][1] >= 1
        BY <3>5, <3>6, <3>7, <4>1
      <4>3. e[1][1] \in Nat /\ e[1][2] \in Nat
        BY <1>1, <3>3, <4>1
      <4>. QED  BY <4>2, <4>3
    <3>8. Tidy(e)
      BY <3>3, <3>4, <3>5, <3>6, <3>7 DEF Tidy
    <3>9. \A x : x \in InLine(e, n + 1) <=> x \in InLine(line, n) \/ (x \in Numbers /\ from <= x /\ x <= to)
      BY <3>2, <3>3, <3>4 DEF InLine
    <3>10. InLine(e, n + 1) = UpTo(d, l) \ {0}
      <4>1. \A x : x \in Numbers /\ from <= x /\ x <= to <=> x \in From(d, i)..to /\ x # 0
        BY <2>1, <2>2, <2>5, <3>1, KeySetAssumption DEF Numbers
      <4>. QED  BY <2>1, <3>9, <4>1
    <3>. QED  BY <3>3, <3>5, <3>8, <3>10 DEF e
  <2>. QED  BY <2>7, <2>8
<1>. QED  BY <1>2, <1>3

LEMMA OutputKeeps ==
    ASSUME NEW d, Good(d)
    PROVE  LET line == Output(d)
           IN  /\ Tidy(line) /\ \A i \in 1..Len(line) : line[i][1] >= 1
               /\ InLine(line, Len(line)) = Keys(d) \ {0}
<1> DEFINE S == Seq(Numbers \X Numbers)
           n == Len(d)
           Is(w, l) == /\ Tidy(w) /\ \A i \in 1..Len(w) : w[i][1] >= 1
                       /\ InLine(w, Len(w)) = UpTo(d, l) \ {0}
           T == {z \in S \X (0..n) : Is(z[1], z[2])}
           step == [z \in S \X (1..n) |-> Written(d, z[2], z[1])]
           g == CHOOSE f : f = [l \in 0..n |-> IF l = 0 THEN <<>> ELSE Written(d, l, f[l - 1])]
<1>1. n \in Nat
  BY SeqFacts DEF Good
<1>2. T \in SUBSET (S \X (0..n))
  OBVIOUS
<1>3. \A w, l : Is(w, l) => w \in S
  BY DEF Tidy
<1>4. Is(<<>>, 0)
  <2>1. Ends(d) \subseteq Nat \ {0}
    BY <1>1, SeqFacts DEF Good, Ends
  <2>2. UpTo(d, 0) = {}
    BY <2>1 DEF UpTo
  <2>3. <<>> \in S /\ Len(<<>>) = 0 /\ DOMAIN <<>> = {}
    OBVIOUS
  <2>. QED  BY <2>2, <2>3 DEF Tidy, InLine
<1>5. \A w, l : l \in 1..n /\ Is(w, l - 1) => Is(Written(d, l, w), l)
  BY WriteKeeps
<1> HIDE DEF Is
<1>6. \A w, l : <<w, l>> \in T <=> l \in 0..n /\ Is(w, l)
  BY <1>3
<1>7. \A w \in S, l \in 1..n : step[<<w, l>>] = Written(d, l, w)
  OBVIOUS
<1>8. Output(d) = g[n]
  BY DEF Output
<1> HIDE DEF S, T, step
<1>9. <<<<>>, 0>> \in T /\ \A w, l : l \in 1..n /\ <<w, l - 1>> \in T => <<Written(d, l, w), l>> \in T
  BY <1>1, <1>4, <1>5, <1>6
<1>10. PICK f \in [0..n -> S] : Turns(f, n, <<>>, step)
  <2>1. \A w \in S, k \in 1..n : <<w, k - 1>> \in T => <<step[<<w, k>>], k>> \in T
    BY <1>7, <1>9
  <2>2. \E f \in [0..n -> S] : Turns(f, n, <<>>, step) /\ \A k \in 0..n : <<f[k], k>> \in T
    BY <1>1, <1>2, <1>9, <2>1, LoopKeeps
  <2>. QED  BY <2>2
<1>11. f = [l \in 0..n |-> IF l = 0 THEN <<>> ELSE Written(d, l, f[l - 1])]
  <2>1. \A l \in 0..n : l # 0 => step[<<f[l - 1], l>>] = Written(d, l, f[l - 1])
    BY <1>1, <1>7, <1>10
  <2>. QED  BY <1>10, <2>1 DEF Turns
<1>12. g = [l \in 0..n |-> IF l = 0 THEN <<>> ELSE Written(d, l, g[l - 1])]
  BY <1>11
<1> HIDE DEF g
<1> DEFINE U == {l \in 0..n : <<g[l], l>> \in T}
<1>13. 0 \in U
  BY <1>1, <1>9, <1>12
<1>14. ASSUME NEW l \in 1..n, l - 1 \in U
       PROVE  l \in U
  <2>1. l \in 0..n /\ g[l] = Written(d, l, g[l - 1])
    BY <1>1, <1>12
  <2>. QED  BY <1>9, <1>14, <2>1
<1>15. \A l \in 0..n : l \in U
  <2> HIDE DEF U
  <2>. QED  BY <1>1, <1>13, <1>14, Induction
<1>16. <<Output(d), n>> \in T
  BY <1>1, <1>8, <1>15
<1>. QED  BY <1>6, <1>16 DEF Is, Keys

\* Saved and loaded.
LEMMA ReloadKeeps ==
    ASSUME NEW d, Good(d)
    PROVE  LET e == Parsed(Output(d))
           IN  Good(e) /\ Keys(e) = (Keys(d) \ {0}) \cup {n \in {0} : 1 \in Keys(d)}
<1> DEFINE line == Output(d)
           n == Len(line)
<1>1. Tidy(line) /\ \A i \in 1..n : line[i][1] >= 1
  BY OutputKeeps
<1>2. InLine(line, n) = Keys(d) \ {0}
  BY OutputKeeps
<1> HIDE DEF line
<1>3. Good(Parsed(line)) /\ Keys(Parsed(line)) = Loaded(line, n)
  BY <1>1, ParsedKeeps
<1>4. (\E i \in 1..n : line[i][1] = 1) <=> 1 \in Keys(d)
  <2>1. \A i \in 1..n : /\ line[i][1] \in Nat /\ line[i][2] \in Numbers /\ line[i][2] \in Nat
                        /\ line[i][1] <= line[i][2] /\ line[i][1] >= 1
    BY <1>1, TidyFacts DEF Tidy
  <2>2. ASSUME NEW i \in 1..n, line[i][1] = 1
        PROVE  1 \in InLine(line, n)
    <3>1. 1 \in Numbers
      BY <2>1, <2>2, KeySetAssumption DEF Numbers
    <3>. QED  BY <2>1, <2>2, <3>1 DEF InLine
  <2>3. ASSUME 1 \in InLine(line, n)
        PROVE  \E i \in 1..n : line[i][1] = 1
    <3>1. PICK i \in 1..n : line[i][1] <= 1
      BY <2>3 DEF InLine
    <3>. QED  BY <2>1, <3>1
  <2>. QED  BY <1>2, <2>2, <2>3
<1>. QED  BY <1>2, <1>3, <1>4 DEF Loaded, line

-----------------------------------------------------------------------------
(* The inductive invariant, and what each action does.                     *)

\* A search may be resumed for larger numbers than the last one.
CacheRight == /\ m_cached_value \in -1..Largest /\ m_cached_value_index \in Nat
              /\ m_cached_value > 0 => \/ m_cached_value_index + 1 \in Starts(m_data)
                                       \/ m_cached_value_index >= Len(m_data)
              /\ m_cached_value > 0 => \A i \in Starts(m_data) :
                                         i <= m_cached_value_index => To(m_data, i) < m_cached_value

Inv == Good(m_data) /\ CacheRight /\ reply.is \in {-1, 0, 1}

LEMMA Forgotten ==
    ASSUME Inv, Good(m_data'), Forget, reply'.is \in {-1, 0, 1}
    PROVE  Inv'
<1>1. m_cached_value' = -1 /\ m_cached_value_index' \in Nat /\ -1 \in -1..Largest
  BY KeySetAssumption DEF Inv, CacheRight, Forget
<1>. QED  BY <1>1 DEF Inv, CacheRight

LEMMA AddStep ==
    ASSUME Inv, NEW n \in Numbers, Add(n)
    PROVE  /\ Inv' /\ Keys(m_data') = Keys(m_data) \cup {n}
           /\ reply' = Changed("Add", IF n \in Keys(m_data) THEN 0 ELSE 1)
<1>1. Good(m_data) /\ Forget
  BY DEF Inv, Add
<1>2. n \in Keys(m_data) <=> \E i \in Starts(m_data) : Holds(m_data, i, n)
  BY <1>1, KeysHeld
<1>3. reply' = Changed("Add", IF n \in Keys(m_data) THEN 0 ELSE 1)
  BY <1>2 DEF Add
<1>4. Good(m_data') /\ Keys(m_data') = Keys(m_data) \cup {n}
  <2>1. CASE n \in Keys(m_data)
    BY <1>1, <1>2, <2>1 DEF Add
  <2>2. CASE n \notin Keys(m_data)
    <3> DEFINE e == InsertAt(m_data, Search(m_data, 1, n), n)
    <3>1. m_data' = Optimize(e)
      BY <1>2, <2>2 DEF Add
    <3>2. Good(e) /\ Keys(e) = Keys(m_data) \cup {n}
      BY <1>1, <2>2, InsertKeeps
    <3> HIDE DEF e
    <3>. QED  BY <3>1, <3>2, OptimizeKeeps
  <2>. QED  BY <2>1, <2>2
<1>5. reply'.is \in {-1, 0, 1}
  BY <1>3 DEF Changed
<1>. QED  BY <1>1, <1>3, <1>4, <1>5, Forgotten

LEMMA RemoveStep ==
    ASSUME Inv, NEW n \in Numbers, RemoveNumber(n)
    PROVE  /\ Inv' /\ Keys(m_data') = Keys(m_data) \ {n}
           /\ reply' = Changed("Remove", IF n \in Keys(m_data) THEN 1 ELSE 0)
<1>1. Good(m_data) /\ Forget
  BY DEF Inv, RemoveNumber
<1>2. n \in Keys(m_data) <=> \E i \in Starts(m_data) : Holds(m_data, i, n)
  BY <1>1, KeysHeld
<1>3. reply' = Changed("Remove", IF n \in Keys(m_data) THEN 1 ELSE 0)
  BY <1>2 DEF RemoveNumber
<1>4. Good(m_data') /\ Keys(m_data') = Keys(m_data) \ {n}
  <2>1. CASE n \notin Keys(m_data)
    BY <1>1, <1>2, <2>1 DEF RemoveNumber
  <2>2. CASE n \in Keys(m_data)
    <3> DEFINE i == CHOOSE j \in Starts(m_data) : Holds(m_data, j, n)
               left == IF m_data[i] < 0 THEN Without(From(m_data, i), To(m_data, i), n) ELSE <<>>
               e == SubSeq(m_data, 1, i - 1) \o left
                      \o SubSeq(m_data, i + Size(m_data, i), Len(m_data))
    <3>1. i \in Starts(m_data) /\ Holds(m_data, i, n)
      BY <1>2, <2>2
    <3>2. m_data' = Optimize(e)
      BY <1>2, <2>2 DEF RemoveNumber
    <3> HIDE DEF i
    <3>3. Good(e) /\ Keys(e) = Keys(m_data) \ {n}
      BY <1>1, <3>1, RemoveKeeps
    <3> HIDE DEF e
    <3>. QED  BY <3>2, <3>3, OptimizeKeeps
  <2>. QED  BY <2>1, <2>2
<1>5. reply'.is \in {-1, 0, 1}
  BY <1>3 DEF Changed
<1>. QED  BY <1>1, <1>3, <1>4, <1>5, Forgotten

LEMMA AddRangeStep ==
    ASSUME Inv, NEW start \in Numbers, NEW end \in Numbers, AddRange(start, end)
    PROVE  /\ Inv' /\ start < end /\ Keys(m_data') = Keys(m_data) \cup start..end
           /\ \/ reply' = Changed("AddRange", 1)
              \/ reply' = Changed("AddRange", 0) /\ Keys(m_data') = Keys(m_data)
<1>1. Good(m_data) /\ Forget /\ start < end
  BY DEF Inv, AddRange
<1>2. CASE \E i \in Starts(m_data) : Holds(m_data, i, start) /\ Holds(m_data, i, end)
  <2>1. PICK i \in Starts(m_data) : Holds(m_data, i, start) /\ Holds(m_data, i, end)
    BY <1>2
  <2>2. From(m_data, i) \in Int /\ To(m_data, i) \in Int /\ start \in Int /\ end \in Int
    BY <1>1, EndOfStart DEF Numbers
  <2>3. start..end \subseteq Keys(m_data)
    <3>1. start..end \subseteq From(m_data, i)..To(m_data, i)
      BY <2>1, <2>2 DEF Holds
    <3>. QED  BY <1>1, <3>1, KeysHeld DEF Members
  <2>4. reply' = Changed("AddRange", 0) /\ m_data' = m_data
    BY <1>2 DEF AddRange
  <2>5. reply'.is \in {-1, 0, 1}
    BY <2>4 DEF Changed
  <2>6. Good(m_data') /\ Keys(m_data') = Keys(m_data)
    BY <1>1, <2>4
  <2>. QED  BY <1>1, <2>3, <2>4, <2>5, <2>6, Forgotten
<1>3. CASE ~ \E i \in Starts(m_data) : Holds(m_data, i, start) /\ Holds(m_data, i, end)
  <2> DEFINE i == Search(m_data, 1, start - 1)
             j == Min({k \in Starts(m_data) : k >= i /\ Apart(m_data, i, k, end)}
                        \cup {Len(m_data) + 1})
             from == IF j > i THEN Min({start, From(m_data, i)}) ELSE start
             to == IF j > i THEN Max({end, To(m_data, StartOf(m_data, j - 1))}) ELSE end
             e == SubSeq(m_data, 1, i - 1) \o Emit(from, to) \o SubSeq(m_data, j, Len(m_data))
  <2>1. reply' = Changed("AddRange", 1) /\ m_data' = e
    BY <1>3 DEF AddRange
  <2>2. Good(e) /\ Keys(e) = Keys(m_data) \cup start..end
    BY <1>1, AddRangeKeeps
  <2> HIDE DEF e
  <2>3. reply'.is \in {-1, 0, 1}
    BY <2>1 DEF Changed
  <2>4. Good(m_data') /\ Keys(m_data') = Keys(m_data) \cup start..end
    BY <2>1, <2>2
  <2>. QED  BY <1>1, <2>1, <2>3, <2>4, Forgotten
<1>. QED  BY <1>2, <1>3

\* A resumed search finds what one from the start would find.
LEMMA MemberFound ==
    ASSUME Inv, NEW n \in Numbers
    PROVE  LET i == Search(m_data, Resume(n), n)
           IN  /\ i \in Nat /\ i >= 1 /\ (i \in Starts(m_data) \/ i > Len(m_data))
               /\ \A j \in Starts(m_data) : j < i => To(m_data, j) < n
               /\ i \in DOMAIN m_data /\ Holds(m_data, i, n) <=> n \in Keys(m_data)
<1> DEFINE r == Resume(n)
           i == Search(m_data, r, n)
<1>1. /\ Good(m_data) /\ n \in Int /\ m_data \in Seq(Words) /\ DOMAIN m_data = 1..Len(m_data)
      /\ Len(m_data) \in Nat /\ m_cached_value_index \in Nat /\ m_cached_value \in Int
      /\ \A j \in Starts(m_data) : /\ j \in 1..Len(m_data) /\ From(m_data, j) \in Int
                                   /\ To(m_data, j) \in Int /\ From(m_data, j) <= To(m_data, j)
  BY SeqFacts, EndOfStart DEF Inv, Good, CacheRight, Numbers
<1>2. r \in Nat /\ r >= 1
  BY <1>1 DEF Resume
<1>3. \A j \in Starts(m_data) : j < r => To(m_data, j) < n
  BY <1>1 DEF Inv, CacheRight, Resume
<1> HIDE DEF r
<1>4. /\ i \in Nat /\ i >= r
      /\ \A j \in Starts(m_data) : r <= j /\ j < i => To(m_data, j) < n
      /\ \/ i \in Starts(m_data) /\ To(m_data, i) >= n
         \/ i > Len(m_data) /\ i = IF r >= Len(m_data) + 1 THEN r ELSE Len(m_data) + 1
  BY <1>1, <1>2, SearchFinds
<1> HIDE DEF i
<1>5. \A j \in Starts(m_data) : j < i => To(m_data, j) < n
  BY <1>1, <1>2, <1>3, <1>4
<1>6. i \in DOMAIN m_data /\ Holds(m_data, i, n) => n \in Keys(m_data)
  <2> SUFFICES ASSUME i \in DOMAIN m_data, Holds(m_data, i, n) PROVE n \in Keys(m_data)
    OBVIOUS
  <2>1. i \in Starts(m_data)
    BY <1>1, <1>4
  <2>. QED  BY <1>1, <2>1, KeysHeld
<1>7. n \in Keys(m_data) => i \in DOMAIN m_data /\ Holds(m_data, i, n)
  <2> SUFFICES ASSUME n \in Keys(m_data) PROVE i \in DOMAIN m_data /\ Holds(m_data, i, n)
    OBVIOUS
  <2>1. PICK j \in Starts(m_data) : Holds(m_data, j, n)
    BY <1>1, KeysHeld
  <2>2. i <= j /\ j <= Len(m_data)
    BY <1>1, <1>4, <1>5, <2>1 DEF Holds
  <2>3. i \in Starts(m_data) /\ To(m_data, i) >= n
    BY <1>1, <1>4, <2>2
  <2>4. i < j => To(m_data, i) < From(m_data, j)
    BY <1>1, <2>3, StartsInOrder
  <2>5. i = j
    BY <1>1, <1>4, <2>1, <2>2, <2>3, <2>4 DEF Holds
  <2>. QED  BY <1>1, <2>1, <2>5
<1>8. i >= 1 /\ (i \in Starts(m_data) \/ i > Len(m_data))
  BY <1>2, <1>4
<1>. QED  BY <1>4, <1>5, <1>6, <1>7, <1>8 DEF i, r

LEMMA IsMemberStep ==
    ASSUME Inv, NEW n \in Numbers, IsMember(n)
    PROVE  /\ Inv' /\ m_data' = m_data
           /\ reply' = [call |-> "IsMember", of |-> n, is |-> IF n \in Keys(m_data) THEN 1 ELSE 0]
<1> DEFINE i == Search(m_data, Resume(n), n)
<1>1. /\ i \in Nat /\ i >= 1 /\ (i \in Starts(m_data) \/ i > Len(m_data))
      /\ \A j \in Starts(m_data) : j < i => To(m_data, j) < n
      /\ i \in DOMAIN m_data /\ Holds(m_data, i, n) <=> n \in Keys(m_data)
  BY MemberFound
<1>2. /\ m_cached_value' = n /\ m_cached_value_index' = i - 1 /\ m_data' = m_data
      /\ reply' = [call |-> "IsMember", of |-> n, is |->
                     IF i \in DOMAIN m_data /\ Holds(m_data, i, n) THEN 1 ELSE 0]
  BY DEF IsMember
<1> HIDE DEF i
<1>3. reply' = [call |-> "IsMember", of |-> n, is |-> IF n \in Keys(m_data) THEN 1 ELSE 0]
  BY <1>1, <1>2
<1>4. reply'.is \in {-1, 0, 1}
  BY <1>3
<1>5. Good(m_data) /\ Len(m_data) \in Nat /\ \A j \in Starts(m_data) : j \in Nat
  BY SeqFacts, EndOfStart DEF Inv, Good
<1>6. /\ m_cached_value' \in -1..Largest /\ m_cached_value_index' \in Nat
      /\ m_cached_value_index' + 1 = i
  BY <1>1, <1>2, KeySetAssumption DEF Numbers
<1>7. m_cached_value_index' + 1 \in Starts(m_data) \/ m_cached_value_index' >= Len(m_data)
  <2>1. CASE i \in Starts(m_data)
    BY <1>6, <2>1
  <2>2. CASE i > Len(m_data)
    <3>1. i - 1 >= Len(m_data)
      BY <1>1, <1>5, <2>2
    <3>. QED  BY <1>2, <3>1
  <2>. QED  BY <1>1, <2>1, <2>2
<1>8. \A j \in Starts(m_data) : j <= m_cached_value_index' => To(m_data, j) < m_cached_value'
  BY <1>1, <1>2, <1>5, <1>6
<1>9. CacheRight'
  BY <1>2, <1>6, <1>7, <1>8 DEF CacheRight
<1>. QED  BY <1>2, <1>3, <1>4, <1>5, <1>9 DEF Inv

LEMMA SetLastMemberStep ==
    ASSUME Inv, NEW mark \in Numbers, SetLastMember(mark)
    PROVE  /\ Inv' /\ Keys(m_data') \subseteq Keys(m_data)
           /\ \A x \in Keys(m_data) : x <= mark => x \in Keys(m_data')
           /\ \A x, y \in Keys(m_data') : x > mark /\ y > mark => x = y
           /\ reply' = [call |-> "SetLastMember", of |-> mark, is |-> -1]
<1>1. /\ Good(m_data) /\ m_cached_value' = m_cached_value
      /\ m_cached_value_index' = m_cached_value_index
      /\ reply' = [call |-> "SetLastMember", of |-> mark, is |-> -1]
  BY DEF Inv, SetLastMember
<1>2. reply'.is \in {-1, 0, 1}
  BY <1>1
<1>3. GetLastMember(m_data) \in Int /\ mark \in Int
      /\ \A x \in Keys(m_data) : x \in Int /\ x <= GetLastMember(m_data) + 1
  BY <1>1, LastMember DEF Numbers
<1>4. CASE mark < GetLastMember(m_data)
  <2> DEFINE e == Trimmed(m_data, mark)
  <2>1. m_data' = e
    BY <1>4 DEF SetLastMember
  <2>2. /\ Good(e) /\ Keys(e) \subseteq Keys(m_data)
        /\ \A x \in Keys(m_data) : x <= mark => x \in Keys(e)
        /\ \A x, y \in Keys(e) : x > mark /\ y > mark => x = y
        /\ \A i \in Starts(e) : i \in Starts(m_data) /\ To(e, i) <= To(m_data, i)
        /\ \A i \in Starts(m_data) : i \in Starts(e) \/ i > Len(e)
        /\ Len(e) <= Len(m_data)
    BY <1>1, TrimmedKeeps
  <2> HIDE DEF e
  <2>3. /\ Len(e) \in Nat /\ Len(m_data) \in Nat /\ m_cached_value_index \in Nat
        /\ m_cached_value \in Int
        /\ \A i \in Starts(e) : i \in 1..Len(e) /\ To(e, i) \in Int
        /\ \A i \in Starts(m_data) : i \in 1..Len(m_data) /\ To(m_data, i) \in Int
    BY <1>1, <2>2, SeqFacts, EndOfStart DEF Inv, CacheRight, Good, Numbers
  <2>4. ASSUME m_cached_value > 0
        PROVE  m_cached_value_index + 1 \in Starts(e) \/ m_cached_value_index >= Len(e)
    <3>1. CASE m_cached_value_index + 1 \in Starts(m_data)
      BY <2>2, <2>3, <3>1
    <3>2. CASE m_cached_value_index >= Len(m_data)
      BY <2>2, <2>3, <3>2
    <3>. QED  BY <2>4, <3>1, <3>2 DEF Inv, CacheRight
  <2>5. ASSUME m_cached_value > 0, NEW i \in Starts(e), i <= m_cached_value_index
        PROVE  To(e, i) < m_cached_value
    BY <2>2, <2>3, <2>5 DEF Inv, CacheRight
  <2>6. CacheRight'
    BY <1>1, <2>1, <2>4, <2>5 DEF Inv, CacheRight
  <2>. QED  BY <1>1, <1>2, <2>1, <2>2, <2>6 DEF Inv
<1>5. CASE ~ (mark < GetLastMember(m_data))
  <2>1. m_data' = m_data
    BY <1>5 DEF SetLastMember
  <2>2. \A x \in Keys(m_data) : x > mark => x = mark + 1
    BY <1>3, <1>5
  <2>3. CacheRight'
    BY <1>1, <2>1 DEF Inv, CacheRight
  <2>. QED  BY <1>1, <1>2, <2>1, <2>2, <2>3 DEF Inv
<1>. QED  BY <1>4, <1>5

LEMMA ReloadStep ==
    ASSUME Inv, Reload
    PROVE  /\ Inv' /\ Keys(m_data') = (Keys(m_data) \ {0}) \cup {n \in {0} : 1 \in Keys(m_data)}
           /\ reply' = NoReply
<1>1. Good(m_data) /\ reply' = NoReply /\ m_data' = Parsed(Output(m_data))
      /\ m_cached_value' = -1 /\ m_cached_value_index' = 0
  BY DEF Inv, Reload
<1>2. Good(m_data') /\ Keys(m_data') = (Keys(m_data) \ {0}) \cup {n \in {0} : 1 \in Keys(m_data)}
  BY <1>1, ReloadKeeps
<1>3. reply'.is \in {-1, 0, 1}
  BY <1>1 DEF NoReply, Changed
<1>4. CacheRight'
  BY <1>1, KeySetAssumption DEF CacheRight
<1>. QED  BY <1>1, <1>2, <1>3, <1>4 DEF Inv

LEMMA InitFacts ==
    ASSUME Init
    PROVE  Inv /\ reply = NoReply
<1>1. PICK line \in Lines : m_data = Parsed(line)
  BY DEF Init
<1>2. Tidy(line)
  BY KeySetAssumption DEF Tidy, Numbers
<1>3. Good(m_data)
  BY <1>1, <1>2, ParsedKeeps
<1>4. m_cached_value = -1 /\ m_cached_value_index = 0 /\ reply = NoReply
  BY DEF Init
<1>5. CacheRight
  BY <1>4, KeySetAssumption DEF CacheRight
<1>. QED  BY <1>3, <1>4, <1>5 DEF Inv, NoReply, Changed

\* The inductive invariant: the words are in order, and a search may be resumed
\* where the last one ended, after any sequence of calls.
THEOREM WordsInv == Spec => []Inv
<1>1. Init => Inv
  BY InitFacts
<1>2. Inv /\ [Next]_vars => Inv'
  <2> SUFFICES ASSUME Inv, [Next]_vars PROVE Inv'
    OBVIOUS
  <2>1. ASSUME NEW n \in Numbers, Add(n) PROVE Inv'
    BY <2>1, AddStep
  <2>2. ASSUME NEW n \in Numbers, RemoveNumber(n) PROVE Inv'
    BY <2>2, RemoveStep
  <2>3. ASSUME NEW start \in Numbers, NEW end \in Numbers, AddRange(start, end) PROVE Inv'
    BY <2>3, AddRangeStep
  <2>4. ASSUME NEW n \in Numbers, IsMember(n) PROVE Inv'
    BY <2>4, IsMemberStep
  <2>5. ASSUME NEW mark \in Numbers, SetLastMember(mark) PROVE Inv'
    BY <2>5, SetLastMemberStep
  <2>6. CASE Reload
    BY <2>6, ReloadStep
  <2>7. CASE UNCHANGED vars
    BY <2>7 DEF Inv, CacheRight, vars
  <2>. QED  BY <2>1, <2>2, <2>3, <2>4, <2>5, <2>6, <2>7 DEF Next
<1>. QED  BY <1>1, <1>2, PTL DEF Spec

\* WellFormed: Add, Remove, AddRange, SetLastMember, saving and loading leave words
\* that the next call reads as they were meant, and the cache of IsMember points to
\* where a chunk starts, with only smaller numbers before it.
THEOREM WordsWellFormed == Spec => []WellFormed
<1>1. Inv => WellFormed
  <2> SUFFICES ASSUME Inv PROVE WellFormed
    OBVIOUS
  <2>1. Good(m_data) /\ m_data \in Seq(-Largest..Largest)
    BY DEF Inv, Good, Words
  <2>2. Len(m_data) \in Nat /\ Largest \in Nat
    BY <2>1, KeySetAssumption
  <2>3. \A i \in Starts(m_data) : /\ i + Size(m_data, i) - 1 <= Len(m_data)
                                  /\ 0 <= From(m_data, i) /\ To(m_data, i) <= Largest
    <3> SUFFICES ASSUME NEW i \in Starts(m_data)
                 PROVE  /\ EndOf(m_data, i) <= Len(m_data)
                        /\ 0 <= From(m_data, i) /\ To(m_data, i) <= Largest
      BY DEF EndOf
    <3>1. /\ From(m_data, i) \in Numbers /\ To(m_data, i) \in Numbers
          /\ EndOf(m_data, i) \in i..Len(m_data)
      BY <2>1, EndOfStart
    <3>. QED  BY <2>2, <3>1 DEF Numbers
  <2>4. \A i, j \in Starts(m_data) : i < j => To(m_data, i) < From(m_data, j)
    BY <2>1, StartsInOrder
  <2>. QED  BY <2>1, <2>3, <2>4 DEF Inv, CacheRight, WellFormed
<1>. QED  BY <1>1, WordsInv, PTL

\* IsANumberSet: whatever is merged, split, cut off, written, loaded or resumed in
\* the words, each operation does to the members, and answers, what NumberSet says.
THEOREM ImplementsNumberSet == Spec => IsANumberSet
<1>1. Init => Abstract!Init
  <2> SUFFICES ASSUME Init PROVE Abstract!Init
    OBVIOUS
  <2>1. Members(m_data) \subseteq Numbers /\ reply = NoReply
    BY InitFacts, KeysHeld DEF Inv
  <2>. QED  BY <2>1 DEF Abstract!Init, Abstract!Numbers, Numbers, Abstract!NoReply, NoReply, Changed
<1>2. Inv /\ Inv' /\ [Next]_vars => [Abstract!Next]_<<Members(m_data), reply>>
  <2> SUFFICES ASSUME Inv, Inv', [Next]_vars
               PROVE  Abstract!Next \/ UNCHANGED <<Members(m_data), reply>>
    OBVIOUS
  <2>1. Members(m_data) = Keys(m_data) /\ Members(m_data') = Keys(m_data')
    BY KeysHeld DEF Inv
  <2>2. Abstract!Numbers = Numbers
    BY DEF Abstract!Numbers, Numbers
  <2>3. ASSUME NEW n \in Numbers, Add(n) PROVE Abstract!Add(n)
    BY <2>1, <2>3, AddStep DEF Abstract!Add, Abstract!Answer, Changed
  <2>4. ASSUME NEW n \in Numbers, RemoveNumber(n) PROVE Abstract!Remove(n)
    BY <2>1, <2>4, RemoveStep DEF Abstract!Remove, Abstract!Answer, Changed
  <2>5. ASSUME NEW start \in Numbers, NEW end \in Numbers, AddRange(start, end)
        PROVE  start < end /\ Abstract!AddRange(start, end)
    <3>1. start < end /\ Members(m_data') = Members(m_data) \cup start..end
      BY <2>1, <2>5, AddRangeStep
    <3>2. \E more \in BOOLEAN : /\ Members(m_data') # Members(m_data) => more
                                /\ reply' = Changed("AddRange", IF more THEN 1 ELSE 0)
      <4>1. CASE reply' = Changed("AddRange", 1)
        BY <4>1
      <4>2. CASE reply' = Changed("AddRange", 0) /\ Keys(m_data') = Keys(m_data)
        BY <2>1, <4>2
      <4>. QED  BY <2>5, <4>1, <4>2, AddRangeStep
    <3>. QED  BY <3>1, <3>2 DEF Abstract!AddRange, Abstract!Answer, Changed
  <2>6. ASSUME NEW n \in Numbers, IsMember(n) PROVE Abstract!IsMember(n)
    <3>1. /\ m_data' = m_data
          /\ reply' = [call |-> "IsMember", of |-> n, is |-> IF n \in Keys(m_data) THEN 1 ELSE 0]
      BY <2>6, IsMemberStep
    <3>. QED  BY <2>1, <3>1 DEF Abstract!IsMember, Abstract!Answer
  <2>7. ASSUME NEW mark \in Numbers, SetLastMember(mark) PROVE Abstract!SetLastMember(mark)
    BY <2>1, <2>7, SetLastMemberStep DEF Abstract!SetLastMember
  <2>8. CASE Reload
    <3>1. Abstract!Reload
      BY <2>1, <2>8, ReloadStep DEF Abstract!Reload, Abstract!NoReply, NoReply, Changed
    <3>. QED  BY <3>1 DEF Abstract!Next
  <2>9. CASE UNCHANGED vars
    BY <2>9 DEF vars
  <2>. QED  BY <2>2, <2>3, <2>4, <2>5, <2>6, <2>7, <2>8, <2>9 DEF Next, Abstract!Next
<1>. QED  BY <1>1, <1>2, WordsInv, PTL DEF Spec, IsANumberSet, Abstract!Spec

-----------------------------------------------------------------------------
(* Gaps.                                                                   *)

\* One turn of CountMissingInRange.
LEMMA CountKeeps ==
    ASSUME NEW d, Good(d), NEW start \in Int, NEW end \in Int, NEW l \in 1..Len(d)
    PROVE  Uncounted(d, l, start, end, Cardinality((start..end) \ UpTo(d, l - 1)))
             = Cardinality((start..end) \ UpTo(d, l))
<1> DEFINE i == StartOf(d, l)
           from == Max({From(d, i), start})
           to == Min({To(d, i), end})
           left == (start..end) \ UpTo(d, l - 1)
           count == Cardinality(left)
           chunk == From(d, i)..To(d, i)
<1>1. IsFiniteSet(left)
  <2>1. IsFiniteSet(start..end) /\ left \in SUBSET (start..end)
    BY FS_Interval
  <2>. QED  BY <2>1, FS_Subset
<1>2. CASE d[l] < 0
  BY <1>2, TurnAdds DEF Uncounted
<1>3. CASE ~ (d[l] < 0)
  <2>1. /\ UpTo(d, l) = UpTo(d, l - 1) \cup chunk /\ Before(UpTo(d, l - 1), chunk)
        /\ From(d, i) \in Int /\ To(d, i) \in Int /\ From(d, i) <= To(d, i)
    BY <1>3, TurnAdds DEF Numbers
  <2>2. Uncounted(d, l, start, end, count) = IF to < from THEN count ELSE count - (to - from + 1)
    BY <1>3 DEF Uncounted
  <2> HIDE DEF i
  <2>3. /\ from = IF From(d, i) >= start THEN From(d, i) ELSE start
        /\ to = IF To(d, i) <= end THEN To(d, i) ELSE end
    BY <2>1, MaxTwo, MinTwo
  <2> HIDE DEF from, to
  <2>4. \A x \in chunk : x \notin UpTo(d, l - 1)
    BY <2>1 DEF Before
  <2>5. left \cap chunk = from..to
    <3>1. \A x : x \in (start..end) \cap chunk <=> x \in from..to
      BY <2>1, <2>3
    <3>. QED  BY <2>4, <3>1
  <2>6. (start..end) \ UpTo(d, l) = left \ chunk
    BY <2>1
  <2> HIDE DEF left, chunk
  <2>7. Cardinality(left \ chunk) = count - Cardinality(from..to)
    BY <1>1, <2>5, FS_Difference
  <2>8. from \in Int /\ to \in Int
    BY <2>1, <2>3
  <2>9. Cardinality(from..to) = IF from > to THEN 0 ELSE to - from + 1
    BY <2>8, FS_Interval
  <2>10. count \in Int
    BY <1>1, FS_CardinalityType
  <2>11. Uncounted(d, l, start, end, count) = Cardinality(left \ chunk)
    BY <2>2, <2>7, <2>8, <2>9, <2>10
  <2>12. Cardinality(left \ chunk) = Cardinality((start..end) \ UpTo(d, l))
    BY <2>6, Zenon
  <2>. QED  BY <2>11, <2>12, Zenon DEF left
<1>. QED  BY <1>2, <1>3

\* The count is the number of numbers that are not in the set.
LEMMA CountIsRight ==
    ASSUME NEW d, Good(d), NEW start \in Int, NEW end \in Int, start <= end
    PROVE  CountMissingInRange(d, start, end) = Cardinality((start..end) \ Keys(d))
<1> DEFINE n == Len(d)
           left(l) == Cardinality((start..end) \ UpTo(d, l))
           T == {z \in Int \X (0..n) : z[1] = left(z[2])}
           step == [z \in Int \X (1..n) |-> Uncounted(d, z[2], start, end, z[1])]
           g == CHOOSE f : f = [l \in 0..n |-> IF l = 0 THEN end - start + 1
                                               ELSE Uncounted(d, l, start, end, f[l - 1])]
<1>1. n \in Nat /\ end - start + 1 \in Int
  BY SeqFacts DEF Good
<1>2. T \in SUBSET (Int \X (0..n))
  OBVIOUS
<1>3. \A l : left(l) \in Int
  <2> SUFFICES ASSUME NEW l PROVE left(l) \in Int
    OBVIOUS
  <2> DEFINE A == (start..end) \ UpTo(d, l)
  <2>1. IsFiniteSet(start..end) /\ A \in SUBSET (start..end)
    BY FS_Interval
  <2>2. IsFiniteSet(A)
    BY <2>1, FS_Subset
  <2> HIDE DEF A
  <2>3. Cardinality(A) \in Nat
    BY <2>2, FS_CardinalityType
  <2>. QED  BY <2>3 DEF A
<1>4. left(0) = end - start + 1
  <2>1. Ends(d) \subseteq Nat \ {0}
    BY <1>1, SeqFacts DEF Good, Ends
  <2>2. (start..end) \ UpTo(d, 0) = start..end
    BY <2>1 DEF UpTo
  <2>3. Cardinality(start..end) = IF start > end THEN 0 ELSE end - start + 1
    BY FS_Interval
  <2>4. left(0) = Cardinality(start..end)
    BY <2>2, Zenon
  <2>. QED  BY <2>3, <2>4
<1>5. \A l \in 1..n : Uncounted(d, l, start, end, left(l - 1)) = left(l)
  BY CountKeeps
<1> HIDE DEF left
<1>6. \A c, l : <<c, l>> \in T <=> l \in 0..n /\ c = left(l)
  BY <1>3
<1>7. \A c \in Int, l \in 1..n : step[<<c, l>>] = Uncounted(d, l, start, end, c)
  OBVIOUS
<1>8. CountMissingInRange(d, start, end) = g[n]
  BY DEF CountMissingInRange
<1> HIDE DEF T, step
<1>9. /\ <<end - start + 1, 0>> \in T
      /\ \A c, l : l \in 1..n /\ <<c, l - 1>> \in T => <<Uncounted(d, l, start, end, c), l>> \in T
  BY <1>1, <1>4, <1>5, <1>6
<1>10. PICK f \in [0..n -> Int] : Turns(f, n, end - start + 1, step)
  <2>1. \A c \in Int, k \in 1..n : <<c, k - 1>> \in T => <<step[<<c, k>>], k>> \in T
    BY <1>7, <1>9
  <2> DEFINE base == end - start + 1
  <2>2. <<base, 0>> \in T
    BY <1>9
  <2> HIDE DEF base
  <2>3. \E f \in [0..n -> Int] : Turns(f, n, base, step) /\ \A k \in 0..n : <<f[k], k>> \in T
    BY <1>1, <1>2, <2>1, <2>2, LoopKeeps
  <2>. QED  BY <2>3 DEF base
<1>11. f = [l \in 0..n |-> IF l = 0 THEN end - start + 1
                           ELSE Uncounted(d, l, start, end, f[l - 1])]
  <2>1. \A l \in 0..n : l # 0 => step[<<f[l - 1], l>>] = Uncounted(d, l, start, end, f[l - 1])
    BY <1>1, <1>7, <1>10
  <2>. QED  BY <1>10, <2>1 DEF Turns
<1>12. g = [l \in 0..n |-> IF l = 0 THEN end - start + 1
                           ELSE Uncounted(d, l, start, end, g[l - 1])]
  BY <1>11
<1> HIDE DEF g
<1> DEFINE U == {l \in 0..n : <<g[l], l>> \in T}
<1>13. 0 \in U
  BY <1>1, <1>9, <1>12
<1>14. ASSUME NEW l \in 1..n, l - 1 \in U
       PROVE  l \in U
  <2>1. l \in 0..n /\ g[l] = Uncounted(d, l, start, end, g[l - 1])
    BY <1>1, <1>12
  <2>. QED  BY <1>9, <1>14, <2>1
<1>15. \A l \in 0..n : l \in U
  <2> HIDE DEF U
  <2>. QED  BY <1>1, <1>13, <1>14, Induction
<1>16. <<CountMissingInRange(d, start, end), n>> \in T
  BY <1>1, <1>8, <1>15
<1>. QED  BY <1>6, <1>16 DEF left, Keys

\* Where a hole may be: in front of a chunk or behind the last.
Places(d) == Starts(d) \cup {Len(d) + 1}

LEMMA HoleFacts ==
    ASSUME NEW d, Good(d), NEW i \in Places(d)
    PROVE  LET h == Hole(d, i)
           IN  /\ i \in 1..(Len(d) + 1) /\ Cut(d, i - 1)
               /\ h[1] \in Int /\ h[1] >= 1 /\ h[2] \in Int
               /\ h[1] = 1 \/ h[1] - 1 \in Keys(d)
               /\ h[2] = Largest + 1 \/ h[2] + 1 \in Keys(d)
               /\ \A x \in UpTo(d, i - 1) : x < h[1]
               /\ \A x \in Beyond(d, i - 1) : h[2] < x
<1> DEFINE h == Hole(d, i)
           low == IF i = 1 THEN 1 ELSE To(d, StartOf(d, i - 1)) + 1
           high == IF i > Len(d) THEN Largest + 1 ELSE From(d, i) - 1
<1>1. /\ d \in Seq(Words) /\ Len(d) \in Nat /\ Largest \in Nat /\ Ends(d) \subseteq 1..Len(d)
      /\ \A k : \A x \in UpTo(d, k) \cup Beyond(d, k) : x \in Int /\ x \in Numbers
  BY SeqFacts DEF Good, Ends, UpTo, Beyond, Numbers
<1>2. i \in 1..(Len(d) + 1) /\ Cut(d, i - 1)
  <2>1. CASE i \in Starts(d)
    BY <1>1, <2>1, EndOfStart
  <2>2. CASE i = Len(d) + 1
    <3>1. i - 1 = Len(d)
      BY <1>1, <2>2
    <3>. QED  BY <1>1, <2>2, <3>1, LastIsCut
  <2>. QED  BY <2>1, <2>2 DEF Places
<1>3. h[1] = low /\ h[2] = high
  BY DEF Hole
<1>4. Keys(d) = UpTo(d, i - 1) \cup Beyond(d, i - 1)
  BY <1>2, Sides
<1>5. /\ low \in Int /\ low >= 1 /\ (low = 1 \/ low - 1 \in Keys(d))
      /\ \A x \in UpTo(d, i - 1) : x < low
  <2>1. CASE i = 1
    <3>1. UpTo(d, i - 1) = {}
      BY <1>1, <2>1 DEF UpTo
    <3>. QED  BY <2>1, <3>1
  <2>2. CASE i # 1
    <3> DEFINE p == StartOf(d, i - 1)
    <3>1. i - 1 \in Ends(d)
      BY <1>2, <2>2 DEF Cut
    <3>2. p \in Starts(d) /\ EndOf(d, p) = i - 1
      BY <3>1, StartOfEnd
    <3> HIDE DEF p
    <3>3. /\ UpTo(d, i - 1) = UpTo(d, p - 1) \cup From(d, p)..To(d, p)
          /\ Before(UpTo(d, p - 1), From(d, p)..To(d, p))
      BY <3>2, Around
    <3>4. To(d, p) \in Int /\ To(d, p) >= 0 /\ To(d, p) \in From(d, p)..To(d, p)
      BY <3>2, EndOfStart DEF Numbers
    <3>5. \A x \in UpTo(d, i - 1) : x <= To(d, p)
      BY <1>1, <3>3, <3>4 DEF Before
    <3>6. low = To(d, p) + 1
      BY <2>2 DEF p
    <3>7. low \in Int /\ low >= 1 /\ low - 1 = To(d, p) /\ \A x \in UpTo(d, i - 1) : x < low
      BY <1>1, <3>4, <3>5, <3>6
    <3>. QED  BY <1>4, <3>3, <3>4, <3>7
  <2>. QED  BY <2>1, <2>2
<1>6. /\ high \in Int /\ (high = Largest + 1 \/ high + 1 \in Keys(d))
      /\ \A x \in Beyond(d, i - 1) : high < x
  <2>1. CASE i = Len(d) + 1
    <3>1. Beyond(d, i - 1) = {}
      BY <1>1, <2>1 DEF Beyond
    <3>. QED  BY <1>1, <2>1, <3>1
  <2>2. CASE i # Len(d) + 1
    <3>1. i \in Starts(d) /\ ~ (i > Len(d))
      BY <1>1, <1>2, <2>2 DEF Places
    <3>2. /\ Beyond(d, i - 1) = From(d, i)..To(d, i) \cup Beyond(d, EndOf(d, i))
          /\ Before(From(d, i)..To(d, i), Beyond(d, EndOf(d, i)))
      BY <3>1, Around
    <3>3. From(d, i) \in Int /\ From(d, i) \in From(d, i)..To(d, i)
      BY <3>1, EndOfStart DEF Numbers
    <3>4. \A x \in Beyond(d, i - 1) : From(d, i) <= x
      BY <1>1, <3>2, <3>3 DEF Before
    <3>5. high = From(d, i) - 1
      BY <3>1
    <3>6. high \in Int /\ high + 1 = From(d, i) /\ \A x \in Beyond(d, i - 1) : high < x
      BY <1>1, <3>3, <3>4, <3>5
    <3>. QED  BY <1>4, <3>2, <3>3, <3>6
  <2>. QED  BY <2>1, <2>2
<1>. QED  BY <1>2, <1>3, <1>5, <1>6

LEMMA HolesInOrder ==
    ASSUME NEW d, Good(d), NEW i \in Places(d), NEW j \in Places(d), i < j
    PROVE  Hole(d, i)[2] < Hole(d, j)[1]
<1>1. Len(d) \in Nat /\ i \in 1..(Len(d) + 1) /\ j \in 1..(Len(d) + 1) /\ Cut(d, j - 1)
  BY HoleFacts, SeqFacts DEF Good
<1>2. i \in Starts(d) /\ i <= Len(d) /\ i <= j - 1
  BY <1>1 DEF Places
<1>3. Hole(d, i)[2] = From(d, i) - 1
  BY <1>1, <1>2 DEF Hole
<1>4. From(d, i) \in Numbers /\ From(d, i) \in Int /\ Holds(d, i, From(d, i))
  BY <1>2, EndOfStart DEF Holds, Numbers
<1>5. From(d, i) \in UpTo(d, j - 1)
  BY <1>1, <1>2, <1>4, SidesHeld
<1>6. From(d, i) < Hole(d, j)[1] /\ Hole(d, j)[1] \in Int
  BY <1>5, HoleFacts
<1>. QED  BY <1>3, <1>4, <1>6

\* A number that is not in the set is in a hole.
LEMMA InAHole ==
    ASSUME NEW d, Good(d), NEW x \in 1..Largest, x \notin Keys(d)
    PROVE  \E i \in Places(d) : Hole(d, i)[1] <= x /\ x <= Hole(d, i)[2]
<1> DEFINE i == Search(d, 1, x)
<1>1. x \in Int /\ x \in Numbers /\ x >= 1 /\ x <= Largest /\ Largest \in Nat /\ Len(d) \in Nat
  BY SeqFacts DEF Good, Numbers
<1>2. /\ i \in 1..(Len(d) + 1) /\ Cut(d, i - 1)
      /\ \A j \in Starts(d) : j < i => To(d, j) < x
      /\ \A j \in Starts(d) : j >= i => To(d, j) >= x
      /\ i <= Len(d) => i \in Starts(d)
  BY <1>1, SearchCuts
<1> HIDE DEF i
<1>3. i \in Places(d)
  BY <1>1, <1>2 DEF Places
<1>4. Hole(d, i)[1] <= x
  <2>1. CASE i = 1
    BY <1>1, <2>1 DEF Hole
  <2>2. CASE i # 1
    <3>1. i - 1 \in Ends(d)
      BY <1>2, <2>2 DEF Cut
    <3>2. StartOf(d, i - 1) \in Starts(d) /\ StartOf(d, i - 1) \in 1..(i - 1)
      BY <3>1, StartOfEnd
    <3>3. To(d, StartOf(d, i - 1)) < x /\ To(d, StartOf(d, i - 1)) \in Int
      BY <1>1, <1>2, <3>2, EndOfStart DEF Numbers
    <3>. QED  BY <1>1, <2>2, <3>3 DEF Hole
  <2>. QED  BY <2>1, <2>2
<1>5. x <= Hole(d, i)[2]
  <2>1. CASE i > Len(d)
    BY <1>1, <2>1 DEF Hole
  <2>2. CASE ~ (i > Len(d))
    <3>1. i \in Starts(d) /\ From(d, i) \in Int /\ To(d, i) \in Int /\ i >= i
      BY <1>1, <1>2, <2>2, EndOfStart DEF Numbers
    <3>2. ~ Holds(d, i, x)
      BY <1>1, <3>1, KeysHeld
    <3>3. From(d, i) > x
      BY <1>1, <1>2, <3>1, <3>2 DEF Holds
    <3>. QED  BY <1>1, <2>2, <3>1, <3>3 DEF Hole
  <2>. QED  BY <2>1, <2>2
<1>. QED  BY <1>3, <1>4, <1>5

LEMMA MinIs ==
    ASSUME NEW T, \A y \in T : y \in Int, NEW x \in T, \A y \in T : x <= y
    PROVE  Min(T) = x
<1>1. Min(T) \in T /\ \A y \in T : Min(T) <= y
  BY Zenon DEF Min
<1>. QED  BY <1>1

LEMMA MaxIs ==
    ASSUME NEW T, \A y \in T : y \in Int, NEW x \in T, \A y \in T : x >= y
    PROVE  Max(T) = x
<1>1. Max(T) \in T /\ \A y \in T : Max(T) >= y
  BY Zenon DEF Max
<1>. QED  BY <1>1

\* The part of a hole in the range is a run of what the set leaves out of it.
LEMMA ClippedIsRun ==
    ASSUME NEW d, Good(d), NEW min \in 1..Largest, NEW max \in 1..Largest, min <= max,
           NEW i \in MissingIn(d, min, max)
    PROVE  LET c == Clipped(Hole(d, i), min, max)
           IN  /\ i \in Places(d) /\ c[1] \in Int /\ c[2] \in Int
               /\ c[1] \in (min..max) \ Keys(d) /\ c[2] \in (min..max) \ Keys(d)
               /\ Hole(d, i)[1] <= c[1] /\ c[2] <= Hole(d, i)[2] /\ c[1] <= c[2]
               /\ \A x \in min..max : Hole(d, i)[1] <= x /\ x <= Hole(d, i)[2]
                                        => c[1] <= x /\ x <= c[2]
               /\ IsRun(c, (min..max) \ Keys(d))
<1> DEFINE h == Hole(d, i)
           c == Clipped(h, min, max)
           missing == (min..max) \ Keys(d)
<1>1. i \in Places(d) /\ h[1] <= h[2] /\ h[2] >= min /\ h[1] <= max
  BY DEF MissingIn, Places
<1>2. /\ Cut(d, i - 1) /\ h[1] \in Int /\ h[1] >= 1 /\ h[2] \in Int
      /\ h[1] = 1 \/ h[1] - 1 \in Keys(d)
      /\ h[2] = Largest + 1 \/ h[2] + 1 \in Keys(d)
      /\ \A x \in UpTo(d, i - 1) : x < h[1]
      /\ \A x \in Beyond(d, i - 1) : h[2] < x
  BY <1>1, HoleFacts
<1> HIDE DEF h
<1>3. /\ Largest \in Nat /\ min \in Int /\ max \in Int /\ min >= 1 /\ max <= Largest
      /\ \A x \in Keys(d) : x \in Int
  BY KeySetAssumption DEF Keys, UpTo, Numbers
<1>4. /\ c[1] = IF h[1] >= min THEN h[1] ELSE min
      /\ c[2] = IF h[2] <= max THEN h[2] ELSE max
  BY <1>2, <1>3, MaxTwo, MinTwo DEF Clipped
<1> HIDE DEF c
<1>5. Keys(d) = UpTo(d, i - 1) \cup Beyond(d, i - 1)
  BY <1>2, Sides
<1>6. c[1] \in Int /\ c[2] \in Int /\ c[1] <= c[2] /\ min <= c[1] /\ c[2] <= max
      /\ h[1] <= c[1] /\ c[2] <= h[2]
  BY <1>1, <1>2, <1>3, <1>4
<1>7. \A x \in c[1]..c[2] : x \in missing
  <2> SUFFICES ASSUME NEW x \in c[1]..c[2] PROVE x \in missing
    OBVIOUS
  <2>1. x \in Int /\ h[1] <= x /\ x <= h[2] /\ x \in min..max
    BY <1>2, <1>3, <1>6
  <2>2. x \notin UpTo(d, i - 1) /\ x \notin Beyond(d, i - 1)
    BY <1>2, <2>1
  <2>. QED  BY <1>5, <2>1, <2>2
<1>8. c[1] - 1 \notin missing
  BY <1>2, <1>3, <1>4
<1>9. c[2] + 1 \notin missing
  BY <1>2, <1>3, <1>4
<1>10. c[1] \in c[1]..c[2] /\ c[2] \in c[1]..c[2]
  BY <1>6
<1>11. \A x \in min..max : h[1] <= x /\ x <= h[2] => c[1] <= x /\ x <= c[2]
  BY <1>2, <1>3, <1>4
<1>12. IsRun(c, missing)
  BY <1>6, <1>7, <1>8, <1>9 DEF IsRun
<1>. QED  BY <1>1, <1>6, <1>7, <1>10, <1>11, <1>12 DEF h, c

\* QueriesRight: the articles that are not read are counted, and the first and the
\* last run of them found, right, for all words and in any range.
THEOREM GapsAreRight == Spec => []QueriesRight
<1>1. Inv => QueriesRight
  <2> SUFFICES ASSUME Good(m_data), NEW min \in 1..Largest, NEW max \in 1..Largest, min <= max
               PROVE  LET missing == min..max \ Members(m_data)
                          first == FirstMissingRange(m_data, min, max)
                          last == LastMissingRange(m_data, min, max)
                      IN  /\ CountMissingInRange(m_data, min, max) = Cardinality(missing)
                          /\ IF missing = {} THEN last = <<0, 0>> /\ ~ IsRun(first, missing)
                             ELSE /\ IsRun(first, missing) /\ first[1] = Min(missing)
                                  /\ IsRun(last, missing) /\ last[2] = Max(missing)
    BY DEF Inv, QueriesRight
  <2> DEFINE missing == (min..max) \ Members(m_data)
             holes == MissingIn(m_data, min, max)
             first == FirstMissingRange(m_data, min, max)
             last == LastMissingRange(m_data, min, max)
             c(i) == Clipped(Hole(m_data, i), min, max)
  <2>1. missing = (min..max) \ Keys(m_data) /\ \A y \in missing : y \in Int
    BY KeysHeld
  <2>2. min \in Int /\ max \in Int /\ Largest \in Nat /\ min >= 1 /\ max <= Largest
        /\ Len(m_data) \in Nat
    BY SeqFacts DEF Good
  <2>3. CountMissingInRange(m_data, min, max) = Cardinality(missing)
    BY <2>1, <2>2, CountIsRight
  <2>4. ASSUME NEW i \in holes
        PROVE  /\ i \in Places(m_data) /\ c(i)[1] \in missing /\ c(i)[2] \in missing
               /\ c(i)[1] \in Int /\ c(i)[2] \in Int /\ c(i)[1] <= c(i)[2]
               /\ Hole(m_data, i)[1] <= c(i)[1] /\ c(i)[2] <= Hole(m_data, i)[2]
               /\ IsRun(c(i), missing)
    BY <2>1, ClippedIsRun
  <2>5. ASSUME NEW x \in missing
        PROVE  \E i \in holes : /\ c(i)[1] <= x /\ x <= c(i)[2]
                                /\ Hole(m_data, i)[1] <= x /\ x <= Hole(m_data, i)[2]
    <3>1. x \in 1..Largest /\ x \in min..max /\ x \notin Keys(m_data) /\ x \in Int
      BY <2>1, <2>2
    <3>2. PICK i \in Places(m_data) : Hole(m_data, i)[1] <= x /\ x <= Hole(m_data, i)[2]
      BY <3>1, InAHole
    <3>3. Hole(m_data, i)[1] \in Int /\ Hole(m_data, i)[2] \in Int
      BY HoleFacts
    <3>4. i \in holes
      BY <2>2, <3>1, <3>2, <3>3 DEF MissingIn, Places
    <3>5. c(i)[1] <= x /\ x <= c(i)[2]
      BY <3>1, <3>2, <3>4, ClippedIsRun
    <3>. QED  BY <3>2, <3>4, <3>5
  <2>6. \A i \in holes : i \in 1..(Len(m_data) + 1) /\ i \in Int /\ Hole(m_data, i)[1] \in Int
                         /\ Hole(m_data, i)[2] \in Int
    BY <2>2, <2>4, HoleFacts
  <2>7. CASE holes = {}
    <3>1. missing = {}
      BY <2>5, <2>7
    <3>2. last = <<0, 0>>
      BY <2>7 DEF LastMissingRange
    <3>3. first[1] \in Int /\ first[2] \in Int
      <4>1. first = <<0, 0>> \/ first = c(Len(m_data) + 1)
        BY <2>7 DEF FirstMissingRange
      <4>2. Len(m_data) + 1 \in Places(m_data)
        BY DEF Places
      <4>3. c(Len(m_data) + 1)[1] \in Int /\ c(Len(m_data) + 1)[2] \in Int
        <5>1. Hole(m_data, Len(m_data) + 1)[1] \in Int /\ Hole(m_data, Len(m_data) + 1)[2] \in Int
          BY <4>2, HoleFacts
        <5>. QED  BY <2>2, <5>1, MaxTwo, MinTwo DEF Clipped
      <4>. QED  BY <4>1, <4>3
    <3> HIDE DEF first
    <3>4. ~ IsRun(first, {})
      BY <3>3 DEF IsRun
    <3>. QED  BY <2>3, <3>1, <3>2, <3>4 DEF first
  <2>8. CASE holes # {}
    <3>1. holes \in SUBSET Nat /\ holes \in SUBSET (0..(Len(m_data) + 1))
          /\ Len(m_data) + 1 \in Nat
      BY <2>2, <2>6
    <3> DEFINE a == Min(holes)
               b == Max(holes)
    <3>2. a \in holes /\ \A y \in holes : a <= y
      BY <2>8, <3>1, MinNat
    <3>3. b \in holes /\ \A y \in holes : b >= y
      BY <2>8, <3>1, MaxNat
    <3>4. first = c(a) /\ last = c(b)
      BY <2>8 DEF FirstMissingRange, LastMissingRange
    <3> HIDE DEF a, b, holes, first, last, c, missing
    <3>5. missing # {}
      BY <2>4, <3>2
    <3>6. ASSUME NEW x \in missing
          PROVE  c(a)[1] <= x
      <4>1. PICK i \in holes : c(i)[1] <= x /\ Hole(m_data, i)[1] <= x
        BY <2>5
      <4>2. CASE i = a
        BY <4>1, <4>2
      <4>3. CASE i # a
        <5>1. a < i /\ a \in Places(m_data) /\ i \in Places(m_data)
          BY <2>4, <2>6, <3>2, <4>3
        <5>2. Hole(m_data, a)[2] < Hole(m_data, i)[1]
          BY <5>1, HolesInOrder
        <5>. QED  BY <2>1, <2>4, <2>6, <3>2, <4>1, <5>2
      <4>. QED  BY <4>2, <4>3
    <3>7. ASSUME NEW x \in missing
          PROVE  c(b)[2] >= x
      <4>1. PICK i \in holes : x <= c(i)[2] /\ x <= Hole(m_data, i)[2]
        BY <2>5
      <4>2. CASE i = b
        BY <2>1, <2>4, <3>3, <4>1, <4>2
      <4>3. CASE i # b
        <5>1. i < b /\ b \in Places(m_data) /\ i \in Places(m_data)
          BY <2>4, <2>6, <3>3, <4>3
        <5>2. Hole(m_data, i)[2] < Hole(m_data, b)[1]
          BY <5>1, HolesInOrder
        <5>. QED  BY <2>1, <2>4, <2>6, <3>3, <4>1, <5>2
      <4>. QED  BY <4>2, <4>3
    <3>8. Min(missing) = c(a)[1]
      BY <2>1, <2>4, <3>2, <3>6, MinIs
    <3>9. Max(missing) = c(b)[2]
      BY <2>1, <2>4, <3>3, <3>7, MaxIs
    <3>10. IsRun(c(a), missing) /\ IsRun(c(b), missing)
      BY <2>4, <3>2, <3>3
    <3>. QED  BY <2>3, <3>4, <3>5, <3>8, <3>9, <3>10 DEF missing, first, last
  <2>. QED  BY <2>7, <2>8
<1>. QED  BY <1>1, WordsInv, PTL
=============================================================================
