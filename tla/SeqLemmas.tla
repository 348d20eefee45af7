------------------------------ MODULE SeqLemmas ------------------------------
(***************************************************************************)
(* Facts about least elements and about the sequence operators the models  *)
(* use to stand for arrays and call stacks.                                *)
(***************************************************************************)
EXTENDS Naturals, Sequences, SequencesExt, FiniteSetsExt, SequenceTheorems,
        WellFoundedInduction, TLAPS

\* Min, defined by CHOOSE, is what its name says on every non-empty set of
\* naturals: "the first index such that" exists.
LEMMA MinNat ==
    ASSUME NEW T \in SUBSET Nat, T # {}
    PROVE  Min(T) \in T /\ \A y \in T : Min(T) <= y
<1> DEFINE R == OpToRel(<, Nat)
<1>0. \A y, x \in Nat : y < x => <<y, x>> \in R
  BY Zenon DEF OpToRel
<1>1. IsWellFoundedOn(R, Nat)
  BY NatLessThanWellFounded
<1> HIDE DEF R
<1>2. PICK x \in T : \A y \in T : ~(<<y, x>> \in R)
  BY <1>1, WFMin
<1>3. \A y \in T : ~(y < x)
  <2>1. \A y \in Nat : y < x => <<y, x>> \in R
    BY <1>0
  <2>2. T \subseteq Nat
    OBVIOUS
  <2>. QED  BY <1>2, <2>1, <2>2, Zenon
<1>4. \A y \in T : x <= y
  BY <1>3, SMT
<1>5. \E z \in T : \A y \in T : z <= y
  BY <1>4, Zenon
<1>. QED  BY <1>5, Zenon DEF Min

\* Removing one element of an array closes the gap.
LEMMA RemoveAtProperties ==
    ASSUME NEW S, NEW s \in Seq(S), NEW i \in 1..Len(s)
    PROVE  /\ RemoveAt(s, i) \in Seq(S)
           /\ Len(RemoveAt(s, i)) = Len(s) - 1
           /\ \A j \in 1..(Len(s) - 1) :
                 RemoveAt(s, i)[j] = IF j < i THEN s[j] ELSE s[j + 1]
<1> DEFINE a == SubSeq(s, 1, i - 1)
           b == SubSeq(s, i + 1, Len(s))
<1>1. /\ a \in Seq(S) /\ Len(a) = i - 1
      /\ \A j \in 1..(i - 1) : a[j] = s[j]
  BY SubSeqProperties
<1>2. /\ b \in Seq(S) /\ Len(b) = Len(s) - i
      /\ \A j \in 1..(Len(s) - i) : b[j] = s[i + j]
  BY SubSeqProperties
<1>3. RemoveAt(s, i) = a \o b
  BY DEF RemoveAt
<1> HIDE DEF a, b
<1>4. a \in Seq(S) /\ b \in Seq(S) /\ Len(a) + Len(b) = Len(s) - 1
  BY <1>1, <1>2
<1>5. a \o b \in Seq(S) /\ Len(a \o b) = Len(a) + Len(b)
  BY <1>4, ConcatProperties
<1>6. \A j \in 1..(Len(a) + Len(b)) :
         (a \o b)[j] = IF j <= Len(a) THEN a[j] ELSE b[j - Len(a)]
  BY <1>4, ConcatProperties
<1>7. ASSUME NEW j \in 1..(Len(s) - 1)
      PROVE  (a \o b)[j] = IF j < i THEN s[j] ELSE s[j + 1]
  <2>1. CASE j < i
    BY <1>1, <1>2, <1>4, <1>6, <2>1
  <2>2. CASE ~(j < i)
    <3>1. j - Len(a) \in 1..(Len(s) - i) /\ ~(j <= Len(a)) /\ i + (j - Len(a)) = j + 1
      BY <1>1, <2>2
    <3>. QED  BY <1>2, <1>4, <1>6, <2>2, <3>1
  <2>. QED  BY <2>1, <2>2
<1>. QED  BY <1>3, <1>4, <1>5, <1>7

\* A function on 1..n is a sequence.
LEMMA FunctionIsSeq ==
    ASSUME NEW S, NEW n \in Nat, NEW f \in [1..n -> S]
    PROVE  f \in Seq(S) /\ Len(f) = n
<1>1. f \in Seq(S)
  BY SeqDef
<1>. QED  BY <1>1, LenProperties

\* Pushing onto a call stack.
LEMMA ConsProperties ==
    ASSUME NEW S, NEW s \in Seq(S), NEW e \in S
    PROVE  /\ Cons(e, s) \in Seq(S)
           /\ Cons(e, s) # <<>>
           /\ Head(Cons(e, s)) = e
           /\ Tail(Cons(e, s)) = s
           /\ Len(Cons(e, s)) = Len(s) + 1
  BY DEF Cons

\* Inserting an element into an array moves up those behind it.
LEMMA InsertAtProperties ==
    ASSUME NEW S, NEW s \in Seq(S), NEW i \in 1..(Len(s) + 1), NEW e \in S
    PROVE  /\ InsertAt(s, i, e) \in Seq(S)
           /\ Len(InsertAt(s, i, e)) = Len(s) + 1
           /\ \A j \in 1..(Len(s) + 1) :
                 InsertAt(s, i, e)[j] = IF j < i THEN s[j] ELSE IF j = i THEN e ELSE s[j - 1]
<1> DEFINE a == SubSeq(s, 1, i - 1)
           b == SubSeq(s, i, Len(s))
           t == a \o <<e>>
<1>1. /\ a \in Seq(S) /\ Len(a) = i - 1
      /\ \A j \in 1..(i - 1) : a[j] = s[j]
  BY SubSeqProperties
<1>2. /\ b \in Seq(S) /\ Len(b) = Len(s) - (i - 1)
      /\ \A j \in 1..(Len(s) - (i - 1)) : b[j] = s[i + j - 1]
  BY SubSeqProperties
<1>3. <<e>> \in Seq(S) /\ Len(<<e>>) = 1 /\ <<e>>[1] = e
  OBVIOUS
<1>4. InsertAt(s, i, e) = t \o b
  BY DEF InsertAt
<1>5. /\ t \in Seq(S) /\ Len(t) = i
      /\ \A j \in 1..i : t[j] = IF j < i THEN s[j] ELSE e
  <2> DEFINE u == <<e>>
  <2>1. u \in Seq(S) /\ Len(u) = 1 /\ u[1] = e
    OBVIOUS
  <2> HIDE DEF a, u
  <2>2. a \o u \in Seq(S) /\ Len(a \o u) = Len(a) + Len(u)
    BY <1>1, <2>1, ConcatProperties
  <2>3. \A j \in 1..(Len(a) + Len(u)) :
           (a \o u)[j] = IF j <= Len(a) THEN a[j] ELSE u[j - Len(a)]
    BY <1>1, <2>1, ConcatProperties
  <2>4. ASSUME NEW j \in 1..i
        PROVE  (a \o u)[j] = IF j < i THEN s[j] ELSE e
    <3>1. CASE j < i
      BY <1>1, <2>1, <2>3, <3>1
    <3>2. CASE j = i
      <4>1. j - Len(a) = 1 /\ ~(j <= Len(a)) /\ j \in 1..(Len(a) + Len(u)) /\ ~(j < i)
        BY <1>1, <2>1, <3>2
      <4>2. (a \o u)[j] = u[j - Len(a)]
        BY <2>3, <4>1
      <4>3. (a \o u)[j] = e
        BY <2>1, <4>1, <4>2
      <4>. QED  BY <4>1, <4>3
    <3>3. j < i \/ j = i
      OBVIOUS
    <3>. QED  BY <3>1, <3>2, <3>3
  <2>5. t = a \o u
    BY DEF u
  <2>. QED  BY <1>1, <2>1, <2>2, <2>4, <2>5
<1> HIDE DEF t, b, a
<1>6. t \o b \in Seq(S) /\ Len(t \o b) = Len(t) + Len(b)
  BY <1>2, <1>5, ConcatProperties
<1>7. \A j \in 1..(Len(t) + Len(b)) :
         (t \o b)[j] = IF j <= Len(t) THEN t[j] ELSE b[j - Len(t)]
  BY <1>2, <1>5, ConcatProperties
<1>8. ASSUME NEW j \in 1..(Len(s) + 1)
      PROVE  (t \o b)[j] = IF j < i THEN s[j] ELSE IF j = i THEN e ELSE s[j - 1]
  <2>1. CASE j <= i
    BY <1>2, <1>5, <1>7, <2>1
  <2>2. CASE ~(j <= i)
    <3>1. /\ j - Len(t) \in 1..(Len(s) - (i - 1)) /\ ~(j <= Len(t))
          /\ i + (j - Len(t)) - 1 = j - 1 /\ ~(j < i) /\ j # i
          /\ j \in 1..(Len(t) + Len(b))
      BY <1>2, <1>5, <2>2
    <3>. QED  BY <1>2, <1>7, <3>1
  <2>. QED  BY <2>1, <2>2
<1>. QED  BY <1>2, <1>4, <1>5, <1>6, <1>8
=============================================================================
