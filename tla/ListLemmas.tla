----------------------------- MODULE ListLemmas -----------------------------
(***************************************************************************)
(* What unlinking an element does to a list, for the proofs about lists    *)
(* that the code keeps with DLLIST2_REMOVE() and array_delete().           *)
(***************************************************************************)
EXTENDS SequencesExt, WellFoundedInduction, SequenceTheorems,
        FiniteSetTheorems, TLAPS

\* A set of indexes has a least one.
LEMMA LeastIndex ==
  ASSUME NEW I, I \subseteq Nat, I # {}
  PROVE  Min(I) \in I /\ \A y \in I : Min(I) <= y
  <1> DEFINE R == {ss \in Nat \X Nat : ss[1] < ss[2]}
  <1>1. IsWellFoundedOn(R, Nat)
    BY NatLessThanWellFounded, Zenon DEF OpToRel
  <1> HIDE DEF R
  <1>2. PICK x \in I : \A y \in I : ~(<<y, x>> \in R)
    BY <1>1, WFMin
  <1>3. \A y \in I : x <= y
    <2> SUFFICES ASSUME NEW y \in I, y < x PROVE FALSE
      OBVIOUS
    <2>1. <<y, x>> \in Nat \X Nat /\ <<y, x>>[1] < <<y, x>>[2]
      OBVIOUS
    <2>2. <<y, x>> \in R
      BY ONLY <2>1 DEF R
    <2> QED BY <1>2, <2>2
  <1> QED BY <1>3 DEF Min

\* What is left of a list when its element k is unlinked.
Drops(r, s, k) ==
  /\ Len(r) = Len(s) - 1
  /\ \A i \in 1..Len(r) : r[i] = IF i < k THEN s[i] ELSE s[i + 1]


\* Without its element k.
LEMMA RemoveAtDrops ==
  ASSUME NEW S, NEW s \in Seq(S), NEW k \in 1..Len(s)
  PROVE  RemoveAt(s, k) \in Seq(S) /\ Drops(RemoveAt(s, k), s, k)
  <1> DEFINE a == SubSeq(s, 1, k - 1)
             b == SubSeq(s, k + 1, Len(s))
  <1>1. a \in Seq(S) /\ Len(a) = k - 1 /\ \A i \in 1..(k - 1) : a[i] = s[i]
    BY SubSeqProperties
  <1>2. b \in Seq(S) /\ Len(b) = Len(s) - k /\ \A i \in 1..(Len(s) - k) : b[i] = s[k + i]
    BY SubSeqProperties
  <1>3. RemoveAt(s, k) = a \o b
    BY DEF RemoveAt
  <1> HIDE DEF a, b
  <1>4. /\ a \o b \in Seq(S) /\ Len(a \o b) = Len(s) - 1
        /\ \A i \in 1..(Len(s) - 1) : (a \o b)[i] = IF i < k THEN a[i] ELSE b[i - (k - 1)]
    <2>1. a \o b \in Seq(S) /\ Len(a \o b) = Len(a) + Len(b)
      BY <1>1, <1>2, ConcatProperties
    <2>2. \A i \in 1..(Len(a) + Len(b)) : (a \o b)[i] = IF i <= Len(a) THEN a[i] ELSE b[i - Len(a)]
      BY <1>1, <1>2, ConcatProperties
    <2> QED BY <1>1, <1>2, <2>1, <2>2
  <1>5. ASSUME NEW i \in 1..(Len(s) - 1)
        PROVE  (a \o b)[i] = IF i < k THEN s[i] ELSE s[i + 1]
    <2>1. CASE i < k
      BY <1>1, <1>4, <2>1
    <2>2. CASE ~(i < k)
      <3>1. i - (k - 1) \in 1..(Len(s) - k) /\ k + (i - (k - 1)) = i + 1
        BY <2>2
      <3> QED BY <1>2, <1>4, <2>2, <3>1
    <2> QED BY <2>1, <2>2
  <1> QED BY <1>3, <1>4, <1>5 DEF Drops

\* Without the first e, if there is one.
LEMMA RemoveFirstDrops ==
  ASSUME NEW S, NEW s \in Seq(S), NEW e
  PROVE  \/ RemoveFirst(s, e) = s /\ ~Contains(s, e)
         \/ \E k \in 1..Len(s) : /\ s[k] = e
                                 /\ RemoveFirst(s, e) \in Seq(S)
                                 /\ Drops(RemoveFirst(s, e), s, k)
  <1> DEFINE I == {i \in 1..Len(s) : s[i] = e}
  <1>1. CASE I = {}
    BY <1>1 DEF RemoveFirst, Contains
  <1>2. CASE I # {}
    <2>1. Min(I) \in I
      <3> I \subseteq Nat OBVIOUS
      <3> HIDE DEF I
      <3> QED BY <1>2, LeastIndex
    <2>2. RemoveFirst(s, e) = RemoveAt(s, Min(I))
      BY <1>2 DEF RemoveFirst, SelectInSeq
    <2> QED BY <2>1, <2>2, RemoveAtDrops
  <1> QED BY <1>1, <1>2

-----------------------------------------------------------------------------
(* Lists in which nothing is twice.                                        *)

Distinct(s) == \A i, j \in 1..Len(s) : s[i] = s[j] => i = j

LEMMA EmptyList == Distinct(<<>>) /\ \A x : ~Contains(<<>>, x)
  BY DEF Distinct, Contains

LEMMA RangeList ==
  ASSUME NEW S, NEW s \in Seq(S), NEW x
  PROVE  x \in Range(s) <=> Contains(s, x)
  <1>1. DOMAIN s = 1..Len(s)
    OBVIOUS
  <1> QED BY <1>1 DEF Range, Contains

LEMMA DistinctLength ==
  ASSUME NEW S, NEW s \in Seq(S), Distinct(s)
  PROVE  IsFiniteSet(Range(s)) /\ Cardinality(Range(s)) = Len(s)
  <1> DEFINE D == 1..Len(s)
             T == Range(s)
  <1>1. DOMAIN s = D /\ Len(s) \in Nat
    OBVIOUS
  <1>2. s \in [D -> T]
    BY <1>1 DEF Range
  <1>3. \A t \in T : \E i \in D : s[i] = t
    BY <1>1 DEF Range
  <1>4. IsInjective(s)
    BY <1>1 DEF IsInjective, Distinct
  <1>5. IsFiniteSet(D) /\ Cardinality(D) = Len(s)
    BY <1>1, FS_Interval
  <1> HIDE DEF D, T
  <1>6. s \in Bijection(D, T)
    BY <1>2, <1>3, <1>4 DEF Bijection, Injection, Surjection
  <1>7. ExistsBijection(D, T)
    BY <1>6 DEF ExistsBijection
  <1>8. IsFiniteSet(T) /\ Cardinality(T) = Cardinality(D)
    BY <1>5, <1>7, FS_Bijection
  <1> QED BY <1>5, <1>8 DEF T

LEMMA AppendList ==
  ASSUME NEW S, NEW s \in Seq(S), NEW e \in S
  PROVE  /\ Append(s, e) \in Seq(S) /\ Append(s, e) # <<>>
         /\ \A x : Contains(Append(s, e), x) <=> Contains(s, x) \/ x = e
         /\ Distinct(s) /\ ~Contains(s, e) => Distinct(Append(s, e))
  <1>1. /\ Append(s, e) \in Seq(S) /\ Len(Append(s, e)) = Len(s) + 1
        /\ Append(s, e)[Len(s) + 1] = e /\ \A i \in 1..Len(s) : Append(s, e)[i] = s[i]
    OBVIOUS
  <1> DEFINE a == Append(s, e)
  <1> HIDE DEF a
  <1>2. a \in Seq(S) /\ Len(a) = Len(s) + 1 /\ a[Len(s) + 1] = e /\ \A i \in 1..Len(s) : a[i] = s[i]
    BY <1>1 DEF a
  <1>3. ASSUME NEW x PROVE Contains(a, x) <=> Contains(s, x) \/ x = e
    <2>1. ASSUME NEW i \in 1..Len(a), a[i] = x PROVE Contains(s, x) \/ x = e
      <3>1. i \in 1..Len(s) \/ i = Len(s) + 1
        BY <1>2
      <3> QED BY <1>2, <2>1, <3>1 DEF Contains
    <2>2. ASSUME NEW i \in 1..Len(s), s[i] = x PROVE Contains(a, x)
      <3>1. i \in 1..Len(a)
        BY <1>2
      <3> QED BY <1>2, <2>2, <3>1 DEF Contains
    <2>3. Contains(a, e)
      <3>1. Len(s) + 1 \in 1..Len(a)
        BY <1>2
      <3> QED BY <1>2, <3>1 DEF Contains
    <2> QED BY <2>1, <2>2, <2>3 DEF Contains
  <1>4. ASSUME Distinct(s), ~Contains(s, e) PROVE Distinct(a)
    <2> SUFFICES ASSUME NEW i \in 1..Len(a), NEW j \in 1..Len(a), a[i] = a[j] PROVE i = j
      BY DEF Distinct
    <2>1. (i \in 1..Len(s) \/ i = Len(s) + 1) /\ (j \in 1..Len(s) \/ j = Len(s) + 1)
      BY <1>2
    <2> QED BY <1>2, <1>4, <2>1 DEF Distinct, Contains
  <1>5. a # <<>>
    BY <1>2
  <1> QED BY <1>2, <1>3, <1>4, <1>5 DEF a

LEMMA TailList ==
  ASSUME NEW S, NEW s \in Seq(S), s # <<>>, Distinct(s)
  PROVE  /\ Tail(s) \in Seq(S) /\ Head(s) \in S /\ Len(Tail(s)) = Len(s) - 1
         /\ Distinct(Tail(s)) /\ Contains(s, Head(s))
         /\ \A x : Contains(Tail(s), x) <=> Contains(s, x) /\ x # Head(s)
  <1> DEFINE t == Tail(s)
  <1>1. /\ t \in Seq(S) /\ Len(t) = Len(s) - 1 /\ \A i \in 1..Len(t) : t[i] = s[i + 1]
        /\ Head(s) = s[1] /\ 1 \in 1..Len(s) /\ s[1] \in S
    OBVIOUS
  <1> HIDE DEF t
  <1>2. Distinct(t)
    <2> SUFFICES ASSUME NEW i \in 1..Len(t), NEW j \in 1..Len(t), t[i] = t[j] PROVE i = j
      BY DEF Distinct
    <2>1. i + 1 \in 1..Len(s) /\ j + 1 \in 1..Len(s) /\ s[i + 1] = s[j + 1]
      BY <1>1
    <2>2. i + 1 = j + 1
      BY <2>1 DEF Distinct
    <2> QED BY <2>2
  <1>3. ASSUME NEW x PROVE Contains(t, x) <=> Contains(s, x) /\ x # Head(s)
    <2>1. ASSUME NEW i \in 1..Len(t), t[i] = x PROVE Contains(s, x) /\ x # Head(s)
      <3>1. i + 1 \in 1..Len(s) /\ s[i + 1] = x /\ i + 1 # 1
        BY <1>1, <2>1
      <3>2. s[i + 1] # s[1]
        BY <1>1, <3>1 DEF Distinct
      <3> QED BY <1>1, <3>1, <3>2 DEF Contains
    <2>2. ASSUME NEW i \in 1..Len(s), s[i] = x, x # Head(s) PROVE Contains(t, x)
      <3>1. i - 1 \in 1..Len(t) /\ t[i - 1] = x
        BY <1>1, <2>2
      <3> QED BY <3>1 DEF Contains
    <2> QED BY <2>1, <2>2 DEF Contains
  <1>4. Contains(s, Head(s))
    BY <1>1 DEF Contains
  <1> QED BY <1>1, <1>2, <1>3, <1>4 DEF t

LEMMA ConsList ==
  ASSUME NEW S, NEW s \in Seq(S), NEW e \in S
  PROVE  /\ <<e>> \o s \in Seq(S) /\ Len(<<e>> \o s) = Len(s) + 1
         /\ \A x : Contains(<<e>> \o s, x) <=> Contains(s, x) \/ x = e
         /\ Distinct(s) /\ ~Contains(s, e) => Distinct(<<e>> \o s)
  <1> DEFINE a == <<e>> \o s
  <1>1. /\ a \in Seq(S) /\ Len(a) = Len(s) + 1 /\ a[1] = e
        /\ \A i \in 1..Len(s) : a[i + 1] = s[i]
    OBVIOUS
  <1> HIDE DEF a
  <1>2. \A i \in 1..Len(a) : i = 1 \/ (i - 1 \in 1..Len(s) /\ a[i] = s[i - 1])
    <2> SUFFICES ASSUME NEW i \in 1..Len(a), i # 1 PROVE i - 1 \in 1..Len(s) /\ a[i] = s[i - 1]
      OBVIOUS
    <2>1. i - 1 \in 1..Len(s) /\ (i - 1) + 1 = i
      BY <1>1
    <2> QED BY <1>1, <2>1
  <1>3. ASSUME NEW x PROVE Contains(a, x) <=> Contains(s, x) \/ x = e
    <2>1. ASSUME NEW i \in 1..Len(a), a[i] = x PROVE Contains(s, x) \/ x = e
      BY <1>1, <1>2, <2>1 DEF Contains
    <2>2. ASSUME NEW i \in 1..Len(s), s[i] = x PROVE Contains(a, x)
      <3>1. i + 1 \in 1..Len(a)
        BY <1>1
      <3> QED BY <1>1, <2>2, <3>1 DEF Contains
    <2>3. Contains(a, e)
      <3>1. 1 \in 1..Len(a)
        BY <1>1
      <3> QED BY <1>1, <3>1 DEF Contains
    <2> QED BY <2>1, <2>2, <2>3 DEF Contains
  <1>4. ASSUME Distinct(s), ~Contains(s, e) PROVE Distinct(a)
    <2> SUFFICES ASSUME NEW i \in 1..Len(a), NEW j \in 1..Len(a), a[i] = a[j] PROVE i = j
      BY DEF Distinct
    <2>1. CASE i = 1 \/ j = 1
      BY <1>1, <1>2, <1>4, <2>1 DEF Contains
    <2>2. CASE i # 1 /\ j # 1
      <3>1. i - 1 \in 1..Len(s) /\ j - 1 \in 1..Len(s) /\ s[i - 1] = s[j - 1]
        BY <1>2, <2>2
      <3>2. i - 1 = j - 1
        BY <1>4, <3>1 DEF Distinct
      <3> QED BY <3>2
    <2> QED BY <2>1, <2>2
  <1> QED BY <1>1, <1>3, <1>4 DEF a

LEMMA RemoveFirstList ==
  ASSUME NEW S, NEW s \in Seq(S), NEW e, Distinct(s)
  PROVE  /\ RemoveFirst(s, e) \in Seq(S) /\ Distinct(RemoveFirst(s, e))
         /\ \A x : Contains(RemoveFirst(s, e), x) <=> Contains(s, x) /\ x # e
  <1> DEFINE r == RemoveFirst(s, e)
  <1>1. \/ r = s /\ ~Contains(s, e)
        \/ \E k \in 1..Len(s) : s[k] = e /\ r \in Seq(S) /\ Drops(r, s, k)
    BY RemoveFirstDrops
  <1> HIDE DEF r
  <1>2. ASSUME NEW k \in 1..Len(s), s[k] = e, r \in Seq(S), Drops(r, s, k)
        PROVE  /\ r \in Seq(S) /\ Distinct(r)
               /\ \A x : Contains(r, x) <=> Contains(s, x) /\ x # e
    <2> DEFINE g(i) == IF i < k THEN i ELSE i + 1
    <2>1. \A i \in 1..Len(r) : g(i) \in 1..Len(s) /\ g(i) # k /\ r[i] = s[g(i)]
      BY <1>2 DEF Drops
    <2>2. \A i, j \in 1..Len(r) : g(i) = g(j) => i = j
      OBVIOUS
    <2>3. \A j \in 1..Len(s) : j # k => \E i \in 1..Len(r) : g(i) = j
      <3> SUFFICES ASSUME NEW j \in 1..Len(s), j # k PROVE \E i \in 1..Len(r) : g(i) = j
        OBVIOUS
      <3>1. CASE j < k
        BY <1>2, <3>1 DEF Drops
      <3>2. CASE j > k
        <4>1. j - 1 \in 1..Len(r) /\ g(j - 1) = j
          BY <1>2, <3>2 DEF Drops
        <4> QED BY <4>1
      <3> QED BY <3>1, <3>2
    <2> HIDE DEF g
    <2>4. Distinct(r)
      BY <2>1, <2>2 DEF Distinct
    <2>5. ASSUME NEW x PROVE Contains(r, x) <=> Contains(s, x) /\ x # e
      <3>1. ASSUME NEW i \in 1..Len(r), r[i] = x PROVE Contains(s, x) /\ x # e
        <4>1. g(i) \in 1..Len(s) /\ g(i) # k /\ s[g(i)] = x
          BY <2>1, <3>1
        <4> QED BY <1>2, <4>1 DEF Contains, Distinct
      <3>2. ASSUME NEW j \in 1..Len(s), s[j] = x, x # e PROVE Contains(r, x)
        <4>1. PICK i \in 1..Len(r) : g(i) = j
          BY <1>2, <2>3, <3>2
        <4> QED BY <2>1, <3>2, <4>1 DEF Contains
      <3> QED BY <3>1, <3>2 DEF Contains
    <2> QED BY <1>2, <2>4, <2>5
  <1>3. CASE r = s /\ ~Contains(s, e)
    BY <1>3 DEF r
  <1> QED BY <1>1, <1>2, <1>3 DEF r
-----------------------------------------------------------------------------
(* Queues of lines: what is in them, wherever it is.                       *)

LEMMA AppendLines ==
  ASSUME NEW S, NEW s \in Seq(S), NEW e \in S
  PROVE  /\ Append(s, e) \in Seq(S) /\ Len(Append(s, e)) = Len(s) + 1
         /\ Range(Append(s, e)) = Range(s) \cup {e}
  <1> DEFINE a == Append(s, e)
             m == Len(s)
  <1>1. /\ a \in Seq(S) /\ Len(a) = m + 1 /\ m \in Nat /\ a[m + 1] = e
        /\ \A i \in 1..m : a[i] = s[i]
    OBVIOUS
  <1>2. DOMAIN a = 1..(m + 1) /\ DOMAIN s = 1..m
    BY <1>1
  <1> HIDE DEF a, m
  <1>3. ASSUME NEW x PROVE x \in Range(a) <=> x \in Range(s) \cup {e}
    <2>1. x \in Range(a) <=> \E i \in 1..(m + 1) : a[i] = x
      BY <1>2 DEF Range
    <2>2. x \in Range(s) <=> \E i \in 1..m : s[i] = x
      BY <1>2 DEF Range
    <2> QED BY <1>1, <2>1, <2>2
  <1> QED BY <1>1, <1>3 DEF a, m

LEMMA TailLines ==
  ASSUME NEW S, NEW s \in Seq(S), s # <<>>
  PROVE  /\ Tail(s) \in Seq(S) /\ Head(s) \in S /\ Len(Tail(s)) = Len(s) - 1
         /\ Range(s) = Range(Tail(s)) \cup {Head(s)}
  <1>1. Tail(s) \in Seq(S) /\ Head(s) \in S /\ Len(Tail(s)) = Len(s) - 1
    OBVIOUS
  <1>2. \A x : x \in Range(s) => x \in Range(Tail(s)) \cup {Head(s)}
    <2> SUFFICES ASSUME NEW i \in 1..Len(s) PROVE s[i] \in Range(Tail(s)) \cup {Head(s)}
      BY DEF Range
    <2>1. CASE i = 1
      BY <2>1
    <2>2. CASE i # 1
      <3>1. i - 1 \in 1..Len(Tail(s)) /\ Tail(s)[i - 1] = s[i]
        BY <2>2
      <3> DEFINE t == Tail(s)
                 j == i - 1
      <3>2. t \in Seq(S) /\ j \in 1..Len(t) /\ t[j] = s[i]
        BY <3>1, <1>1
      <3> HIDE DEF t, j
      <3>3. s[i] \in Range(t)
        BY <3>2 DEF Range
      <3> QED BY <3>3 DEF t
    <2> QED BY <2>1, <2>2
  <1>3. \A x : x \in Range(Tail(s)) \cup {Head(s)} => x \in Range(s)
    <2>1. Head(s) \in Range(s)
      BY DEF Range
    <2>2. ASSUME NEW i \in 1..Len(Tail(s)) PROVE Tail(s)[i] \in Range(s)
      <3>1. i + 1 \in 1..Len(s) /\ Tail(s)[i] = s[i + 1]
        OBVIOUS
      <3> QED BY <3>1 DEF Range
    <2> QED BY <2>1, <2>2, <1>1 DEF Range
  <1> QED BY <1>1, <1>2, <1>3

LEMMA ConcatLines ==
  ASSUME NEW S, NEW a \in Seq(S), NEW b \in Seq(S)
  PROVE  /\ a \o b \in Seq(S) /\ Len(a \o b) = Len(a) + Len(b)
         /\ Range(a \o b) = Range(a) \cup Range(b)
  <1>1. /\ a \o b \in Seq(S) /\ Len(a \o b) = Len(a) + Len(b)
        /\ \A i \in 1..(Len(a) + Len(b)) : (a \o b)[i] = IF i <= Len(a) THEN a[i] ELSE b[i - Len(a)]
    BY ConcatProperties
  <1> DEFINE c == a \o b
  <1> HIDE DEF c
  <1>2. /\ c \in Seq(S) /\ Len(c) = Len(a) + Len(b)
        /\ \A i \in 1..Len(a) : i \in 1..Len(c) /\ c[i] = a[i]
        /\ \A i \in 1..Len(b) : i + Len(a) \in 1..Len(c) /\ c[i + Len(a)] = b[i]
        /\ \A i \in 1..Len(c) : ~(i <= Len(a)) => i - Len(a) \in 1..Len(b) /\ c[i] = b[i - Len(a)]
    BY <1>1 DEF c
  <1>3. \A x : x \in Range(c) => x \in Range(a) \cup Range(b)
    <2> SUFFICES ASSUME NEW i \in 1..Len(c) PROVE c[i] \in Range(a) \cup Range(b)
      BY <1>2 DEF Range
    <2>1. CASE i <= Len(a)
      BY <2>1, <1>2 DEF Range
    <2>2. CASE ~(i <= Len(a))
      BY <2>2, <1>2 DEF Range
    <2> QED BY <2>1, <2>2
  <1>4. \A x : x \in Range(a) => x \in Range(c)
    <2> SUFFICES ASSUME NEW i \in 1..Len(a) PROVE a[i] \in Range(c)
      BY DEF Range
    <2> QED BY <1>2 DEF Range
  <1>5. \A x : x \in Range(b) => x \in Range(c)
    <2> SUFFICES ASSUME NEW i \in 1..Len(b) PROVE b[i] \in Range(c)
      BY DEF Range
    <2> DEFINE j == i + Len(a)
    <2>1. j \in 1..Len(c) /\ c[j] = b[i] /\ c \in Seq(S)
      BY <1>2
    <2> HIDE DEF j
    <2> QED BY <2>1 DEF Range
  <1> QED BY <1>1, <1>3, <1>4, <1>5 DEF c

\* A list cut in two behind element k.
LEMMA SplitLines ==
  ASSUME NEW S, NEW s \in Seq(S), NEW k \in 0..Len(s)
  PROVE  /\ SubSeq(s, 1, k) \in Seq(S) /\ Len(SubSeq(s, 1, k)) = k
         /\ SubSeq(s, k + 1, Len(s)) \in Seq(S) /\ Len(SubSeq(s, k + 1, Len(s))) = Len(s) - k
         /\ Range(s) = Range(SubSeq(s, 1, k)) \cup Range(SubSeq(s, k + 1, Len(s)))
  <1> DEFINE a == SubSeq(s, 1, k)
             b == SubSeq(s, k + 1, Len(s))
  <1>1. a \in Seq(S) /\ Len(a) = k /\ \A i \in 1..k : a[i] = s[i]
    BY SubSeqProperties
  <1>2. b \in Seq(S) /\ Len(b) = Len(s) - k /\ \A i \in 1..(Len(s) - k) : b[i] = s[k + i]
    BY SubSeqProperties
  <1> HIDE DEF a, b
  <1>3. \A x : x \in Range(s) => x \in Range(a) \cup Range(b)
    <2> SUFFICES ASSUME NEW i \in 1..Len(s) PROVE s[i] \in Range(a) \cup Range(b)
      BY DEF Range
    <2>1. CASE i <= k
      BY <2>1, <1>1 DEF Range
    <2>2. CASE ~(i <= k)
      <3>1. i - k \in 1..Len(b) /\ k + (i - k) = i
        BY <2>2, <1>2
      <3>2. b[i - k] = s[i]
        BY <3>1, <1>2
      <3> QED BY <3>1, <3>2, <1>2 DEF Range
    <2> QED BY <2>1, <2>2
  <1>4. \A x : x \in Range(a) => x \in Range(s)
    BY <1>1 DEF Range
  <1>5. \A x : x \in Range(b) => x \in Range(s)
    <2> SUFFICES ASSUME NEW i \in 1..Len(b) PROVE b[i] \in Range(s)
      BY <1>2 DEF Range
    <2>1. k + i \in 1..Len(s) /\ b[i] = s[k + i]
      BY <1>2
    <2> QED BY <2>1 DEF Range
  <1> QED BY <1>1, <1>2, <1>3, <1>4, <1>5 DEF a, b

\* A bounded set of numbers has a greatest one.
LEMMA GreatestNumber ==
  ASSUME NEW m \in Nat, NEW I, I \subseteq 0..m, I # {}
  PROVE  Max(I) \in I /\ \A y \in I : y <= Max(I)
  <1> DEFINE J == {m - y : y \in I}
  <1>1. J \subseteq Nat /\ J # {}
    <2>1. PICK z \in I : TRUE
      OBVIOUS
    <2>2. m - z \in J
      OBVIOUS
    <2>3. \A y \in I : m - y \in Nat
      OBVIOUS
    <2> QED BY <2>2, <2>3
  <1>2. Min(J) \in J /\ \A y \in J : Min(J) <= y
    BY <1>1, LeastIndex
  <1>3. PICK x \in I : Min(J) = m - x
    BY <1>2
  <1>4. \A y \in I : y <= x
    <2> SUFFICES ASSUME NEW y \in I PROVE y <= x
      OBVIOUS
    <2>1. m - y \in J
      OBVIOUS
    <2>2. m - x <= m - y
      BY <2>1, <1>2, <1>3
    <2>3. x \in Nat /\ y \in Nat
      OBVIOUS
    <2> QED BY <2>2, <2>3
  <1> QED BY <1>4 DEF Max

=============================================================================
