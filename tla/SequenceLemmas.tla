--------------------------- MODULE SequenceLemmas ---------------------------
(***************************************************************************)
(* What the proofs need to know about sequences and the operators of       *)
(* SequencesExt on them.                                                   *)
(***************************************************************************)
EXTENDS Naturals, SequencesExt, SequenceTheorems, FiniteSetTheorems,
        WellFoundedInduction, TLAPS

\* No element occurs twice in s.
Once(s) == \A i, j \in DOMAIN s : s[i] = s[j] => i = j

\* The elements of a sequence, of two in a row, and of one with an element
\* appended.
LEMMA ToSetFacts ==
  /\ ToSet(<<>>) = {}
  /\ \A S : \A s \in Seq(S) : ToSet(s) \subseteq S
  /\ \A S : \A s \in Seq(S) : ToSet(s) = {} => s = <<>>
  /\ \A S : \A s, t \in Seq(S) : ToSet(s \o t) = ToSet(s) \cup ToSet(t)
  /\ \A S : \A s \in Seq(S), e \in S : ToSet(Append(s, e)) = ToSet(s) \cup {e}
<1>1. ToSet(<<>>) = {}
  BY DEF ToSet
<1>2. \A S : \A s \in Seq(S) : ToSet(s) \subseteq S
  BY DEF ToSet
<1>3. ASSUME NEW S, NEW s \in Seq(S), ToSet(s) = {}
      PROVE  s = <<>>
  <2>1. \A i \in 1 .. Len(s) : s[i] \in ToSet(s)
    BY DEF ToSet
  <2>2. Len(s) = 0
    BY <1>3, <2>1
  <2> QED BY <2>2, EmptySeq
<1>4. ASSUME NEW S, NEW s \in Seq(S), NEW t \in Seq(S)
      PROVE  ToSet(s \o t) = ToSet(s) \cup ToSet(t)
  <2>1. ToSet(s \o t) \subseteq ToSet(s) \cup ToSet(t)
    BY DEF ToSet
  <2>2. ToSet(s) \subseteq ToSet(s \o t)
    <3> SUFFICES ASSUME NEW i \in 1 .. Len(s) PROVE s[i] \in ToSet(s \o t)
      BY DEF ToSet
    <3>1. i \in DOMAIN (s \o t) /\ (s \o t)[i] = s[i]
      OBVIOUS
    <3> QED BY <3>1 DEF ToSet
  <2>3. ToSet(t) \subseteq ToSet(s \o t)
    <3> SUFFICES ASSUME NEW i \in 1 .. Len(t) PROVE t[i] \in ToSet(s \o t)
      BY DEF ToSet
    <3>1. i + Len(s) \in DOMAIN (s \o t) /\ (s \o t)[i + Len(s)] = t[i]
      OBVIOUS
    <3> QED BY <3>1 DEF ToSet
  <2> QED BY <2>1, <2>2, <2>3
<1>5. ASSUME NEW S, NEW s \in Seq(S), NEW e \in S
      PROVE  ToSet(Append(s, e)) = ToSet(s) \cup {e}
  <2>1. Append(s, e) = s \o <<e>> /\ <<e>> \in Seq(S)
    BY AppendIsConcat
  <2>2. ToSet(<<e>>) = {e}
    BY DEF ToSet
  <2>3. ToSet(s \o <<e>>) = ToSet(s) \cup ToSet(<<e>>)
    BY ZenonT(60), <1>4, <2>1
  <2> QED BY <2>1, <2>2, <2>3
<1> QED BY <1>1, <1>2, <1>3, <1>4, <1>5

\* Concatenating and appending keep elements from occurring twice.
LEMMA OnceFacts ==
  /\ Once(<<>>)
  /\ \A S : \A s, t \in Seq(S) :
       Once(s) /\ Once(t) /\ ToSet(s) \cap ToSet(t) = {} => Once(s \o t)
  /\ \A S : \A s \in Seq(S), e \in S : Once(s) /\ e \notin ToSet(s) => Once(Append(s, e))
<1>1. Once(<<>>)
  BY DEF Once
<1>2. ASSUME NEW S, NEW s \in Seq(S), NEW t \in Seq(S),
             Once(s), Once(t), ToSet(s) \cap ToSet(t) = {}
      PROVE  Once(s \o t)
  <2> SUFFICES ASSUME NEW i \in 1 .. Len(s) + Len(t), NEW j \in 1 .. Len(s) + Len(t),
                      (s \o t)[i] = (s \o t)[j]
               PROVE  i = j
    BY DEF Once
  <2>1. \A k \in 1 .. Len(s) : s[k] \in ToSet(s)
    BY DEF ToSet
  <2>2. \A k \in 1 .. Len(t) : t[k] \in ToSet(t)
    BY DEF ToSet
  <2>3. CASE i <= Len(s) /\ j <= Len(s)
    BY <1>2, <2>3 DEF Once
  <2>4. CASE i <= Len(s) /\ ~(j <= Len(s))
    BY <1>2, <2>1, <2>2, <2>4
  <2>5. CASE ~(i <= Len(s)) /\ j <= Len(s)
    BY <1>2, <2>1, <2>2, <2>5
  <2>6. CASE ~(i <= Len(s)) /\ ~(j <= Len(s))
    <3>1. i - Len(s) \in 1 .. Len(t) /\ j - Len(s) \in 1 .. Len(t)
      BY <2>6
    <3>2. t[i - Len(s)] = t[j - Len(s)]
      BY <2>6
    <3> QED BY <1>2, <3>1, <3>2 DEF Once
  <2> QED BY <2>3, <2>4, <2>5, <2>6
<1>3. ASSUME NEW S, NEW s \in Seq(S), NEW e \in S, Once(s), e \notin ToSet(s)
      PROVE  Once(Append(s, e))
  BY <1>3 DEF Once, ToSet
<1> QED BY <1>1, <1>2, <1>3

\* A set of naturals that has an element has a least one.
LEMMA LeastNatural ==
  ASSUME NEW I \in SUBSET Nat, NEW n \in I
  PROVE  \E x \in I : \A y \in I : x <= y
<1> DEFINE less == {p \in Nat \X Nat : p[1] < p[2]}
<1>1. less = OpToRel(<, Nat)
  BY DEF OpToRel
<1>2. IsWellFoundedOn(less, Nat)
  BY <1>1, NatLessThanWellFounded
<1>3. PICK x \in I : \A y \in I : <<y, x>> \notin less
  BY <1>2, WFMin
<1>4. \A y \in I : ~(y < x)
  BY <1>3
<1> QED BY <1>4

\* Where SelectInSeq finds an element, and that it does.
LEMMA RemoveFirstIs ==
  ASSUME NEW S, NEW s \in Seq(S), NEW e
  PROVE  \/ /\ \A i \in 1 .. Len(s) : s[i] # e
            /\ RemoveFirst(s, e) = s
         \/ \E m \in 1 .. Len(s) :
              /\ s[m] = e
              /\ RemoveFirst(s, e) = SubSeq(s, 1, m - 1) \o SubSeq(s, m + 1, Len(s))
<1>1. CASE \E i \in 1 .. Len(s) : s[i] = e
  <2> DEFINE I == {i \in 1 .. Len(s) : s[i] = e}
             m == SelectInSeq(s, LAMBDA v : v = e)
  <2>1. PICK n \in I : TRUE
    BY <1>1
  <2>2. I \in SUBSET Nat
    OBVIOUS
  <2>3. PICK x \in I : \A y \in I : x <= y
    BY <2>1, <2>2, LeastNatural
  <2>4. Min(I) \in I
    BY <2>3 DEF Min
  <2>5. m = Min(I)
    BY <2>1 DEF SelectInSeq
  <2>6. RemoveFirst(s, e) = SubSeq(s, 1, m - 1) \o SubSeq(s, m + 1, Len(s))
    BY <1>1 DEF RemoveFirst, RemoveAt
  <2>7. m \in 1 .. Len(s) /\ s[m] = e
    BY <2>4, <2>5
  <2> HIDE DEF m
  <2> QED BY <2>6, <2>7
<1>2. CASE ~\E i \in 1 .. Len(s) : s[i] = e
  BY <1>2 DEF RemoveFirst
<1> QED BY <1>1, <1>2

\* RemoveFirst takes e, and nothing else, out of a sequence without
\* repetitions.
LEMMA RemoveFirstFacts ==
  ASSUME NEW S, NEW s \in Seq(S), NEW e, Once(s)
  PROVE  /\ RemoveFirst(s, e) \in Seq(S)
         /\ ToSet(RemoveFirst(s, e)) = ToSet(s) \ {e}
         /\ Once(RemoveFirst(s, e))
<1>1. CASE (\A i \in 1 .. Len(s) : s[i] # e) /\ RemoveFirst(s, e) = s
  BY <1>1 DEF ToSet
<1>2. CASE \E m \in 1 .. Len(s) :
             /\ s[m] = e
             /\ RemoveFirst(s, e) = SubSeq(s, 1, m - 1) \o SubSeq(s, m + 1, Len(s))
  <2>1. PICK m \in 1 .. Len(s) :
             /\ s[m] = e
             /\ RemoveFirst(s, e) = SubSeq(s, 1, m - 1) \o SubSeq(s, m + 1, Len(s))
    BY <1>2
  <2> DEFINE a == SubSeq(s, 1, m - 1)
             b == SubSeq(s, m + 1, Len(s))
             r == a \o b
  <2>2. a \in Seq(S) /\ Len(a) = m - 1 /\ \A i \in 1 .. m - 1 : a[i] = s[i]
    OBVIOUS
  <2>3. /\ b \in Seq(S) /\ Len(b) = Len(s) - m
        /\ \A i \in 1 .. Len(s) - m : b[i] = s[m + i]
    OBVIOUS
  <2> HIDE DEF a, b
  <2>4. r \in Seq(S) /\ Len(r) = Len(s) - 1
    <3>1. a \in Seq(S) /\ b \in Seq(S)
      BY <2>2, <2>3
    <3>2. r \in Seq(S) /\ Len(r) = Len(a) + Len(b)
      BY <3>1, ConcatProperties
    <3>3. Len(a) + Len(b) = Len(s) - 1
      BY <2>2, <2>3
    <3> QED BY <3>2, <3>3
  <2>5. \A i \in 1 .. Len(s) - 1 : r[i] = IF i < m THEN s[i] ELSE s[i + 1]
    <3> SUFFICES ASSUME NEW i \in 1 .. Len(s) - 1
                 PROVE  r[i] = IF i < m THEN s[i] ELSE s[i + 1]
      OBVIOUS
    <3>1. CASE i < m
      BY <2>2, <2>3, <3>1
    <3>2. CASE ~(i < m)
      <4>1. i - (m - 1) \in 1 .. Len(s) - m /\ m + (i - (m - 1)) = i + 1
        BY <3>2
      <4>2. r[i] = b[i - (m - 1)]
        BY <2>2, <2>3, <3>2
      <4> QED BY <2>3, <3>2, <4>1, <4>2
    <3> QED BY <3>1, <3>2
  <2> HIDE DEF r
  <2>6. Once(r)
    <3> SUFFICES ASSUME NEW i \in 1 .. Len(s) - 1, NEW j \in 1 .. Len(s) - 1,
                        r[i] = r[j]
                 PROVE  i = j
      BY <2>4 DEF Once
    <3> DEFINE at(k) == IF k < m THEN k ELSE k + 1
    <3>1. at(i) \in 1 .. Len(s) /\ at(j) \in 1 .. Len(s) /\ s[at(i)] = s[at(j)]
      BY <2>5
    <3>2. at(i) = at(j)
      BY <3>1 DEF Once
    <3> QED BY <3>2
  <2>7. ASSUME NEW i \in 1 .. Len(s) - 1
        PROVE  r[i] \in ToSet(s) \ {e}
    <3> DEFINE k == IF i < m THEN i ELSE i + 1
    <3>1. k \in 1 .. Len(s) /\ k # m /\ r[i] = s[k]
      BY <2>5
    <3>2. s[k] # s[m]
      BY <3>1 DEF Once
    <3> QED BY <2>1, <3>1, <3>2 DEF ToSet
  <2>8. ASSUME NEW i \in 1 .. Len(s), s[i] # e
        PROVE  s[i] \in ToSet(r)
    <3>1. CASE i < m
      BY <2>4, <2>5, <3>1 DEF ToSet
    <3>2. CASE i > m
      <4>1. i - 1 \in 1 .. Len(r) /\ r[i - 1] = s[i]
        BY <2>4, <2>5, <3>2
      <4> QED BY <2>4, <4>1 DEF ToSet
    <3> QED BY <2>1, <2>8, <3>1, <3>2
  <2>9. ToSet(s) \ {e} \subseteq ToSet(r)
    BY <2>8 DEF ToSet
  <2>10. ToSet(r) \subseteq ToSet(s) \ {e}
    BY <2>4, <2>7 DEF ToSet
  <2> QED BY <2>1, <2>4, <2>6, <2>9, <2>10 DEF a, b, r
<1> QED BY <1>1, <1>2, RemoveFirstIs

\* A set's orderings list each of its elements, once.
LEMMA OrderingFacts ==
  ASSUME NEW S, IsFiniteSet(S), NEW s \in SetToSeqs(S)
  PROVE  /\ s \in Seq(S)
         /\ ToSet(s) = S
         /\ Once(s)
<1> DEFINE n == Cardinality(S)
<1>1. n \in Nat
  BY FS_CardinalityType
<1>2. s \in [1 .. n -> S] /\ \A i, j \in 1 .. n : i # j => s[i] # s[j]
  BY DEF SetToSeqs
<1>3. s \in Seq(S) /\ Once(s)
  BY <1>1, <1>2, IsASeq DEF Once
<1>4. ToSet(s) = S
  <2>1. IsFiniteSet(1 .. n) /\ Cardinality(1 .. n) = n
    BY <1>1, FS_Interval
  <2> DEFINE T == ToSet(s)
  <2>2. T \subseteq S
    BY <1>2 DEF ToSet
  <2>3. IsFiniteSet(T) /\ Cardinality(T) <= n /\ (Cardinality(T) = n => T = S)
    BY <2>2, FS_Subset
  <2>4. s \in Injection(1 .. n, T)
    BY <1>2 DEF ToSet, Injection, IsInjective
  <2>5. n <= Cardinality(T)
    BY <2>1, <2>3, <2>4, FS_Injection
  <2> QED BY <1>1, <2>3, <2>5, FS_CardinalityType
<1> QED BY <1>3, <1>4

\* SetToSeq lists each of a set's elements, once.
LEMMA SetToSeqFacts ==
  ASSUME NEW S, IsFiniteSet(S)
  PROVE  SetToSeq(S) \in Seq(S) /\ ToSet(SetToSeq(S)) = S /\ Once(SetToSeq(S))
<1> DEFINE s == SetToSeq(S)
           n == Cardinality(S)
<1>1. PICK f \in [1 .. n -> S] : IsInjective(f)
  BY FS_CardinalityType DEF ExistsBijection, Bijection, Injection
<1>2. s \in [1 .. n -> S] /\ IsInjective(s)
  BY <1>1 DEF SetToSeq
<1>3. \A i, j \in 1 .. n : i # j => s[i] # s[j]
  BY <1>2 DEF IsInjective
<1>4. s \in SetToSeqs(S)
  BY <1>2, <1>3 DEF SetToSeqs
<1> QED BY <1>4, OrderingFacts

\* RemoveAt keeps the other elements, in their order.
LEMMA RemoveAtFacts ==
  ASSUME NEW S, NEW s \in Seq(S), NEW n \in 1 .. Len(s)
  PROVE  /\ RemoveAt(s, n) \in Seq(S)
         /\ Len(RemoveAt(s, n)) = Len(s) - 1
         /\ \A i \in 1 .. Len(s) - 1 : RemoveAt(s, n)[i] = IF i < n THEN s[i] ELSE s[i + 1]
<1> DEFINE a == SubSeq(s, 1, n - 1)
           b == SubSeq(s, n + 1, Len(s))
<1>1. a \in Seq(S) /\ Len(a) = n - 1 /\ \A i \in 1 .. n - 1 : a[i] = s[i]
  OBVIOUS
<1>2. b \in Seq(S) /\ Len(b) = Len(s) - n /\ \A i \in 1 .. Len(s) - n : b[i] = s[n + i]
  OBVIOUS
<1>3. RemoveAt(s, n) = a \o b
  BY DEF RemoveAt
<1> HIDE DEF a, b
<1>4. PICK r : r = a \o b
  OBVIOUS
<1>5. /\ r \in Seq(S) /\ Len(r) = Len(a) + Len(b)
      /\ \A i \in 1 .. Len(a) + Len(b) :
           r[i] = IF i <= Len(a) THEN a[i] ELSE b[i - Len(a)]
  BY <1>1, <1>2, <1>4, ConcatProperties
<1>6. Len(r) = Len(s) - 1
  BY <1>1, <1>2, <1>5
<1>7. ASSUME NEW i \in 1 .. Len(s) - 1
      PROVE  r[i] = IF i < n THEN s[i] ELSE s[i + 1]
  <2>1. CASE i < n
    BY <1>1, <1>5, <1>6, <2>1
  <2>2. CASE ~(i < n)
    <3>1. PICK j : j = i - Len(a)
      OBVIOUS
    <3>2. j \in 1 .. Len(s) - n /\ n + j = i + 1
      BY <1>1, <2>2, <3>1
    <3>3. r[i] = b[j]
      BY <1>1, <1>5, <1>6, <2>2, <3>1
    <3> QED BY <1>2, <2>2, <3>2, <3>3
  <2> QED BY <2>1, <2>2
<1> QED BY <1>3, <1>4, <1>5, <1>6, <1>7
=============================================================================
