------------------------------ MODULE Counting ------------------------------
(***************************************************************************)
(* Lemmas on sequences used as lists and queues: how many of their entries *)
(* lie in a set when an entry is added, taken or removed, the position     *)
(* SelectInSeq finds, the queue seen through a selection of its entries or *)
(* through a function applied to each, and a fold over a list of any       *)
(* length, taken apart step by step.                                       *)
(***************************************************************************)
EXTENDS Naturals, Sequences, SequencesExt, Selection,
        FiniteSetTheorems, FunctionTheorems, SequenceTheorems, TLAPS

(* Positions of the entries of s that lie in A, and their number.          *)
At(s, A) == {i \in DOMAIN s : s[i] \in A}
Count(s, A) == Cardinality(At(s, A))

-----------------------------------------------------------------------------
(* A set of natural numbers that is not empty has a least element.          *)
LEMMA MinFacts ==
    ASSUME NEW I \in SUBSET Nat, I # {}
    PROVE  Min(I) \in I /\ \A i \in I : Min(I) <= i
<1>1. IsWellFoundedOn(OpToRel(<, Nat), Nat)
  BY NatLessThanWellFounded
<1>2. PICK m \in I : \A i \in I : ~ (<<i, m>> \in OpToRel(<, Nat))
  BY <1>1, WFMin
<1>3. ASSUME NEW i \in I PROVE m <= i
  <2>1. <<i, m>> \in Nat \X Nat /\ <<i, m>>[1] = i /\ <<i, m>>[2] = m
    OBVIOUS
  <2>2. ~ (i < m)
    BY <1>2, <2>1 DEF OpToRel
  <2>3. QED BY <2>2
<1>4. QED BY <1>2, <1>3 DEF Min

-----------------------------------------------------------------------------
(* Positions are finite in number.                                          *)
LEMMA CountType ==
    ASSUME NEW R, NEW s \in Seq(R), NEW A
    PROVE  IsFiniteSet(At(s, A)) /\ Count(s, A) \in Nat
<1>1. At(s, A) \in SUBSET (1 .. Len(s)) /\ Len(s) \in Nat
  BY DEF At
<1>2. IsFiniteSet(1 .. Len(s))
  BY <1>1, FS_Interval
<1>3. IsFiniteSet(At(s, A))
  BY <1>1, <1>2, FS_Subset
<1>4. QED BY <1>3, FS_CardinalityType DEF Count

(* A bijection between the positions of two finite sets: as many.           *)
LEMMA SameNumber ==
    ASSUME NEW S, NEW T, IsFiniteSet(S), NEW f \in [S -> T],
           \A x, y \in S : f[x] = f[y] => x = y,
           \A t \in T : \E x \in S : f[x] = t
    PROVE  IsFiniteSet(T) /\ Cardinality(T) = Cardinality(S)
<1>1. f \in Bijection(S, T)
  BY DEF Bijection, Injection, Surjection, IsInjective
<1>2. ExistsBijection(S, T)
  BY <1>1 DEF ExistsBijection
<1>3. QED BY <1>2, FS_Bijection

(* No entry, no position.                                                   *)
LEMMA CountEmpty == ASSUME NEW A PROVE Count(<<>>, A) = 0
<1>1. At(<<>>, A) = {}
  BY DEF At
<1>2. QED BY <1>1, FS_EmptySet DEF Count

(* An entry put behind the others.                                          *)
LEMMA CountAppend ==
    ASSUME NEW R, NEW s \in Seq(R), NEW r \in R, NEW A
    PROVE  Count(Append(s, r), A) = Count(s, A) + (IF r \in A THEN 1 ELSE 0)
<1> DEFINE n == Len(s) + 1
<1>1. n \in Nat /\ n \notin At(s, A)
  BY DEF At
<1>2. At(Append(s, r), A) = IF r \in A THEN At(s, A) \cup {n} ELSE At(s, A)
  <2>1. /\ DOMAIN s = 1 .. Len(s) /\ Len(s) \in Nat
        /\ DOMAIN Append(s, r) = 1 .. Len(s) + 1
        /\ \A i \in 1 .. Len(s) : Append(s, r)[i] = s[i]
        /\ Append(s, r)[Len(s) + 1] = r
    OBVIOUS
  <2>2. \A i : i \in At(Append(s, r), A) <=> i \in At(s, A) \/ (i = n /\ r \in A)
    BY <2>1 DEF At
  <2>3. QED BY <2>2
<1>3. IsFiniteSet(At(s, A)) /\ Count(s, A) \in Nat
  BY CountType
<1> HIDE DEF n
<1>4. Cardinality(At(s, A) \cup {n}) = Count(s, A) + 1
  BY <1>1, <1>3, FS_AddElement DEF Count
<1>5. QED BY <1>2, <1>3, <1>4 DEF Count

(* An entry taken from any position.                                        *)
Shortened(t, s, i) ==
    /\ Len(t) = Len(s) - 1
    /\ \A k \in 1 .. Len(s) - 1 : t[k] = IF k < i THEN s[k] ELSE s[k + 1]

(* An entry is removed from inside a list.                                  *)
LEMMA RemoveAtFacts ==
    ASSUME NEW R, NEW s \in Seq(R), NEW i \in 1 .. Len(s)
    PROVE  RemoveAt(s, i) \in Seq(R) /\ Shortened(RemoveAt(s, i), s, i)
<1> DEFINE a == SubSeq(s, 1, i - 1)
           b == SubSeq(s, i + 1, Len(s))
<1>1. /\ Len(s) \in Nat /\ i \in Nat /\ DOMAIN s = 1 .. Len(s)
      /\ \A k \in 1 .. Len(s) : s[k] \in R
  OBVIOUS
<1>2. /\ a \in Seq(R) /\ Len(a) = i - 1
      /\ \A k \in 1 .. i - 1 : a[k] = s[k]
  BY <1>1, SubSeqProperties
<1>3. /\ b \in Seq(R) /\ Len(b) = Len(s) - i
      /\ \A k \in 1 .. Len(s) - i : b[k] = s[i + k]
  <2>1. \A k \in i + 1 .. Len(s) : s[k] \in R
    BY <1>1
  <2>2. /\ b \in Seq(R)
        /\ Len(b) = IF i + 1 <= Len(s) THEN Len(s) - (i + 1) + 1 ELSE 0
        /\ \A k \in 1 .. Len(s) - (i + 1) + 1 : b[k] = s[i + 1 + k - 1]
    BY <1>1, <2>1, SubSeqProperties
  <2>3. Len(s) - (i + 1) + 1 = Len(s) - i
    BY <1>1
  <2>4. Len(b) = Len(s) - i
    <3>1. CASE i + 1 <= Len(s)
      BY <2>2, <2>3, <3>1
    <3>2. CASE ~ (i + 1 <= Len(s))
      <4>0. i \in Nat /\ Len(s) \in Nat /\ i <= Len(s)
        BY <1>1
      <4>1. i = Len(s)
        BY <3>2, <4>0
      <4>2. QED BY <1>1, <2>2, <3>2, <4>1
    <3>3. QED BY <3>1, <3>2
  <2>5. ASSUME NEW k \in 1 .. Len(s) - i PROVE b[k] = s[i + k]
    <3>1. i + 1 + k - 1 = i + k
      BY <1>1
    <3>2. QED BY <2>2, <2>3, <3>1
  <2>6. QED BY <2>2, <2>4, <2>5, Zenon
<1> HIDE DEF a, b
<1>4. /\ a \o b \in Seq(R) /\ Len(a \o b) = Len(a) + Len(b)
      /\ \A k \in 1 .. Len(a) + Len(b) :
            (a \o b)[k] = IF k <= Len(a) THEN a[k] ELSE b[k - Len(a)]
  BY <1>2, <1>3, ConcatProperties
<1>5. RemoveAt(s, i) = a \o b
  BY DEF RemoveAt, a, b
<1>6. Len(a \o b) = Len(s) - 1
  BY <1>1, <1>2, <1>3, <1>4
<1>7. ASSUME NEW k \in 1 .. Len(s) - 1
      PROVE  (a \o b)[k] = IF k < i THEN s[k] ELSE s[k + 1]
  <2>1. k \in 1 .. Len(a) + Len(b) /\ (k <= Len(a) <=> k < i)
    BY <1>1, <1>2, <1>3
  <2>2. CASE k < i
    BY <1>1, <1>2, <1>4, <2>1, <2>2
  <2>3. CASE ~ (k < i)
    <3>1. k - Len(a) \in 1 .. Len(s) - i /\ i + (k - Len(a)) = k + 1
      BY <1>1, <1>2, <2>3
    <3>2. (a \o b)[k] = b[k - Len(a)] /\ b[k - Len(a)] = s[i + (k - Len(a))]
      BY <1>3, <1>4, <2>1, <2>3, <3>1
    <3>3. QED BY <2>3, <3>1, <3>2
  <2>4. QED BY <2>2, <2>3
<1>8. QED BY <1>4, <1>5, <1>6, <1>7 DEF Shortened

(* Removing an entry takes one from the count, if it was counted.           *)
LEMMA CountRemoveAt ==
    ASSUME NEW R, NEW s \in Seq(R), NEW i \in 1 .. Len(s), NEW A
    PROVE  Count(s, A) = Count(RemoveAt(s, i), A) + (IF s[i] \in A THEN 1 ELSE 0)
<1> DEFINE t == RemoveAt(s, i)
           f == [k \in At(t, A) |-> IF k < i THEN k ELSE k + 1]
<1>1. /\ t \in Seq(R) /\ Len(t) = Len(s) - 1
      /\ \A k \in 1 .. Len(s) - 1 : t[k] = IF k < i THEN s[k] ELSE s[k + 1]
      /\ Len(s) \in Nat /\ i \in Nat
      /\ DOMAIN s = 1 .. Len(s)
  BY RemoveAtFacts DEF Shortened
<1> HIDE DEF t
<1>2. DOMAIN t = 1 .. Len(s) - 1
  BY <1>1
<1>3. f \in [At(t, A) -> At(s, A) \ {i}]
  BY <1>1, <1>2 DEF At
<1>4. \A x, y \in At(t, A) : f[x] = f[y] => x = y
  BY <1>1, <1>2 DEF At
<1>5. ASSUME NEW k \in At(s, A) \ {i} PROVE \E x \in At(t, A) : f[x] = k
  <2>1. k \in 1 .. Len(s) /\ s[k] \in A /\ k # i
    BY <1>1 DEF At
  <2>2. CASE k < i
    <3>1. k \in At(t, A)
      BY <1>1, <1>2, <2>1, <2>2 DEF At
    <3>2. QED BY <2>2, <3>1
  <2>3. CASE k > i
    <3>1. k - 1 \in 1 .. Len(s) - 1 /\ ~ (k - 1 < i) /\ (k - 1) + 1 = k
      BY <1>1, <2>1, <2>3
    <3>2. k - 1 \in At(t, A)
      BY <1>1, <1>2, <2>1, <3>1 DEF At
    <3>3. QED BY <3>1, <3>2
  <2>4. QED BY <1>1, <2>1, <2>2, <2>3
<1>6. IsFiniteSet(At(t, A)) /\ IsFiniteSet(At(s, A)) /\ Count(t, A) \in Nat /\ Count(s, A) \in Nat
  BY <1>1, CountType
<1> HIDE DEF f
<1>7. Cardinality(At(s, A) \ {i}) = Count(t, A)
  BY <1>3, <1>4, <1>5, <1>6, SameNumber DEF Count
<1>8. i \in At(s, A) <=> s[i] \in A
  BY <1>1 DEF At
<1>9. Cardinality(At(s, A) \ {i}) = IF s[i] \in A THEN Count(s, A) - 1 ELSE Count(s, A)
  BY <1>6, <1>8, FS_RemoveElement DEF Count
<1>10. QED BY <1>6, <1>7, <1>9 DEF t

(* An entry put in front of the others, or taken from there.                *)
Prepended(t, r, s) == /\ Len(t) = Len(s) + 1
                      /\ t[1] = r
                      /\ \A k \in 1 .. Len(s) : t[k + 1] = s[k]

(* An entry is put in front of a list.                                      *)
LEMMA ConsFacts ==
    ASSUME NEW R, NEW s \in Seq(R), NEW r \in R
    PROVE  Cons(r, s) \in Seq(R) /\ Prepended(Cons(r, s), r, s)
<1>1. <<r>> \in Seq(R) /\ Len(<<r>>) = 1 /\ <<r>>[1] = r /\ Len(s) \in Nat
  OBVIOUS
<1>2. /\ <<r>> \o s \in Seq(R) /\ Len(<<r>> \o s) = 1 + Len(s)
      /\ \A k \in 1 .. 1 + Len(s) :
            (<<r>> \o s)[k] = IF k <= 1 THEN <<r>>[k] ELSE s[k - 1]
  BY <1>1, ConcatProperties
<1>3. ASSUME NEW k \in 1 .. Len(s) PROVE (<<r>> \o s)[k + 1] = s[k]
  <2>1. k + 1 \in 1 .. 1 + Len(s) /\ ~ (k + 1 <= 1) /\ (k + 1) - 1 = k
    BY <1>1
  <2>2. QED BY <1>2, <2>1
<1>4. QED BY <1>1, <1>2, <1>3 DEF Cons, Prepended

(* Taking the first entry takes one from the count, if it was counted.      *)
LEMMA CountTail ==
    ASSUME NEW R, NEW s \in Seq(R), s # <<>>, NEW A
    PROVE  Count(s, A) = Count(Tail(s), A) + (IF Head(s) \in A THEN 1 ELSE 0)
<1>1. 1 \in 1 .. Len(s) /\ Head(s) = s[1] /\ Tail(s) \in Seq(R) /\ Len(s) \in Nat
  OBVIOUS
<1>2. /\ RemoveAt(s, 1) \in Seq(R) /\ Len(RemoveAt(s, 1)) = Len(s) - 1
      /\ \A k \in 1 .. Len(s) - 1 : RemoveAt(s, 1)[k] = s[k + 1]
  BY <1>1, RemoveAtFacts DEF Shortened
<1>3. Len(Tail(s)) = Len(s) - 1 /\ \A k \in 1 .. Len(s) - 1 : Tail(s)[k] = s[k + 1]
  BY HeadTailProperties
<1>4. RemoveAt(s, 1) = Tail(s)
  BY <1>1, <1>2, <1>3, SeqEqual
<1>5. Count(s, A) = Count(RemoveAt(s, 1), A) + (IF s[1] \in A THEN 1 ELSE 0)
  BY <1>1, CountRemoveAt
<1>6. QED BY <1>1, <1>4, <1>5

(* An entry put in front is one more, if it is counted.                     *)
LEMMA CountCons ==
    ASSUME NEW R, NEW s \in Seq(R), NEW r \in R, NEW A
    PROVE  Count(Cons(r, s), A) = Count(s, A) + (IF r \in A THEN 1 ELSE 0)
<1> DEFINE t == Cons(r, s)
<1>1. /\ t \in Seq(R) /\ Len(t) = Len(s) + 1
      /\ t[1] = r
      /\ \A k \in 1 .. Len(s) : t[k + 1] = s[k]
  <2>1. t \in Seq(R) /\ Prepended(t, r, s)
    BY ConsFacts
  <2>2. QED BY <2>1, Zenon DEF Prepended
<1> HIDE DEF t
<1>2. t \in Seq(R) /\ t # <<>> /\ Head(t) = r /\ Len(Tail(t)) = Len(s)
  BY <1>1
<1>3. \A k \in 1 .. Len(s) : Tail(t)[k] = s[k]
  BY <1>1, <1>2, HeadTailProperties
<1>4. Tail(t) \in Seq(R)
  BY <1>2
<1>5. Tail(t) = s
  BY <1>2, <1>3, <1>4, SeqEqual
<1>6. Count(t, A) = Count(Tail(t), A) + (IF Head(t) \in A THEN 1 ELSE 0)
  BY <1>2, CountTail
<1>7. QED BY <1>2, <1>5, <1>6, Zenon DEF t

(* Nothing is counted in a list without such an entry.                      *)
LEMMA CountNone ==
    ASSUME NEW s, NEW A, \A i \in DOMAIN s : s[i] \notin A
    PROVE  Count(s, A) = 0
<1>1. At(s, A) = {}
  BY DEF At
<1>2. QED BY <1>1, FS_EmptySet DEF Count

(* With a count of at most one, two such entries are the same.              *)
LEMMA CountAtMostOne ==
    ASSUME NEW R, NEW s \in Seq(R), NEW A, Count(s, A) <= 1,
           NEW i \in DOMAIN s, NEW j \in DOMAIN s, s[i] \in A, s[j] \in A
    PROVE  i = j
<1> SUFFICES ASSUME i # j PROVE FALSE
  OBVIOUS
<1>1. IsFiniteSet(At(s, A)) /\ Count(s, A) \in Nat
  BY CountType
<1>2. i \in At(s, A) /\ j \in At(s, A) \ {i}
  BY DEF At
<1>3. IsFiniteSet(At(s, A) \ {i}) /\ Cardinality(At(s, A) \ {i}) = Count(s, A) - 1
  BY <1>1, <1>2, FS_RemoveElement DEF Count
<1>4. Cardinality(At(s, A) \ {i}) # 0
  BY <1>2, <1>3, FS_EmptySet
<1>5. Cardinality(At(s, A) \ {i}) \in Nat
  BY <1>3, FS_CardinalityType
<1>6. QED BY <1>1, <1>3, <1>4, <1>5

(* Entries put behind the others all at once.                               *)
LEMMA ConcatFacts ==
    ASSUME NEW R, NEW s \in Seq(R), NEW t \in Seq(R)
    PROVE  /\ s \o t \in Seq(R) /\ Len(s) \in Nat /\ Len(t) \in Nat
           /\ DOMAIN s = 1 .. Len(s) /\ DOMAIN t = 1 .. Len(t)
           /\ Len(s \o t) = Len(s) + Len(t)
           /\ DOMAIN (s \o t) = 1 .. Len(s) + Len(t)
           /\ \A i \in 1 .. Len(s) : (s \o t)[i] = s[i]
           /\ \A i \in 1 .. Len(t) : (s \o t)[Len(s) + i] = t[i]
<1>1. /\ s \o t \in Seq(R) /\ Len(s \o t) = Len(s) + Len(t)
      /\ \A i \in 1 .. Len(s) + Len(t) :
            (s \o t)[i] = IF i <= Len(s) THEN s[i] ELSE t[i - Len(s)]
  BY ConcatProperties
<1>2. /\ Len(s) \in Nat /\ Len(t) \in Nat
      /\ DOMAIN s = 1 .. Len(s) /\ DOMAIN t = 1 .. Len(t)
  OBVIOUS
<1>3. DOMAIN (s \o t) = 1 .. Len(s) + Len(t)
  BY <1>1
<1>4. ASSUME NEW i \in 1 .. Len(s) PROVE (s \o t)[i] = s[i]
  <2>1. i \in 1 .. Len(s) + Len(t) /\ i <= Len(s)
    BY <1>2
  <2>2. QED BY <1>1, <2>1
<1>5. ASSUME NEW i \in 1 .. Len(t) PROVE (s \o t)[Len(s) + i] = t[i]
  <2>1. /\ Len(s) + i \in 1 .. Len(s) + Len(t) /\ ~ (Len(s) + i <= Len(s))
        /\ (Len(s) + i) - Len(s) = i
    BY <1>2
  <2>2. QED BY <1>1, <2>1
<1>6. QED BY <1>1, <1>2, <1>3, <1>4, <1>5

(* The count of two lists put together is the sum of their counts.          *)
LEMMA CountConcat ==
    ASSUME NEW R, NEW s \in Seq(R), NEW t \in Seq(R), NEW A
    PROVE  Count(s \o t, A) = Count(s, A) + Count(t, A)
<1> DEFINE l == Len(s)
           f == [k \in At(t, A) |-> l + k]
           U == {i \in At(s \o t, A) : i > l}
<1>1. /\ l \in Nat /\ Len(t) \in Nat /\ DOMAIN s = 1 .. l /\ DOMAIN t = 1 .. Len(t)
      /\ DOMAIN (s \o t) = 1 .. l + Len(t)
      /\ \A i \in 1 .. l : (s \o t)[i] = s[i]
      /\ \A i \in 1 .. Len(t) : (s \o t)[l + i] = t[i]
  BY ConcatFacts
<1> HIDE DEF l
<1>2. f \in [At(t, A) -> U]
  BY <1>1 DEF At
<1>3. \A x, y \in At(t, A) : f[x] = f[y] => x = y
  BY <1>1 DEF At
<1>4. ASSUME NEW u \in U PROVE \E x \in At(t, A) : f[x] = u
  <2>1. u \in 1 .. l + Len(t) /\ u > l /\ (s \o t)[u] \in A
    BY <1>1 DEF At
  <2>2. u - l \in 1 .. Len(t) /\ l + (u - l) = u
    BY <1>1, <2>1
  <2>3. u - l \in At(t, A)
    BY <1>1, <2>1, <2>2 DEF At
  <2>4. QED BY <2>2, <2>3
<1>5. IsFiniteSet(At(s, A)) /\ IsFiniteSet(At(t, A))
  BY CountType
<1> HIDE DEF f
<1>6. IsFiniteSet(U) /\ Cardinality(U) = Count(t, A)
  BY <1>2, <1>3, <1>4, <1>5, SameNumber DEF Count
<1>7. At(s \o t, A) = At(s, A) \cup U
  BY <1>1 DEF At
<1>8. At(s, A) \cap U = {}
  BY <1>1 DEF At
<1> HIDE DEF U
<1>9. Cardinality(At(s, A) \cup U) = Cardinality(At(s, A)) + Cardinality(U)
  <2>1. /\ Cardinality(At(s, A)) \in Nat /\ Cardinality(U) \in Nat
        /\ Cardinality({}) = 0
    BY <1>5, <1>6, FS_CardinalityType, FS_EmptySet
  <2>2. Cardinality(At(s, A) \cup U)
            = Cardinality(At(s, A)) + Cardinality(U) - Cardinality(At(s, A) \cap U)
    BY <1>5, <1>6, FS_Union
  <2>3. Cardinality(At(s, A) \cap U) = 0
    BY <1>8, <2>1, Zenon
  <2>4. QED BY <2>1, <2>2, <2>3
<1>10. QED BY <1>6, <1>7, <1>9, Zenon DEF Count

(* Putting a list behind another is putting its last entry behind the rest. *)
LEMMA ConcatAppend ==
    ASSUME NEW R, NEW s \in Seq(R), NEW t \in Seq(R), NEW r \in R
    PROVE  /\ s \o Append(t, r) = Append(s \o t, r)
           /\ s \o <<r>> = Append(s, r)
<1>1. ASSUME NEW u \in Seq(R) PROVE s \o Append(u, r) = Append(s \o u, r)
  <2> DEFINE a == s \o Append(u, r)
             b == Append(s \o u, r)
             v == Append(u, r)
             w == s \o u
  <2>1. v \in Seq(R) /\ Len(v) = Len(u) + 1 /\ v[Len(u) + 1] = r
        /\ \A i \in 1 .. Len(u) : v[i] = u[i]
    OBVIOUS
  <2>2. /\ a \in Seq(R) /\ Len(s) \in Nat /\ Len(u) \in Nat
        /\ Len(a) = Len(s) + (Len(u) + 1)
        /\ \A i \in 1 .. Len(s) : a[i] = s[i]
        /\ \A i \in 1 .. Len(u) + 1 : a[Len(s) + i] = v[i]
    <3> HIDE DEF v
    <3>1. QED BY <2>1, ConcatFacts DEF a
  <2>3. /\ w \in Seq(R) /\ Len(w) = Len(s) + Len(u)
        /\ \A i \in 1 .. Len(s) : w[i] = s[i]
        /\ \A i \in 1 .. Len(u) : w[Len(s) + i] = u[i]
    BY ConcatFacts
  <2> HIDE DEF v, a, w
  <2>4. /\ b \in Seq(R) /\ Len(b) = Len(w) + 1 /\ b[Len(w) + 1] = r
        /\ \A i \in 1 .. Len(w) : b[i] = w[i]
    BY <2>3 DEF w
  <2> HIDE DEF b
  <2>5. Len(a) = Len(b) /\ Len(a) = (Len(s) + Len(u)) + 1
    BY <2>2, <2>3, <2>4
  <2>6. ASSUME NEW i \in 1 .. Len(a) PROVE a[i] = b[i]
    <3>1. CASE i \in 1 .. Len(s)
      <4>1. i \in 1 .. Len(w)
        BY <2>2, <2>3, <3>1
      <4>2. QED BY <2>2, <2>3, <2>4, <3>1, <4>1
    <3>2. CASE i \in Len(s) + 1 .. Len(s) + Len(u)
      <4>1. /\ i - Len(s) \in 1 .. Len(u) /\ i - Len(s) \in 1 .. Len(u) + 1
            /\ Len(s) + (i - Len(s)) = i /\ i \in 1 .. Len(w)
        BY <2>2, <2>3, <3>2
      <4>2. a[i] = u[i - Len(s)] /\ w[i] = u[i - Len(s)] /\ b[i] = w[i]
        BY <2>1, <2>2, <2>3, <2>4, <4>1
      <4>3. QED BY <4>2
    <3>3. CASE i = (Len(s) + Len(u)) + 1
      <4>1. i = Len(s) + (Len(u) + 1) /\ Len(u) + 1 \in 1 .. Len(u) + 1 /\ i = Len(w) + 1
        BY <2>2, <2>3, <3>3
      <4>2. a[i] = v[Len(u) + 1] /\ b[i] = r
        BY <2>2, <2>4, <4>1
      <4>3. QED BY <2>1, <4>2
    <3>4. /\ Len(s) \in Nat /\ Len(u) \in Nat
          /\ i \in 1 .. (Len(s) + Len(u)) + 1
      BY <2>2, <2>5
    <3>5. \/ i \in 1 .. Len(s) \/ i \in Len(s) + 1 .. Len(s) + Len(u)
          \/ i = (Len(s) + Len(u)) + 1
      BY <3>4
    <3>6. QED BY <3>1, <3>2, <3>3, <3>5
  <2>7. a = b
    BY <2>2, <2>4, <2>5, <2>6, SeqEqual
  <2>8. QED BY <2>7, Zenon DEF a, b, w, v
<1>2. <<>> \in Seq(R) /\ Append(<<>>, r) = <<r>> /\ s \o <<>> = s
  OBVIOUS
<1>3. s \o <<r>> = Append(s, r)
  BY <1>1, <1>2
<1>4. QED BY <1>1, <1>3

(* A list of one entry.                                                     *)
LEMMA Single ==
    ASSUME NEW R, NEW r \in R, NEW q
    PROVE  /\ <<r>> \in Seq(R) /\ DOMAIN <<r>> = {1} /\ <<r>>[1] = r
           /\ <<r, q>> = Append(<<r>>, q)
<1>1. <<r>> \in Seq(R)
  OBVIOUS
<1>2. DOMAIN <<r>> = {1} /\ <<r>>[1] = r
  OBVIOUS
<1>3. <<r, q>> = Append(<<r>>, q)
  OBVIOUS
<1>4. QED BY <1>1, <1>2, <1>3

-----------------------------------------------------------------------------
(* f counts the positions I off, from the first to the n-th.               *)
Enumerates(f, n, I) ==
    /\ f \in [1 .. n -> I]
    /\ \A k, l \in 1 .. n : k < l => f[k] < f[l]
    /\ \A i \in I : \E k \in 1 .. n : f[k] = i

(* The entries of s at the positions f counts off.                         *)
Picked(s, f, n) == [k \in 1 .. n |-> s[f[k]]]

(* The k-th position is the one of rank k: an enumeration says what is     *)
(* selected.                                                               *)
LEMMA SelectIs ==
    ASSUME NEW I \in SUBSET Nat, NEW n \in Nat, NEW f, Enumerates(f, n, I), NEW s
    PROVE  /\ IsFiniteSet(I) /\ Cardinality(I) = n
           /\ \A k \in 1 .. n : Rank(I, f[k]) = k
           /\ SelectAt(s, I) = Picked(s, f, n)
<1>1. /\ f \in [1 .. n -> I]
      /\ \A k, l \in 1 .. n : k < l => f[k] < f[l]
      /\ \A i \in I : \E k \in 1 .. n : f[k] = i
  BY DEF Enumerates
<1>0. \A k \in 1 .. n : f[k] \in I /\ f[k] \in Nat
  <2>1. \A i \in I : i \in Nat
    OBVIOUS
  <2>2. \A k \in 1 .. n : f[k] \in I
    BY <1>1
  <2>3. QED BY <2>1, <2>2
<1>2. \A k, l \in 1 .. n : f[k] = f[l] => k = l
  <2> SUFFICES ASSUME NEW k \in 1 .. n, NEW l \in 1 .. n, f[k] = f[l], k # l PROVE FALSE
    OBVIOUS
  <2>1. k < l \/ l < k
    OBVIOUS
  <2>2. f[k] < f[l] \/ f[l] < f[k]
    BY <1>1, <2>1
  <2>3. f[k] \in Nat /\ f[l] \in Nat
    BY <1>0
  <2>4. QED BY <2>2, <2>3
<1>3. IsFiniteSet(I) /\ Cardinality(I) = n
  <2>1. IsFiniteSet(1 .. n) /\ Cardinality(1 .. n) = n
    BY FS_Interval
  <2>2. QED BY <1>1, <1>2, <2>1, SameNumber
<1>4. ASSUME NEW k \in 1 .. n PROVE Rank(I, f[k]) = k
  <2> DEFINE J == {j \in I : j <= f[k]}
             g == [l \in 1 .. k |-> f[l]]
  <2>1. \A l \in 1 .. k : l \in 1 .. n /\ f[l] \in I /\ f[l] \in Nat /\ f[k] \in Nat
    <3>1. \A l \in 1 .. k : l \in 1 .. n
      OBVIOUS
    <3>2. QED BY <1>0, <3>1
  <2>2. \A l \in 1 .. k : f[l] <= f[k]
    <3>1. \A l \in 1 .. k : l < k => f[l] < f[k]
      BY <1>1, <2>1
    <3>2. QED BY <2>1, <3>1
  <2>3. g \in [1 .. k -> J]
    BY <2>1, <2>2
  <2>4. \A x, y \in 1 .. k : g[x] = g[y] => x = y
    BY <1>2, <2>1
  <2>5. ASSUME NEW j \in J PROVE \E l \in 1 .. k : g[l] = j
    <3>1. PICK l \in 1 .. n : f[l] = j
      BY <1>1
    <3>2. ~ (k < l)
      <4>1. f[l] <= f[k] /\ f[l] \in Nat /\ f[k] \in Nat
        BY <1>0, <3>1
      <4>2. k < l => f[k] < f[l]
        BY <1>1
      <4>3. QED BY <4>1, <4>2
    <3>3. l \in 1 .. k
      BY <3>2
    <3>4. QED BY <3>1, <3>3
  <2>6. IsFiniteSet(1 .. k) /\ Cardinality(1 .. k) = k
    BY FS_Interval
  <2> HIDE DEF g, J
  <2>7. Cardinality(J) = k
    BY <2>3, <2>4, <2>5, <2>6, SameNumber
  <2>8. QED BY <2>7 DEF Rank, J
<1>5. ASSUME NEW k \in 1 .. n PROVE (CHOOSE i \in I : Rank(I, i) = k) = f[k]
  <2>1. f[k] \in I /\ Rank(I, f[k]) = k
    BY <1>1, <1>4
  <2>2. ASSUME NEW i \in I, Rank(I, i) = k PROVE i = f[k]
    <3>1. PICK l \in 1 .. n : f[l] = i
      BY <1>1
    <3>2. Rank(I, f[l]) = l
      BY <1>4
    <3>3. QED BY <2>2, <3>1, <3>2
  <2>3. QED BY <2>1, <2>2
<1>6. SelectAt(s, I) = [k \in 1 .. n |-> s[f[k]]]
  <2> DEFINE p(k) == CHOOSE i \in I : Rank(I, i) = k
  <2>1. SelectAt(s, I) = [k \in 1 .. n |-> s[p(k)]]
    BY <1>3, Zenon DEF SelectAt
  <2>2. \A k \in 1 .. n : p(k) = f[k]
    BY <1>5, Zenon
  <2> HIDE DEF p
  <2>3. QED BY <2>1, <2>2, Zenon
<1>7. QED BY <1>3, <1>4, <1>6 DEF Picked

(* Any finite set of positions can be enumerated.                          *)
LEMMA Enumerated ==
    ASSUME NEW I \in SUBSET Nat, IsFiniteSet(I)
    PROVE  Cardinality(I) \in Nat /\ \E f : Enumerates(f, Cardinality(I), I)
<1> DEFINE n == Cardinality(I)
           Upto(i) == {j \in I : j <= i}
           r == [i \in I |-> Rank(I, i)]
<1>1. n \in Nat
  BY FS_CardinalityType
<1>2. ASSUME NEW i \in I
      PROVE  /\ IsFiniteSet(Upto(i)) /\ Rank(I, i) = Cardinality(Upto(i))
             /\ Rank(I, i) \in 1 .. n
  <2>1. Upto(i) \in SUBSET I /\ i \in Upto(i)
    OBVIOUS
  <2>2. Rank(I, i) = Cardinality(Upto(i))
    BY DEF Rank
  <2> HIDE DEF Upto
  <2>3. IsFiniteSet(Upto(i)) /\ Cardinality(Upto(i)) <= n
    BY <2>1, FS_Subset
  <2>4. Cardinality(Upto(i)) \in Nat /\ Cardinality(Upto(i)) # 0
    BY <2>1, <2>3, FS_CardinalityType, FS_EmptySet
  <2> HIDE DEF n
  <2>5. QED BY <1>1, <2>2, <2>3, <2>4
<1>3. ASSUME NEW i \in I, NEW j \in I, i < j PROVE Rank(I, i) < Rank(I, j)
  <2>1. Upto(i) \in SUBSET Upto(j) /\ j \in Upto(j) /\ j \notin Upto(i)
    <3>1. i \in Nat /\ j \in Nat /\ \A k \in I : k \in Nat
      OBVIOUS
    <3>2. \A k \in I : k <= i => k <= j
      BY <1>3, <3>1
    <3>3. ~ (j <= i) /\ j <= j
      BY <1>3, <3>1
    <3>4. QED BY <3>2, <3>3
  <2>2. /\ IsFiniteSet(Upto(j)) /\ IsFiniteSet(Upto(i))
        /\ Rank(I, i) = Cardinality(Upto(i)) /\ Rank(I, j) = Cardinality(Upto(j))
    BY <1>2
  <2> HIDE DEF Upto, n
  <2>3. Cardinality(Upto(i)) <= Cardinality(Upto(j))
    BY <2>1, <2>2, FS_Subset
  <2>4. Cardinality(Upto(i)) # Cardinality(Upto(j))
    BY <2>1, <2>2, FS_Subset
  <2>5. Cardinality(Upto(i)) \in Nat /\ Cardinality(Upto(j)) \in Nat
    BY <2>2, FS_CardinalityType
  <2>6. QED BY <2>2, <2>3, <2>4, <2>5
<1> HIDE DEF Upto
<1>4. r \in [I -> 1 .. n] /\ \A i, j \in I : r[i] = r[j] => i = j
  <2>1. r \in [I -> 1 .. n]
    BY <1>2
  <2>2. ASSUME NEW i \in I, NEW j \in I, r[i] = r[j] PROVE i = j
    <3>1. Rank(I, i) = Rank(I, j) /\ Rank(I, i) \in 1 .. n
      BY <1>2, <2>2
    <3>2. i \in Nat /\ j \in Nat
      OBVIOUS
    <3> HIDE DEF n
    <3>3. ~ (i < j) /\ ~ (j < i)
      BY <1>1, <1>3, <3>1
    <3>4. QED BY <3>2, <3>3
  <2>3. QED BY <2>1, <2>2
<1> HIDE DEF r
<1>5. \A k \in 1 .. n : \E i \in I : r[i] = k
  <2>1. IsFiniteSet(1 .. n) /\ Cardinality(1 .. n) = n
    BY <1>1, FS_Interval
  <2>2. r \in Injection(I, 1 .. n)
    BY <1>4, Fun_IsInj
  <2>3. r \in Surjection(I, 1 .. n)
    BY <2>1, <2>2, FS_Injection
  <2>4. QED BY <2>3, Fun_SurjectionProperties
<1> DEFINE f == [k \in 1 .. n |-> CHOOSE i \in I : r[i] = k]
<1>6. \A k \in 1 .. n : f[k] \in I /\ r[f[k]] = k
  BY <1>5
<1>7. f \in [1 .. n -> I]
  BY <1>5
<1> HIDE DEF f
<1>8. ASSUME NEW k \in 1 .. n, NEW l \in 1 .. n, k < l PROVE f[k] < f[l]
  <2>1. Rank(I, f[k]) = k /\ Rank(I, f[l]) = l /\ f[k] \in Nat /\ f[l] \in Nat
    BY <1>6 DEF r
  <2>2. f[k] # f[l] /\ ~ (f[l] < f[k])
    BY <1>3, <1>6, <1>8, <2>1
  <2>3. QED BY <2>1, <2>2
<1>9. ASSUME NEW i \in I PROVE \E k \in 1 .. n : f[k] = i
  <2>1. r[i] \in 1 .. n
    BY <1>4
  <2>2. f[r[i]] = i
    BY <1>4, <1>6, <2>1
  <2>3. QED BY <2>1, <2>2
<1>10. Enumerates(f, n, I)
  BY <1>7, <1>8, <1>9 DEF Enumerates
<1>11. QED BY <1>1, <1>10

(* The entries of s that lie in A, in their order.                          *)
Selected(s, A) == SelectAt(s, At(s, A))

(* Their positions, counted off by f.                                       *)
LEMMA SelectedIs ==
    ASSUME NEW R, NEW s \in Seq(R), NEW A
    PROVE  /\ Selected(s, A) \in Seq(R)
           /\ \E n \in Nat : \E f : /\ Enumerates(f, n, At(s, A))
                                   /\ Selected(s, A) = Picked(s, f, n)
<1> DEFINE I == At(s, A)
<1>1. /\ I \in SUBSET Nat /\ IsFiniteSet(I) /\ Cardinality(I) \in Nat
      /\ \A i \in I : i \in DOMAIN s
  <2>1. IsFiniteSet(I)
    BY CountType
  <2>2. I \in SUBSET Nat /\ \A i \in I : i \in DOMAIN s
    BY DEF At
  <2>3. QED BY <2>1, <2>2, FS_CardinalityType
<1> DEFINE n == Cardinality(I)
<1>2. PICK f : Enumerates(f, n, I)
  <2> HIDE DEF I
  <2>1. QED BY <1>1, Enumerated
<1>3. Selected(s, A) = Picked(s, f, n)
  <2>1. Selected(s, A) = SelectAt(s, I)
    BY DEF Selected
  <2>2. n \in Nat
    BY <1>1
  <2> HIDE DEF I, n
  <2>3. QED BY <1>1, <1>2, <2>1, <2>2, SelectIs
<1>4. \A k \in 1 .. n : s[f[k]] \in R
  <2> HIDE DEF I, n
  <2>1. \A k \in 1 .. n : f[k] \in I
    BY <1>2 DEF Enumerates
  <2>2. \A i \in DOMAIN s : s[i] \in R
    OBVIOUS
  <2>3. QED BY <1>1, <2>1, <2>2
<1>5. n \in Nat
  BY <1>1
<1> HIDE DEF n
<1>6. Picked(s, f, n) \in Seq(R)
  BY <1>4, <1>5 DEF Picked
<1>7. QED BY <1>2, <1>3, <1>5, <1>6

(* An entry put behind the others is selected last, or not at all.          *)
LEMMA SelectedAppend ==
    ASSUME NEW R, NEW s \in Seq(R), NEW r \in R, NEW A
    PROVE  Selected(Append(s, r), A)
               = IF r \in A THEN Append(Selected(s, A), r) ELSE Selected(s, A)
<1> DEFINE t == Append(s, r)
           l == Len(s)
<1>1. /\ l \in Nat /\ DOMAIN s = 1 .. l /\ DOMAIN t = 1 .. l + 1
      /\ \A i \in 1 .. l : t[i] = s[i]
      /\ t[l + 1] = r
  OBVIOUS
<1> HIDE DEF t, l
<1>n. PICK n \in Nat : \E f : /\ Enumerates(f, n, At(s, A))
                              /\ Selected(s, A) = Picked(s, f, n)
  BY SelectedIs
<1>2. PICK f : /\ Enumerates(f, n, At(s, A))
               /\ Selected(s, A) = Picked(s, f, n)
  BY <1>n
<1>3. /\ f \in [1 .. n -> At(s, A)]
      /\ \A k, j \in 1 .. n : k < j => f[k] < f[j]
      /\ \A i \in At(s, A) : \E k \in 1 .. n : f[k] = i
  BY <1>2 DEF Enumerates
<1>4. \A k \in 1 .. n : f[k] \in At(s, A) /\ f[k] \in 1 .. l /\ t[f[k]] = s[f[k]]
  <2>1. \A i \in At(s, A) : i \in 1 .. l
    BY <1>1 DEF At
  <2>2. QED BY <1>1, <1>3, <2>1
<1>5. At(t, A) \in SUBSET Nat
  BY <1>1 DEF At
<1>6. CASE r \in A
  <2> DEFINE g == [k \in 1 .. n + 1 |-> IF k = n + 1 THEN l + 1 ELSE f[k]]
  <2>1. \A i : i \in At(t, A) <=> i \in At(s, A) \/ i = l + 1
    BY <1>1, <1>6 DEF At
  <2>2. /\ n + 1 \in Nat /\ g[n + 1] = l + 1 /\ DOMAIN g = 1 .. n + 1
        /\ \A k \in 1 .. n : g[k] = f[k]
    OBVIOUS
  <2>3. \A k \in 1 .. n + 1 : k \in 1 .. n \/ k = n + 1
    OBVIOUS
  <2>4. g \in [1 .. n + 1 -> At(t, A)]
    <3>1. \A k \in 1 .. n + 1 : g[k] \in At(t, A)
      <4> HIDE DEF g
      <4>1. QED BY <1>4, <2>1, <2>2, <2>3
    <3>2. QED BY <3>1
  <2> HIDE DEF g
  <2>5. ASSUME NEW k \in 1 .. n + 1, NEW j \in 1 .. n + 1, k < j PROVE g[k] < g[j]
    <3>1. k \in 1 .. n
      BY <2>5
    <3>2. CASE j = n + 1
      BY <1>1, <1>4, <2>2, <3>1, <3>2
    <3>3. CASE j \in 1 .. n
      BY <1>3, <2>2, <2>5, <3>1, <3>3
    <3>4. QED BY <2>3, <3>2, <3>3
  <2>6. ASSUME NEW i \in At(t, A) PROVE \E k \in 1 .. n + 1 : g[k] = i
    <3>1. CASE i = l + 1
      BY <2>2, <3>1
    <3>2. CASE i \in At(s, A)
      <4>1. PICK k \in 1 .. n : f[k] = i
        BY <1>3, <3>2
      <4>2. k \in 1 .. n + 1 /\ g[k] = i
        BY <2>2, <4>1
      <4>3. QED BY <4>2
    <3>3. QED BY <2>1, <3>1, <3>2
  <2>7. Enumerates(g, n + 1, At(t, A))
    BY <2>4, <2>5, <2>6 DEF Enumerates
  <2>8. Selected(t, A) = Picked(t, g, n + 1)
    <3>1. n + 1 \in Nat
      OBVIOUS
    <3>2. QED BY <1>5, <2>7, <3>1, SelectIs DEF Selected
  <2> DEFINE u == Selected(s, A)
             v == Selected(t, A)
  <2>9. u \in Seq(R) /\ Len(u) = n /\ \A k \in 1 .. n : u[k] = s[f[k]]
    <3>1. u \in Seq(R)
      BY SelectedIs
    <3>2. QED BY <1>2, <3>1 DEF Picked
  <2>10. v \in Seq(R) /\ Len(v) = n + 1 /\ \A k \in 1 .. n + 1 : v[k] = t[g[k]]
    <3>1. t \in Seq(R)
      BY DEF t
    <3>2. v \in Seq(R)
      BY <3>1, SelectedIs
    <3>3. QED BY <2>8, <3>2 DEF Picked
  <2> HIDE DEF u, v
  <2>11. /\ Append(u, r) \in Seq(R) /\ Len(Append(u, r)) = n + 1
         /\ \A k \in 1 .. n : Append(u, r)[k] = u[k]
         /\ Append(u, r)[n + 1] = r
    BY <2>9
  <2>12. ASSUME NEW k \in 1 .. n + 1 PROVE v[k] = Append(u, r)[k]
    <3>1. CASE k = n + 1
      BY <1>1, <2>2, <2>10, <2>11, <3>1
    <3>2. CASE k \in 1 .. n
      <4>1. v[k] = t[f[k]] /\ t[f[k]] = s[f[k]] /\ u[k] = s[f[k]]
        BY <1>4, <2>2, <2>9, <2>10, <3>2
      <4>2. QED BY <2>11, <3>2, <4>1
    <3>3. QED BY <2>3, <3>1, <3>2
  <2>13. v = Append(u, r)
    BY <2>10, <2>11, <2>12, SeqEqual
  <2>14. QED BY <1>6, <2>13 DEF u, v, t
<1>7. CASE r \notin A
  <2>1. At(t, A) = At(s, A)
    BY <1>1, <1>7 DEF At
  <2>2. Selected(t, A) = Picked(t, f, n)
    BY <1>2, <1>5, <2>1, SelectIs DEF Selected
  <2>3. Selected(t, A) = Selected(s, A)
    BY <1>2, <1>4, <2>2 DEF Picked
  <2>4. QED BY <1>7, <2>3 DEF t
<1>8. QED BY <1>6, <1>7

(* A list of the entries in A, position by position, is the selection.      *)
LEMMA SelectedBy ==
    ASSUME NEW R, NEW s \in Seq(R), NEW u \in Seq(R), NEW A,
           NEW g, Enumerates(g, Len(u), At(s, A)),
           \A k \in 1 .. Len(u) : u[k] = s[g[k]]
    PROVE  Selected(s, A) = u
<1>1. At(s, A) \in SUBSET Nat /\ Len(u) \in Nat
  BY DEF At
<1>2. Selected(s, A) = Picked(s, g, Len(u))
  BY <1>1, SelectIs DEF Selected
<1>3. u = [k \in 1 .. Len(u) |-> u[k]]
  OBVIOUS
<1>4. Picked(s, g, Len(u)) = [k \in 1 .. Len(u) |-> u[k]]
  BY DEF Picked
<1>5. QED BY <1>2, <1>3, <1>4

(* The first entry is selected first, or not at all.                        *)
LEMMA SelectedTail ==
    ASSUME NEW R, NEW s \in Seq(R), s # <<>>, NEW A
    PROVE  /\ Head(s) \in A => /\ Selected(s, A) # <<>>
                               /\ Head(Selected(s, A)) = Head(s)
                               /\ Tail(Selected(s, A)) = Selected(Tail(s), A)
           /\ Head(s) \notin A => Selected(s, A) = Selected(Tail(s), A)
<1> DEFINE t == Tail(s)
           l == Len(s)
           h == Head(s)
           v == Selected(t, A)
<1>1. /\ l \in Nat \ {0} /\ DOMAIN s = 1 .. l /\ DOMAIN t = 1 .. l - 1
      /\ t \in Seq(R) /\ h = s[1] /\ h \in R
      /\ \A i \in 1 .. l - 1 : t[i] = s[i + 1]
  OBVIOUS
<1> HIDE DEF t, l, h
<1>n. PICK n \in Nat : \E f : Enumerates(f, n, At(t, A)) /\ v = Picked(t, f, n)
  BY <1>1, SelectedIs
<1>2. PICK f : Enumerates(f, n, At(t, A)) /\ v = Picked(t, f, n)
  BY <1>n
<1>3. /\ f \in [1 .. n -> At(t, A)]
      /\ \A k, j \in 1 .. n : k < j => f[k] < f[j]
      /\ \A i \in At(t, A) : \E k \in 1 .. n : f[k] = i
  BY <1>2 DEF Enumerates
<1>4. v \in Seq(R) /\ Len(v) = n /\ \A k \in 1 .. n : v[k] = t[f[k]]
  <2>1. v \in Seq(R)
    BY <1>1, SelectedIs
  <2> HIDE DEF v
  <2>2. QED BY <1>2, <2>1 DEF Picked
<1> HIDE DEF v
<1>5. \A k \in 1 .. n : /\ f[k] \in At(t, A) /\ f[k] \in 1 .. l - 1 /\ f[k] + 1 \in Nat
                        /\ t[f[k]] = s[f[k] + 1]
  <2>1. \A i \in At(t, A) : i \in 1 .. l - 1
    BY <1>1 DEF At
  <2>2. \A k \in 1 .. n : f[k] \in At(t, A) /\ f[k] \in 1 .. l - 1
    BY <1>3, <2>1
  <2>3. QED BY <1>1, <2>2
<1>6. /\ \A i \in At(t, A) : i + 1 \in At(s, A) /\ i \in Nat
      /\ \A i \in At(s, A) : i # 1 => i - 1 \in At(t, A) /\ (i - 1) + 1 = i
      /\ 1 \in At(s, A) <=> h \in A
  <2>1. \A i \in At(t, A) : i + 1 \in At(s, A) /\ i \in Nat
    BY <1>1 DEF At
  <2>2. ASSUME NEW i \in At(s, A), i # 1 PROVE i - 1 \in At(t, A) /\ (i - 1) + 1 = i
    <3>1. i - 1 \in 1 .. l - 1 /\ (i - 1) + 1 = i /\ s[i] \in A
      BY <1>1, <2>2 DEF At
    <3>2. t[i - 1] = s[i]
      BY <1>1, <3>1
    <3>3. QED BY <1>1, <3>1, <3>2 DEF At
  <2>3. 1 \in At(s, A) <=> h \in A
    BY <1>1 DEF At
  <2>4. QED BY <2>1, <2>2, <2>3
<1>7. CASE h \in A
  <2> DEFINE u == Cons(h, v)
             g == [k \in 1 .. n + 1 |-> IF k = 1 THEN 1 ELSE f[k - 1] + 1]
  <2>1. /\ u \in Seq(R) /\ Len(u) = n + 1 /\ u[1] = h
        /\ \A k \in 1 .. n : u[k + 1] = v[k]
    <3>1. u \in Seq(R) /\ Prepended(u, h, v)
      BY <1>1, <1>4, ConsFacts
    <3> HIDE DEF u
    <3>2. QED BY <1>4, <3>1 DEF Prepended
  <2>2. \A k \in 1 .. n + 1 : k = 1 \/ (k - 1 \in 1 .. n /\ (k - 1) + 1 = k)
    OBVIOUS
  <2>3. /\ DOMAIN g = 1 .. n + 1 /\ g[1] = 1
        /\ \A k \in 1 .. n : k + 1 \in 1 .. n + 1 /\ g[k + 1] = f[k] + 1
        /\ \A k \in 1 .. n + 1 : k # 1 => g[k] = f[k - 1] + 1
    <3>1. \A k \in 1 .. n : k + 1 \in 1 .. n + 1 /\ k + 1 # 1 /\ (k + 1) - 1 = k
      OBVIOUS
    <3>2. QED BY <3>1
  <2>4. g \in [1 .. n + 1 -> At(s, A)]
    <3>1. ASSUME NEW k \in 1 .. n + 1 PROVE g[k] \in At(s, A)
      <4>1. CASE k = 1
        BY <1>6, <1>7, <2>3, <4>1
      <4>2. CASE k # 1
        <5>1. k - 1 \in 1 .. n /\ g[k] = f[k - 1] + 1
          BY <2>2, <2>3, <4>2
        <5> HIDE DEF g
        <5>2. QED BY <1>5, <1>6, <5>1
      <4>3. QED BY <4>1, <4>2
    <3>2. QED BY <3>1
  <2> HIDE DEF g, u
  <2>5. ASSUME NEW k \in 1 .. n + 1, NEW j \in 1 .. n + 1, k < j PROVE g[k] < g[j]
    <3>1. j # 1 /\ j - 1 \in 1 .. n /\ g[j] = f[j - 1] + 1 /\ f[j - 1] \in 1 .. l - 1
      <4>1. j # 1
        BY <2>5
      <4>2. QED BY <1>5, <2>2, <2>3, <4>1
    <3>2. CASE k = 1
      BY <1>1, <2>3, <3>1, <3>2
    <3>3. CASE k # 1
      <4>1. k - 1 \in 1 .. n /\ g[k] = f[k - 1] + 1 /\ k - 1 < j - 1
        BY <2>2, <2>3, <2>5, <3>3
      <4>2. f[k - 1] < f[j - 1] /\ f[k - 1] \in 1 .. l - 1
        BY <1>3, <1>5, <3>1, <4>1
      <4>3. QED BY <1>1, <3>1, <4>1, <4>2
    <3>4. QED BY <3>2, <3>3
  <2>6. ASSUME NEW i \in At(s, A) PROVE \E k \in 1 .. n + 1 : g[k] = i
    <3>1. CASE i = 1
      BY <2>3, <3>1
    <3>2. CASE i # 1
      <4>1. PICK k \in 1 .. n : f[k] = i - 1
        BY <1>3, <1>6, <3>2
      <4>2. k + 1 \in 1 .. n + 1 /\ g[k + 1] = i
        BY <1>6, <2>3, <3>2, <4>1
      <4>3. QED BY <4>2
    <3>3. QED BY <3>1, <3>2
  <2>7. Enumerates(g, Len(u), At(s, A))
    <3>1. Enumerates(g, n + 1, At(s, A))
      BY <2>4, <2>5, <2>6 DEF Enumerates
    <3>2. QED BY <2>1, <3>1
  <2>8. ASSUME NEW k \in 1 .. Len(u) PROVE u[k] = s[g[k]]
    <3>0. k \in 1 .. n + 1
      BY <2>1
    <3>1. CASE k = 1
      BY <1>1, <2>1, <2>3, <3>1
    <3>2. CASE k # 1
      <4>1. k - 1 \in 1 .. n /\ (k - 1) + 1 = k /\ g[k] = f[k - 1] + 1
        BY <2>2, <2>3, <3>0, <3>2
      <4>2. u[k] = v[k - 1]
        BY <2>1, <4>1
      <4>3. v[k - 1] = t[f[k - 1]] /\ t[f[k - 1]] = s[f[k - 1] + 1]
        BY <1>4, <1>5, <4>1
      <4>4. QED BY <4>1, <4>2, <4>3
    <3>3. QED BY <3>1, <3>2
  <2>9. Selected(s, A) = u
    BY <2>1, <2>7, <2>8, SelectedBy
  <2>10. u # <<>> /\ Head(u) = h /\ Tail(u) = v
    <3>1. u # <<>> /\ Head(u) = h /\ Tail(u) \in Seq(R) /\ Len(Tail(u)) = n
      BY <2>1
    <3>2. \A k \in 1 .. n : Tail(u)[k] = u[k + 1]
      BY <2>1, HeadTailProperties
    <3>3. \A k \in 1 .. n : Tail(u)[k] = v[k]
      BY <2>1, <3>2
    <3>4. Tail(u) = v
      BY <1>4, <3>1, <3>3, SeqEqual
    <3>5. QED BY <3>1, <3>4
  <2>11. QED BY <1>7, <2>9, <2>10 DEF v, t, h
<1>8. CASE h \notin A
  <2> DEFINE g == [k \in 1 .. n |-> f[k] + 1]
  <2>1. \A k \in 1 .. n : g[k] = f[k] + 1 /\ g[k] \in At(s, A)
    BY <1>5, <1>6
  <2>2. g \in [1 .. n -> At(s, A)]
    BY <2>1
  <2> HIDE DEF g
  <2>3. ASSUME NEW k \in 1 .. n, NEW j \in 1 .. n, k < j PROVE g[k] < g[j]
    <3>1. f[k] < f[j] /\ f[k] \in 1 .. l - 1 /\ f[j] \in 1 .. l - 1
      BY <1>3, <1>5, <2>3
    <3>2. QED BY <1>1, <2>1, <3>1
  <2>4. ASSUME NEW i \in At(s, A) PROVE \E k \in 1 .. n : g[k] = i
    <3>1. i # 1
      BY <1>6, <1>8
    <3>2. PICK k \in 1 .. n : f[k] = i - 1
      BY <1>3, <1>6, <3>1
    <3>3. QED BY <1>6, <2>1, <3>1, <3>2
  <2>5. Enumerates(g, Len(v), At(s, A))
    <3>1. Enumerates(g, n, At(s, A))
      BY <2>2, <2>3, <2>4 DEF Enumerates
    <3>2. QED BY <1>4, <3>1
  <2>6. \A k \in 1 .. Len(v) : v[k] = s[g[k]]
    BY <1>4, <1>5, <2>1
  <2>7. Selected(s, A) = v
    BY <1>4, <2>5, <2>6, SelectedBy
  <2>8. QED BY <1>8, <2>7 DEF v, t, h
<1>9. QED BY <1>7, <1>8 DEF h

(* Nothing is selected from nothing.                                        *)
LEMMA SelectedEmpty == ASSUME NEW A PROVE Selected(<<>>, A) = <<>>
<1>1. At(<<>>, A) = {}
  BY DEF At
<1>2. Enumerates(<<>>, 0, {})
  BY DEF Enumerates
<1>3. Selected(<<>>, A) = Picked(<<>>, <<>>, 0)
  BY <1>1, <1>2, SelectIs DEF Selected
<1>4. Picked(<<>>, <<>>, 0) = <<>>
  BY DEF Picked
<1>5. QED BY <1>3, <1>4

(* Entries of A put behind the others are all selected.                     *)
LEMMA SelectedConcat ==
    ASSUME NEW R, NEW s \in Seq(R), NEW t \in Seq(R), NEW A, \A i \in DOMAIN t : t[i] \in A
    PROVE  Selected(s \o t, A) = Selected(s, A) \o t
<1> DEFINE w == s \o t
           l == Len(s)
           m == Len(t)
           v == Selected(s, A)
           u == v \o t
<1>1. /\ w \in Seq(R) /\ l \in Nat /\ m \in Nat
      /\ DOMAIN s = 1 .. l /\ DOMAIN t = 1 .. m /\ DOMAIN w = 1 .. l + m
      /\ \A i \in 1 .. l : w[i] = s[i]
      /\ \A i \in 1 .. m : w[l + i] = t[i]
  BY ConcatFacts
<1>n. PICK n \in Nat : \E f : Enumerates(f, n, At(s, A)) /\ v = Picked(s, f, n)
  BY SelectedIs
<1>2. PICK f : Enumerates(f, n, At(s, A)) /\ v = Picked(s, f, n)
  BY <1>n
<1>3. v \in Seq(R) /\ Len(v) = n /\ \A k \in 1 .. n : v[k] = s[f[k]]
  <2>1. v \in Seq(R)
    BY SelectedIs
  <2> HIDE DEF v
  <2>2. QED BY <1>2, <2>1 DEF Picked
<1> HIDE DEF v
<1>4. /\ u \in Seq(R) /\ Len(u) = n + m
      /\ \A k \in 1 .. n : u[k] = v[k]
      /\ \A k \in 1 .. m : u[n + k] = t[k]
  <2>1. /\ u \in Seq(R) /\ Len(u) = Len(v) + Len(t)
        /\ \A k \in 1 .. Len(v) : u[k] = v[k]
        /\ \A k \in 1 .. Len(t) : u[Len(v) + k] = t[k]
    <3>1. v \in Seq(R) /\ t \in Seq(R)
      BY <1>3
    <3>2. QED BY <3>1, ConcatFacts
  <2> HIDE DEF u
  <2>2. QED BY <1>3, <2>1
<1> HIDE DEF w, l, u
<1>5. \A i \in 1 .. m : t[i] \in A
  BY <1>1
<1> HIDE DEF m
<1>6. /\ f \in [1 .. n -> At(s, A)]
      /\ \A k, j \in 1 .. n : k < j => f[k] < f[j]
      /\ \A i \in At(s, A) : \E k \in 1 .. n : f[k] = i
  BY <1>2 DEF Enumerates
<1>7. \A k \in 1 .. n : f[k] \in At(s, A) /\ f[k] \in 1 .. l /\ w[f[k]] = s[f[k]]
  <2>1. \A i \in At(s, A) : i \in 1 .. l
    BY <1>1 DEF At
  <2>2. QED BY <1>1, <1>6, <2>1
<1>8. /\ \A i \in At(s, A) : i \in At(w, A)
      /\ \A i \in 1 .. m : l + i \in At(w, A)
      /\ \A i \in At(w, A) : i \in At(s, A) \/ (i - l \in 1 .. m /\ l + (i - l) = i)
  <2>1. \A i \in At(s, A) : i \in At(w, A)
    BY <1>1 DEF At
  <2>2. ASSUME NEW i \in 1 .. m PROVE l + i \in At(w, A)
    <3>1. l + i \in 1 .. l + m /\ w[l + i] \in A
      BY <1>1, <1>5
    <3>2. QED BY <1>1, <3>1 DEF At
  <2>3. ASSUME NEW i \in At(w, A), i \notin At(s, A)
        PROVE  i - l \in 1 .. m /\ l + (i - l) = i
    <3>1. i \in 1 .. l + m /\ i \notin 1 .. l
      BY <1>1, <2>3 DEF At
    <3>2. QED BY <1>1, <3>1
  <2>4. QED BY <2>1, <2>2, <2>3
<1> DEFINE g == [k \in 1 .. n + m |-> IF k <= n THEN f[k] ELSE l + (k - n)]
<1>9. \A k \in 1 .. n + m : k \in 1 .. n \/ (~ (k <= n) /\ k - n \in 1 .. m /\ n + (k - n) = k)
  BY <1>1
<1>10. /\ \A k \in 1 .. n : g[k] = f[k] /\ k \in 1 .. n + m
       /\ \A k \in 1 .. m : g[n + k] = l + k /\ n + k \in 1 .. n + m
       /\ \A k \in 1 .. n + m : k \notin 1 .. n => g[k] = l + (k - n)
  <2>1. \A k \in 1 .. n : k \in 1 .. n + m /\ k <= n
    BY <1>1
  <2>2. \A k \in 1 .. m : n + k \in 1 .. n + m /\ ~ (n + k <= n) /\ (n + k) - n = k
    BY <1>1
  <2>3. \A k \in 1 .. n + m : k \notin 1 .. n => ~ (k <= n)
    BY <1>1
  <2>4. QED BY <2>1, <2>2, <2>3
<1>11. g \in [1 .. n + m -> At(w, A)]
  <2>1. ASSUME NEW k \in 1 .. n + m PROVE g[k] \in At(w, A)
    <3>1. CASE k \in 1 .. n
      <4> HIDE DEF g
      <4>1. QED BY <1>7, <1>8, <1>10, <3>1
    <3>2. CASE k \notin 1 .. n
      <4> HIDE DEF g
      <4>1. QED BY <1>8, <1>9, <1>10, <3>2
    <3>3. QED BY <3>1, <3>2
  <2>2. QED BY <2>1
<1> HIDE DEF g
<1>12. ASSUME NEW k \in 1 .. n + m, NEW j \in 1 .. n + m, k < j PROVE g[k] < g[j]
  <2>1. CASE j \in 1 .. n
    <3>1. k \in 1 .. n
      BY <1>12, <2>1
    <3>2. QED BY <1>6, <1>10, <1>12, <2>1, <3>1
  <2>2. CASE j \notin 1 .. n /\ k \in 1 .. n
    <3>1. j - n \in 1 .. m /\ g[j] = l + (j - n) /\ g[k] = f[k] /\ f[k] \in 1 .. l
      BY <1>7, <1>9, <1>10, <2>2
    <3>2. QED BY <1>1, <3>1
  <2>3. CASE j \notin 1 .. n /\ k \notin 1 .. n
    <3>1. g[j] = l + (j - n) /\ g[k] = l + (k - n)
      BY <1>10, <2>3
    <3>2. QED BY <1>1, <1>12, <3>1
  <2>4. QED BY <2>1, <2>2, <2>3
<1>13. ASSUME NEW i \in At(w, A) PROVE \E k \in 1 .. n + m : g[k] = i
  <2>1. CASE i \in At(s, A)
    <3>1. PICK k \in 1 .. n : f[k] = i
      BY <1>6, <2>1
    <3>2. QED BY <1>10, <3>1
  <2>2. CASE i \notin At(s, A)
    <3>1. i - l \in 1 .. m /\ l + (i - l) = i
      BY <1>8, <2>2
    <3>2. n + (i - l) \in 1 .. n + m /\ g[n + (i - l)] = i
      BY <1>10, <3>1
    <3>3. QED BY <3>2
  <2>3. QED BY <2>1, <2>2
<1>14. Enumerates(g, Len(u), At(w, A))
  <2>1. Enumerates(g, n + m, At(w, A))
    BY <1>11, <1>12, <1>13 DEF Enumerates
  <2>2. QED BY <1>4, <2>1
<1>15. ASSUME NEW k \in 1 .. Len(u) PROVE u[k] = w[g[k]]
  <2>0. k \in 1 .. n + m
    BY <1>4
  <2>1. CASE k \in 1 .. n
    <3>1. u[k] = v[k] /\ v[k] = s[f[k]] /\ w[f[k]] = s[f[k]] /\ g[k] = f[k]
      BY <1>3, <1>4, <1>7, <1>10, <2>1
    <3>2. QED BY <3>1
  <2>2. CASE k \notin 1 .. n
    <3>1. k - n \in 1 .. m /\ n + (k - n) = k /\ g[k] = l + (k - n)
      BY <1>9, <1>10, <2>0, <2>2
    <3>2. u[k] = t[k - n] /\ w[l + (k - n)] = t[k - n]
      BY <1>1, <1>4, <3>1
    <3>3. QED BY <3>1, <3>2
  <2>3. QED BY <2>1, <2>2
<1>16. Selected(w, A) = u
  BY <1>1, <1>4, <1>14, <1>15, SelectedBy
<1>17. QED BY <1>16 DEF w, u, v

-----------------------------------------------------------------------------
(* Every entry seen through the function g.                                 *)
Mapped(s, g) == [i \in DOMAIN s |-> g[s[i]]]

MapsEnds(s, g, R) ==
    /\ \A r \in R : Mapped(Append(s, r), g) = Append(Mapped(s, g), g[r])
    /\ s # <<>> => /\ Mapped(s, g) # <<>>
                   /\ Head(Mapped(s, g)) = g[Head(s)]
                   /\ Mapped(Tail(s), g) = Tail(Mapped(s, g))
    /\ s = <<>> => Mapped(s, g) = <<>>

(* The ends of a list seen through a function are what its ends are seen    *)
(* as.                                                                      *)
LEMMA MappedFacts ==
    ASSUME NEW R, NEW T, NEW g \in [R -> T], NEW s \in Seq(R)
    PROVE  MapsEnds(s, g, R)
<1>1. ASSUME NEW t \in Seq(R)
      PROVE  /\ Mapped(t, g) \in Seq(T) /\ Len(Mapped(t, g)) = Len(t) /\ Len(t) \in Nat
             /\ \A i \in 1 .. Len(t) : Mapped(t, g)[i] = g[t[i]]
  <2>1. DOMAIN t = 1 .. Len(t) /\ Len(t) \in Nat /\ \A i \in 1 .. Len(t) : g[t[i]] \in T
    OBVIOUS
  <2>2. Mapped(t, g) = [i \in 1 .. Len(t) |-> g[t[i]]]
    BY <2>1 DEF Mapped
  <2>3. QED BY <2>1, <2>2
<1> DEFINE u == Mapped(s, g)
           l == Len(s)
<1>2. u \in Seq(T) /\ Len(u) = l /\ l \in Nat /\ \A i \in 1 .. l : u[i] = g[s[i]]
  BY <1>1
<1>3. ASSUME NEW r \in R PROVE Mapped(Append(s, r), g) = Append(u, g[r])
  <2> DEFINE t == Append(s, r)
             v == Mapped(t, g)
  <2>1. t \in Seq(R) /\ Len(t) = l + 1 /\ t[l + 1] = r /\ \A i \in 1 .. l : t[i] = s[i]
    OBVIOUS
  <2>2. v \in Seq(T) /\ Len(v) = l + 1 /\ \A i \in 1 .. l + 1 : v[i] = g[t[i]]
    <3> HIDE DEF t, l
    <3>1. QED BY <1>1, <2>1
  <2> HIDE DEF t, v, u, l
  <2>3. /\ Append(u, g[r]) \in Seq(T) /\ Len(Append(u, g[r])) = l + 1
        /\ \A i \in 1 .. l : Append(u, g[r])[i] = u[i]
        /\ Append(u, g[r])[l + 1] = g[r]
    <3>1. g[r] \in T
      OBVIOUS
    <3>2. QED BY <1>2, <3>1
  <2>4. ASSUME NEW i \in 1 .. l + 1 PROVE v[i] = Append(u, g[r])[i]
    <3>1. CASE i \in 1 .. l
      BY <1>2, <2>1, <2>2, <2>3, <3>1
    <3>2. CASE i = l + 1
      BY <2>1, <2>2, <2>3, <3>2
    <3>3. QED BY <1>2, <3>1, <3>2
  <2>5. v = Append(u, g[r])
    BY <2>2, <2>3, <2>4, SeqEqual
  <2>6. QED BY <2>5 DEF v, t
<1>4. ASSUME s # <<>>
      PROVE  u # <<>> /\ Head(u) = g[Head(s)] /\ Mapped(Tail(s), g) = Tail(u)
  <2> DEFINE t == Tail(s)
             v == Mapped(t, g)
  <2>1. /\ t \in Seq(R) /\ Len(t) = l - 1 /\ Head(s) = s[1] /\ l # 0
        /\ \A i \in 1 .. l - 1 : t[i] = s[i + 1]
    BY <1>4
  <2>2. v \in Seq(T) /\ Len(v) = l - 1 /\ \A i \in 1 .. l - 1 : v[i] = g[t[i]]
    <3> HIDE DEF t, l
    <3>1. QED BY <1>1, <2>1
  <2> HIDE DEF t, v, u, l
  <2>3. /\ u # <<>> /\ Head(u) = u[1] /\ Tail(u) \in Seq(T) /\ Len(Tail(u)) = l - 1
        /\ \A i \in 1 .. l - 1 : Tail(u)[i] = u[i + 1]
    BY <1>2, <2>1
  <2>4. \A i \in 1 .. l - 1 : i + 1 \in 1 .. l
    BY <1>2
  <2>5. \A i \in 1 .. l - 1 : v[i] = Tail(u)[i]
    BY <1>2, <2>1, <2>2, <2>3, <2>4
  <2>6. v = Tail(u)
    BY <2>2, <2>3, <2>5, SeqEqual
  <2>7. u[1] = g[s[1]]
    BY <1>2, <2>1
  <2>8. QED BY <2>1, <2>3, <2>6, <2>7 DEF v, t
<1>5. ASSUME s = <<>> PROVE u = <<>>
  BY <1>2, <1>5
<1>6. QED BY <1>3, <1>4, <1>5 DEF MapsEnds

-----------------------------------------------------------------------------
(* What holds of 0 and of the successors, up to n, holds up to n.           *)
LEMMA Induction ==
    ASSUME NEW n \in Nat, NEW P, 0 \in P, \A k \in 0 .. n - 1 : k \in P => k + 1 \in P
    PROVE  \A k \in 0 .. n : k \in P
<1> DEFINE Q == {k \in 0 .. n : k \notin P}
<1> SUFFICES ASSUME Q # {} PROVE FALSE
  OBVIOUS
<1>1. Q \in SUBSET Nat
  OBVIOUS
<1> DEFINE m == Min(Q)
<1>2. m \in Q /\ \A k \in Q : m <= k
  BY <1>1, MinFacts
<1> HIDE DEF m
<1>3. m \in 0 .. n /\ m \notin P /\ m # 0
  BY <1>2
<1>4. m - 1 \in 0 .. n - 1 /\ m - 1 \in 0 .. n /\ (m - 1) + 1 = m /\ ~ (m <= m - 1)
  BY <1>3
<1>5. m - 1 \in P
  BY <1>2, <1>4
<1>6. QED BY <1>3, <1>4, <1>5

(* The greatest of the positions up to n.                                   *)
LEMMA MaxFacts ==
    ASSUME NEW n \in Nat, NEW I \in SUBSET (1 .. n), I # {}
    PROVE  Max(I) \in I /\ \A i \in I : i <= Max(I)
<1> DEFINE U == {m \in 0 .. n : \A i \in I : i <= m}
<1>1. U \in SUBSET Nat /\ n \in U
  OBVIOUS
<1> DEFINE m == Min(U)
<1>2. m \in U /\ \A k \in U : m <= k
  BY <1>1, MinFacts
<1> HIDE DEF m
<1>3. m \in 0 .. n /\ \A i \in I : i <= m
  BY <1>2
<1>4. m \in I
  <2> SUFFICES ASSUME m \notin I PROVE FALSE
    OBVIOUS
  <2>1. PICK i \in I : TRUE
    OBVIOUS
  <2>2. m # 0
    BY <1>3, <2>1
  <2>3. m - 1 \in 0 .. n /\ ~ (m <= m - 1)
    BY <1>3, <2>2
  <2>4. \A k \in I : k <= m - 1
    BY <1>3
  <2>5. QED BY <1>2, <2>3, <2>4
<1>5. \A i \in I : m >= i
  BY <1>3
<1>6. QED BY <1>3, <1>4, <1>5 DEF Max

(* A fold with the step g takes each set of positions in the order of the list. *)
Folds(it, n, base, g) ==
    /\ it[{}] = base
    /\ \A I \in SUBSET (1 .. n) : I # {} => it[I] = g[Max(I)][it[I \ {Max(I)}]]

(* There is such a fold, whatever is done at each position.                 *)
LEMMA Folded ==
    ASSUME NEW T, NEW base \in T, NEW n \in Nat, NEW g \in [1 .. n -> [T -> T]]
    PROVE  \E it \in [SUBSET (1 .. n) -> T] : Folds(it, n, base, g)
<1> DEFINE P == {k \in 0 .. n : \E it \in [SUBSET (1 .. k) -> T] : Folds(it, k, base, g)}
<1>1. 0 \in P
  <2> DEFINE it == [I \in SUBSET (1 .. 0) |-> base]
  <2>1. it \in [SUBSET (1 .. 0) -> T] /\ it[{}] = base
    OBVIOUS
  <2>2. \A I \in SUBSET (1 .. 0) : I = {}
    OBVIOUS
  <2>3. Folds(it, 0, base, g)
    <3> HIDE DEF it
    <3>1. QED BY <2>1, <2>2 DEF Folds
  <2>4. 0 \in 0 .. n
    OBVIOUS
  <2> HIDE DEF it
  <2>5. QED BY <2>1, <2>3, <2>4
<1>2. ASSUME NEW k \in 0 .. n - 1, k \in P PROVE k + 1 \in P
  <2>1. PICK f \in [SUBSET (1 .. k) -> T] : Folds(f, k, base, g)
    BY <1>2
  <2> DEFINE m == k + 1
             it == [I \in SUBSET (1 .. m) |-> IF m \in I THEN g[m][f[I \ {m}]] ELSE f[I]]
  <2>2. /\ m \in 1 .. n /\ g[m] \in [T -> T] /\ m \notin 1 .. k /\ m \in Nat
        /\ \A i \in 1 .. m : i = m \/ i \in 1 .. k
        /\ \A i \in 1 .. k : i \in 1 .. m
    OBVIOUS
  <2> HIDE DEF m
  <2>3. \A I \in SUBSET (1 .. m) : /\ I \ {m} \in SUBSET (1 .. k)
                                   /\ m \notin I => I \in SUBSET (1 .. k)
    BY <2>2
  <2>4. \A I \in SUBSET (1 .. m) : it[I] = IF m \in I THEN g[m][f[I \ {m}]] ELSE f[I]
    OBVIOUS
  <2>5. it \in [SUBSET (1 .. m) -> T]
    BY <2>1, <2>2, <2>3
  <2> HIDE DEF it
  <2>6. it[{}] = base
    BY <2>1, <2>4 DEF Folds
  <2>7. ASSUME NEW I \in SUBSET (1 .. m), I # {}
        PROVE  it[I] = g[Max(I)][it[I \ {Max(I)}]]
    <3>1. Max(I) \in I /\ \A i \in I : i <= Max(I)
      BY <2>2, <2>7, MaxFacts
    <3>2. I \ {Max(I)} \in SUBSET (1 .. m)
      OBVIOUS
    <3>3. CASE m \in I
      <4>1. Max(I) = m
        <5> DEFINE x == Max(I)
        <5>1. x \in I /\ x \in 1 .. m /\ m <= x
          BY <3>1, <3>3
        <5> HIDE DEF x
        <5>2. x = m
          BY <2>2, <5>1
        <5>3. QED BY <5>2 DEF x
      <4>2. it[I \ {m}] = f[I \ {m}]
        BY <2>4, <3>2, <4>1
      <4>3. QED BY <2>4, <3>3, <4>1, <4>2
    <3>4. CASE m \notin I
      <4>1. I \in SUBSET (1 .. k) /\ m \notin I \ {Max(I)}
        BY <2>3, <3>4
      <4>2. it[I] = f[I] /\ it[I \ {Max(I)}] = f[I \ {Max(I)}]
        BY <2>4, <3>2, <3>4, <4>1
      <4>3. f[I] = g[Max(I)][f[I \ {Max(I)}]]
        BY <2>1, <2>7, <4>1 DEF Folds
      <4>4. QED BY <4>2, <4>3
    <3>5. QED BY <3>3, <3>4
  <2>8. k + 1 \in 0 .. n
    OBVIOUS
  <2>9. QED BY <2>5, <2>6, <2>7, <2>8 DEF Folds, m
<1>3. \A k \in 0 .. n : k \in P
  <2> HIDE DEF P
  <2>1. QED BY <1>1, <1>2, Induction
<1>4. n \in P
  <2> HIDE DEF P
  <2>1. n \in 0 .. n
    OBVIOUS
  <2>2. QED BY <1>3, <2>1
<1>5. QED BY <1>4

(* The first positions, which a fold takes one after the other.             *)
LEMMA FoldSteps ==
    ASSUME NEW n \in Nat, NEW k \in 1 .. n
    PROVE  /\ 1 .. k \in SUBSET (1 .. n) /\ 1 .. k # {}
           /\ Max(1 .. k) = k /\ (1 .. k) \ {k} = 1 .. (k - 1)
<1>1. 1 .. k \in SUBSET (1 .. n) /\ k \in 1 .. k
  OBVIOUS
<1>2. Max(1 .. k) \in 1 .. k /\ \A i \in 1 .. k : i <= Max(1 .. k)
  BY <1>1, MaxFacts
<1>3. Max(1 .. k) = k
  BY <1>1, <1>2
<1>4. QED BY <1>1, <1>3

(* The values of a fold, one after each position.                           *)
Run(st, T, n, base, g) ==
    /\ st \in [0 .. n -> T]
    /\ st[0] = base
    /\ \A k \in 1 .. n : st[k - 1] \in T /\ st[k] = g[k][st[k - 1]]

(* J takes the steps of a fold where they are defined.                      *)
Unfolds(J, T, n, base, g) ==
    /\ J[{}] = base
    /\ \A I \in SUBSET (1 .. n) :
          I # {} /\ J[I \ {Max(I)}] \in T => J[I] = g[Max(I)][J[I \ {Max(I)}]]

(* J comes to the value that the steps end with. *)
HasRun(J, T, n, base, g) == \E st : Run(st, T, n, base, g) /\ J[1 .. n] = st[n]

(* A function that takes the steps of a fold where these are defined has gone
   through its values when it comes to the whole list.                      *)
LEMMA FoldRun ==
    ASSUME NEW T, NEW base \in T, NEW n \in Nat, NEW g \in [1 .. n -> [T -> T]],
           NEW J, Unfolds(J, T, n, base, g)
    PROVE  HasRun(J, T, n, base, g)
<1> DEFINE st == [k \in 0 .. n |-> J[1 .. k]]
           P == {k \in 0 .. n : J[1 .. k] \in T}
<1>1. J[1 .. 0] = base
  <2>1. 1 .. 0 = {}
    OBVIOUS
  <2>2. QED BY <2>1 DEF Unfolds
<1>2. \A k \in 1 .. n : J[1 .. (k - 1)] \in T => J[1 .. k] = g[k][J[1 .. (k - 1)]]
  BY FoldSteps DEF Unfolds
<1>3. \A k \in 0 .. n : k \in P
  <2>1. 0 \in P
    BY <1>1
  <2>2. ASSUME NEW k \in 0 .. n - 1, k \in P PROVE k + 1 \in P
    <3>1. k + 1 \in 1 .. n /\ k + 1 \in 0 .. n /\ (k + 1) - 1 = k
      OBVIOUS
    <3>2. J[1 .. (k + 1)] = g[k + 1][J[1 .. k]]
      BY <1>2, <2>2, <3>1
    <3>3. QED BY <2>2, <3>1, <3>2
  <2> HIDE DEF P
  <2>3. QED BY <2>1, <2>2, Induction
<1>4. \A k \in 0 .. n : st[k] = J[1 .. k] /\ st[k] \in T
  BY <1>3
<1>5. 0 \in 0 .. n /\ n \in 0 .. n /\ \A k \in 1 .. n : k \in 0 .. n /\ k - 1 \in 0 .. n
  OBVIOUS
<1>6. st \in [0 .. n -> T]
  BY <1>4
<1> HIDE DEF st
<1>7. Run(st, T, n, base, g) /\ J[1 .. n] = st[n]
  BY <1>1, <1>2, <1>4, <1>5, <1>6 DEF Run
<1>8. QED BY <1>7 DEF HasRun
=============================================================================
