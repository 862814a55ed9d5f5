--------------------------- MODULE OrderingProofs ---------------------------
(***************************************************************************)
(* Facts about sequences of numbers, and about sorted ones: a finite set   *)
(* has a sorted sequence, and what has been read of one, from its start    *)
(* on, is a prefix of it.                                                  *)
(***************************************************************************)
EXTENDS Ordering, Functions, SequenceTheorems, FiniteSetTheorems, WellFoundedInduction, TLAPS

-----------------------------------------------------------------------------
(* Sequences *)

\* The members of a sequence, and of one with an element more.
LEMMA ElemsAppend ==
  ASSUME NEW q \in Seq(Nat), NEW e \in Nat
  PROVE  /\ Append(q, e) \in Seq(Nat)
         /\ Len(Append(q, e)) = Len(q) + 1
         /\ Elems(Append(q, e)) = Elems(q) \cup {e}
<1>1. /\ Append(q, e) \in Seq(Nat) /\ Append(q, e) # <<>>
      /\ Len(Append(q, e)) = Len(q) + 1
      /\ \A i \in 1..Len(q) : Append(q, e)[i] = q[i]
      /\ Append(q, e)[Len(q) + 1] = e
  BY AppendProperties
<1>2. /\ Len(q) \in Nat /\ DOMAIN q = 1..Len(q)
      /\ DOMAIN Append(q, e) = 1..(Len(q) + 1)
  BY <1>1, LenProperties
<1>3. \A i \in 1..(Len(q) + 1) : i \in 1..Len(q) \/ i = Len(q) + 1
  BY <1>2
<1>4. 1..Len(q) \subseteq 1..(Len(q) + 1) /\ Len(q) + 1 \in 1..(Len(q) + 1)
  BY <1>2
<1> QED
  BY <1>1, <1>2, <1>3, <1>4 DEF Elems

LEMMA IncreasingAppend ==
  ASSUME NEW q \in Seq(Nat), NEW e \in Nat, Increasing(q),
         \A x \in Elems(q) : x < e
  PROVE  Increasing(Append(q, e))
<1>1. /\ Append(q, e) \in Seq(Nat)
      /\ Len(Append(q, e)) = Len(q) + 1
      /\ \A i \in 1..Len(q) : Append(q, e)[i] = q[i]
      /\ Append(q, e)[Len(q) + 1] = e
  BY AppendProperties
<1>2. /\ Len(q) \in Nat /\ DOMAIN q = 1..Len(q)
      /\ DOMAIN Append(q, e) = 1..(Len(q) + 1)
  BY <1>1, LenProperties
<1>3. SUFFICES ASSUME NEW i \in 1..(Len(q) + 1), NEW j \in 1..(Len(q) + 1), i < j
               PROVE  Append(q, e)[i] < Append(q, e)[j]
  BY <1>2 DEF Increasing
<1>4. i \in 1..Len(q)
  BY <1>2, <1>3
<1>5. CASE j \in 1..Len(q)
  BY <1>1, <1>2, <1>3, <1>4, <1>5 DEF Increasing
<1>6. CASE j = Len(q) + 1
  BY <1>1, <1>2, <1>4, <1>6 DEF Elems
<1> QED
  BY <1>2, <1>5, <1>6

LEMMA InjectiveAppend ==
  ASSUME NEW q \in Seq(Nat), NEW e \in Nat, IsInjective(q), e \notin Elems(q)
  PROVE  IsInjective(Append(q, e))
<1>1. /\ Append(q, e) \in Seq(Nat)
      /\ Len(Append(q, e)) = Len(q) + 1
      /\ \A i \in 1..Len(q) : Append(q, e)[i] = q[i]
      /\ Append(q, e)[Len(q) + 1] = e
  BY AppendProperties
<1>2. /\ Len(q) \in Nat /\ DOMAIN q = 1..Len(q)
      /\ DOMAIN Append(q, e) = 1..(Len(q) + 1)
  BY <1>1, LenProperties
<1>3. \A i \in 1..(Len(q) + 1) : i \in 1..Len(q) \/ i = Len(q) + 1
  BY <1>2
<1>4. \A i \in 1..Len(q) : q[i] # e
  BY <1>2 DEF Elems
<1> QED
  BY <1>1, <1>2, <1>3, <1>4 DEF IsInjective

\* The head and the tail of a sequence that has one.
LEMMA ElemsTail ==
  ASSUME NEW q \in Seq(Nat), q # <<>>
  PROVE  /\ Head(q) \in Nat /\ Tail(q) \in Seq(Nat)
         /\ Len(Tail(q)) = Len(q) - 1
         /\ Elems(q) = {Head(q)} \cup Elems(Tail(q))
<1>1. /\ Head(q) \in Nat /\ Head(q) = q[1] /\ Tail(q) \in Seq(Nat)
      /\ Len(Tail(q)) = Len(q) - 1
      /\ \A i \in 1..Len(Tail(q)) : Tail(q)[i] = q[i + 1]
  BY HeadTailProperties
<1>2. /\ Len(q) \in Nat \ {0} /\ DOMAIN q = 1..Len(q)
      /\ DOMAIN Tail(q) = 1..(Len(q) - 1)
  BY <1>1, LenProperties, EmptySeq
<1>3. \A i \in 1..Len(q) : i = 1 \/ (i - 1 \in 1..(Len(q) - 1) /\ q[i] = Tail(q)[i - 1])
  <2> TAKE i \in 1..Len(q)
  <2>1. CASE i = 1
    BY <2>1
  <2>2. CASE i # 1
    <3>1. i - 1 \in 1..(Len(q) - 1) /\ (i - 1) + 1 = i
      BY <1>2, <2>2
    <3> QED
      BY <1>1, <3>1
  <2> QED
    BY <2>1, <2>2
<1>4. 1 \in 1..Len(q) /\ \A i \in 1..(Len(q) - 1) : i + 1 \in 1..Len(q)
  BY <1>2
<1>5. Elems(q) \subseteq {Head(q)} \cup Elems(Tail(q))
  <2> SUFFICES ASSUME NEW x \in Elems(q)
               PROVE  x = Head(q) \/ x \in Elems(Tail(q))
    OBVIOUS
  <2>1. PICK i \in 1..Len(q) : x = q[i]
    BY <1>2 DEF Elems
  <2>2. CASE i = 1
    BY <1>1, <2>1, <2>2
  <2>3. CASE i - 1 \in 1..(Len(q) - 1) /\ q[i] = Tail(q)[i - 1]
    BY <1>2, <2>1, <2>3 DEF Elems
  <2> QED
    BY <1>3, <2>2, <2>3
<1>6. Head(q) \in Elems(q)
  BY <1>1, <1>2, <1>4 DEF Elems
<1>7. Elems(Tail(q)) \subseteq Elems(q)
  BY <1>1, <1>2, <1>4 DEF Elems
<1> QED
  BY <1>1, <1>5, <1>6, <1>7

\* The head of an increasing sequence is its least member.
LEMMA IncreasingTail ==
  ASSUME NEW q \in Seq(Nat), q # <<>>, Increasing(q)
  PROVE  /\ Increasing(Tail(q))
         /\ \A x \in Elems(Tail(q)) : Head(q) < x
<1>1. /\ Head(q) = q[1] /\ Tail(q) \in Seq(Nat)
      /\ Len(Tail(q)) = Len(q) - 1
      /\ \A i \in 1..Len(Tail(q)) : Tail(q)[i] = q[i + 1]
  BY HeadTailProperties
<1>2. /\ Len(q) \in Nat \ {0} /\ DOMAIN q = 1..Len(q)
      /\ DOMAIN Tail(q) = 1..(Len(q) - 1)
  BY <1>1, LenProperties, EmptySeq
<1>3. 1 \in 1..Len(q) /\ \A i \in 1..(Len(q) - 1) : i + 1 \in 1..Len(q) /\ 1 < i + 1
  BY <1>2
<1>4. \A i, j \in 1..(Len(q) - 1) : i < j => i + 1 < j + 1
  BY <1>2
<1> QED
  BY <1>1, <1>2, <1>3, <1>4 DEF Increasing, Elems

LEMMA ElemsEmpty == Elems(<<>>) = {} /\ Increasing(<<>>) /\ IsInjective(<<>>)
  BY DEF Elems, Increasing, IsInjective

\* A sequence over a set is one over any set that has all its members.
LEMMA SeqOver ==
  ASSUME NEW q \in Seq(Nat), NEW S
  PROVE  q \in Seq(S) <=> Elems(q) \subseteq S
<1>1. Len(q) \in Nat /\ DOMAIN q = 1..Len(q) /\ q \in [1..Len(q) -> Nat]
  BY LenProperties
<1>2. ASSUME q \in Seq(S)
      PROVE  Elems(q) \subseteq S
  BY <1>1, <1>2, ElementOfSeq DEF Elems
<1>3. ASSUME Elems(q) \subseteq S
      PROVE  q \in Seq(S)
  <2>1. \A i \in 1..Len(q) : q[i] \in S
    BY <1>1, <1>3 DEF Elems
  <2>2. q \in [1..Len(q) -> S]
    BY <1>1, <2>1
  <2> QED
    BY <1>1, <2>2, SeqDef
<1> QED
  BY <1>2, <1>3

\* Sorting: a finite set of numbers is the range of an increasing sequence.  The
\* rank of a number is how many are not above it.
LEMMA SortedExists ==
  ASSUME NEW S \in SUBSET Nat, IsFiniteSet(S)
  PROVE  \E q \in [1..Cardinality(S) -> S] : Increasing(q)
<1> DEFINE n == Cardinality(S)
           Upto(x) == {y \in S : y <= x}
           rank == [x \in S |-> Cardinality(Upto(x))]
<1>1. n \in Nat
  BY FS_CardinalityType
<1>2. \A x \in S : IsFiniteSet(Upto(x)) /\ rank[x] \in 1..n
  <2> TAKE x \in S
  <2>1. /\ IsFiniteSet(Upto(x)) /\ Cardinality(Upto(x)) <= n
    BY FS_Subset
  <2>2. Cardinality(Upto(x)) \in Nat
    BY <2>1, FS_CardinalityType
  <2>3. Cardinality(Upto(x)) # 0
    <3>1. x \in Upto(x)
      OBVIOUS
    <3> QED
      BY <2>1, <3>1, FS_EmptySet
  <2> QED
    BY <1>1, <2>1, <2>2, <2>3
<1>3. \A x, y \in S : x < y => rank[x] < rank[y]
  <2> SUFFICES ASSUME NEW x \in S, NEW y \in S, x < y
               PROVE  rank[x] < rank[y]
    OBVIOUS
  <2>1. Upto(x) \in SUBSET Upto(y) /\ y \in Upto(y) /\ y \notin Upto(x)
    <3>1. \A z \in Upto(x) : z \in S /\ z <= y
      OBVIOUS
    <3>2. y <= y /\ ~(y <= x)
      OBVIOUS
    <3> QED
      BY <3>1, <3>2
  <2>2. Upto(x) # Upto(y)
    BY <2>1
  <2> HIDE DEF Upto
  <2>3. /\ Cardinality(Upto(x)) <= Cardinality(Upto(y))
        /\ Cardinality(Upto(y)) # Cardinality(Upto(x))
    BY <1>2, <2>1, <2>2, FS_Subset
  <2>4. Cardinality(Upto(x)) \in Nat /\ Cardinality(Upto(y)) \in Nat
    BY <1>2, FS_CardinalityType
  <2> QED
    BY <2>3, <2>4
<1> HIDE DEF Upto
<1>4. rank \in Surjection(S, 1..n)
  <2>1. rank \in [S -> 1..n]
    BY <1>2
  <2>2. \A x, y \in S : x # y => rank[x] # rank[y]
    <3> HIDE DEF rank
    <3> SUFFICES ASSUME NEW x \in S, NEW y \in S, x # y
                 PROVE  rank[x] # rank[y]
      OBVIOUS
    <3>1. x < y \/ y < x
      OBVIOUS
    <3>2. rank[x] \in Nat /\ rank[y] \in Nat
      BY <1>2
    <3>3. rank[x] < rank[y] \/ rank[y] < rank[x]
      BY <1>3, <3>1
    <3> QED
      BY <3>2, <3>3
  <2> HIDE DEF rank
  <2>3. rank \in Injection(S, 1..n)
    BY <2>1, <2>2 DEF Injection, IsInjective
  <2>4. IsFiniteSet(1..n) /\ Cardinality(1..n) = n
    <3>1. 1 \in Int /\ n \in Int /\ (IF 1 > n THEN 0 ELSE n - 1 + 1) = n
      BY <1>1
    <3> QED
      BY <3>1, FS_Interval
  <2>5. Cardinality(S) = Cardinality(1..n)
    BY <2>4
  <2> QED
    BY <2>3, <2>4, <2>5, FS_Injection
<1> HIDE DEF rank
<1>5. \A i \in 1..n : \E x \in S : rank[x] = i
  BY <1>4 DEF Surjection
<1> DEFINE q == [i \in 1..n |-> CHOOSE x \in S : rank[x] = i]
<1>6. \A i \in 1..n : q[i] \in S /\ rank[q[i]] = i
  BY <1>5
<1>7. q \in [1..n -> S]
  BY <1>6
<1>8. Increasing(q)
  <2>1. DOMAIN q = 1..n
    OBVIOUS
  <2> HIDE DEF q
  <2>2. SUFFICES ASSUME NEW i \in 1..n, NEW j \in 1..n, i < j
                 PROVE  q[i] < q[j]
    BY <2>1 DEF Increasing
  <2>3. q[i] \in S /\ q[j] \in S /\ rank[q[i]] = i /\ rank[q[j]] = j
    BY <1>6
  <2>4. q[i] # q[j] /\ ~(q[j] < q[i])
    <3>1. ASSUME q[j] < q[i]
          PROVE  FALSE
      <4>1. rank[q[j]] < rank[q[i]]
        BY <1>3, <2>3, <3>1
      <4> QED
        BY <2>2, <2>3, <4>1
    <3>2. q[i] # q[j]
      BY <2>2, <2>3
    <3> QED
      BY <3>1, <3>2
  <2>5. q[i] \in Nat /\ q[j] \in Nat
    BY <2>3
  <2> QED
    BY <2>4, <2>5
<1> QED
  BY <1>7, <1>8

\* What a sort by timestamp returns.
LEMMA SortedProperties ==
  ASSUME NEW S \in SUBSET Nat, IsFiniteSet(S)
  PROVE  /\ Sorted(S) \in Seq(Nat)
         /\ Increasing(Sorted(S))
         /\ Elems(Sorted(S)) = S
<1> DEFINE n == Cardinality(S)
           q == Sorted(S)
<1>1. n \in Nat
  BY FS_CardinalityType
<1>2. q \in [1..n -> S] /\ Increasing(q)
  BY SortedExists DEF Sorted, Increasing
<1> HIDE DEF q, n
<1>3. q \in Seq(Nat)
  <2>1. q \in [1..n -> Nat]
    BY <1>2
  <2> QED
    BY <1>1, <2>1, SeqDef
<1>4. q \in Injection(1..n, S)
  <2>1. SUFFICES ASSUME NEW i \in 1..n, NEW j \in 1..n, i # j
                 PROVE  q[i] # q[j]
    BY <1>2 DEF Injection, IsInjective
  <2>2. i < j \/ j < i
    BY <1>1, <2>1
  <2>3. q[i] \in Nat /\ q[j] \in Nat
    BY <1>2
  <2>4. q[i] < q[j] \/ q[j] < q[i]
    BY <1>2, <2>2 DEF Increasing
  <2> QED
    BY <2>3, <2>4
<1>5. Cardinality(1..n) = n
  <2>1. 1 \in Int /\ n \in Int /\ (IF 1 > n THEN 0 ELSE n - 1 + 1) = n
    BY <1>1
  <2> QED
    BY <2>1, FS_Interval
<1>6. q \in Surjection(1..n, S)
  BY <1>4, <1>5, FS_Injection DEF n
<1>7. Elems(q) = S
  BY <1>2, <1>6 DEF Elems, Surjection
<1> QED
  BY <1>2, <1>3, <1>7 DEF q

\* A finite set of numbers has a greatest one.
LEMMA GreatestOfFinite ==
  ASSUME NEW S \in SUBSET Nat, IsFiniteSet(S), S # {}
  PROVE  \E x \in S : \A y \in S : x >= y
<1>1. PICK q \in Seq(Nat) : Increasing(q) /\ Elems(q) = S
  BY SortedProperties
<1>2. Len(q) \in Nat /\ DOMAIN q = 1..Len(q) /\ \A i \in 1..Len(q) : q[i] \in Nat
  BY LenProperties, ElementOfSeq
<1>3. Len(q) # 0
  <2>1. \E i \in DOMAIN q : TRUE
    BY <1>1 DEF Elems
  <2>2. QED
    BY <1>2, <2>1
<1>4. Len(q) \in DOMAIN q
  BY <1>2, <1>3
<1>5. q[Len(q)] \in S
  BY <1>1, <1>4 DEF Elems
<1>6. \A i \in DOMAIN q : q[Len(q)] >= q[i]
  <2> TAKE i \in DOMAIN q
  <2>1. i = Len(q) \/ i < Len(q)
    BY <1>2
  <2>2. i < Len(q) => q[i] < q[Len(q)]
    BY <1>1, <1>4 DEF Increasing
  <2> QED
    BY <1>2, <1>4, <2>1, <2>2
<1> QED
  BY <1>1, <1>5, <1>6 DEF Elems

-----------------------------------------------------------------------------
(* Prefixes *)

\* Of sequences that begin alike, the shorter holds the lesser members.
LEMMA PrefixIsPart ==
  ASSUME NEW all \in Seq(Nat), Increasing(all), NEW r \in Seq(Nat), Len(r) <= Len(all),
         \A i \in 1..Len(r) : r[i] = all[i]
  PROVE  /\ Increasing(r) /\ Elems(r) \subseteq Elems(all)
         /\ \A x \in Elems(r), d \in Elems(all) : d < x => d \in Elems(r)
         /\ Len(r) = Len(all) => Elems(r) = Elems(all)
<1>1. /\ Len(r) \in Nat /\ DOMAIN r = 1..Len(r)
      /\ Len(all) \in Nat /\ DOMAIN all = 1..Len(all)
  BY LenProperties
<1>2. \A i \in 1..Len(r) : i \in 1..Len(all) /\ r[i] = all[i]
  BY <1>1
<1>3. Increasing(r)
  BY <1>1, <1>2 DEF Increasing
<1>4. Elems(r) \subseteq Elems(all)
  BY <1>1, <1>2 DEF Elems
<1>5. ASSUME NEW x \in Elems(r), NEW d \in Elems(all), d < x
      PROVE  d \in Elems(r)
  <2>1. PICK i \in 1..Len(r) : x = r[i] /\ x = all[i] /\ i \in 1..Len(all)
    BY <1>1, <1>2, <1>5 DEF Elems
  <2>2. PICK j \in 1..Len(all) : d = all[j]
    BY <1>1, <1>5 DEF Elems
  <2>3. all[i] \in Nat /\ all[j] \in Nat
    BY <2>1, <2>2, ElementOfSeq
  <2>4. ~(i < j) /\ i # j
    <3>1. i < j => all[i] < all[j]
      BY <1>1, <2>1, <2>2 DEF Increasing
    <3>2. all[j] < all[i]
      BY <1>5, <2>1, <2>2
    <3> QED
      BY <2>3, <3>1, <3>2
  <2>5. j \in 1..Len(r)
    BY <1>1, <2>1, <2>2, <2>4
  <2> QED
    BY <1>1, <1>2, <2>2, <2>5 DEF Elems
<1>6. Len(r) = Len(all) => Elems(r) = Elems(all)
  BY <1>1, <1>2 DEF Elems
<1> QED
  BY <1>3, <1>4, <1>5, <1>6

\* What has been read of a sorted set, if nothing came before its end meanwhile,
\* is a prefix of the sorted sequence.
LEMMA PartIsPrefix ==
  ASSUME NEW all \in Seq(Nat), Increasing(all), NEW q \in Seq(Nat), Increasing(q),
         Elems(q) \subseteq Elems(all),
         \A x \in Elems(q), d \in Elems(all) : d < x => d \in Elems(q)
  PROVE  Len(q) <= Len(all) /\ \A i \in 1..Len(q) : q[i] = all[i]
<1>1. /\ Len(q) \in Nat /\ DOMAIN q = 1..Len(q)
      /\ Len(all) \in Nat /\ DOMAIN all = 1..Len(all)
      /\ \A i \in 1..Len(q) : q[i] \in Nat
      /\ \A i \in 1..Len(all) : all[i] \in Nat
  BY LenProperties, ElementOfSeq
<1>2. \A i \in 1..Len(q) : q[i] \in Elems(all) /\ q[i] \in Elems(q)
  BY <1>1 DEF Elems
<1>3. \A i \in 1..Len(q) : \E k \in 1..Len(all) : q[i] = all[k]
  BY <1>1, <1>2 DEF Elems
<1> DEFINE Wrong == {i \in Nat : i \in 1..Len(q) /\ ~(i <= Len(all) /\ q[i] = all[i])}
<1>4. ASSUME Wrong # {}
      PROVE  FALSE
  <2>1. PICK i \in Wrong : \A j \in Wrong : ~(j < i)
    <3>1. PICK i \in Wrong : \A y \in Wrong : ~(<<y, i>> \in OpToRel(<, Nat))
      BY <1>4, NatLessThanWellFounded, WFMin
    <3> QED
      BY <3>1 DEF OpToRel
  <2>2. i \in 1..Len(q) /\ i \in Nat /\ ~(i <= Len(all) /\ q[i] = all[i])
    OBVIOUS
  <2>3. \A j \in 1..Len(q) : j < i => j <= Len(all) /\ q[j] = all[j]
    BY <2>1, <1>1
  <2> HIDE DEF Wrong
  <2>4. PICK k \in 1..Len(all) : q[i] = all[k]
    BY <1>3, <2>2
  <2>5. ~(k < i)
    <3>1. ASSUME k < i
          PROVE  FALSE
      <4>1. k \in 1..Len(q) /\ q[k] = all[k]
        BY <1>1, <2>2, <2>3, <2>4, <3>1
      <4>2. q[k] < q[i]
        BY <1>1, <2>2, <3>1, <4>1 DEF Increasing
      <4>3. q[k] = q[i] /\ q[i] \in Nat
        BY <1>1, <2>2, <2>4, <4>1
      <4> QED
        BY <4>2, <4>3
    <3> QED
      BY <3>1
  <2>6. i < k /\ i \in 1..Len(all)
    BY <1>1, <2>2, <2>4, <2>5
  <2>7. all[i] < q[i] /\ all[i] \in Elems(all)
    BY <1>1, <2>4, <2>6 DEF Increasing, Elems
  <2>8. all[i] \in Elems(q)
    BY <1>2, <2>2, <2>7
  <2>9. PICK m \in 1..Len(q) : q[m] = all[i]
    BY <1>1, <2>8 DEF Elems
  <2>10. m < i
    <3>1. ASSUME ~(m < i)
          PROVE  FALSE
      <4>1. m = i \/ i < m
        BY <1>1, <2>2, <2>9, <3>1
      <4>2. q[m] = q[i] \/ q[i] < q[m]
        BY <1>1, <2>2, <2>9, <4>1 DEF Increasing
      <4>3. q[m] < q[i] /\ q[m] \in Nat /\ q[i] \in Nat
        BY <1>1, <2>2, <2>7, <2>9
      <4> QED
        BY <4>2, <4>3
    <3> QED
      BY <3>1
  <2>11. q[m] = all[m] /\ m \in 1..Len(all)
    BY <1>1, <2>3, <2>9, <2>10
  <2>12. all[m] < all[i]
    BY <1>1, <2>6, <2>10, <2>11 DEF Increasing
  <2>13. all[m] = all[i] /\ all[i] \in Nat
    BY <1>1, <2>6, <2>9, <2>11
  <2> QED
    BY <2>12, <2>13
<1>5. \A i \in 1..Len(q) : i <= Len(all) /\ q[i] = all[i]
  BY <1>4, <1>1
<1>6. Len(q) <= Len(all)
  <2>1. CASE Len(q) = 0
    BY <2>1, <1>1
  <2>2. CASE Len(q) # 0
    <3>1. Len(q) \in 1..Len(q)
      BY <1>1, <2>2
    <3> QED
      BY <3>1, <1>5
  <2> QED
    BY <2>1, <2>2
<1> QED
  BY <1>5, <1>6

\* A prefix, with the members that follow it up to a place.
LEMMA PrefixGrows ==
  ASSUME NEW all \in Seq(Nat), NEW q \in Seq(Nat), Len(q) <= Len(all),
         \A i \in 1..Len(q) : q[i] = all[i],
         NEW m \in Nat, Len(q) <= m, m <= Len(all),
         NEW page, page = SubSeq(all, Len(q) + 1, m)
  PROVE  /\ page \in Seq(Nat) /\ Len(page) = m - Len(q)
         /\ q \o page \in Seq(Nat) /\ Len(q \o page) = m
         /\ \A i \in 1..m : (q \o page)[i] = all[i]
<1>1. Len(q) \in Nat /\ Len(all) \in Nat
  BY LenProperties
<1>2. \A i \in (Len(q) + 1)..m : all[i] \in Nat
  BY <1>1, ElementOfSeq
<1>3. /\ page \in Seq(Nat) /\ Len(page) = m - Len(q)
      /\ \A i \in 1..(m - Len(q)) : page[i] = all[Len(q) + i]
  <2>1. Len(q) + 1 \in Int /\ m \in Int
    BY <1>1
  <2>2. /\ page \in Seq(Nat)
        /\ Len(page) = IF Len(q) + 1 <= m THEN m - (Len(q) + 1) + 1 ELSE 0
        /\ \A i \in 1..(m - (Len(q) + 1) + 1) : page[i] = all[(Len(q) + 1) + i - 1]
    BY <1>1, <1>2, <2>1, SubSeqProperties
  <2>3. /\ m - (Len(q) + 1) + 1 = m - Len(q)
        /\ \A i \in Nat : (Len(q) + 1) + i - 1 = Len(q) + i
    BY <1>1
  <2>4. ~(Len(q) + 1 <= m) => m - Len(q) = 0
    BY <1>1
  <2> QED
    BY <2>2, <2>3, <2>4
<1>4. /\ q \o page \in Seq(Nat) /\ Len(q \o page) = Len(q) + Len(page)
      /\ \A i \in 1..(Len(q) + Len(page)) :
           (q \o page)[i] = IF i <= Len(q) THEN q[i] ELSE page[i - Len(q)]
  <2>1. page \in Seq(Nat)
    BY <1>3
  <2> QED
    BY <2>1, ConcatProperties
<1>5. Len(q) + Len(page) = m
  BY <1>1, <1>3
<1>6. ASSUME NEW i \in 1..m
      PROVE  (q \o page)[i] = all[i]
  <2>1. CASE i <= Len(q)
    <3>1. i \in 1..Len(q)
      BY <1>1, <2>1
    <3> QED
      BY <1>4, <1>5, <2>1, <3>1
  <2>2. CASE ~(i <= Len(q))
    <3>1. i - Len(q) \in 1..(m - Len(q)) /\ Len(q) + (i - Len(q)) = i
      BY <1>1, <2>2
    <3> QED
      BY <1>3, <1>4, <1>5, <2>2, <3>1
  <2> QED
    BY <2>1, <2>2
<1> QED
  BY <1>3, <1>4, <1>5, <1>6
=============================================================================
