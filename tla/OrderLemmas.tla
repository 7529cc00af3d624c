---------------------------- MODULE OrderLemmas ----------------------------
(***************************************************************************)
(* Lemmas about Ordering: a finite set with a strict total order has an    *)
(* element of every rank, and the sequence of its elements by rank has     *)
(* each of them once, in order.  The order is a set of pairs here; that    *)
(* lets a lemma be used with any order a module defines.  And every set of *)
(* numbers has a least one, which stands in for induction.                 *)
(***************************************************************************)
EXTENDS Ordering, FiniteSetTheorems, WellFoundedInduction, TLAPS

\* Every set of numbers has a least one.
LEMMA LeastNumber ==
    ASSUME NEW T, T \subseteq Nat, T # {}
    PROVE  \E x \in T : \A y \in T : x <= y
<1> DEFINE R == {ss \in Nat \X Nat : ss[1] < ss[2]}
<1>1. IsWellFoundedOn(R, Nat)
  BY NatLessThanWellFounded DEF OpToRel
<1>2. \A x, y \in Nat : y < x => <<y, x>> \in R
  OBVIOUS
<1> HIDE DEF R
<1>3. PICK x \in T : \A y \in T : ~(<<y, x>> \in R)
  BY <1>1, WFMin
<1>4. \A y \in T : ~(y < x)
  BY <1>2, <1>3
<1>5. \A y \in T : x <= y
  BY <1>4
<1> QED BY <1>5

\* R orders S strictly.
Orders(R, S) ==
    /\ \A x \in S : <<x, x>> \notin R
    /\ \A x, y \in S : x = y \/ <<x, y>> \in R \/ <<y, x>> \in R
    /\ \A x, y, z \in S : <<x, y>> \in R /\ <<y, z>> \in R => <<x, z>> \in R

Before(R, S, x) == {y \in S : <<y, x>> \in R}
Rank(R, S, x) == Cardinality(Before(R, S, x))

\* The rank of an element is a number below the size of the set, and the order
\* of the ranks is the order of the elements.
LEMMA RankIsOrder ==
    ASSUME NEW S, NEW R, IsFiniteSet(S), Orders(R, S)
    PROVE  /\ Cardinality(S) \in Nat
           /\ \A x \in S : Rank(R, S, x) \in 0..(Cardinality(S) - 1)
           /\ \A x, y \in S : <<x, y>> \in R <=> Rank(R, S, x) < Rank(R, S, y)
<1>1. Cardinality(S) \in Nat
  BY FS_CardinalityType
<1>2. ASSUME NEW x \in S
      PROVE  /\ IsFiniteSet(Before(R, S, x)) /\ Rank(R, S, x) \in Nat
             /\ Rank(R, S, x) <= Cardinality(S) - 1
  <2>1. Before(R, S, x) \subseteq S \ {x}
    BY DEF Before, Orders
  <2>2. IsFiniteSet(S \ {x}) /\ Cardinality(S \ {x}) = Cardinality(S) - 1
    BY FS_RemoveElement
  <2>3. /\ IsFiniteSet(Before(R, S, x))
        /\ Cardinality(Before(R, S, x)) <= Cardinality(S \ {x})
    BY <2>1, <2>2, FS_Subset
  <2> QED BY <2>2, <2>3, FS_CardinalityType DEF Rank
<1>3. ASSUME NEW x \in S, NEW y \in S, <<x, y>> \in R
      PROVE  Rank(R, S, x) < Rank(R, S, y)
  <2>1. Before(R, S, x) \subseteq Before(R, S, y)
    BY <1>3 DEF Before, Orders
  <2>2. x \in Before(R, S, y) /\ x \notin Before(R, S, x)
    BY <1>3 DEF Before, Orders
  <2>3. /\ Cardinality(Before(R, S, x)) <= Cardinality(Before(R, S, y))
        /\ Cardinality(Before(R, S, y)) = Cardinality(Before(R, S, x)) =>
             Before(R, S, y) = Before(R, S, x)
    BY <1>2, <2>1, FS_Subset
  <2> QED BY <1>2, <2>2, <2>3 DEF Rank
<1>4. ASSUME NEW x \in S, NEW y \in S, Rank(R, S, x) < Rank(R, S, y)
      PROVE  <<x, y>> \in R
  <2>1. x # y /\ <<y, x>> \notin R
    BY <1>2, <1>3, <1>4
  <2> QED BY <2>1 DEF Orders
<1>5. \A x \in S : Rank(R, S, x) \in 0..(Cardinality(S) - 1)
  BY <1>1, <1>2
<1> QED BY <1>1, <1>3, <1>4, <1>5

\* There is an element of every rank.
LEMMA RankIsTaken ==
    ASSUME NEW S, NEW R, IsFiniteSet(S), Orders(R, S), NEW n \in 1..Cardinality(S)
    PROVE  \E x \in S : Rank(R, S, x) = n - 1
<1> DEFINE N == Cardinality(S)
           T == 0..(N - 1)
           rank == [x \in S |-> Rank(R, S, x)]
<1>1. /\ N \in Nat
      /\ \A x \in S : Rank(R, S, x) \in T
      /\ \A x, y \in S : <<x, y>> \in R <=> Rank(R, S, x) < Rank(R, S, y)
  BY RankIsOrder
<1>2. rank \in Injection(S, T)
  <2>1. rank \in [S -> T]
    BY <1>1
  <2>2. \A x, y \in S : rank[x] = rank[y] => x = y
    BY <1>1 DEF Orders
  <2> QED BY <2>1, <2>2 DEF Injection, IsInjective
<1>3. IsFiniteSet(T) /\ Cardinality(T) = N
  <2>1. 0 \in Int /\ N - 1 \in Int
    BY <1>1
  <2>2. IsFiniteSet(T) /\ Cardinality(T) = IF 0 > N - 1 THEN 0 ELSE N - 1 - 0 + 1
    BY <2>1, FS_Interval
  <2> QED BY <1>1, <2>2
<1>4. rank \in Surjection(S, T)
  BY <1>2, <1>3, FS_Injection
<1>5. n - 1 \in T
  BY <1>1
<1>6. \E x \in S : rank[x] = n - 1
  BY <1>4, <1>5 DEF Surjection
<1> QED BY <1>6

\* The elements by rank form a sequence in order.
LEMMA ByRank ==
    ASSUME NEW S, NEW R, IsFiniteSet(S), Orders(R, S), NEW q \in [1..Cardinality(S) -> S],
           \A n \in 1..Cardinality(S) : Rank(R, S, q[n]) = n - 1
    PROVE  \A m, n \in 1..Cardinality(S) : m < n <=> <<q[m], q[n]>> \in R
<1>1. /\ Cardinality(S) \in Nat
      /\ \A x, y \in S : <<x, y>> \in R <=> Rank(R, S, x) < Rank(R, S, y)
  BY RankIsOrder
<1> QED BY <1>1

\* All of them are in it.
LEMMA AllByRank ==
    ASSUME NEW S, NEW R, IsFiniteSet(S), Orders(R, S), NEW q \in [1..Cardinality(S) -> S],
           \A n \in 1..Cardinality(S) : Rank(R, S, q[n]) = n - 1
    PROVE  \A x \in S : Rank(R, S, x) + 1 \in 1..Cardinality(S) /\ q[Rank(R, S, x) + 1] = x
<1>1. /\ Cardinality(S) \in Nat
      /\ \A x \in S : Rank(R, S, x) \in 0..(Cardinality(S) - 1)
      /\ \A x, y \in S : <<x, y>> \in R <=> Rank(R, S, x) < Rank(R, S, y)
  BY RankIsOrder
<1> SUFFICES ASSUME NEW x \in S
             PROVE  Rank(R, S, x) + 1 \in 1..Cardinality(S) /\ q[Rank(R, S, x) + 1] = x
  OBVIOUS
<1>2. Rank(R, S, x) + 1 \in 1..Cardinality(S)
  BY <1>1
<1>3. Rank(R, S, q[Rank(R, S, x) + 1]) = Rank(R, S, x) /\ q[Rank(R, S, x) + 1] \in S
  BY <1>1, <1>2
<1>4. q[Rank(R, S, x) + 1] = x
  BY <1>1, <1>3 DEF Orders
<1> QED BY <1>2, <1>4

IsSequence(q) == Len(q) \in Nat /\ q = [n \in 1..Len(q) |-> q[n]]

\* The elements of S, each once, in the order R.
Sorted(R, S, q) ==
    /\ IsSequence(q)
    /\ \A n \in 1..Len(q) : q[n] \in S
    /\ \A m, n \in 1..Len(q) : m < n => <<q[m], q[n]>> \in R
    /\ \A x \in S : \E n \in 1..Len(q) : q[n] = x

LEMMA SortedInOrder ==
    ASSUME NEW S, NEW R, IsFiniteSet(S), Orders(R, S)
    PROVE  Sorted(R, S, InOrder(S, R))
<1> DEFINE q == InOrder(S, R)
<1>1. \A n \in 1..Cardinality(S) : \E x \in S : Rank(R, S, x) = n - 1
  BY RankIsTaken
<1>2. q = [n \in 1..Cardinality(S) |-> CHOOSE x \in S : Rank(R, S, x) = n - 1]
  BY DEF InOrder, Rank, Before
<1> HIDE DEF q
<1>3. /\ q \in [1..Cardinality(S) -> S]
      /\ \A n \in 1..Cardinality(S) : Rank(R, S, q[n]) = n - 1
  BY <1>1, <1>2
<1>4. Cardinality(S) \in Nat
  BY FS_CardinalityType
<1>5. Len(q) = Cardinality(S)
  BY <1>3, <1>4
<1>6. \A m, n \in 1..Cardinality(S) : m < n <=> <<q[m], q[n]>> \in R
  BY <1>3, ByRank, Zenon
<1>7. \A x \in S : Rank(R, S, x) + 1 \in 1..Cardinality(S) /\ q[Rank(R, S, x) + 1] = x
  BY <1>3, AllByRank, Zenon
<1>8. Sorted(R, S, q)
  BY <1>3, <1>4, <1>5, <1>6, <1>7 DEF Sorted, IsSequence
<1> QED BY <1>8 DEF q

\* There is one such sequence.
LEMMA SortedRanks ==
    ASSUME NEW S, NEW R, IsFiniteSet(S), Orders(R, S), NEW q, Sorted(R, S, q), NEW n \in 1..Len(q)
    PROVE  Rank(R, S, q[n]) = n - 1
<1> DEFINE f == [m \in 1..(n - 1) |-> q[m]]
           B == Before(R, S, q[n])
<1>1. /\ Len(q) \in Nat
      /\ \A m \in 1..Len(q) : q[m] \in S
      /\ \A i, j \in 1..Len(q) : i < j => <<q[i], q[j]>> \in R
      /\ \A x \in S : \E m \in 1..Len(q) : q[m] = x
  BY DEF Sorted, IsSequence
<1>2. ASSUME NEW i \in 1..Len(q), NEW j \in 1..Len(q), <<q[i], q[j]>> \in R
      PROVE  i < j
  <2>1. q[i] \in S /\ q[j] \in S /\ (j < i => <<q[j], q[i]>> \in R)
    BY <1>1
  <2>2. ~(j < i) /\ i # j
    BY <2>1, <1>2 DEF Orders
  <2> QED BY <2>2
<1>3. ASSUME NEW i \in 1..Len(q), NEW j \in 1..Len(q), q[i] = q[j]
      PROVE  i = j
  <2>1. q[i] \in S /\ ~(<<q[i], q[i]>> \in R)
    BY <1>1 DEF Orders
  <2>2. ~(i < j) /\ ~(j < i)
    BY <2>1, <1>1, <1>3
  <2> QED BY <2>2
<1>4. \A m \in 1..(n - 1) : m \in 1..Len(q) /\ m < n
  BY <1>1
<1>5. f \in Bijection(1..(n - 1), B)
  <2>1. f \in [1..(n - 1) -> B]
    BY <1>1, <1>4 DEF Before
  <2>2. \A i, j \in 1..(n - 1) : f[i] = f[j] => i = j
    BY <1>3, <1>4
  <2>3. \A x \in B : \E m \in 1..(n - 1) : f[m] = x
    <3> SUFFICES ASSUME NEW x \in B PROVE \E m \in 1..(n - 1) : f[m] = x
      OBVIOUS
    <3>1. PICK m \in 1..Len(q) : q[m] = x
      BY <1>1 DEF Before
    <3>2. m \in 1..(n - 1)
      BY <1>1, <1>2, <3>1 DEF Before
    <3> QED BY <3>1, <3>2
  <2> QED BY <2>1, <2>2, <2>3 DEF Bijection, Injection, Surjection, IsInjective
<1>6. IsFiniteSet(1..(n - 1)) /\ Cardinality(1..(n - 1)) = n - 1
  <2>1. 1 \in Int /\ n - 1 \in Int /\ n - 1 >= 0
    BY <1>1
  <2>2. IsFiniteSet(1..(n - 1))
        /\ Cardinality(1..(n - 1)) = IF 1 > n - 1 THEN 0 ELSE n - 1 - 1 + 1
    BY <2>1, FS_Interval
  <2> QED BY <2>1, <2>2
<1>7. Cardinality(B) = n - 1
  <2> HIDE DEF f, B
  <2>1. Cardinality(1..(n - 1)) = Cardinality(B)
    BY <1>5, <1>6, FS_Bijection DEF ExistsBijection
  <2> QED BY <2>1, <1>6
<1> QED BY <1>7 DEF Rank

LEMMA SortedUnique ==
    ASSUME NEW S, NEW R, IsFiniteSet(S), Orders(R, S),
           NEW q, Sorted(R, S, q), NEW o, Sorted(R, S, o)
    PROVE  q = o
<1>1. /\ \A n \in 1..Len(q) : Rank(R, S, q[n]) = n - 1 /\ q[n] \in S
      /\ \A n \in 1..Len(o) : Rank(R, S, o[n]) = n - 1 /\ o[n] \in S
  BY SortedRanks DEF Sorted
<1>2. \A x, y \in S : Rank(R, S, x) = Rank(R, S, y) => x = y
  <2>1. \A x \in S : Rank(R, S, x) \in 0..(Cardinality(S) - 1)
    BY RankIsOrder
  <2>2. \A x, y \in S : <<x, y>> \in R <=> Rank(R, S, x) < Rank(R, S, y)
    BY RankIsOrder
  <2>3. Cardinality(S) \in Nat
    BY FS_CardinalityType
  <2> QED BY <2>1, <2>2, <2>3 DEF Orders
<1>3. Len(q) = Len(o)
  <2>1. Len(q) \in Nat /\ Len(o) \in Nat
    BY DEF Sorted, IsSequence
  <2>2. CASE Len(q) < Len(o)
    <3>1. Len(o) \in 1..Len(o)
      BY <2>1, <2>2
    <3>2. PICK m \in 1..Len(q) : q[m] = o[Len(o)]
      BY <1>1, <3>1 DEF Sorted
    <3> QED BY <1>1, <2>1, <2>2, <3>1, <3>2
  <2>3. CASE Len(o) < Len(q)
    <3>1. Len(q) \in 1..Len(q)
      BY <2>1, <2>3
    <3>2. PICK m \in 1..Len(o) : o[m] = q[Len(q)]
      BY <1>1, <3>1 DEF Sorted
    <3> QED BY <1>1, <2>1, <2>3, <3>1, <3>2
  <2> QED BY <2>1, <2>2, <2>3
<1>4. \A n \in 1..Len(q) : q[n] = o[n]
  BY <1>1, <1>2, <1>3
<1> QED BY <1>3, <1>4 DEF Sorted, IsSequence

=============================================================================
