----------------------------- MODULE LeastNumber ----------------------------
(***************************************************************************)
(* The least element of a set of natural numbers, and what follows from it *)
(* without an induction principle: a claim about all numbers is proved by  *)
(* looking at the least counterexample.                                    *)
(***************************************************************************)
EXTENDS Integers, FiniteSets, FiniteSetTheorems, WellFoundedInduction, TLAPS

\* Some relation says which of two numbers is less, and is well founded.
LEMMA LessIsWellFounded ==
  \E R : IsWellFoundedOn(R, Nat) /\ \A m, n \in Nat : m < n => <<m, n>> \in R
<1>1. IsWellFoundedOn(OpToRel(<, Nat), Nat)
  BY NatLessThanWellFounded, Zenon
<1>2. \A m, n \in Nat : m < n => <<m, n>> \in OpToRel(<, Nat)
  BY DEF OpToRel
<1> QED BY <1>1, <1>2, Zenon

\* A set of natural numbers that is not empty has a least element.
LEMMA LeastElement ==
  ASSUME NEW T, T \subseteq Nat, T # {}
  PROVE  \E n \in T : \A m \in T : n <= m
<1>1. PICK R : IsWellFoundedOn(R, Nat) /\ \A m, n \in Nat : m < n => <<m, n>> \in R
  BY LessIsWellFounded
<1>2. IsWellFoundedOn(R, Nat)
  BY <1>1
<1>3. \E n \in T : \A m \in T : ~(<<m, n>> \in R)
  BY <1>2, WFMin, Zenon
<1>4. PICK n \in T : \A m \in T : ~(<<m, n>> \in R)
  BY <1>3
<1>5. ASSUME NEW m \in T PROVE n <= m
  <2>1. ~(m < n)
    BY <1>1, <1>4
  <2> QED BY <2>1
<1> QED BY <1>5

\* A finite set of natural numbers is empty or has a largest element.
LEMMA LargestElement ==
  ASSUME NEW S, IsFiniteSet(S), S \subseteq Nat, S # {}
  PROVE  \E n \in S : \A m \in S : m <= n
<1> DEFINE Bad(T) == T # {} /\ ~\E n \in T : \A m \in T : m <= n
           Sizes0 == {Cardinality(T) : T \in {U \in SUBSET S : Bad(U)}}
<1>1. SUFFICES ASSUME Bad(S) PROVE FALSE
  OBVIOUS
<1>2. ASSUME NEW T \in SUBSET S PROVE IsFiniteSet(T) /\ Cardinality(T) \in Nat
  BY <1>2, FS_Subset, FS_CardinalityType
<1>3. Sizes0 \subseteq Nat /\ Sizes0 # {}
  BY <1>1, <1>2
<1>4. PICK k \in Sizes0 : \A j \in Sizes0 : k <= j
  BY <1>3, LeastElement
<1>5. PICK T \in SUBSET S : Bad(T) /\ Cardinality(T) = k
  BY <1>4
<1>6. PICK x : x \in T
  BY <1>5
<1>7. T \ {x} \in SUBSET S /\ Cardinality(T \ {x}) < k
  <2>1. IsFiniteSet(T) /\ Cardinality(T) = k /\ k \in Nat
    BY <1>2, <1>5
  <2>2. Cardinality(T \ {x}) = Cardinality(T) - 1
    BY <2>1, <1>6, FS_RemoveElement
  <2>3. T \ {x} \in SUBSET S
    OBVIOUS
  <2> HIDE DEF Sizes0
  <2> QED BY <2>1, <2>2, <2>3
<1>8. ~Bad(T \ {x})
  <2>1. SUFFICES ASSUME Bad(T \ {x}) PROVE FALSE
    OBVIOUS
  <2>2. Cardinality(T \ {x}) \in Sizes0
    <3> HIDE DEF Bad
    <3> QED BY <2>1, <1>7
  <2>3. k <= Cardinality(T \ {x})
    <3> HIDE DEF Sizes0
    <3> QED BY <2>2, <1>4
  <2> QED BY <2>3, <1>7, <1>2, <1>5
<1>9. CASE T \ {x} = {}
  <2>1. \A m \in T : m <= x
    BY <1>6, <1>9
  <2> QED BY <2>1, <1>5, <1>6
<1>10. CASE T \ {x} # {}
  <2>1. PICK n \in T \ {x} : \A m \in T \ {x} : m <= n
    BY <1>8, <1>10
  <2>2. CASE x <= n
    BY <2>1, <2>2, <1>5
  <2>3. CASE ~(x <= n)
    <3>1. \A m \in T : m <= x
      BY <2>1, <2>3, <1>6
    <3> QED BY <3>1, <1>5, <1>6
  <2> QED BY <2>2, <2>3
<1> QED BY <1>9, <1>10

\* What holds at first and is kept by each step holds throughout.
LEMMA StepsStay ==
  ASSUME NEW n \in Nat, NEW f, NEW X, f[0] \in X, \A k \in 1..n : f[k-1] \in X => f[k] \in X
  PROVE  \A k \in 0..n : f[k] \in X
<1> DEFINE Bad == {k \in 0..n : f[k] \notin X}
<1>1. SUFFICES ASSUME Bad # {} PROVE FALSE
  OBVIOUS
<1>2. Bad \subseteq Nat
  OBVIOUS
<1>3. PICK k \in Bad : \A j \in Bad : k <= j
  <2> HIDE DEF Bad
  <2> QED BY <1>1, <1>2, LeastElement
<1>4. k \in 0..n /\ f[k] \notin X
  OBVIOUS
<1>5. k \in 1..n
  <2>1. k # 0
    BY <1>4
  <2> QED BY <2>1, <1>4
<1>6. k-1 \in 0..n /\ k-1 < k
  BY <1>5
<1>7. k-1 \notin Bad
  <2> HIDE DEF Bad
  <2> QED BY <1>3, <1>4, <1>6
<1>8. f[k-1] \in X
  BY <1>6, <1>7
<1> QED BY <1>4, <1>5, <1>8

\* f[k] is what G makes of f[k-1].
Iterates(n, b, G, f) == f = [k \in 0..n |-> IF k = 0 THEN b ELSE G[<<k, f[k-1]>>]]

\* Such a sequence exists.
LEMMA IterationExists ==
  ASSUME NEW n \in Nat, NEW b, NEW G
  PROVE  \E f : Iterates(n, b, G, f)
<1> DEFINE T == {k \in Nat : ~\E f : Iterates(k, b, G, f)}
<1>1. SUFFICES ASSUME T # {} PROVE FALSE
  OBVIOUS
<1>2. PICK m \in T : \A k \in T : m <= k
  <2>1. T \subseteq Nat
    OBVIOUS
  <2> HIDE DEF T
  <2> QED BY <1>1, <2>1, LeastElement
<1>3. m \in Nat /\ ~\E f : Iterates(m, b, G, f)
  OBVIOUS
<1>4. CASE m = 0
  <2>1. PICK f : f = [k \in 0..0 |-> b]
    OBVIOUS
  <2>2. f = [k \in 0..0 |-> IF k = 0 THEN b ELSE G[<<k, f[k-1]>>]]
    <3>1. \A k \in 0..0 : k = 0
      OBVIOUS
    <3> QED BY <2>1, <3>1
  <2>3. Iterates(0, b, G, f)
    BY <2>2 DEF Iterates
  <2> QED BY <2>3, <1>3, <1>4
<1>5. CASE m # 0
  <2>1. m-1 \in Nat /\ m-1 < m /\ m-1 \notin T
    BY <1>2, <1>3, <1>5
  <2>2. PICK f : Iterates(m-1, b, G, f)
    BY <2>1
  <2>3. f = [k \in 0..m-1 |-> IF k = 0 THEN b ELSE G[<<k, f[k-1]>>]]
    BY <2>2 DEF Iterates
  <2> DEFINE g == [k \in 0..m |-> IF k = m THEN G[<<k, f[m-1]>>] ELSE f[k]]
  <2>4. ASSUME NEW k \in 0..m
        PROVE  g[k] = IF k = 0 THEN b ELSE G[<<k, g[k-1]>>]
    <3>1. CASE k = m
      <4>1. k-1 \in 0..m /\ k-1 # m /\ k # 0
        BY <3>1, <1>3, <1>5
      <4>2. g[k-1] = f[m-1]
        BY <3>1, <4>1
      <4>3. g[k] = G[<<k, f[m-1]>>]
        BY <3>1
      <4> HIDE DEF g
      <4> QED BY <4>1, <4>2, <4>3
    <3>2. CASE k # m
      <4>1. k \in 0..m-1
        BY <3>2, <1>3
      <4>2. f[k] = IF k = 0 THEN b ELSE G[<<k, f[k-1]>>]
        BY <2>3, <4>1
      <4>3. g[k] = f[k]
        BY <3>2
      <4>4. k # 0 => g[k-1] = f[k-1]
        BY <4>1, <1>3
      <4> HIDE DEF g
      <4> QED BY <4>2, <4>3, <4>4
    <3> QED BY <3>1, <3>2
  <2>5. g = [k \in 0..m |-> g[k]]
    OBVIOUS
  <2> HIDE DEF g
  <2>6. g = [k \in 0..m |-> IF k = 0 THEN b ELSE G[<<k, g[k-1]>>]]
    BY <2>4, <2>5
  <2>7. Iterates(m, b, G, g)
    BY <2>6 DEF Iterates
  <2> QED BY <2>7, <1>3
<1> QED BY <1>4, <1>5

=============================================================================
