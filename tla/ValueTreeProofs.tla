-------------------------- MODULE ValueTreeProofs ---------------------------
(***************************************************************************)
(* The trees of src/src/value.c, for any number of addresses, names, items *)
(* and contents.                                                           *)
(***************************************************************************)
EXTENDS ValueTree, LeastNumber, SequenceTheorems

-----------------------------------------------------------------------------
(* What is reached by steps within a finite set *)

\* What A leads to from S, and S itself.
Step(A, S) == S \cup UNION {A[y] : y \in S}

\* The least set that holds S and what A leads to from it.
Closure(D, A, S) ==
  {x \in D : \A T \in SUBSET D : S \subseteq T /\ (\A y \in T : A[y] \subseteq T) => x \in T}

Closing(D, A, f) ==
  f = [S \in SUBSET D |-> LET T == Step(A, S) IN IF T = S THEN S ELSE f[T]]

\* One step further does not change the closure, and what is closed is its own.
LEMMA ClosureSteps ==
  ASSUME NEW D, NEW A \in [D -> SUBSET D], NEW S \in SUBSET D
  PROVE  /\ Step(A, S) \in SUBSET D /\ S \subseteq Step(A, S)
         /\ Closure(D, A, Step(A, S)) = Closure(D, A, S)
         /\ Step(A, S) = S => Closure(D, A, S) = S
<1>1. Step(A, S) \in SUBSET D /\ S \subseteq Step(A, S)
  BY DEF Step
<1>2. ASSUME NEW T \in SUBSET D, \A y \in T : A[y] \subseteq T
      PROVE  S \subseteq T <=> Step(A, S) \subseteq T
  BY <1>2 DEF Step
<1>3. Closure(D, A, Step(A, S)) = Closure(D, A, S)
  BY <1>2 DEF Closure
<1>4. ASSUME Step(A, S) = S PROVE Closure(D, A, S) = S
  <2>1. \A y \in S : A[y] \subseteq S
    BY <1>4 DEF Step
  <2> QED BY <2>1 DEF Closure
<1> QED BY <1>1, <1>3, <1>4

LEMMA ClosingExists ==
  ASSUME NEW D, NEW A \in [D -> SUBSET D]
  PROVE  \E f : Closing(D, A, f)
<1> DEFINE f == [S \in SUBSET D |-> Closure(D, A, S)]
<1>1. \A S \in SUBSET D : f[S] = IF Step(A, S) = S THEN S ELSE f[Step(A, S)]
  BY ClosureSteps
<1>2. f = [S \in SUBSET D |-> f[S]]
  OBVIOUS
<1> HIDE DEF f
<1>3. f = [S \in SUBSET D |-> LET T == Step(A, S) IN IF T = S THEN S ELSE f[T]]
  BY <1>1, <1>2
<1> QED BY <1>3 DEF Closing

\* What such a function gives is the closure: the largest set for which it were
\* not would lead to a larger one.
LEMMA ClosingCloses ==
  ASSUME NEW D, IsFiniteSet(D), NEW A \in [D -> SUBSET D], NEW f, Closing(D, A, f),
         NEW S \in SUBSET D
  PROVE  f[S] = Closure(D, A, S)
<1> DEFINE Bad == {T \in SUBSET D : f[T] # Closure(D, A, T)}
           Size == {Cardinality(T) : T \in Bad}
<1>1. SUFFICES ASSUME Bad # {} PROVE FALSE
  OBVIOUS
<1>2. \A T \in SUBSET D : /\ IsFiniteSet(T) /\ Cardinality(T) \in Nat
                          /\ Cardinality(T) <= Cardinality(D)
  BY FS_Subset, FS_CardinalityType
<1>3. Cardinality(D) \in Nat
  BY FS_CardinalityType
<1>4. Size \subseteq 0..Cardinality(D) /\ Size # {}
  BY <1>1, <1>2, <1>3
<1>5. IsFiniteSet(Size) /\ Size \subseteq Nat
  <2>1. IsFiniteSet(0..Cardinality(D))
    <3>1. PICK n \in Int : n = Cardinality(D)
      BY <1>3
    <3>2. 0 \in Int
      OBVIOUS
    <3>3. IsFiniteSet(0..n)
      BY <3>2, FS_Interval
    <3> QED BY <3>1, <3>3
  <2>2. PICK I : I = 0..Cardinality(D)
    OBVIOUS
  <2>3. I \subseteq Nat
    BY <2>2, <1>3
  <2> HIDE DEF Size
  <2>4. Size \in SUBSET I
    BY <2>2, <1>4
  <2>5. IsFiniteSet(Size)
    BY <2>1, <2>2, <2>4, FS_Subset
  <2> QED BY <2>3, <2>4, <2>5
<1>6. PICK n \in Size : \A m \in Size : m <= n
  <2> HIDE DEF Size
  <2> QED BY <1>4, <1>5, LargestElement
<1>7. PICK T \in Bad : \A U \in Bad : Cardinality(U) <= Cardinality(T)
  BY <1>6
<1>8. T \in SUBSET D /\ f[T] # Closure(D, A, T)
  OBVIOUS
<1>9. PICK U : U = Step(A, T)
  OBVIOUS
<1>10. f[T] = IF U = T THEN T ELSE f[U]
  BY <1>8, <1>9 DEF Closing
<1>11. U \in SUBSET D /\ T \subseteq U /\ U # T
  BY <1>8, <1>9, <1>10, ClosureSteps
<1>12. Cardinality(T) < Cardinality(U)
  <2>1. IsFiniteSet(U) /\ T \in SUBSET U
    BY <1>2, <1>11
  <2>2. Cardinality(T) <= Cardinality(U) /\ Cardinality(T) # Cardinality(U)
    BY <2>1, <1>11, FS_Subset
  <2> QED BY <2>2, <1>2, <1>8, <1>11
<1>13. U \notin Bad
  <2> HIDE DEF Bad
  <2> QED BY <1>2, <1>7, <1>8, <1>11, <1>12
<1>14. f[U] = Closure(D, A, U)
  BY <1>11, <1>13
<1> QED BY <1>8, <1>9, <1>10, <1>11, <1>14, ClosureSteps

LEMMA ClosureIs ==
  ASSUME NEW D, NEW A \in [D -> SUBSET D], NEW x \in D
  PROVE  /\ Closure(D, A, {x}) \subseteq D /\ x \in Closure(D, A, {x})
         /\ \A y \in Closure(D, A, {x}) : A[y] \subseteq Closure(D, A, {x})
         /\ \A T \in SUBSET D : x \in T /\ (\A y \in T : A[y] \subseteq T)
              => Closure(D, A, {x}) \subseteq T
BY DEF Closure

\* The two closures of the model.
LEMMA OwnedIs ==
  ASSUME NEW h, IsFiniteSet(DOMAIN h), \A x \in DOMAIN h : Held(h, x) \subseteq DOMAIN h,
         NEW v \in DOMAIN h
  PROVE  /\ Owned(h, v) \subseteq DOMAIN h /\ v \in Owned(h, v)
         /\ \A y \in Owned(h, v) : Held(h, y) \subseteq Owned(h, v)
         /\ \A T \in SUBSET DOMAIN h : v \in T /\ (\A y \in T : Held(h, y) \subseteq T)
              => Owned(h, v) \subseteq T
<1> DEFINE D == DOMAIN h
<1>1. PICK A : A = [x \in D |-> Held(h, x)]
  OBVIOUS
<1>2. A \in [D -> SUBSET D] /\ \A x \in D : A[x] = Held(h, x)
  BY <1>1
<1>3. \A f : (f = [S \in SUBSET D |-> LET T == S \cup UNION {Held(h, y) : y \in S}
                                     IN IF T = S THEN S ELSE f[T]])
             <=> Closing(D, A, f)
  <2>1. \A S \in SUBSET D : S \cup UNION {Held(h, y) : y \in S} = Step(A, S)
    BY <1>2 DEF Step
  <2> QED BY <2>1 DEF Closing
<1> DEFINE g == CHOOSE f : f = [S \in SUBSET D |-> LET T == S \cup UNION {Held(h, y) : y \in S}
                                                  IN IF T = S THEN S ELSE f[T]]
<1>4. Closing(D, A, g)
  BY <1>2, <1>3, ClosingExists
<1>5. Owned(h, v) = g[{v}]
  BY DEF Owned, Reached
<1> HIDE DEF g
<1>6. Owned(h, v) = Closure(D, A, {v})
  BY <1>2, <1>4, <1>5, ClosingCloses
<1> QED BY <1>2, <1>6, ClosureIs

LEMMA BelowIs ==
  ASSUME NEW h, IsFiniteSet(DOMAIN h), \A x \in DOMAIN h : ItemSet(h, x) \subseteq DOMAIN h,
         NEW v \in DOMAIN h
  PROVE  /\ Below(h, v) \subseteq DOMAIN h /\ v \in Below(h, v)
         /\ \A y \in Below(h, v) : ItemSet(h, y) \subseteq Below(h, v)
         /\ \A T \in SUBSET DOMAIN h : v \in T /\ (\A y \in T : ItemSet(h, y) \subseteq T)
              => Below(h, v) \subseteq T
<1> DEFINE D == DOMAIN h
<1>1. PICK A : A = [x \in D |-> ItemSet(h, x)]
  OBVIOUS
<1>2. A \in [D -> SUBSET D] /\ \A x \in D : A[x] = ItemSet(h, x)
  BY <1>1
<1>3. \A f : (f = [S \in SUBSET D |-> LET T == S \cup UNION {ItemSet(h, y) : y \in S}
                                     IN IF T = S THEN S ELSE f[T]])
             <=> Closing(D, A, f)
  <2>1. \A S \in SUBSET D : S \cup UNION {ItemSet(h, y) : y \in S} = Step(A, S)
    BY <1>2 DEF Step
  <2> QED BY <2>1 DEF Closing
<1> DEFINE g == CHOOSE f : f = [S \in SUBSET D |-> LET T == S \cup UNION {ItemSet(h, y) : y \in S}
                                                  IN IF T = S THEN S ELSE f[T]]
<1>4. Closing(D, A, g)
  BY <1>2, <1>3, ClosingExists
<1>5. Below(h, v) = g[{v}]
  BY DEF Below, Reached
<1> HIDE DEF g
<1>6. Below(h, v) = Closure(D, A, {v})
  BY <1>2, <1>4, <1>5, ClosingCloses
<1> QED BY <1>2, <1>6, ClosureIs

-----------------------------------------------------------------------------
(* The invariant *)

Items  == Seq(Addresses \cup {NULL})
Tables == UNION {[N -> 1..MaxItems] : N \in SUBSET Names}
Fields == [type : Scalars \cup {"RECORD", "ARRAY"}, nil : BOOLEAN, expandable : BOOLEAN,
           parent : Addresses \cup {NULL}, prototype : Addresses \cup {NULL},
           data : Data \cup Addresses, items : Items, names : Seq(Names), members : Tables]

\* The table of members leads to items of that name.
NamesFound(n) ==
  \A name \in DOMAIN n.members :
    n.members[name] \in DOMAIN n.names /\ n.names[n.members[name]] = name

\* A ValueStruct whose fields belong together: only records have names, only an
\* array has slots without an item.
NodeShape(n) ==
  /\ n \in Fields
  /\ Len(n.items) <= MaxItems
  /\ Len(n.names) = (IF n.type = "RECORD" THEN Len(n.items) ELSE 0)
  /\ DOMAIN n.members = Range(n.names) /\ NamesFound(n)
  /\ n.type # "ARRAY" => NULL \notin Range(n.items)

Shaped(h) == DOMAIN h \subseteq Addresses /\ \A v \in DOMAIN h : NodeShape(h[v])

Typed(h) == Shaped(h) /\ \A v \in DOMAIN h : h[v].data \in Data

Positions == 0..MaxItems

\* What a value refers to is there and ranks lower, is referred to once, and has
\* no other parent.
Tree(h, rank) ==
  /\ rank \in [DOMAIN h -> Nat]
  /\ \A v \in DOMAIN h, i \in Positions :
       Slot(h, v, i) # NULL => Slot(h, v, i) \in DOMAIN h /\ rank[Slot(h, v, i)] < rank[v]
  /\ \A v, w \in DOMAIN h, i, j \in Positions :
       Slot(h, v, i) # NULL /\ Slot(h, v, i) = Slot(h, w, j) => v = w /\ i = j
  /\ \A v \in DOMAIN h : h[v].parent # NULL =>
       /\ h[v].parent \in DOMAIN h
       /\ \E i \in Positions \ {0} : Slot(h, h[v].parent, i) = v

IsRoot(h, w) == w \in DOMAIN h /\ \A x \in DOMAIN h, i \in Positions : Slot(h, x, i) # w

TreeInv == Typed(heap) /\ crashed \in BOOLEAN /\ \E rank : Tree(heap, rank)

-----------------------------------------------------------------------------
(* Slots *)

LEMMA AddressesAre ==
  /\ Addresses \subseteq Nat /\ NULL \notin Addresses /\ IsFiniteSet(Addresses)
  /\ MaxItems \in Nat /\ 0 \in Positions /\ Positions \ {0} = 1..MaxItems
BY HeapAssumption DEF NULL, Positions

LEMMA NodeFields ==
  ASSUME NEW n, NodeShape(n)
  PROVE  /\ n.type \in Scalars \cup {"RECORD", "ARRAY"} /\ n.nil \in BOOLEAN
         /\ n.expandable \in BOOLEAN /\ n.parent \in Addresses \cup {NULL}
         /\ n.prototype \in Addresses \cup {NULL} /\ n.data \in Data \cup Addresses
         /\ n.items \in Seq(Addresses \cup {NULL}) /\ n.names \in Seq(Names)
         /\ n.members \in UNION {[N -> 1..MaxItems] : N \in SUBSET Names}
         /\ Len(n.items) \in Nat /\ Len(n.items) <= MaxItems /\ DOMAIN n.items = 1..Len(n.items)
BY DEF NodeShape, Fields, Items, Tables

\* Items and what is held, by their slots.
LEMMA SlotsHold ==
  ASSUME NEW h, NEW v, NodeShape(h[v])
  PROVE  /\ \A x : x \in ItemSet(h, v) <=> x # NULL /\ \E i \in Positions \ {0} : Slot(h, v, i) = x
         /\ \A x : x \in Held(h, v) <=> x # NULL /\ \E i \in Positions : Slot(h, v, i) = x
<1>1. /\ h[v].items \in Seq(Addresses \cup {NULL}) /\ Len(h[v].items) \in Nat
      /\ Len(h[v].items) <= MaxItems /\ DOMAIN h[v].items = 1..Len(h[v].items)
  BY NodeFields
<1>2. ASSUME NEW x PROVE x \in ItemSet(h, v) <=> x # NULL /\ \E i \in Positions \ {0} : Slot(h, v, i) = x
  <2>1. ASSUME x \in ItemSet(h, v) PROVE x # NULL /\ \E i \in Positions \ {0} : Slot(h, v, i) = x
    <3>1. PICK i \in 1..Len(h[v].items) : h[v].items[i] = x
      BY <1>1, <2>1 DEF ItemSet, Range
    <3>2. i \in Positions \ {0} /\ Slot(h, v, i) = x
      BY <1>1, <3>1, AddressesAre DEF Slot
    <3> QED BY <2>1, <3>2 DEF ItemSet
  <2>2. ASSUME x # NULL, NEW i \in Positions \ {0}, Slot(h, v, i) = x PROVE x \in ItemSet(h, v)
    <3>1. i \in 1..Len(h[v].items) /\ h[v].items[i] = x
      BY <1>1, <2>2, AddressesAre DEF Slot
    <3> QED BY <1>1, <2>2, <3>1 DEF ItemSet, Range
  <2> QED BY <2>1, <2>2
<1>3. ASSUME NEW x PROVE x \in Held(h, v) <=> x # NULL /\ \E i \in Positions : Slot(h, v, i) = x
  <2>1. Slot(h, v, 0) = h[v].prototype
    BY DEF Slot
  <2> QED BY <1>2, <2>1, AddressesAre DEF Held
<1> QED BY <1>2, <1>3

\* The values of a tree are closed under what they hold.
LEMMA TreeCloses ==
  ASSUME NEW h, NEW r, Shaped(h), Tree(h, r)
  PROVE  /\ IsFiniteSet(DOMAIN h) /\ NULL \notin DOMAIN h
         /\ \A x \in DOMAIN h : Held(h, x) \subseteq DOMAIN h /\ ItemSet(h, x) \subseteq DOMAIN h
         /\ \A w : w \in Roots(h) <=> IsRoot(h, w)
<1>1. IsFiniteSet(DOMAIN h) /\ NULL \notin DOMAIN h
  BY AddressesAre, FS_Subset DEF Shaped
<1>2. \A x \in DOMAIN h : NodeShape(h[x])
  BY DEF Shaped
<1>3. \A x \in DOMAIN h : Held(h, x) \subseteq DOMAIN h
  BY <1>2, SlotsHold DEF Tree
<1>4. \A x \in DOMAIN h : ItemSet(h, x) \subseteq Held(h, x)
  BY DEF Held
<1>5. \A w \in DOMAIN h : w # NULL
  BY <1>1
<1>6. \A w : w \in Roots(h) <=> IsRoot(h, w)
  BY <1>2, <1>5, SlotsHold DEF Roots, IsRoot
<1> QED BY <1>1, <1>3, <1>4, <1>6

-----------------------------------------------------------------------------
(* What calls do to trees *)

\* g is h but that u, which is new or was there, refers to values that nothing
\* referred to and that rank lower than K, the rank of u.
Joins(h, g, r, u, K) ==
  /\ K \in Nat /\ u # NULL /\ DOMAIN g = DOMAIN h \cup {u} /\ (u \in DOMAIN h => K = r[u])
  /\ \A x \in DOMAIN h, i \in Positions : x # u => Slot(g, x, i) = Slot(h, x, i)
  /\ \A i \in Positions : \/ u \in DOMAIN h /\ Slot(g, u, i) = Slot(h, u, i)
                          \/ u \notin DOMAIN h /\ Slot(g, u, i) = NULL
                          \/ /\ u \in DOMAIN h => Slot(h, u, i) = NULL
                             /\ IsRoot(h, Slot(g, u, i)) /\ r[Slot(g, u, i)] < K
  /\ \A i, j \in Positions : IsRoot(h, Slot(g, u, i)) /\ Slot(g, u, i) = Slot(g, u, j) => i = j
  /\ \A x \in DOMAIN h : \/ g[x].parent = h[x].parent
                         \/ g[x].parent = u /\ \E i \in Positions \ {0} : Slot(g, u, i) = x
  /\ u \notin DOMAIN h => g[u].parent = NULL

LEMMA JoinedTree ==
  ASSUME NEW h, NEW r, Tree(h, r), NULL \notin DOMAIN h, NEW g, NEW u, NEW K, Joins(h, g, r, u, K)
  PROVE  \E q : Tree(g, q)
<1> SUFFICES ASSUME
      K \in Nat, u # NULL, DOMAIN g = DOMAIN h \cup {u}, u \in DOMAIN h => K = r[u],
      \A x \in DOMAIN h, i \in Positions : x # u => Slot(g, x, i) = Slot(h, x, i),
      \A i \in Positions : \/ u \in DOMAIN h /\ Slot(g, u, i) = Slot(h, u, i)
                           \/ u \notin DOMAIN h /\ Slot(g, u, i) = NULL
                           \/ /\ u \in DOMAIN h => Slot(h, u, i) = NULL
                              /\ IsRoot(h, Slot(g, u, i)) /\ r[Slot(g, u, i)] < K,
      \A i, j \in Positions : IsRoot(h, Slot(g, u, i)) /\ Slot(g, u, i) = Slot(g, u, j) => i = j,
      \A x \in DOMAIN h : \/ g[x].parent = h[x].parent
                          \/ g[x].parent = u /\ \E i \in Positions \ {0} : Slot(g, u, i) = x,
      u \notin DOMAIN h => g[u].parent = NULL
    PROVE \E q : Tree(g, q)
  BY DEF Joins
<1>1. PICK q : q = [x \in DOMAIN g |-> IF x = u THEN K ELSE r[x]]
  OBVIOUS
<1>2. /\ q \in [DOMAIN g -> Nat] /\ q[u] = K /\ \A x \in DOMAIN h : q[x] = r[x]
  BY <1>1 DEF Tree
<1>t. /\ \A v \in DOMAIN h, i \in Positions :
           Slot(h, v, i) # NULL => Slot(h, v, i) \in DOMAIN h /\ r[Slot(h, v, i)] < r[v]
      /\ \A v, w \in DOMAIN h, i, j \in Positions :
           Slot(h, v, i) # NULL /\ Slot(h, v, i) = Slot(h, w, j) => v = w /\ i = j
      /\ \A v \in DOMAIN h : h[v].parent # NULL =>
           /\ h[v].parent \in DOMAIN h
           /\ \E i \in Positions \ {0} : Slot(h, h[v].parent, i) = v
  BY DEF Tree
<1>r. \A w : IsRoot(h, w) => w \in DOMAIN h /\ w # NULL /\ \A x \in DOMAIN h, i \in Positions : Slot(h, x, i) # w
  BY DEF IsRoot
<1>3. ASSUME NEW v \in DOMAIN g, NEW i \in Positions, Slot(g, v, i) # NULL
      PROVE  Slot(g, v, i) \in DOMAIN g /\ q[Slot(g, v, i)] < q[v]
  <2>1. CASE v # u
    <3>1. v \in DOMAIN h /\ Slot(g, v, i) = Slot(h, v, i)
      BY <2>1
    <3> QED BY <3>1, <1>2, <1>3, <1>t
  <2>2. CASE v = u
    <3>1. CASE IsRoot(h, Slot(g, u, i)) /\ r[Slot(g, u, i)] < K
      BY <2>2, <3>1, <1>2, <1>r
    <3>2. CASE ~(IsRoot(h, Slot(g, u, i)) /\ r[Slot(g, u, i)] < K)
      <4>1. u \in DOMAIN h /\ Slot(g, u, i) = Slot(h, u, i)
        BY <2>2, <3>2, <1>3
      <4> QED BY <2>2, <4>1, <1>2, <1>3, <1>t
    <3> QED BY <3>1, <3>2
  <2> QED BY <2>1, <2>2
<1>4. ASSUME NEW v \in DOMAIN g, NEW w \in DOMAIN g, NEW i \in Positions, NEW j \in Positions,
             Slot(g, v, i) # NULL, Slot(g, v, i) = Slot(g, w, j)
      PROVE  v = w /\ i = j
  <2>1. ASSUME NEW x \in DOMAIN g, NEW k \in Positions, Slot(g, x, k) # NULL
        PROVE  \/ x \in DOMAIN h /\ Slot(g, x, k) = Slot(h, x, k)
               \/ x = u /\ IsRoot(h, Slot(g, u, k))
    BY <2>1
  <2>2. \/ v \in DOMAIN h /\ Slot(g, v, i) = Slot(h, v, i)
        \/ v = u /\ IsRoot(h, Slot(g, u, i))
    BY <1>4, <2>1
  <2>3. \/ w \in DOMAIN h /\ Slot(g, w, j) = Slot(h, w, j)
        \/ w = u /\ IsRoot(h, Slot(g, u, j))
    <3>1. Slot(g, w, j) # NULL
      BY <1>4
    <3> QED BY <2>1, <3>1
  <2>4. CASE v \in DOMAIN h /\ Slot(g, v, i) = Slot(h, v, i) /\ w \in DOMAIN h /\ Slot(g, w, j) = Slot(h, w, j)
    <3>1. v \in DOMAIN h /\ w \in DOMAIN h /\ Slot(h, v, i) # NULL /\ Slot(h, v, i) = Slot(h, w, j)
      BY <2>4, <1>4
    <3> QED BY <3>1, <1>t
  <2>5. CASE v = u /\ IsRoot(h, Slot(g, u, i))
    <3>1. ~(w \in DOMAIN h /\ Slot(g, w, j) = Slot(h, w, j))
      BY <2>5, <1>4, <1>r
    <3> QED BY <2>3, <2>5, <3>1, <1>4
  <2>6. CASE w = u /\ IsRoot(h, Slot(g, u, j))
    <3>1. ~(v \in DOMAIN h /\ Slot(g, v, i) = Slot(h, v, i))
      BY <2>6, <1>4, <1>r
    <3> QED BY <2>2, <2>6, <3>1, <1>4
  <2> QED BY <2>2, <2>3, <2>4, <2>5, <2>6
<1>5. ASSUME NEW v \in DOMAIN g, g[v].parent # NULL
      PROVE  g[v].parent \in DOMAIN g /\ \E i \in Positions \ {0} : Slot(g, g[v].parent, i) = v
  <2>1. v \in DOMAIN h
    BY <1>5
  <2>2. CASE g[v].parent = u /\ \E i \in Positions \ {0} : Slot(g, u, i) = v
    BY <2>2
  <2>3. CASE g[v].parent = h[v].parent
    <3>1. PICK p \in DOMAIN h, i \in Positions \ {0} : p = h[v].parent /\ Slot(h, p, i) = v
      BY <2>1, <2>3, <1>5, <1>t
    <3>2. Slot(g, p, i) = v
      <4>1. v # NULL
        BY <2>1
      <4>2. CASE p = u
        BY <3>1, <4>1, <4>2, <1>r
      <4> QED BY <3>1, <4>2
    <3> QED BY <2>3, <3>1, <3>2
  <2> QED BY <2>1, <2>2, <2>3
<1>6. Tree(g, q)
  BY <1>2, <1>3, <1>4, <1>5 DEF Tree
<1> QED BY <1>2, <1>6

\* A value that w does not own can be ranked above w.
LEMMA RaisedTree ==
  ASSUME NEW h, NEW r, Shaped(h), Tree(h, r), NEW w \in DOMAIN h, NEW u \in DOMAIN h,
         u \notin Owned(h, w)
  PROVE  \E q : Tree(h, q) /\ q[w] < q[u]
<1>1. PICK q : q = [x \in DOMAIN h |-> IF x \in Owned(h, w) THEN r[x] ELSE r[x] + r[w] + 1]
  OBVIOUS
<1>2. r \in [DOMAIN h -> Nat]
  BY DEF Tree
<1>3. /\ Owned(h, w) \subseteq DOMAIN h /\ w \in Owned(h, w)
      /\ \A y \in Owned(h, w) : Held(h, y) \subseteq Owned(h, w)
  BY OwnedIs, TreeCloses
<1>4. q \in [DOMAIN h -> Nat] /\ q[w] < q[u]
  BY <1>1, <1>2, <1>3
<1>5. ASSUME NEW v \in DOMAIN h, NEW i \in Positions, Slot(h, v, i) # NULL
      PROVE  Slot(h, v, i) \in DOMAIN h /\ q[Slot(h, v, i)] < q[v]
  <2>1. Slot(h, v, i) \in DOMAIN h /\ r[Slot(h, v, i)] < r[v]
    BY <1>5 DEF Tree
  <2>2. v \in Owned(h, w) => Slot(h, v, i) \in Owned(h, w)
    BY <1>3, <1>5, SlotsHold DEF Shaped
  <2>3. r[v] \in Nat /\ r[w] \in Nat /\ r[Slot(h, v, i)] \in Nat
    BY <1>2, <2>1
  <2> QED BY <1>1, <2>1, <2>2, <2>3
<1>6. Tree(h, q)
  BY <1>4, <1>5 DEF Tree
<1> QED BY <1>4, <1>6

\* FreeValueStruct: a root goes with all it owns.
LEMMA FreedTree ==
  ASSUME NEW h, NEW r, Typed(h), Tree(h, r), NEW w, IsRoot(h, w)
  PROVE  Typed(Freed(h, w)) /\ \E q : Tree(Freed(h, w), q)
<1>1. PICK g : g = Freed(h, w)
  OBVIOUS
<1>2. DOMAIN g = DOMAIN h \ Owned(h, w) /\ \A x \in DOMAIN g : g[x] = h[x]
  BY <1>1 DEF Freed
<1>4. Shaped(h) /\ \A x \in DOMAIN h : NodeShape(h[x])
  BY DEF Typed, Shaped
<1>3. /\ Owned(h, w) \subseteq DOMAIN h /\ w \in Owned(h, w) /\ w \in DOMAIN h
      /\ \A y \in Owned(h, w) : Held(h, y) \subseteq Owned(h, w)
  BY <1>4, OwnedIs, TreeCloses DEF IsRoot
<1>5. \A x \in DOMAIN g, i \in Positions : Slot(g, x, i) = Slot(h, x, i)
  BY <1>2 DEF Slot
<1>6. \A y \in Owned(h, w) : y = w \/ \E x \in Owned(h, w), i \in Positions : Slot(h, x, i) = y
  <2>1. PICK T : T = {y \in Owned(h, w) : y = w \/ \E x \in Owned(h, w), i \in Positions : Slot(h, x, i) = y}
    OBVIOUS
  <2>2. T \in SUBSET DOMAIN h /\ w \in T
    BY <2>1, <1>3
  <2>3. \A y \in T : Held(h, y) \subseteq T
    BY <2>1, <1>3, <1>4, SlotsHold
  <2>4. Owned(h, w) \subseteq T
    BY <2>2, <2>3, <1>4, OwnedIs, TreeCloses
  <2> QED BY <2>1, <2>4
<1>7. PICK q : q = [x \in DOMAIN g |-> r[x]]
  OBVIOUS
<1>8. r \in [DOMAIN h -> Nat] /\ NULL \notin DOMAIN h
  BY <1>4, TreeCloses DEF Tree
<1>9. q \in [DOMAIN g -> Nat]
  BY <1>2, <1>7, <1>8
<1>10. ASSUME NEW v \in DOMAIN g, NEW i \in Positions, Slot(g, v, i) # NULL
       PROVE  Slot(g, v, i) \in DOMAIN g /\ q[Slot(g, v, i)] < q[v]
  <2>1. PICK y : y = Slot(h, v, i)
    OBVIOUS
  <2>2. y \in DOMAIN h /\ r[y] < r[v] /\ Slot(g, v, i) = y
    BY <2>1, <1>2, <1>5, <1>10 DEF Tree
  <2>3. y # w
    BY <2>1, <1>2 DEF IsRoot
  <2>4. ASSUME y \in Owned(h, w) PROVE FALSE
    <3>1. PICK x \in Owned(h, w), k \in Positions : Slot(h, x, k) = y
      BY <2>3, <2>4, <1>6
    <3>2. y # NULL /\ x \in DOMAIN h /\ v \in DOMAIN h
      BY <3>1, <2>2, <1>2, <1>3, <1>8
    <3>3. x = v
      BY <2>1, <3>1, <3>2 DEF Tree
    <3> QED BY <3>3, <1>2
  <2> QED BY <2>2, <2>4, <1>2, <1>7
<1>11. ASSUME NEW v \in DOMAIN g, g[v].parent # NULL
       PROVE  g[v].parent \in DOMAIN g /\ \E i \in Positions \ {0} : Slot(g, g[v].parent, i) = v
  <2>1. PICK p \in DOMAIN h, i \in Positions \ {0} : p = h[v].parent /\ Slot(h, p, i) = v
    BY <1>2, <1>11 DEF Tree
  <2>2. v \in Held(h, p)
    BY <2>1, <1>2, <1>4, <1>8, SlotsHold
  <2>3. p \in DOMAIN g
    BY <2>1, <2>2, <1>2, <1>3
  <2> QED BY <2>1, <2>3, <1>2, <1>5
<1>12. \A v, x \in DOMAIN g, i, j \in Positions :
         Slot(g, v, i) # NULL /\ Slot(g, v, i) = Slot(g, x, j) => v = x /\ i = j
  BY <1>2, <1>5 DEF Tree
<1>13. Tree(g, q)
  BY <1>9, <1>10, <1>11, <1>12 DEF Tree
<1>14. Typed(g)
  BY <1>2, <1>4 DEF Typed, Shaped
<1> QED BY <1>1, <1>13, <1>14

\* What is written into values without changing what they refer to.
LEMMA RelabelledTree ==
  ASSUME NEW h, NEW r, Tree(h, r), NEW g, DOMAIN g = DOMAIN h,
         \A x \in DOMAIN h : /\ g[x].items = h[x].items /\ g[x].prototype = h[x].prototype
                             /\ g[x].parent = h[x].parent
  PROVE  Tree(g, r)
<1>1. \A x \in DOMAIN h, i \in Positions : Slot(g, x, i) = Slot(h, x, i)
  BY DEF Slot
<1>2. \A v \in DOMAIN g : g[v].parent # NULL =>
        /\ g[v].parent \in DOMAIN g
        /\ \E i \in Positions \ {0} : Slot(g, g[v].parent, i) = v
  BY <1>1 DEF Tree
<1>3. \A v \in DOMAIN g, i \in Positions :
        Slot(g, v, i) # NULL => Slot(g, v, i) \in DOMAIN g /\ r[Slot(g, v, i)] < r[v]
  BY <1>1 DEF Tree
<1>4. \A v, w \in DOMAIN g, i, j \in Positions :
        Slot(g, v, i) # NULL /\ Slot(g, v, i) = Slot(g, w, j) => v = w /\ i = j
  BY <1>1 DEF Tree
<1>5. r \in [DOMAIN g -> Nat]
  BY DEF Tree
<1> QED BY <1>2, <1>3, <1>4, <1>5 DEF Tree

-----------------------------------------------------------------------------
(* The addresses of a duplicate *)

Lower(F, a) == {b \in F : b < a}

LEMMA RanksDiffer ==
  ASSUME NEW F, F \subseteq Nat, IsFiniteSet(F), NEW a \in F
  PROVE  /\ Cardinality(Lower(F, a)) \in Nat /\ Cardinality(Lower(F, a)) < Cardinality(F)
         /\ \A b \in F : Cardinality(Lower(F, a)) = Cardinality(Lower(F, b)) => a = b
<1>1. \A S \in SUBSET F : IsFiniteSet(S) /\ Cardinality(S) \in Nat
  BY FS_Subset, FS_CardinalityType
<1>2. ASSUME NEW S \in SUBSET F, NEW T \in SUBSET F, S \subseteq T, S # T
      PROVE  Cardinality(S) < Cardinality(T)
  <2>1. IsFiniteSet(T) /\ S \in SUBSET T
    BY <1>1, <1>2
  <2>2. Cardinality(S) <= Cardinality(T) /\ Cardinality(S) # Cardinality(T)
    BY <2>1, <1>2, FS_Subset
  <2> QED BY <2>2, <1>1
<1>3. \A x \in F : Lower(F, x) \in SUBSET F /\ x \notin Lower(F, x)
  BY DEF Lower
<1>4. ASSUME NEW x \in F, NEW y \in F, x < y
      PROVE  Cardinality(Lower(F, x)) < Cardinality(Lower(F, y))
  <2>1. Lower(F, x) \subseteq Lower(F, y) /\ x \in Lower(F, y)
    <3>1. x \in Nat /\ y \in Nat
      OBVIOUS
    <3>2. ASSUME NEW b \in F, b < x PROVE b < y
      <4>1. b \in Nat
        OBVIOUS
      <4> QED BY <3>1, <3>2, <4>1, <1>4
    <3> QED BY <3>2, <1>4 DEF Lower
  <2>2. Lower(F, x) \in SUBSET F /\ Lower(F, y) \in SUBSET F /\ Lower(F, x) # Lower(F, y)
    BY <2>1, <1>3
  <2> QED BY <2>1, <2>2, <1>2
<1>5. Cardinality(Lower(F, a)) < Cardinality(F)
  BY <1>2, <1>3
<1>6. ASSUME NEW b \in F, Cardinality(Lower(F, a)) = Cardinality(Lower(F, b)) PROVE a = b
  <2>1. ~(a < b) /\ ~(b < a)
    BY <1>1, <1>3, <1>4, <1>6
  <2> QED BY <2>1
<1> QED BY <1>1, <1>3, <1>5, <1>6

\* Below each number there are as many as below some element of a large set.
LEMMA RanksCover ==
  ASSUME NEW F, F \subseteq Nat, IsFiniteSet(F), NEW k \in Nat, k < Cardinality(F)
  PROVE  \E a \in F : Cardinality(Lower(F, a)) = k
<1>1. PICK n \in Nat : n = Cardinality(F)
  BY FS_CardinalityType
<1>2. PICK f : f = [a \in F |-> Cardinality(Lower(F, a))]
  OBVIOUS
<1>3. ASSUME NEW a \in F PROVE f[a] \in 0..n-1
  <2>1. Cardinality(Lower(F, a)) \in Nat /\ Cardinality(Lower(F, a)) < Cardinality(F)
    BY RanksDiffer
  <2> QED BY <2>1, <1>1, <1>2
<1>4. f \in Injection(F, 0..n-1)
  <2>1. f \in [F -> 0..n-1]
    BY <1>2, <1>3
  <2>2. \A a, b \in F : f[a] = f[b] => a = b
    BY <1>2, RanksDiffer
  <2> QED BY <2>1, <2>2 DEF Injection, IsInjective
<1>5. IsFiniteSet(0..n-1) /\ Cardinality(0..n-1) = n
  <2>1. 0 \in Int /\ n-1 \in Int
    OBVIOUS
  <2> QED BY <2>1, <1>1, FS_Interval
<1>6. f \in Surjection(F, 0..n-1)
  BY <1>1, <1>4, <1>5, FS_Injection
<1>7. k \in 0..n-1
  BY <1>1
<1>8. PICK a \in F : f[a] = k
  BY <1>6, <1>7 DEF Surjection
<1> QED BY <1>2, <1>8

\* Each of the values that are duplicated gets an address of its own.
LEMMA AddressesSuffice ==
  ASSUME NEW B, NEW F, B \subseteq Nat, F \subseteq Nat, IsFiniteSet(B), IsFiniteSet(F),
         Cardinality(B) <= Cardinality(F), NEW to, to = [x \in B |-> to[x]],
         \A x \in B : (\E a \in F : Cardinality(Lower(F, a)) = Cardinality(Lower(B, x)))
           => to[x] \in F /\ Cardinality(Lower(F, to[x])) = Cardinality(Lower(B, x))
  PROVE  /\ to \in [B -> F]
         /\ \A x, y \in B : to[x] = to[y] => x = y
<1>1. \A x \in B : to[x] \in F /\ Cardinality(Lower(F, to[x])) = Cardinality(Lower(B, x))
  <2>1. SUFFICES ASSUME NEW x \in B
                 PROVE  \E a \in F : Cardinality(Lower(F, a)) = Cardinality(Lower(B, x))
    OBVIOUS
  <2>2. PICK k \in Nat : k = Cardinality(Lower(B, x))
    BY RanksDiffer
  <2>3. Cardinality(B) \in Nat /\ Cardinality(F) \in Nat /\ k < Cardinality(B)
    BY <2>2, RanksDiffer, FS_CardinalityType
  <2>4. k < Cardinality(F)
    BY <2>3
  <2> QED BY <2>2, <2>4, RanksCover
<1>2. to \in [B -> F]
  BY <1>1
<1>3. ASSUME NEW x \in B, NEW y \in B, to[x] = to[y] PROVE x = y
  <2>1. Cardinality(Lower(B, x)) = Cardinality(Lower(B, y))
    BY <1>1, <1>3
  <2> QED BY <2>1, RanksDiffer
<1> QED BY <1>2, <1>3

-----------------------------------------------------------------------------
(* Duplicates *)

\* The duplicate of one value, below p.
CopyOf(n, to, p, fCopy) ==
  [n EXCEPT !.nil = DuplicateNil(n), !.parent = p,
            !.items = [i \in DOMAIN n.items |-> to[n.items[i]]],
            !.members = DuplicateMembers(n), !.prototype = DuplicatePrototype(n),
            !.data = DuplicateData(n, fCopy)]

\* g is h with the duplicate of the values B below v, which to leads to.
Doubled(h, g, B, v, to, fCopy) ==
  /\ DOMAIN g = DOMAIN h \cup {to[x] : x \in B}
  /\ \A x \in DOMAIN h : g[x] = h[x]
  /\ \A x \in B : \E p : /\ g[to[x]] = CopyOf(h[x], to, p, fCopy)
                         /\ x = v => p = NULL
                         /\ x # v => \E y \in B : x \in ItemSet(h, y) /\ p = to[y]

\* All that is below v is v or an item of what is below v.
LEMMA BelowHeld ==
  ASSUME NEW h, IsFiniteSet(DOMAIN h), \A x \in DOMAIN h : ItemSet(h, x) \subseteq DOMAIN h,
         NEW v \in DOMAIN h
  PROVE  \A x \in Below(h, v) : x = v \/ \E y \in Below(h, v) : x \in ItemSet(h, y)
<1>1. PICK T : T = {x \in Below(h, v) : x = v \/ \E y \in Below(h, v) : x \in ItemSet(h, y)}
  OBVIOUS
<1>2. T \in SUBSET DOMAIN h /\ v \in T /\ \A y \in T : ItemSet(h, y) \subseteq T
  BY <1>1, BelowIs
<1>3. Below(h, v) \subseteq T
  BY <1>2, BelowIs
<1> QED BY <1>1, <1>3

LEMMA DuplicateIs ==
  ASSUME NEW h, NEW r, Shaped(h), Tree(h, r), NEW v \in DOMAIN h, NEW fCopy,
         Cardinality(Below(h, v)) <= Cardinality(Addresses \ DOMAIN h)
  PROVE  \E to : /\ to \in [Below(h, v) -> Addresses \ DOMAIN h]
                 /\ \A x, y \in Below(h, v) : to[x] = to[y] => x = y
                 /\ Duplicate(h, v, fCopy).value = to[v]
                 /\ Doubled(h, Duplicate(h, v, fCopy).heap, Below(h, v), v, to, fCopy)
<1>0. PICK B : B = Below(h, v)
  OBVIOUS
<1>f. PICK F : F = Addresses \ DOMAIN h
  OBVIOUS
<1> DEFINE rank == [a \in F |-> Cardinality({b \in F : b < a})]
           address(x) == CHOOSE a \in F : rank[a] = Cardinality({y \in B : y < x})
           to == [x \in B |-> address(x)]
           holder(x) == CHOOSE y \in B : x \in ItemSet(h, y)
           copy(x) == [h[x] EXCEPT
                         !.nil       = DuplicateNil(h[x]),
                         !.parent    = IF x = v THEN NULL ELSE CopyParent(to, holder(x), h[x]),
                         !.items     = [i \in DOMAIN @ |-> to[@[i]]],
                         !.members   = DuplicateMembers(h[x]),
                         !.prototype = DuplicatePrototype(h[x]),
                         !.data      = DuplicateData(h[x], fCopy)]
           g == [a \in DOMAIN h \cup {to[x] : x \in B} |->
                   IF a \in {to[x] : x \in B} THEN copy(CHOOSE x \in B : to[x] = a) ELSE h[a]]
<1>1. Duplicate(h, v, fCopy) = [heap |-> g, value |-> to[v]]
  BY <1>0, <1>f DEF Duplicate
<1>2. /\ IsFiniteSet(DOMAIN h) /\ DOMAIN h \subseteq Nat /\ F \subseteq Nat /\ IsFiniteSet(F)
      /\ \A x \in DOMAIN h : ItemSet(h, x) \subseteq DOMAIN h
  BY <1>f, TreeCloses, AddressesAre, FS_Difference DEF Shaped
<1>3. B \subseteq DOMAIN h /\ v \in B /\ IsFiniteSet(B)
  BY <1>0, <1>2, BelowIs, FS_Subset
<1>4. \A x \in B : x # v => \E y \in B : x \in ItemSet(h, y)
  BY <1>0, <1>2, BelowHeld
<1>5. to = [x \in B |-> to[x]]
  <2> HIDE DEF address
  <2> QED OBVIOUS
<1>6. ASSUME NEW x \in B, NEW c \in F, Cardinality(Lower(F, c)) = Cardinality(Lower(B, x))
      PROVE  to[x] \in F /\ Cardinality(Lower(F, to[x])) = Cardinality(Lower(B, x))
  <2>1. rank[c] = Cardinality({y \in B : y < x})
    BY <1>6 DEF Lower
  <2>2. to[x] = CHOOSE a \in F : rank[a] = Cardinality({y \in B : y < x})
    OBVIOUS
  <2> HIDE DEF rank, to
  <2>3. to[x] \in F /\ rank[to[x]] = Cardinality({y \in B : y < x})
    BY <2>1, <2>2
  <2>4. rank[to[x]] = Cardinality(Lower(F, to[x]))
    BY <2>3 DEF rank, Lower
  <2> QED BY <2>3, <2>4 DEF Lower
<1> HIDE DEF rank, to
<1>7. to \in [B -> F] /\ \A x, y \in B : to[x] = to[y] => x = y
  <2>1. B \subseteq Nat /\ F \subseteq Nat /\ IsFiniteSet(B) /\ IsFiniteSet(F)
    BY <1>2, <1>3
  <2>2. Cardinality(B) <= Cardinality(F)
    BY <1>0, <1>f
  <2> QED BY <2>1, <2>2, <1>5, <1>6, AddressesSuffice
<1>8. ASSUME NEW x \in DOMAIN h PROVE g[x] = h[x]
  <2>1. x \notin {to[y] : y \in B}
    BY <1>f, <1>7
  <2> QED BY <2>1
<1>9. ASSUME NEW x \in B
      PROVE  \E p : /\ g[to[x]] = CopyOf(h[x], to, p, fCopy)
                    /\ x = v => p = NULL
                    /\ x # v => \E y \in B : x \in ItemSet(h, y) /\ p = to[y]
  <2>1. PICK p : p = IF x = v THEN NULL ELSE to[holder(x)]
    <3> HIDE DEF copy, g, holder
    <3> QED OBVIOUS
  <2>2. x # v => holder(x) \in B /\ x \in ItemSet(h, holder(x))
    BY <1>4
  <2>3. (CHOOSE y \in B : to[y] = to[x]) = x
    BY <1>7
  <2>4. g[to[x]] = copy(x)
    <3>1. to[x] \in {to[y] : y \in B}
      OBVIOUS
    <3>2. g[to[x]] = copy(CHOOSE y \in B : to[y] = to[x])
      <4> HIDE DEF copy
      <4> QED BY <3>1
    <3> HIDE DEF copy
    <3> QED BY <3>2, <2>3
  <2>5. copy(x) = CopyOf(h[x], to, p, fCopy)
    BY <2>1 DEF CopyOf, CopyParent
  <2> HIDE DEF copy, g, holder
  <2> QED BY <2>1, <2>2, <2>4, <2>5
<1>10. Doubled(h, g, B, v, to, fCopy)
  <2>1. DOMAIN g = DOMAIN h \cup {to[x] : x \in B}
    OBVIOUS
  <2> HIDE DEF g
  <2> QED BY <2>1, <1>8, <1>9 DEF Doubled
<1> HIDE DEF g
<1>11. Duplicate(h, v, fCopy).value = to[v] /\ Duplicate(h, v, fCopy).heap = g
  BY <1>1
<1> QED BY <1>0, <1>f, <1>7, <1>10, <1>11

\* A duplicate has the fields of its original, except what DuplicateValue sets.
Copies(c, n, to, p, fCopy) ==
  /\ NodeShape(c)
  /\ DOMAIN c.items = DOMAIN n.items
  /\ \A i \in DOMAIN n.items : c.items[i] = to[n.items[i]]
  /\ c.prototype = NULL
  /\ c.parent = p /\ c.type = n.type /\ c.names = n.names
  /\ c.data = IF fCopy THEN n.data ELSE 0

LEMMA CopyFields ==
  ASSUME NEW n, NodeShape(n), NEW to, NEW p, p \in Addresses \cup {NULL}, NEW fCopy,
         \A i \in DOMAIN n.items : to[n.items[i]] \in Addresses
  PROVE  Copies(CopyOf(n, to, p, fCopy), n, to, p, fCopy)
<1> SUFFICES ASSUME NEW c, c = CopyOf(n, to, p, fCopy) PROVE Copies(c, n, to, p, fCopy)
  OBVIOUS
<1>0. /\ n.type \in Scalars \cup {"RECORD", "ARRAY"} /\ n.nil \in BOOLEAN
      /\ n.expandable \in BOOLEAN /\ n.data \in Data \cup Addresses
      /\ n.items \in Seq(Addresses \cup {NULL}) /\ n.names \in Seq(Names)
      /\ Len(n.items) \in Nat /\ Len(n.items) <= MaxItems /\ DOMAIN n.items = 1..Len(n.items)
  BY NodeFields
<1>1. PICK items : items = [i \in DOMAIN n.items |-> to[n.items[i]]]
  OBVIOUS
<1>2. items \in Seq(Addresses \cup {NULL}) /\ Len(items) = Len(n.items) /\ NULL \notin Range(items)
  <2>1. PICK k \in Nat : k = Len(n.items)
    BY <1>0
  <2>2. items \in [1..k -> Addresses]
    BY <1>0, <1>1, <2>1
  <2>3. items \in Seq(Addresses) /\ Len(items) = k
    BY <2>2
  <2>4. NULL \notin Range(items)
    BY <2>2, AddressesAre DEF Range
  <2> QED BY <2>1, <2>2, <2>3, <2>4
<1>3. PICK members : members = DuplicateMembers(n)
  OBVIOUS
<1>4. /\ members \in UNION {[N -> 1..MaxItems] : N \in SUBSET Names}
      /\ DOMAIN members = Range(n.names)
      /\ \A m \in DOMAIN members : members[m] \in DOMAIN n.names /\ n.names[members[m]] = m
  <2>1. PICK N : N = Range(n.names)
    OBVIOUS
  <2>2. PICK k \in Nat : k = Len(n.names) /\ k <= MaxItems
    BY <1>0, AddressesAre DEF NodeShape
  <2>3. n.names \in [1..k -> Names]
    BY <1>0, <2>2
  <2>4. N \in SUBSET Names
    BY <2>1, <2>3 DEF Range
  <2>5. ASSUME NEW m \in N
        PROVE  LET l == CHOOSE i \in DOMAIN n.names :
                          n.names[i] = m /\ \A j \in DOMAIN n.names : n.names[j] = m => j <= i
               IN l \in 1..MaxItems /\ l \in DOMAIN n.names /\ n.names[l] = m
    <3>1. PICK S : S = {i \in 1..k : n.names[i] = m}
      OBVIOUS
    <3>2. S # {}
      BY <2>1, <2>3, <3>1 DEF Range
    <3>3. IsFiniteSet(S) /\ S \subseteq Nat
      <4>1. IsFiniteSet(1..k)
        BY FS_Interval
      <4>2. PICK I : I = 1..k
        OBVIOUS
      <4>3. S \in SUBSET I
        BY <3>1, <4>2
      <4>4. IsFiniteSet(S)
        BY <4>1, <4>2, <4>3, FS_Subset
      <4> QED BY <4>4, <3>1
    <3>4. PICK i \in S : \A j \in S : j <= i
      BY <3>2, <3>3, LargestElement
    <3>5. DOMAIN n.names = 1..k /\ \A j \in 1..k : j \in 1..MaxItems
      BY <2>2, <2>3, AddressesAre
    <3>6. i \in 1..k /\ n.names[i] = m /\ \A j \in 1..k : n.names[j] = m => j <= i
      BY <3>1, <3>4
    <3> QED BY <3>5, <3>6
  <2>6. members = [m \in N |-> CHOOSE i \in DOMAIN n.names :
                     n.names[i] = m /\ \A j \in DOMAIN n.names : n.names[j] = m => j <= i]
    BY <1>3, <2>1 DEF DuplicateMembers
  <2>7. members \in [N -> 1..MaxItems]
    BY <2>5, <2>6
  <2>8. \A m \in N : members[m] \in DOMAIN n.names /\ n.names[members[m]] = m
    BY <2>5, <2>6
  <2> QED BY <2>1, <2>4, <2>7, <2>8
<1>5. PICK nil \in BOOLEAN : nil = DuplicateNil(n)
  BY <1>0 DEF DuplicateNil
<1>6. PICK data \in Data \cup Addresses : data = DuplicateData(n, fCopy) /\ data = IF fCopy THEN n.data ELSE 0
  BY <1>0, HeapAssumption DEF DuplicateData
<1>7. c = [n EXCEPT !.nil = nil, !.parent = p, !.items = items, !.members = members,
                    !.prototype = NULL, !.data = data]
  BY <1>1, <1>3, <1>5, <1>6 DEF CopyOf, DuplicatePrototype
<1>8. c \in Fields
  <2>1. members \in Tables /\ items \in Items /\ n \in Fields
    BY <1>2, <1>4 DEF NodeShape, Tables, Items
  <2> QED BY <1>7, <2>1 DEF Fields
<1>9. /\ c.items = items /\ c.prototype = NULL /\ c.parent = p /\ c.type = n.type
      /\ c.names = n.names /\ c.data = data /\ c.members = members
  BY <1>7 DEF NodeShape, Fields
<1>10. NodeShape(c)
  <2>1. Len(n.names) = (IF n.type = "RECORD" THEN Len(n.items) ELSE 0)
    BY DEF NodeShape
  <2>2. NamesFound(c)
    BY <1>4, <1>9 DEF NamesFound
  <2> QED BY <1>0, <1>2, <1>4, <1>8, <1>9, <2>1, <2>2 DEF NodeShape
<1>11. DOMAIN c.items = DOMAIN n.items /\ \A i \in DOMAIN n.items : c.items[i] = to[n.items[i]]
  BY <1>1, <1>9
<1> QED BY <1>6, <1>9, <1>10, <1>11 DEF Copies

\* What is below a value ranks no higher.
LEMMA BelowRanks ==
  ASSUME NEW h, NEW r, Shaped(h), Tree(h, r), NEW v \in DOMAIN h
  PROVE  \A x \in Below(h, v) : r[x] <= r[v]
<1>1. PICK T : T = {x \in Below(h, v) : r[x] <= r[v]}
  OBVIOUS
<1>2. r \in [DOMAIN h -> Nat]
  BY DEF Tree
<1>3. /\ Below(h, v) \subseteq DOMAIN h /\ v \in Below(h, v)
      /\ \A y \in Below(h, v) : ItemSet(h, y) \subseteq Below(h, v)
  BY BelowIs, TreeCloses
<1>4. ASSUME NEW y \in T, NEW x \in ItemSet(h, y) PROVE x \in T
  <2>1. y \in DOMAIN h /\ NodeShape(h[y])
    BY <1>1, <1>3 DEF Shaped
  <2>2. PICK i \in Positions : Slot(h, y, i) = x /\ x # NULL
    BY <2>1, SlotsHold
  <2>3. x \in DOMAIN h /\ r[x] < r[y]
    BY <2>1, <2>2 DEF Tree
  <2>4. r[x] \in Nat /\ r[y] \in Nat /\ r[v] \in Nat /\ r[y] <= r[v]
    BY <2>1, <2>3, <1>1, <1>2
  <2> QED BY <2>3, <2>4, <1>1, <1>3
<1>5. T \in SUBSET DOMAIN h /\ v \in T
  BY <1>1, <1>2, <1>3
<1>6. Below(h, v) \subseteq T
  BY <1>4, <1>5, BelowIs, TreeCloses
<1> QED BY <1>1, <1>6

\* The slots of the duplicate lead where those of the original lead.
LEMMA DuplicateSlots ==
  ASSUME NEW h, NEW r, Shaped(h), Tree(h, r), NEW v \in DOMAIN h, ~CannotDuplicate(h, v),
         NEW B, B = Below(h, v), NEW to \in [B -> Addresses \ DOMAIN h], NEW fCopy \in BOOLEAN,
         NEW g, Doubled(h, g, B, v, to, fCopy)
  PROVE  /\ \A x \in B : /\ NodeShape(g[to[x]])
                         /\ g[to[x]].type = h[x].type /\ g[to[x]].names = h[x].names
                         /\ Len(g[to[x]].items) = Len(h[x].items)
                         /\ g[to[x]].data = IF fCopy THEN h[x].data ELSE 0
                         /\ x = v => g[to[x]].parent = NULL
                         /\ x # v => \E y \in B : x \in ItemSet(h, y) /\ g[to[x]].parent = to[y]
         /\ \A x \in DOMAIN h, i \in Positions : Slot(g, x, i) = Slot(h, x, i)
         /\ \A x \in B, i \in Positions :
              /\ Slot(g, to[x], i) # NULL => /\ i # 0 /\ Slot(h, x, i) \in B
                                             /\ Slot(g, to[x], i) = to[Slot(h, x, i)]
              /\ i # 0 /\ Slot(h, x, i) # NULL => Slot(g, to[x], i) = to[Slot(h, x, i)]
<1>1. /\ B \subseteq DOMAIN h /\ v \in B /\ \A y \in B : ItemSet(h, y) \subseteq B
  BY BelowIs, TreeCloses
<1>2. \A x \in DOMAIN h, i \in Positions : Slot(g, x, i) = Slot(h, x, i)
  BY DEF Slot, Doubled
<1>3. ASSUME NEW x \in B
      PROVE  /\ NodeShape(g[to[x]])
             /\ g[to[x]].type = h[x].type /\ g[to[x]].names = h[x].names
             /\ DOMAIN g[to[x]].items = DOMAIN h[x].items
             /\ \A i \in DOMAIN h[x].items : g[to[x]].items[i] = to[h[x].items[i]]
             /\ g[to[x]].prototype = NULL
             /\ g[to[x]].data = IF fCopy THEN h[x].data ELSE 0
             /\ x = v => g[to[x]].parent = NULL
             /\ x # v => \E y \in B : x \in ItemSet(h, y) /\ g[to[x]].parent = to[y]
  <2>1. PICK p : /\ g[to[x]] = CopyOf(h[x], to, p, fCopy)
                 /\ x = v => p = NULL
                 /\ x # v => \E y \in B : x \in ItemSet(h, y) /\ p = to[y]
    BY DEF Doubled
  <2>2. PICK n : n = h[x]
    OBVIOUS
  <2>3. NodeShape(n)
    BY <2>2, <1>1 DEF Shaped
  <2>4. p \in Addresses \cup {NULL}
    BY <2>1
  <2>5. NULL \notin Range(n.items)
    BY <2>2, <2>3 DEF CannotDuplicate, NodeShape
  <2>6. \A i \in DOMAIN n.items : to[n.items[i]] \in Addresses
    BY <2>2, <2>5, <1>1 DEF ItemSet, Range
  <2>7. PICK c : c = CopyOf(n, to, p, fCopy)
    OBVIOUS
  <2>8. Copies(CopyOf(n, to, p, fCopy), n, to, p, fCopy)
    BY <2>3, <2>4, <2>6, CopyFields
  <2>9. g[to[x]] = c
    BY <2>1, <2>2, <2>7
  <2>10. Copies(c, n, to, p, fCopy)
    BY <2>7, <2>8
  <2> QED BY <2>1, <2>2, <2>9, <2>10 DEF Copies
<1>4. ASSUME NEW x \in B
      PROVE  Len(g[to[x]].items) = Len(h[x].items) /\ DOMAIN h[x].items = 1..Len(h[x].items)
             /\ Len(h[x].items) \in Nat
  <2>1. NodeShape(g[to[x]]) /\ NodeShape(h[x])
    BY <1>1, <1>3 DEF Shaped
  <2>2. /\ DOMAIN g[to[x]].items = 1..Len(g[to[x]].items) /\ Len(g[to[x]].items) \in Nat
        /\ DOMAIN h[x].items = 1..Len(h[x].items) /\ Len(h[x].items) \in Nat
    BY <2>1, NodeFields
  <2>3. DOMAIN g[to[x]].items = DOMAIN h[x].items
    BY <1>3
  <2> QED BY <2>2, <2>3
<1>5. ASSUME NEW x \in B, NEW i \in Positions
      PROVE  /\ Slot(g, to[x], i) # NULL => /\ i # 0 /\ Slot(h, x, i) \in B
                                            /\ Slot(g, to[x], i) = to[Slot(h, x, i)]
             /\ i # 0 /\ Slot(h, x, i) # NULL => Slot(g, to[x], i) = to[Slot(h, x, i)]
  <2>1. NodeShape(h[x])
    BY <1>1 DEF Shaped
  <2>2. CASE i = 0
    BY <2>2, <1>3 DEF Slot
  <2>3. CASE i # 0 /\ i <= Len(h[x].items)
    <3>1. i \in DOMAIN h[x].items
      BY <2>3, <1>4, AddressesAre
    <3>2. Slot(g, to[x], i) = to[h[x].items[i]] /\ Slot(h, x, i) = h[x].items[i]
      <4>1. g[to[x]].items[i] = to[h[x].items[i]] /\ i <= Len(g[to[x]].items)
        BY <2>3, <3>1, <1>3, <1>4
      <4> QED BY <2>3, <4>1 DEF Slot
    <3>3. Slot(h, x, i) # NULL
      <4>1. NULL \notin Range(h[x].items)
        BY <2>1 DEF CannotDuplicate, NodeShape
      <4> QED BY <3>1, <3>2, <4>1 DEF Range
    <3>4. Slot(h, x, i) \in B
      BY <2>1, <2>3, <3>3, <1>1, SlotsHold
    <3> QED BY <2>3, <3>2, <3>4
  <2>4. CASE i # 0 /\ ~(i <= Len(h[x].items))
    <3>1. ~(i <= Len(g[to[x]].items))
      BY <2>4, <1>4
    <3>2. Slot(g, to[x], i) = NULL /\ Slot(h, x, i) = NULL
      BY <2>4, <3>1 DEF Slot
    <3> QED BY <3>2
  <2> QED BY <2>2, <2>3, <2>4
<1>6. ASSUME NEW x \in B
      PROVE  /\ NodeShape(g[to[x]])
             /\ g[to[x]].type = h[x].type /\ g[to[x]].names = h[x].names
             /\ Len(g[to[x]].items) = Len(h[x].items)
             /\ g[to[x]].data = IF fCopy THEN h[x].data ELSE 0
             /\ x = v => g[to[x]].parent = NULL
             /\ x # v => \E y \in B : x \in ItemSet(h, y) /\ g[to[x]].parent = to[y]
  BY <1>3, <1>4
<1> QED BY <1>2, <1>5, <1>6

\* A tree and a duplicate of a part of it are a tree, in which the duplicate is
\* held by nothing.
LEMMA DuplicateTree ==
  ASSUME NEW h, NEW r, Shaped(h), Tree(h, r), NEW v \in DOMAIN h, ~CannotDuplicate(h, v),
         NEW B, B = Below(h, v), NEW to \in [B -> Addresses \ DOMAIN h],
         \A x, y \in B : to[x] = to[y] => x = y, NEW fCopy \in BOOLEAN,
         NEW g, Doubled(h, g, B, v, to, fCopy)
  PROVE  /\ Shaped(g) /\ to[v] \in DOMAIN g \ DOMAIN h /\ g[to[v]].parent = NULL
         /\ \A w : IsRoot(g, w) <=> IsRoot(h, w) \/ w = to[v]
         /\ \E q : Tree(g, q) /\ q[to[v]] = r[v] /\ \A x \in DOMAIN h : q[x] = r[x]
<1>1. /\ B \subseteq DOMAIN h /\ v \in B /\ NULL \notin DOMAIN h
      /\ \A y \in B : ItemSet(h, y) \subseteq B
  BY BelowIs, TreeCloses
<1>2. \A x \in B : /\ NodeShape(g[to[x]])
                   /\ x = v => g[to[x]].parent = NULL
                   /\ x # v => \E y \in B : x \in ItemSet(h, y) /\ g[to[x]].parent = to[y]
  BY DuplicateSlots
<1>3. \A x \in DOMAIN h, i \in Positions : Slot(g, x, i) = Slot(h, x, i)
  BY DuplicateSlots
<1>4. \A x \in B, i \in Positions :
        /\ Slot(g, to[x], i) # NULL => /\ i # 0 /\ Slot(h, x, i) \in B
                                       /\ Slot(g, to[x], i) = to[Slot(h, x, i)]
        /\ i # 0 /\ Slot(h, x, i) # NULL => Slot(g, to[x], i) = to[Slot(h, x, i)]
  BY DuplicateSlots
<1>5. /\ DOMAIN g = DOMAIN h \cup {to[x] : x \in B}
      /\ \A x \in DOMAIN h : g[x] = h[x]
  BY DEF Doubled
<1>t. /\ r \in [DOMAIN h -> Nat]
      /\ \A x \in DOMAIN h, i \in Positions :
           Slot(h, x, i) # NULL => Slot(h, x, i) \in DOMAIN h /\ r[Slot(h, x, i)] < r[x]
      /\ \A x, y \in DOMAIN h, i, j \in Positions :
           Slot(h, x, i) # NULL /\ Slot(h, x, i) = Slot(h, y, j) => x = y /\ i = j
      /\ \A x \in DOMAIN h : h[x].parent # NULL =>
           /\ h[x].parent \in DOMAIN h
           /\ \E i \in Positions \ {0} : Slot(h, h[x].parent, i) = x
  BY DEF Tree
<1>6. Shaped(g)
  <2>1. DOMAIN g \subseteq Addresses
    BY <1>5 DEF Shaped
  <2>2. ASSUME NEW a \in DOMAIN g PROVE NodeShape(g[a])
    <3>1. CASE a \in DOMAIN h
      BY <3>1, <1>5 DEF Shaped
    <3>2. CASE a \notin DOMAIN h
      <4>1. PICK x \in B : a = to[x]
        BY <3>2, <1>5
      <4> QED BY <4>1, <1>2
    <3> QED BY <3>1, <3>2
  <2> QED BY <2>1, <2>2 DEF Shaped
<1>7. PICK from : from = [a \in DOMAIN g |-> IF a \in DOMAIN h THEN a ELSE CHOOSE x \in B : to[x] = a]
  OBVIOUS
<1>8. ASSUME NEW x \in B PROVE to[x] \in DOMAIN g /\ to[x] \notin DOMAIN h /\ from[to[x]] = x
  BY <1>5, <1>7
<1>9. PICK q : q = [a \in DOMAIN g |-> r[from[a]]]
  OBVIOUS
<1>10. (\A x \in DOMAIN h : q[x] = r[x]) /\ \A x \in B : q[to[x]] = r[x]
  BY <1>5, <1>7, <1>8, <1>9
<1>11. ASSUME NEW a \in DOMAIN g PROVE a \in DOMAIN h \/ \E x \in B : a = to[x]
  BY <1>5
<1>12. q \in [DOMAIN g -> Nat]
  <2>1. ASSUME NEW a \in DOMAIN g PROVE q[a] \in Nat
    BY <1>1, <1>10, <1>11, <1>t
  <2> QED BY <2>1, <1>9
<1>13. ASSUME NEW a \in DOMAIN g, NEW i \in Positions, Slot(g, a, i) # NULL
       PROVE  Slot(g, a, i) \in DOMAIN g /\ q[Slot(g, a, i)] < q[a]
  <2>1. CASE a \in DOMAIN h
    <3>1. Slot(h, a, i) \in DOMAIN h /\ r[Slot(h, a, i)] < r[a]
      BY <2>1, <1>3, <1>13, <1>t
    <3> QED BY <2>1, <3>1, <1>3, <1>5, <1>10
  <2>2. ASSUME NEW x \in B, a = to[x] PROVE Slot(g, a, i) \in DOMAIN g /\ q[Slot(g, a, i)] < q[a]
    <3>1. PICK y \in B : y = Slot(h, x, i) /\ Slot(g, a, i) = to[y]
      BY <2>2, <1>4, <1>13
    <3>2. r[y] < r[x]
      BY <3>1, <1>1, <1>t
    <3> QED BY <2>2, <3>1, <3>2, <1>8, <1>10
  <2> QED BY <2>1, <2>2, <1>11
<1>14. ASSUME NEW a \in DOMAIN g, NEW b \in DOMAIN g, NEW i \in Positions, NEW j \in Positions,
              Slot(g, a, i) # NULL, Slot(g, a, i) = Slot(g, b, j)
       PROVE  a = b /\ i = j
  <2>1. CASE a \in DOMAIN h /\ b \in DOMAIN h
    <3>1. Slot(h, a, i) # NULL /\ Slot(h, a, i) = Slot(h, b, j)
      BY <2>1, <1>3, <1>14
    <3> QED BY <2>1, <3>1, <1>t
  <2>2. ASSUME NEW c \in DOMAIN h, NEW x \in B, NEW k \in Positions, NEW l \in Positions,
               Slot(g, c, k) # NULL
        PROVE  Slot(g, c, k) # Slot(g, to[x], l)
    <3>1. Slot(g, c, k) \in DOMAIN h
      BY <2>2, <1>3, <1>t
    <3>2. Slot(g, to[x], l) # NULL => Slot(g, to[x], l) \notin DOMAIN h
      BY <1>4, <1>8
    <3> QED BY <2>2, <3>1, <3>2
  <2>3. ASSUME NEW x \in B, NEW y \in B, a = to[x], b = to[y] PROVE a = b /\ i = j
    <3>1. /\ Slot(g, to[x], i) = to[Slot(h, x, i)] /\ Slot(h, x, i) \in B
          /\ Slot(g, to[y], j) = to[Slot(h, y, j)] /\ Slot(h, y, j) \in B
      BY <2>3, <1>4, <1>14
    <3>2. Slot(h, x, i) = Slot(h, y, j) /\ Slot(h, x, i) # NULL
      BY <2>3, <3>1, <1>1, <1>14
    <3> QED BY <2>3, <3>2, <1>1, <1>t
  <2> QED BY <2>1, <2>2, <2>3, <1>11, <1>14
<1>15. ASSUME NEW a \in DOMAIN g, g[a].parent # NULL
       PROVE  g[a].parent \in DOMAIN g /\ \E i \in Positions \ {0} : Slot(g, g[a].parent, i) = a
  <2>1. CASE a \in DOMAIN h
    <3>1. PICK p \in DOMAIN h, i \in Positions \ {0} : p = h[a].parent /\ Slot(h, p, i) = a
      BY <2>1, <1>5, <1>15, <1>t
    <3> QED BY <2>1, <3>1, <1>3, <1>5
  <2>2. ASSUME NEW x \in B, a = to[x]
        PROVE  g[a].parent \in DOMAIN g /\ \E i \in Positions \ {0} : Slot(g, g[a].parent, i) = a
    <3>1. PICK y \in B : x \in ItemSet(h, y) /\ g[a].parent = to[y]
      BY <2>2, <1>2, <1>15
    <3>2. NodeShape(h[y])
      BY <1>1 DEF Shaped
    <3>3. PICK i \in Positions \ {0} : Slot(h, y, i) = x /\ x # NULL
      BY <3>1, <3>2, SlotsHold
    <3>4. Slot(g, to[y], i) = a
      BY <2>2, <3>3, <1>4
    <3> QED BY <3>1, <3>3, <3>4, <1>8
  <2> QED BY <2>1, <2>2, <1>11
<1>16. Tree(g, q)
  BY <1>12, <1>13, <1>14, <1>15 DEF Tree
<1>17. ASSUME NEW w PROVE IsRoot(g, w) <=> IsRoot(h, w) \/ w = to[v]
  <2>1. ASSUME IsRoot(h, w) PROVE IsRoot(g, w)
    <3>1. w \in DOMAIN h /\ w \in DOMAIN g /\ w # NULL
      BY <2>1, <1>1, <1>5 DEF IsRoot
    <3>2. ASSUME NEW a \in DOMAIN g, NEW i \in Positions PROVE Slot(g, a, i) # w
      <4>1. CASE a \in DOMAIN h
        BY <2>1, <4>1, <1>3 DEF IsRoot
      <4>2. ASSUME NEW x \in B, a = to[x] PROVE Slot(g, a, i) # w
        BY <3>1, <4>2, <1>4, <1>8
      <4> QED BY <4>1, <4>2, <1>11
    <3> QED BY <3>1, <3>2 DEF IsRoot
  <2>2. ASSUME w = to[v] PROVE IsRoot(g, w)
    <3>1. w \in DOMAIN g /\ w \notin DOMAIN h /\ w # NULL
      BY <2>2, <1>1, <1>8, AddressesAre
    <3>2. ASSUME NEW a \in DOMAIN g, NEW i \in Positions PROVE Slot(g, a, i) # w
      <4>1. CASE a \in DOMAIN h
        BY <3>1, <4>1, <1>3, <1>t
      <4>2. ASSUME NEW x \in B, a = to[x], Slot(g, a, i) = w PROVE FALSE
        <5>1. Slot(h, x, i) = v
          BY <2>2, <3>1, <4>2, <1>1, <1>4
        <5>2. v # NULL /\ x \in DOMAIN h /\ r[v] \in Nat /\ r[x] \in Nat
          BY <1>1, <1>t
        <5>3. r[v] < r[x]
          BY <5>1, <5>2, <1>t
        <5>4. r[x] <= r[v]
          BY BelowRanks
        <5> QED BY <5>2, <5>3, <5>4
      <4> QED BY <4>1, <4>2, <1>11
    <3> QED BY <3>1, <3>2 DEF IsRoot
  <2>3. ASSUME IsRoot(g, w), w # to[v] PROVE IsRoot(h, w)
    <3>1. w \in DOMAIN g
      BY <2>3 DEF IsRoot
    <3>2. ASSUME NEW x \in B, w = to[x] PROVE FALSE
      <4>1. PICK y \in B : x \in ItemSet(h, y)
        BY <2>3, <3>2, <1>2
      <4>2. NodeShape(h[y])
        BY <1>1 DEF Shaped
      <4>3. PICK i \in Positions \ {0} : Slot(h, y, i) = x /\ x # NULL
        BY <4>1, <4>2, SlotsHold
      <4>4. Slot(g, to[y], i) = w /\ to[y] \in DOMAIN g
        BY <3>2, <4>3, <1>4, <1>8
      <4> QED BY <2>3, <4>4 DEF IsRoot
    <3>3. w \in DOMAIN h
      BY <3>1, <3>2, <1>11
    <3> QED BY <2>3, <3>3, <1>3, <1>5 DEF IsRoot
  <2> QED BY <2>1, <2>2, <2>3
<1>18. to[v] \in DOMAIN g \ DOMAIN h /\ g[to[v]].parent = NULL /\ q[to[v]] = r[v]
  BY <1>1, <1>2, <1>8, <1>10
<1> QED BY <1>6, <1>10, <1>16, <1>17, <1>18

\* A duplicate takes as many addresses as there are values below the original.
LEMMA DuplicateSize ==
  ASSUME NEW h, NEW B, IsFiniteSet(B), NEW to \in [B -> Addresses \ DOMAIN h],
         \A x, y \in B : to[x] = to[y] => x = y, NEW v, NEW fCopy,
         NEW g, Doubled(h, g, B, v, to, fCopy)
  PROVE  Cardinality(Addresses \ DOMAIN g) = Cardinality(Addresses \ DOMAIN h) - Cardinality(B)
<1>1. PICK T : T = {to[x] : x \in B}
  OBVIOUS
<1>2. IsFiniteSet(T) /\ Cardinality(T) = Cardinality(B)
  <2>1. to \in [B -> T] /\ \A t \in T : \E x \in B : to[x] = t
    BY <1>1
  <2>2. to \in Surjection(B, T) /\ to \in Injection(B, T)
    BY <2>1 DEF Surjection, Injection, IsInjective
  <2> QED BY <2>2, FS_Surjection
<1>3. PICK F : F = Addresses \ DOMAIN h
  OBVIOUS
<1>4. IsFiniteSet(F) /\ T \subseteq F
  BY <1>1, <1>3, AddressesAre, FS_Difference
<1>5. F \cap T = T /\ Addresses \ DOMAIN g = F \ T
  BY <1>1, <1>3, <1>4 DEF Doubled
<1>6. Cardinality(F \ T) = Cardinality(F) - Cardinality(F \cap T)
  BY <1>4, FS_Difference
<1> QED BY <1>2, <1>3, <1>5, <1>6

\* What is added elsewhere does not change what is below a value.
LEMMA BelowKept ==
  ASSUME NEW h, NEW g, NEW r, NEW q, Shaped(h), Tree(h, r), Shaped(g), Tree(g, q),
         DOMAIN h \subseteq DOMAIN g, \A x \in DOMAIN h : g[x] = h[x], NEW v \in DOMAIN h
  PROVE  Below(g, v) = Below(h, v) /\ (CannotDuplicate(g, v) <=> CannotDuplicate(h, v))
<1>1. \A x \in DOMAIN h : ItemSet(g, x) = ItemSet(h, x)
  BY DEF ItemSet
<1>2. /\ Below(h, v) \subseteq DOMAIN h /\ v \in Below(h, v)
      /\ \A y \in Below(h, v) : ItemSet(h, y) \subseteq Below(h, v)
  BY BelowIs, TreeCloses
<1>3. v \in DOMAIN g
  OBVIOUS
<1>4. /\ v \in Below(g, v) /\ \A y \in Below(g, v) : ItemSet(g, y) \subseteq Below(g, v)
  BY <1>3, BelowIs, TreeCloses
<1>5. Below(g, v) \subseteq Below(h, v)
  <2>1. PICK T : T = Below(h, v)
    OBVIOUS
  <2>2. T \in SUBSET DOMAIN g /\ v \in T /\ \A y \in T : ItemSet(g, y) \subseteq T
    BY <2>1, <1>1, <1>2
  <2> QED BY <2>1, <2>2, <1>3, BelowIs, TreeCloses
<1>6. Below(h, v) \subseteq Below(g, v)
  <2>1. PICK T : T = Below(g, v)
    OBVIOUS
  <2>2. T \in SUBSET DOMAIN h /\ v \in T /\ \A y \in T : ItemSet(h, y) \subseteq T
    BY <2>1, <1>1, <1>2, <1>4, <1>5
  <2> QED BY <2>1, <2>2, BelowIs, TreeCloses
<1>7. Below(g, v) = Below(h, v)
  BY <1>5, <1>6
<1>8. CannotDuplicate(g, v) <=> CannotDuplicate(h, v)
  BY <1>2, <1>7 DEF CannotDuplicate
<1> QED BY <1>7, <1>8

\* g has the values of h as they were, with what h does not hold still held by
\* nothing, and possibly more.
Extended(h, r, g, q) ==
  /\ Shaped(g) /\ Tree(g, q) /\ (Typed(h) => Typed(g))
  /\ DOMAIN h \subseteq DOMAIN g /\ \A x \in DOMAIN h : g[x] = h[x] /\ q[x] = r[x]
  /\ \A w : IsRoot(h, w) => IsRoot(g, w)

\* w is one of those more, held by nothing.
NewRoot(h, g, q, w, k) ==
  w \in DOMAIN g \ DOMAIN h /\ g[w].parent = NULL /\ IsRoot(g, w) /\ q[w] = k

LEMMA DuplicateExtends ==
  ASSUME NEW h, NEW r, Shaped(h), Tree(h, r), NEW v \in DOMAIN h, ~CannotDuplicate(h, v),
         NEW fCopy \in BOOLEAN, Cardinality(Below(h, v)) <= Cardinality(Addresses \ DOMAIN h)
  PROVE  /\ \E q : /\ Extended(h, r, Duplicate(h, v, fCopy).heap, q)
                   /\ NewRoot(h, Duplicate(h, v, fCopy).heap, q, Duplicate(h, v, fCopy).value, r[v])
         /\ Cardinality(Addresses \ DOMAIN Duplicate(h, v, fCopy).heap)
              = Cardinality(Addresses \ DOMAIN h) - Cardinality(Below(h, v))
<1>1. PICK B : B = Below(h, v)
  OBVIOUS
<1>2. B \subseteq DOMAIN h /\ v \in B /\ IsFiniteSet(B)
  BY <1>1, BelowIs, TreeCloses, FS_Subset
<1>3. PICK g : g = Duplicate(h, v, fCopy).heap
  OBVIOUS
<1>4. PICK to \in [B -> Addresses \ DOMAIN h] :
        /\ \A x, y \in B : to[x] = to[y] => x = y
        /\ Duplicate(h, v, fCopy).value = to[v]
        /\ Doubled(h, g, B, v, to, fCopy)
  BY <1>1, <1>3, DuplicateIs
<1>5. /\ Shaped(g) /\ to[v] \in DOMAIN g \ DOMAIN h /\ g[to[v]].parent = NULL
      /\ \A w : IsRoot(g, w) <=> IsRoot(h, w) \/ w = to[v]
      /\ \E q : Tree(g, q) /\ q[to[v]] = r[v] /\ \A x \in DOMAIN h : q[x] = r[x]
  BY <1>1, <1>4, DuplicateTree
<1>6. PICK q : Tree(g, q) /\ q[to[v]] = r[v] /\ \A x \in DOMAIN h : q[x] = r[x]
  BY <1>5
<1>7. DOMAIN g = DOMAIN h \cup {to[x] : x \in B} /\ \A x \in DOMAIN h : g[x] = h[x]
  BY <1>4 DEF Doubled
<1>8. ASSUME Typed(h) PROVE Typed(g)
  <2>1. \A x \in B : g[to[x]].data = IF fCopy THEN h[x].data ELSE 0
    BY <1>1, <1>4, DuplicateSlots
  <2>2. ASSUME NEW a \in DOMAIN g PROVE g[a].data \in Data
    <3>1. CASE a \in DOMAIN h
      BY <3>1, <1>7, <1>8 DEF Typed
    <3>2. CASE a \notin DOMAIN h
      <4>1. PICK x \in B : a = to[x]
        BY <3>2, <1>7
      <4>2. h[x].data \in Data /\ 0 \in Data
        BY <1>2, <1>8, HeapAssumption DEF Typed
      <4> QED BY <4>1, <4>2, <2>1
    <3> QED BY <3>1, <3>2
  <2> QED BY <2>2, <1>5 DEF Typed
<1>9. Extended(h, r, g, q) /\ NewRoot(h, g, q, to[v], r[v])
  BY <1>5, <1>6, <1>7, <1>8 DEF Extended, NewRoot
<1>10. Cardinality(Addresses \ DOMAIN g) = Cardinality(Addresses \ DOMAIN h) - Cardinality(B)
  BY <1>2, <1>4, DuplicateSize
<1> QED BY <1>1, <1>3, <1>4, <1>9, <1>10

\* What MakeValueArray has made after k duplicates of v.
Multiplied(h, r, v, k, d) ==
  \E q : /\ Extended(h, r, d.heap, q)
         /\ d.values \in Seq(Addresses) /\ Len(d.values) = k
         /\ \A i \in 1..k : NewRoot(h, d.heap, q, d.values[i], r[v])
         /\ \A i, j \in 1..k : d.values[i] = d.values[j] => i = j
         /\ Cardinality(Addresses \ DOMAIN d.heap) + k * Cardinality(Below(h, v))
              = Cardinality(Addresses \ DOMAIN h)

LEMMA OneMore ==
  ASSUME NEW h, NEW r, Shaped(h), Tree(h, r), NEW v \in DOMAIN h, ~CannotDuplicate(h, v),
         NEW fCopy \in BOOLEAN, NEW k \in Nat, NEW d, Multiplied(h, r, v, k, d),
         (k + 1) * Cardinality(Below(h, v)) <= Cardinality(Addresses \ DOMAIN h), NEW e,
         e = [heap |-> Duplicate(d.heap, v, fCopy).heap,
              values |-> Append(d.values, Duplicate(d.heap, v, fCopy).value)]
  PROVE  Multiplied(h, r, v, k+1, e)
<1>1. PICK q : /\ Extended(h, r, d.heap, q)
               /\ d.values \in Seq(Addresses) /\ Len(d.values) = k
               /\ \A i \in 1..k : NewRoot(h, d.heap, q, d.values[i], r[v])
               /\ \A i, j \in 1..k : d.values[i] = d.values[j] => i = j
               /\ Cardinality(Addresses \ DOMAIN d.heap) + k * Cardinality(Below(h, v))
                    = Cardinality(Addresses \ DOMAIN h)
  BY DEF Multiplied
<1>2. PICK g : g = d.heap
  OBVIOUS
<1>3. /\ Shaped(g) /\ Tree(g, q) /\ (Typed(h) => Typed(g))
      /\ DOMAIN h \subseteq DOMAIN g /\ \A x \in DOMAIN h : g[x] = h[x] /\ q[x] = r[x]
      /\ \A w : IsRoot(h, w) => IsRoot(g, w)
  BY <1>1, <1>2 DEF Extended
<1>4. Below(g, v) = Below(h, v) /\ ~CannotDuplicate(g, v)
  BY <1>3, BelowKept
<1>5. PICK b \in Nat : b = Cardinality(Below(h, v))
  BY BelowIs, TreeCloses, FS_Subset, FS_CardinalityType
<1>6. PICK m \in Nat : m = Cardinality(Addresses \ DOMAIN h)
  BY AddressesAre, FS_Difference, FS_CardinalityType
<1>7. PICK l \in Nat : l = Cardinality(Addresses \ DOMAIN g)
  BY AddressesAre, FS_Difference, FS_CardinalityType
<1>8. b <= l /\ l + k * b = m /\ k * b \in Nat /\ (k+1) * b = k * b + b
  BY <1>1, <1>2, <1>5, <1>6, <1>7
<1>9. PICK w : w = Duplicate(g, v, fCopy).value
  OBVIOUS
<1>10. PICK f : f = Duplicate(g, v, fCopy).heap
  OBVIOUS
<1>11. /\ \E p : Extended(g, q, f, p) /\ NewRoot(g, f, p, w, q[v])
       /\ Cardinality(Addresses \ DOMAIN f) = l - b
  <2>1. v \in DOMAIN g /\ Cardinality(Below(g, v)) <= Cardinality(Addresses \ DOMAIN g)
    BY <1>3, <1>4, <1>5, <1>7, <1>8
  <2> QED BY <2>1, <1>3, <1>4, <1>5, <1>7, <1>9, <1>10, DuplicateExtends
<1>12. PICK p : Extended(g, q, f, p) /\ NewRoot(g, f, p, w, q[v])
  BY <1>11
<1>13. Extended(h, r, f, p)
  BY <1>3, <1>12 DEF Extended
<1>14. NewRoot(h, f, p, w, r[v]) /\ \A u : IsRoot(g, u) => IsRoot(f, u)
  BY <1>3, <1>12 DEF NewRoot, Extended
<1>15. ASSUME NEW i \in 1..k PROVE NewRoot(h, f, p, d.values[i], r[v]) /\ d.values[i] # w
  <2>1. PICK u : u = d.values[i]
    OBVIOUS
  <2>2. u \in DOMAIN g \ DOMAIN h /\ g[u].parent = NULL /\ IsRoot(g, u) /\ q[u] = r[v]
    BY <2>1, <1>1, <1>2 DEF NewRoot
  <2>3. u \in DOMAIN f /\ f[u] = g[u] /\ p[u] = q[u]
    BY <2>2, <1>12 DEF Extended
  <2>4. w \notin DOMAIN g
    BY <1>12 DEF NewRoot
  <2> QED BY <2>1, <2>2, <2>3, <2>4, <1>14 DEF NewRoot
<1>16. PICK s : s = d.values
  OBVIOUS
<1>17. PICK t : t = Append(s, w)
  OBVIOUS
<1>18. w \in Addresses
  BY <1>13, <1>14 DEF NewRoot, Extended, Shaped
<1>19. /\ t \in Seq(Addresses) /\ Len(t) = k + 1 /\ t[k+1] = w
       /\ \A i \in 1..k : t[i] = s[i]
  BY <1>1, <1>16, <1>17, <1>18
<1>20. ASSUME NEW i \in 1..k+1
       PROVE  /\ NewRoot(h, f, p, t[i], r[v])
              /\ \A j \in 1..k+1 : t[i] = t[j] => i = j
  <2>1. \A j \in 1..k+1 : j \in 1..k \/ j = k+1
    OBVIOUS
  <2>2. \A j \in 1..k : NewRoot(h, f, p, t[j], r[v]) /\ t[j] # w
    BY <1>15, <1>16, <1>19
  <2>3. \A i1, j \in 1..k : t[i1] = t[j] => i1 = j
    BY <1>1, <1>16, <1>19
  <2> QED BY <2>1, <2>2, <2>3, <1>14, <1>19
<1>21. Cardinality(Addresses \ DOMAIN f) + (k+1) * b = m
  BY <1>8, <1>11
<1>22. e.heap = f /\ e.values = t
  BY <1>2, <1>9, <1>10, <1>16, <1>17
<1> QED BY <1>5, <1>6, <1>13, <1>19, <1>20, <1>21, <1>22 DEF Multiplied

\* MakeValueArray, one duplicate at a time.
NextMade(h, v, fCopy, m) ==
  IF v = NULL THEN [heap |-> h, values |-> Append(m.values, NULL)]
  ELSE [heap |-> Duplicate(m.heap, v, fCopy).heap,
        values |-> Append(m.values, Duplicate(m.heap, v, fCopy).value)]

Making(h, v, n, fCopy, f) ==
  f = [k \in 0..n |-> IF k = 0 THEN [heap |-> h, values |-> <<>>]
                      ELSE NextMade(h, v, fCopy, f[k-1])]

LEMMA MakingExists ==
  ASSUME NEW h, NEW v, NEW n \in Nat, NEW fCopy
  PROVE  \E f : Making(h, v, n, fCopy, f)
<1> DEFINE T == {k \in Nat : ~\E f : Making(h, v, k, fCopy, f)}
<1>1. SUFFICES ASSUME T # {} PROVE FALSE
  OBVIOUS
<1>2. PICK m \in T : \A k \in T : m <= k
  <2>1. T \subseteq Nat
    OBVIOUS
  <2> HIDE DEF T
  <2> QED BY <1>1, <2>1, LeastElement
<1>3. m \in Nat /\ ~\E f : Making(h, v, m, fCopy, f)
  OBVIOUS
<1>4. CASE m = 0
  <2>1. PICK first : first = [heap |-> h, values |-> <<>>]
    OBVIOUS
  <2>2. PICK f : f = [k \in 0..0 |-> first]
    OBVIOUS
  <2>3. f = [k \in 0..0 |-> IF k = 0 THEN first ELSE NextMade(h, v, fCopy, f[k-1])]
    <3>1. \A k \in 0..0 : k = 0
      OBVIOUS
    <3> QED BY <2>2, <3>1
  <2>4. Making(h, v, 0, fCopy, f)
    BY <2>1, <2>3 DEF Making
  <2> QED BY <2>4, <1>3, <1>4
<1>5. CASE m # 0
  <2>1. m-1 \in Nat /\ m-1 < m /\ m-1 \notin T
    BY <1>2, <1>3, <1>5
  <2>2. PICK f : Making(h, v, m-1, fCopy, f)
    BY <2>1
  <2>3. PICK first : first = [heap |-> h, values |-> <<>>]
    OBVIOUS
  <2>4. f = [k \in 0..m-1 |-> IF k = 0 THEN first ELSE NextMade(h, v, fCopy, f[k-1])]
    BY <2>2, <2>3 DEF Making
  <2> DEFINE g == [k \in 0..m |-> IF k = m THEN NextMade(h, v, fCopy, f[m-1]) ELSE f[k]]
  <2>5. ASSUME NEW k \in 0..m
        PROVE  g[k] = IF k = 0 THEN first ELSE NextMade(h, v, fCopy, g[k-1])
    <3>1. CASE k = m
      <4>1. k-1 \in 0..m /\ k-1 # m /\ k # 0
        BY <3>1, <1>3, <1>5
      <4>2. g[k-1] = f[m-1]
        BY <3>1, <4>1
      <4>3. g[k] = NextMade(h, v, fCopy, f[m-1])
        BY <3>1
      <4> HIDE DEF g
      <4> QED BY <4>1, <4>2, <4>3
    <3>2. CASE k # m
      <4>1. k \in 0..m-1
        BY <3>2, <1>3
      <4>2. f[k] = IF k = 0 THEN first ELSE NextMade(h, v, fCopy, f[k-1])
        BY <2>4, <4>1
      <4>3. g[k] = f[k]
        BY <3>2
      <4>4. k # 0 => g[k-1] = f[k-1]
        BY <4>1, <1>3
      <4> HIDE DEF g
      <4> QED BY <4>2, <4>3, <4>4
    <3> QED BY <3>1, <3>2
  <2>6. g = [k \in 0..m |-> g[k]]
    OBVIOUS
  <2> HIDE DEF g
  <2>7. g = [k \in 0..m |-> IF k = 0 THEN first ELSE NextMade(h, v, fCopy, g[k-1])]
    BY <2>5, <2>6
  <2>8. Making(h, v, m, fCopy, g)
    BY <2>3, <2>7 DEF Making
  <2> QED BY <2>8, <1>3
<1> QED BY <1>4, <1>5

LEMMA DuplicatesAreMade ==
  ASSUME NEW h, NEW v, NEW n \in Nat, NEW fCopy
  PROVE  \E f : /\ Duplicates(h, v, n, fCopy) = f[n]
                /\ f[0] = [heap |-> h, values |-> <<>>]
                /\ \A k \in 1..n : f[k] = NextMade(h, v, fCopy, f[k-1])
<1> DEFINE made == CHOOSE f : Making(h, v, n, fCopy, f)
<1>1. Making(h, v, n, fCopy, made)
  BY MakingExists
<1>2. Duplicates(h, v, n, fCopy) = made[n]
  BY DEF Duplicates, Making, NextMade
<1> HIDE DEF made
<1>3. \A k \in 0..n : made[k] = IF k = 0 THEN [heap |-> h, values |-> <<>>]
                                ELSE NextMade(h, v, fCopy, made[k-1])
  <2>1. PICK first : first = [heap |-> h, values |-> <<>>]
    OBVIOUS
  <2>2. made = [k \in 0..n |-> IF k = 0 THEN first ELSE NextMade(h, v, fCopy, made[k-1])]
    BY <1>1, <2>1 DEF Making
  <2>3. \A k \in 0..n : made[k] = IF k = 0 THEN first ELSE NextMade(h, v, fCopy, made[k-1])
    BY <2>2
  <2> QED BY <2>1, <2>3
<1>4. 0 \in 0..n /\ \A k \in 1..n : k \in 0..n /\ k # 0
  OBVIOUS
<1>5. made[0] = [heap |-> h, values |-> <<>>]
  BY <1>3, <1>4
<1>6. \A k \in 1..n : made[k] = NextMade(h, v, fCopy, made[k-1])
  BY <1>3, <1>4
<1> QED BY <1>2, <1>5, <1>6

\* Each of the first n duplicates leaves room for the next: the first that did
\* not would come after one that does.
LEMMA DuplicatesMultiply ==
  ASSUME NEW h, NEW r, Shaped(h), Tree(h, r), NEW v \in DOMAIN h, NEW n \in Nat,
         n # 0 => ~CannotDuplicate(h, v), NEW fCopy \in BOOLEAN,
         n * Cardinality(Below(h, v)) <= Cardinality(Addresses \ DOMAIN h)
  PROVE  Multiplied(h, r, v, n, Duplicates(h, v, n, fCopy))
<1>1. PICK f : /\ Duplicates(h, v, n, fCopy) = f[n]
               /\ f[0] = [heap |-> h, values |-> <<>>]
               /\ \A k \in 1..n : f[k] = NextMade(h, v, fCopy, f[k-1])
  BY DuplicatesAreMade
<1>2. v # NULL
  BY TreeCloses
<1>3. PICK b \in Nat : b = Cardinality(Below(h, v))
  BY BelowIs, TreeCloses, FS_Subset, FS_CardinalityType
<1>4. PICK m \in Nat : m = Cardinality(Addresses \ DOMAIN h)
  BY AddressesAre, FS_Difference, FS_CardinalityType
<1>5. Multiplied(h, r, v, 0, f[0])
  <2>1. PICK d : d = f[0]
    OBVIOUS
  <2>2. d.heap = h /\ d.values = <<>>
    BY <2>1, <1>1
  <2>3. Extended(h, r, d.heap, r)
    BY <2>2 DEF Extended
  <2>4. d.values \in Seq(Addresses) /\ Len(d.values) = 0
    BY <2>2
  <2>5. Cardinality(Addresses \ DOMAIN d.heap) + 0 * Cardinality(Below(h, v)) = Cardinality(Addresses \ DOMAIN h)
    BY <2>2, <1>3, <1>4
  <2>6. 1..0 = {}
    OBVIOUS
  <2>7. Multiplied(h, r, v, 0, d)
    BY <2>3, <2>4, <2>5, <2>6 DEF Multiplied
  <2> QED BY <2>1, <2>7
<1> DEFINE Bad == {k \in 0..n : ~Multiplied(h, r, v, k, f[k])}
<1>6. ASSUME Bad # {} PROVE FALSE
  <2>1. Bad \subseteq Nat
    OBVIOUS
  <2>2. PICK k \in Bad : \A j \in Bad : k <= j
    <3> HIDE DEF Bad
    <3> QED BY <1>6, <2>1, LeastElement
  <2>3. k \in 0..n /\ ~Multiplied(h, r, v, k, f[k])
    OBVIOUS
  <2>4. k # 0
    BY <2>3, <1>5
  <2>5. k-1 \in Nat /\ k-1 < k /\ k-1 \in 0..n /\ k \in 1..n
    BY <2>3, <2>4
  <2>6. Multiplied(h, r, v, k-1, f[k-1])
    BY <2>2, <2>5
  <2>7. PICK d : d = f[k-1]
    OBVIOUS
  <2>8. PICK e : e = f[k]
    OBVIOUS
  <2>9. e = [heap |-> Duplicate(d.heap, v, fCopy).heap,
             values |-> Append(d.values, Duplicate(d.heap, v, fCopy).value)]
    BY <2>5, <2>7, <2>8, <1>1, <1>2 DEF NextMade
  <2>10. PICK j \in Nat : j = k-1
    BY <2>5
  <2>11. (j + 1) * b <= n * b
    <3>1. j + 1 <= n
      BY <2>5, <2>10
    <3>2. PICK i \in Nat : n = (j + 1) + i
      <4>1. n - (j + 1) \in Nat /\ n = (j + 1) + (n - (j + 1))
        BY <3>1
      <4> QED BY <4>1
    <3>3. n * b = (j + 1) * b + i * b /\ i * b \in Nat /\ (j + 1) * b \in Nat
      BY <3>2
    <3> QED BY <3>3
  <2>12. (j + 1) * b <= m
    <3>1. (j + 1) * b \in Nat /\ n * b \in Nat /\ n * b <= m
      BY <1>3, <1>4
    <3> QED BY <3>1, <2>11
  <2>13. Multiplied(h, r, v, j, d) /\ ~CannotDuplicate(h, v)
    BY <2>5, <2>6, <2>7, <2>10
  <2>14. (j + 1) * Cardinality(Below(h, v)) <= Cardinality(Addresses \ DOMAIN h)
    BY <2>12, <1>3, <1>4
  <2>15. Multiplied(h, r, v, j + 1, e)
    BY <2>9, <2>13, <2>14, OneMore
  <2>16. j + 1 = k
    BY <2>3, <2>10
  <2> QED BY <2>3, <2>8, <2>15, <2>16
<1> QED BY <1>1, <1>6

\* The duplicates of nothing are nothing.
LEMMA NothingMultiplied ==
  ASSUME NEW h, NEW n \in Nat, NEW fCopy
  PROVE  /\ Duplicates(h, NULL, n, fCopy).heap = h
         /\ Duplicates(h, NULL, n, fCopy).values \in Seq({NULL})
         /\ Len(Duplicates(h, NULL, n, fCopy).values) = n
<1>1. PICK f : /\ Duplicates(h, NULL, n, fCopy) = f[n]
               /\ f[0] = [heap |-> h, values |-> <<>>]
               /\ \A k \in 1..n : f[k] = NextMade(h, NULL, fCopy, f[k-1])
  BY DuplicatesAreMade
<1> DEFINE Bad == {k \in 0..n : ~(f[k].heap = h /\ f[k].values \in Seq({NULL}) /\ Len(f[k].values) = k)}
<1>2. f[0].heap = h /\ f[0].values \in Seq({NULL}) /\ Len(f[0].values) = 0
  BY <1>1
<1>3. ASSUME Bad # {} PROVE FALSE
  <2>1. Bad \subseteq Nat
    OBVIOUS
  <2>2. PICK k \in Bad : \A j \in Bad : k <= j
    <3> HIDE DEF Bad
    <3> QED BY <1>3, <2>1, LeastElement
  <2>3. k \in 0..n /\ ~(f[k].heap = h /\ f[k].values \in Seq({NULL}) /\ Len(f[k].values) = k)
    OBVIOUS
  <2>4. k # 0
    BY <2>3, <1>2
  <2>5. k-1 \in Nat /\ k-1 < k /\ k-1 \in 0..n /\ k \in 1..n
    BY <2>3, <2>4
  <2>6. PICK j \in Nat : j = k-1
    BY <2>5
  <2>7. PICK s : s = f[j].values
    OBVIOUS
  <2>8. s \in Seq({NULL}) /\ Len(s) = j
    BY <2>2, <2>5, <2>6, <2>7
  <2>9. f[k] = NextMade(h, NULL, fCopy, f[j])
    BY <2>5, <2>6, <1>1
  <2>10. f[k].heap = h /\ f[k].values = Append(s, NULL)
    BY <2>7, <2>9 DEF NextMade
  <2>11. j + 1 = k
    BY <2>3, <2>6
  <2> QED BY <2>3, <2>8, <2>10, <2>11
<1>4. n \in 0..n
  OBVIOUS
<1> QED BY <1>1, <1>3, <1>4

-----------------------------------------------------------------------------
(* What calls write into values *)

WithParent(n, p) == [n EXCEPT !.parent = p]

WithItems(n, items) == [n EXCEPT !.items = items]

WithAttributes(n, nil, expandable, data) ==
  [n EXCEPT !.nil = nil, !.expandable = expandable, !.data = data]

\* c is n but for its parent.
SameButParent(c, n) ==
  /\ c.type = n.type /\ c.nil = n.nil /\ c.expandable = n.expandable /\ c.items = n.items
  /\ c.names = n.names /\ c.members = n.members /\ c.prototype = n.prototype /\ c.data = n.data

LEMMA ParentWritten ==
  ASSUME NEW n, NodeShape(n), NEW p, p \in Addresses \cup {NULL}
  PROVE  /\ NodeShape(WithParent(n, p)) /\ WithParent(n, p).parent = p
         /\ SameButParent(WithParent(n, p), n)
<1>1. PICK c : c = WithParent(n, p)
  OBVIOUS
<1>2. c \in Fields /\ c.parent = p /\ SameButParent(c, n)
  BY <1>1 DEF NodeShape, Fields, WithParent, SameButParent
<1>3. NodeShape(c)
  BY <1>2 DEF SameButParent, NodeShape, NamesFound
<1> QED BY <1>1, <1>2, <1>3

LEMMA ItemsWritten ==
  ASSUME NEW n, NodeShape(n), n.type = "ARRAY", NEW items, items \in Items, Len(items) <= MaxItems
  PROVE  /\ NodeShape(WithItems(n, items)) /\ WithItems(n, items).items = items
         /\ WithItems(n, items).prototype = n.prototype
         /\ WithItems(n, items).parent = n.parent /\ WithItems(n, items).data = n.data
<1>1. PICK c : c = WithItems(n, items)
  OBVIOUS
<1>2. /\ c \in Fields /\ c.items = items /\ c.type = n.type /\ c.names = n.names
      /\ c.members = n.members /\ c.prototype = n.prototype /\ c.parent = n.parent /\ c.data = n.data
  BY <1>1 DEF NodeShape, Fields, WithItems
<1>3. NodeShape(c)
  BY <1>2 DEF NodeShape, NamesFound
<1> QED BY <1>1, <1>2, <1>3

LEMMA AttributesWritten ==
  ASSUME NEW n, NodeShape(n), NEW nil, nil \in BOOLEAN, NEW expandable, expandable \in BOOLEAN,
         NEW data, data \in Data
  PROVE  LET c == WithAttributes(n, nil, expandable, data)
         IN /\ NodeShape(c) /\ c.items = n.items /\ c.prototype = n.prototype
            /\ c.parent = n.parent /\ c.data = data
<1>1. PICK c : c = WithAttributes(n, nil, expandable, data)
  OBVIOUS
<1>2. /\ c \in Fields /\ c.items = n.items /\ c.type = n.type /\ c.names = n.names
      /\ c.members = n.members /\ c.prototype = n.prototype /\ c.parent = n.parent /\ c.data = data
  BY <1>1 DEF NodeShape, Fields, WithAttributes
<1>3. NodeShape(c)
  BY <1>2 DEF NodeShape, NamesFound
<1> QED BY <1>1, <1>2, <1>3

\* A new value, or an array with its prototype and items.
NewNode(type, items, proto, expandable) ==
  [New(type) EXCEPT !.items = items, !.prototype = proto, !.expandable = expandable]

LEMMA NodeMade ==
  ASSUME NEW type, type \in Scalars \cup {"RECORD", "ARRAY"}, NEW items,
         items \in Items, Len(items) <= MaxItems,
         type # "ARRAY" => items = <<>>, NEW proto, proto \in Addresses \cup {NULL},
         NEW expandable, expandable \in BOOLEAN
  PROVE  LET c == NewNode(type, items, proto, expandable)
         IN /\ NodeShape(c) /\ c.items = items /\ c.prototype = proto /\ c.parent = NULL
            /\ c.data \in Data
<1>0. PICK c : c = NewNode(type, items, proto, expandable)
  OBVIOUS
<1>1. PICK none : none = [n \in {} |-> 0]
  OBVIOUS
<1>2. none \in Tables /\ DOMAIN none = {}
  <2>1. none \in [{} -> 1..MaxItems]
    BY <1>1
  <2> QED BY <1>1, <2>1 DEF Tables
<1>3. PICK nil \in BOOLEAN : nil = (type = "CHAR")
  OBVIOUS
<1>4. c = [type |-> type, nil |-> nil, expandable |-> expandable, parent |-> NULL,
           items |-> items, names |-> <<>>, members |-> none, prototype |-> proto, data |-> 0]
  <2>1. PICK n : n = New(type)
    OBVIOUS
  <2>2. n = [type |-> type, nil |-> nil, expandable |-> FALSE, parent |-> NULL, items |-> <<>>,
             names |-> <<>>, members |-> none, prototype |-> NULL, data |-> 0]
    BY <2>1, <1>1, <1>3 DEF New
  <2>3. c = [n EXCEPT !.items = items, !.prototype = proto, !.expandable = expandable]
    BY <2>1, <1>0 DEF NewNode
  <2> QED BY <2>2, <2>3
<1>5. 0 \in Data /\ <<>> \in Seq(Names)
  BY HeapAssumption
<1>6. /\ c.items = items /\ c.type = type /\ c.names = <<>> /\ c.members = none
      /\ c.prototype = proto /\ c.parent = NULL /\ c.data = 0
  BY <1>4
<1>7. c \in Fields
  BY <1>2, <1>3, <1>4, <1>5 DEF Fields
<1>8. Range(<<>>) = {} /\ Len(<<>>) = 0
  BY DEF Range
<1>9. c.type = "RECORD" => Len(c.items) = 0
  BY <1>6, <1>8, HeapAssumption
<1>10. NodeShape(c)
  <2>1. NamesFound(c)
    BY <1>2, <1>6 DEF NamesFound
  <2> QED BY <2>1, <1>2, <1>6, <1>7, <1>8, <1>9 DEF NodeShape
<1> QED BY <1>0, <1>5, <1>6, <1>10

\* A record with one item more.
WithItem(u, name, value) ==
  [u EXCEPT !.items   = Append(@, value),
            !.names   = Append(@, name),
            !.members = IF name \in DOMAIN @ THEN @
                        ELSE [x \in DOMAIN @ \cup {name} |-> IF x = name THEN Len(u.items) + 1 ELSE @[x]]]

LEMMA ItemAppended ==
  ASSUME NEW n, NodeShape(n), n.type = "RECORD", Len(n.items) < MaxItems,
         NEW value, value \in Addresses, NEW name, name \in Names
  PROVE  LET c == WithItem(n, name, value)
         IN /\ NodeShape(c) /\ c.items = Append(n.items, value) /\ c.prototype = n.prototype
            /\ c.parent = n.parent /\ c.data = n.data
<1>1. PICK c : c = WithItem(n, name, value)
  OBVIOUS
<1>2. PICK items : items = Append(n.items, value)
  OBVIOUS
<1>3. PICK names : names = Append(n.names, name)
  OBVIOUS
<1>4. PICK k \in Nat : k = Len(n.items)
  BY NodeFields
<1>5. PICK members : members = IF name \in DOMAIN n.members THEN n.members
                               ELSE [x \in DOMAIN n.members \cup {name} |-> IF x = name THEN k + 1 ELSE n.members[x]]
  OBVIOUS
<1>6. c = [n EXCEPT !.items = items, !.names = names, !.members = members]
  BY <1>1, <1>2, <1>3, <1>4, <1>5 DEF WithItem
<1>7. n.items \in Seq(Addresses \cup {NULL}) /\ n.names \in Seq(Names) /\ Len(n.names) = k
  BY <1>4, NodeFields DEF NodeShape
<1>8. /\ items \in Seq(Addresses \cup {NULL}) /\ Len(items) = k + 1
      /\ items[k+1] = value /\ \A i \in 1..k : items[i] = n.items[i]
  BY <1>2, <1>4, <1>7
<1>9. /\ names \in Seq(Names) /\ Len(names) = k + 1
      /\ names[k+1] = name /\ \A i \in 1..k : names[i] = n.names[i]
  BY <1>3, <1>7
<1>10. k + 1 <= MaxItems /\ MaxItems \in Nat
  BY <1>4, AddressesAre
<1>11. Range(names) = Range(n.names) \cup {name}
  <2>1. DOMAIN names = 1..k+1 /\ DOMAIN n.names = 1..k
    BY <1>7, <1>9
  <2>2. \A y \in Range(names) : y \in Range(n.names) \cup {name}
    <3>1. ASSUME NEW i \in 1..k+1 PROVE names[i] \in Range(n.names) \cup {name}
      <4>1. CASE i = k+1
        BY <4>1, <1>9
      <4>2. CASE i # k+1
        <5>1. i \in 1..k
          BY <4>2
        <5> QED BY <5>1, <2>1, <1>9 DEF Range
      <4> QED BY <4>1, <4>2
    <3> QED BY <3>1, <2>1 DEF Range
  <2>3. name \in Range(names)
    BY <2>1, <1>9 DEF Range
  <2>4. \A y \in Range(n.names) : y \in Range(names)
    <3>1. \A i \in 1..k : i \in 1..k+1 /\ names[i] = n.names[i]
      BY <1>9
    <3> QED BY <3>1, <2>1 DEF Range
  <2> QED BY <2>2, <2>3, <2>4
<1>12. members \in Tables /\ DOMAIN members = Range(names)
  <2>1. PICK N \in SUBSET Names : n.members \in [N -> 1..MaxItems]
    BY NodeFields
  <2>2. DOMAIN n.members = N /\ N = Range(n.names)
    BY <2>1 DEF NodeShape
  <2>3. CASE name \in N
    BY <2>1, <2>2, <2>3, <1>5, <1>11 DEF Tables
  <2>4. CASE name \notin N
    <3>1. members = [x \in N \cup {name} |-> IF x = name THEN k + 1 ELSE n.members[x]]
      BY <2>2, <2>4, <1>5
    <3>2. \A x \in N : n.members[x] \in 1..MaxItems
      BY <2>1
    <3>3. k + 1 \in 1..MaxItems
      BY <1>10
    <3>4. members \in [N \cup {name} -> 1..MaxItems]
      BY <3>1, <3>2, <3>3
    <3> QED BY <2>1, <2>2, <3>4, <1>11 DEF Tables
  <2> QED BY <2>3, <2>4
<1>13. NULL \notin Range(items)
  <2>1. DOMAIN items = 1..k+1 /\ DOMAIN n.items = 1..k
    BY <1>4, <1>7, <1>8
  <2>2. ASSUME NEW i \in 1..k+1 PROVE items[i] # NULL
    <3>1. CASE i = k+1
      BY <3>1, <1>8, AddressesAre
    <3>2. CASE i # k+1
      <4>1. i \in 1..k
        BY <3>2
      <4>2. n.items[i] # NULL
        BY <4>1, <2>1 DEF NodeShape, Range
      <4> QED BY <4>1, <4>2, <1>8
    <3> QED BY <3>1, <3>2
  <2> QED BY <2>1, <2>2 DEF Range
<1>14. n \in Fields /\ items \in Items
  BY <1>8 DEF NodeShape, Items
<1>15. /\ c \in Fields /\ c.items = items /\ c.type = n.type /\ c.names = names
       /\ c.members = members /\ c.prototype = n.prototype /\ c.parent = n.parent /\ c.data = n.data
  BY <1>6, <1>9, <1>12, <1>14 DEF Fields
<1>16. NamesFound(c)
  <2>1. ASSUME NEW m \in DOMAIN members PROVE members[m] \in 1..k+1 /\ names[members[m]] = m
    <3>1. CASE m \in DOMAIN n.members
      <4>1. n.members[m] \in DOMAIN n.names /\ n.names[n.members[m]] = m
        BY <3>1 DEF NodeShape, NamesFound
      <4>2. members[m] = n.members[m]
        BY <3>1, <1>5
      <4>3. n.members[m] \in 1..k
        BY <4>1, <1>7
      <4>4. n.members[m] \in 1..k+1 /\ names[n.members[m]] = n.names[n.members[m]]
        BY <4>3, <1>9
      <4> QED BY <4>1, <4>2, <4>4
    <3>2. CASE m \notin DOMAIN n.members
      <4>1. m = name /\ members[m] = k + 1
        BY <3>2, <1>5
      <4> QED BY <4>1, <1>9
    <3> QED BY <3>1, <3>2
  <2>2. DOMAIN c.names = 1..k+1
    BY <1>9, <1>15
  <2> QED BY <2>1, <2>2, <1>15 DEF NamesFound
<1>17. NodeShape(c)
  BY <1>8, <1>9, <1>10, <1>12, <1>13, <1>15, <1>16 DEF NodeShape
<1> QED BY <1>1, <1>2, <1>15, <1>17

-----------------------------------------------------------------------------
(* The calls keep trees *)

WellMade(h) == Typed(h) /\ \E r : Tree(h, r)

LEMMA RoomIsFree ==
  ASSUME NEW h, Shaped(h)
  PROVE  Room(h) <= Cardinality(Addresses \ DOMAIN h)
<1>1. PICK m \in Nat : m = Cardinality(Addresses)
  BY AddressesAre, FS_CardinalityType
<1>2. PICK k \in Nat : k = Cardinality(DOMAIN h)
  BY AddressesAre, FS_Subset, FS_CardinalityType DEF Shaped
<1>3. Cardinality(Addresses \ DOMAIN h) = m - k
  <2>1. Addresses \cap DOMAIN h = DOMAIN h
    BY DEF Shaped
  <2> QED BY <1>1, <1>2, <2>1, AddressesAre, FS_Difference
<1> QED BY <1>1, <1>2, <1>3, HeapAssumption DEF Room

LEMMA FreshIsFree ==
  ASSUME NEW h, Cardinality(Addresses \ DOMAIN h) > 0
  PROVE  Fresh(h) \in Addresses \ DOMAIN h
<1>1. PICK F : F = Addresses \ DOMAIN h
  OBVIOUS
<1>2. F \subseteq Nat /\ F # {}
  <2>1. Cardinality(F) # 0 /\ Cardinality({}) = 0
    BY <1>1, FS_EmptySet
  <2> QED BY <2>1, <1>1, AddressesAre
<1>3. \E a \in F : \A b \in F : a <= b
  BY <1>2, LeastElement
<1>4. Fresh(h) = CHOOSE a \in F : \A b \in F : a <= b
  BY <1>1 DEF Fresh
<1> QED BY <1>1, <1>3, <1>4

\* NewValue
LEMMA NewTree ==
  ASSUME NEW h, WellMade(h), NEW a \in Addresses \ DOMAIN h,
         NEW type \in Scalars \cup {"RECORD", "ARRAY"}
  PROVE  WellMade(Put(h, a, New(type)))
<1>1. PICK r : Typed(h) /\ Shaped(h) /\ Tree(h, r) /\ NULL \notin DOMAIN h
  BY TreeCloses DEF WellMade, Typed
<1>2. PICK c : c = New(type)
  OBVIOUS
<1>3. /\ NodeShape(c) /\ c.items = <<>> /\ c.prototype = NULL /\ c.parent = NULL
      /\ c.data \in Data
  <2>1. <<>> \in Items /\ Len(<<>>) <= MaxItems /\ NULL \in Addresses \cup {NULL} /\ FALSE \in BOOLEAN
    BY AddressesAre DEF Items
  <2>2. NewNode(type, <<>>, NULL, FALSE) = c
    <3>1. PICK nil \in BOOLEAN : nil = (type = "CHAR")
      OBVIOUS
    <3>2. PICK none : none = [n \in {} |-> 0]
      OBVIOUS
    <3>3. c = [type |-> type, nil |-> nil, expandable |-> FALSE, parent |-> NULL, items |-> <<>>,
               names |-> <<>>, members |-> none, prototype |-> NULL, data |-> 0]
      BY <3>1, <3>2, <1>2 DEF New
    <3>4. NewNode(type, <<>>, NULL, FALSE) = [c EXCEPT !.items = <<>>, !.prototype = NULL, !.expandable = FALSE]
      BY <1>2 DEF NewNode
    <3> QED BY <3>3, <3>4
  <2>3. NodeShape(NewNode(type, <<>>, NULL, FALSE)) /\ NewNode(type, <<>>, NULL, FALSE).items = <<>>
        /\ NewNode(type, <<>>, NULL, FALSE).prototype = NULL
        /\ NewNode(type, <<>>, NULL, FALSE).parent = NULL
        /\ NewNode(type, <<>>, NULL, FALSE).data \in Data
    BY <2>1, NodeMade
  <2> QED BY <2>2, <2>3
<1>4. PICK g : g = Put(h, a, c)
  OBVIOUS
<1>5. DOMAIN g = DOMAIN h \cup {a} /\ g[a] = c /\ \A x \in DOMAIN h : g[x] = h[x]
  BY <1>4 DEF Put
<1>6. \A x \in DOMAIN h, i \in Positions : Slot(g, x, i) = Slot(h, x, i)
  BY <1>5 DEF Slot
<1>7. \A i \in Positions : Slot(g, a, i) = NULL
  <2>1. Len(c.items) = 0
    BY <1>3
  <2> QED BY <1>3, <1>5, <2>1 DEF Slot, Positions
<1>8. Joins(h, g, r, a, 0)
  <2>1. ~IsRoot(h, NULL)
    BY <1>1 DEF IsRoot
  <2>2. a # NULL /\ a \notin DOMAIN h /\ 0 \in Nat /\ g[a].parent = NULL
    BY <1>3, <1>5, AddressesAre
  <2>3. \A x \in DOMAIN h : g[x].parent = h[x].parent
    BY <1>5
  <2>4. \A i \in Positions : ~IsRoot(h, Slot(g, a, i))
    BY <2>1, <1>7
  <2> QED BY <2>2, <2>3, <2>4, <1>5, <1>6, <1>7 DEF Joins
<1>9. \E q : Tree(g, q)
  BY <1>1, <1>8, JoinedTree
<1>10. Typed(g)
  BY <1>1, <1>3, <1>5 DEF Typed, Shaped
<1> QED BY <1>2, <1>4, <1>9, <1>10 DEF WellMade

\* ValueAddRecordItem
LEMMA RecordTree ==
  ASSUME NEW h, WellMade(h), NEW upper \in DOMAIN h, NEW value, IsRoot(h, value),
         upper \notin Owned(h, value), h[upper].type = "RECORD", Len(h[upper].items) < MaxItems,
         NEW name \in Names
  PROVE  WellMade(AddRecordItem(h, upper, name, value))
<1>1. PICK s : Typed(h) /\ Shaped(h) /\ Tree(h, s) /\ NULL \notin DOMAIN h
  BY TreeCloses DEF WellMade, Typed
<1>2. value \in DOMAIN h /\ value \in Addresses /\ value # NULL /\ upper # value
  BY <1>1, OwnedIs, TreeCloses DEF IsRoot, Shaped
<1>3. PICK r : Tree(h, r) /\ r[value] < r[upper]
  BY <1>1, <1>2, RaisedTree
<1>4. PICK n : n = h[upper]
  OBVIOUS
<1>5. NodeShape(n) /\ NodeShape(h[value])
  BY <1>1, <1>2, <1>4 DEF Shaped
<1>6. PICK c : c = WithItem(n, name, value)
  OBVIOUS
<1>7. /\ NodeShape(c) /\ c.items = Append(n.items, value) /\ c.prototype = n.prototype
      /\ c.parent = n.parent /\ c.data = n.data
  BY <1>2, <1>4, <1>5, <1>6, ItemAppended
<1>8. PICK d : d = WithParent(h[value], upper)
  OBVIOUS
<1>9. NodeShape(d) /\ d.parent = upper /\ SameButParent(d, h[value])
  BY <1>1, <1>5, <1>8, ParentWritten DEF Shaped
<1>10. PICK g : g = AddRecordItem(h, upper, name, value)
  OBVIOUS
<1>11. /\ DOMAIN g = DOMAIN h /\ g[upper] = c /\ g[value] = d
       /\ \A x \in DOMAIN h : x # upper /\ x # value => g[x] = h[x]
  BY <1>2, <1>4, <1>6, <1>8, <1>10 DEF AddRecordItem, WithItem, WithParent
<1>12. ASSUME NEW x \in DOMAIN h, x # upper
       PROVE  g[x].items = h[x].items /\ g[x].prototype = h[x].prototype
  BY <1>9, <1>11, <1>12 DEF SameButParent
<1>13. \A x \in DOMAIN h, i \in Positions : x # upper => Slot(g, x, i) = Slot(h, x, i)
  BY <1>12 DEF Slot
<1>14. PICK k \in Nat : k = Len(n.items)
  BY <1>5, NodeFields
<1>15. PICK items : items = Append(n.items, value)
  OBVIOUS
<1>16. Len(items) = k + 1 /\ items[k+1] = value /\ \A i \in 1..k : items[i] = n.items[i]
  <2>1. n.items \in Seq(Addresses \cup {NULL})
    BY <1>5, NodeFields
  <2> QED BY <2>1, <1>2, <1>14, <1>15
<1>17. ASSUME NEW i \in Positions
       PROVE  IF i = k+1 THEN Slot(g, upper, i) = value /\ Slot(h, upper, i) = NULL
              ELSE Slot(g, upper, i) = Slot(h, upper, i)
  <2>1. i \in Nat
    BY AddressesAre DEF Positions
  <2>2. g[upper].items = items /\ g[upper].prototype = n.prototype
    BY <1>7, <1>11, <1>15
  <2>3. CASE i = 0
    BY <2>2, <2>3, <1>4, <1>14 DEF Slot
  <2>4. CASE i \in 1..k
    BY <2>2, <2>4, <1>4, <1>14, <1>16 DEF Slot
  <2>5. CASE i = k+1
    BY <2>2, <2>5, <1>4, <1>14, <1>16 DEF Slot
  <2>6. CASE i > k+1
    BY <2>1, <2>2, <2>6, <1>4, <1>14, <1>16 DEF Slot
  <2> QED BY <2>1, <2>3, <2>4, <2>5, <2>6
<1>18. \A i \in Positions : IsRoot(h, Slot(g, upper, i)) => i = k+1
  BY <1>17 DEF IsRoot
<1>19. Joins(h, g, r, upper, r[upper])
  <2>1. upper # NULL /\ r[upper] \in Nat /\ DOMAIN g = DOMAIN h \cup {upper}
    <3>1. r \in [DOMAIN h -> Nat]
      BY <1>3 DEF Tree
    <3> QED BY <3>1, <1>1, <1>11
  <2>2. ASSUME NEW i \in Positions
        PROVE  \/ Slot(g, upper, i) = Slot(h, upper, i)
               \/ /\ Slot(h, upper, i) = NULL
                  /\ IsRoot(h, Slot(g, upper, i)) /\ r[Slot(g, upper, i)] < r[upper]
    BY <1>3, <1>17
  <2>3. ASSUME NEW i \in Positions, NEW j \in Positions, IsRoot(h, Slot(g, upper, i)),
               Slot(g, upper, i) = Slot(g, upper, j)
        PROVE  i = j
    BY <2>3, <1>18
  <2>4. ASSUME NEW x \in DOMAIN h
        PROVE  \/ g[x].parent = h[x].parent
               \/ g[x].parent = upper /\ \E i \in Positions \ {0} : Slot(g, upper, i) = x
    <3>1. k + 1 \in Positions \ {0}
      BY <1>4, <1>14, AddressesAre DEF Positions
    <3>2. Slot(g, upper, k + 1) = value
      BY <3>1, <1>17
    <3>3. CASE x = upper
      BY <3>3, <1>4, <1>7, <1>11
    <3>4. CASE x = value
      BY <3>1, <3>2, <3>4, <1>9, <1>11
    <3>5. CASE x # upper /\ x # value
      BY <3>5, <1>11
    <3> QED BY <3>3, <3>4, <3>5
  <2>5. upper \in DOMAIN h
    OBVIOUS
  <2> QED BY <2>1, <2>2, <2>3, <2>4, <2>5, <1>13 DEF Joins
<1>20. \E q : Tree(g, q)
  BY <1>1, <1>3, <1>19, JoinedTree
<1>21. Typed(g)
  <2>1. ASSUME NEW x \in DOMAIN g PROVE NodeShape(g[x]) /\ g[x].data \in Data
    BY <1>1, <1>2, <1>4, <1>7, <1>9, <1>11 DEF Typed, Shaped, SameButParent
  <2> QED BY <2>1, <1>1, <1>11 DEF Typed, Shaped
<1> QED BY <1>10, <1>20, <1>21 DEF WellMade

\* ValueAddArrayItem
LEMMA ArrayTree ==
  ASSUME NEW h, WellMade(h), NEW upper \in DOMAIN h, NEW value, IsRoot(h, value),
         upper \notin Owned(h, value), h[upper].type = "ARRAY", NEW ix \in -1..MaxItems-1,
         ix < 0 => Len(h[upper].items) < MaxItems,
         ix >= 0 /\ ix < Len(h[upper].items) => h[upper].items[ix + 1] = NULL
  PROVE  WellMade(AddArrayItem(h, upper, ix, value))
<1>1. PICK s : Typed(h) /\ Shaped(h) /\ Tree(h, s) /\ NULL \notin DOMAIN h
  BY TreeCloses DEF WellMade, Typed
<1>2. value \in DOMAIN h /\ value \in Addresses /\ value # NULL /\ upper # value
  BY <1>1, OwnedIs, TreeCloses DEF IsRoot, Shaped
<1>3. PICK r : Tree(h, r) /\ r[value] < r[upper]
  BY <1>1, <1>2, RaisedTree
<1>4. PICK n : n = h[upper]
  OBVIOUS
<1>5. NodeShape(n) /\ NodeShape(h[value])
  BY <1>1, <1>2, <1>4 DEF Shaped
<1>6. PICK k \in Nat : k = Len(n.items) /\ k <= MaxItems
  BY <1>5, NodeFields
<1>7. PICK at : at = IF ix < 0 THEN k + 1 ELSE ix + 1
  OBVIOUS
<1>8. at \in 1..MaxItems /\ at \in Nat
  BY <1>4, <1>6, <1>7, AddressesAre
<1>9. PICK size : size = IF at > k THEN at ELSE k
  OBVIOUS
<1>10. size \in Nat /\ size <= MaxItems /\ at <= size /\ k <= size /\ (size = at \/ size = k)
  BY <1>6, <1>8, <1>9, AddressesAre
<1>11. PICK items : items = [i \in 1..size |-> IF i = at THEN value
                                              ELSE IF i <= k THEN n.items[i] ELSE NULL]
  OBVIOUS
<1>12. \A i \in 1..k : n.items[i] \in Addresses \cup {NULL}
  BY <1>5, <1>6, NodeFields
<1>13. items \in Items /\ Len(items) = size
  <2>1. ASSUME NEW i \in 1..size PROVE items[i] \in Addresses \cup {NULL}
    BY <1>2, <1>6, <1>11, <1>12
  <2>2. items \in [1..size -> Addresses \cup {NULL}]
    BY <2>1, <1>11
  <2> QED BY <2>2, <1>10 DEF Items
<1>14. PICK c : c = WithItems(n, items)
  OBVIOUS
<1>15. /\ NodeShape(c) /\ c.items = items /\ c.prototype = n.prototype
       /\ c.parent = n.parent /\ c.data = n.data
  BY <1>4, <1>5, <1>10, <1>13, <1>14, ItemsWritten
<1>16. PICK d : d = WithParent(h[value], upper)
  OBVIOUS
<1>17. NodeShape(d) /\ d.parent = upper /\ SameButParent(d, h[value])
  BY <1>1, <1>5, <1>16, ParentWritten DEF Shaped
<1>18. PICK g : g = AddArrayItem(h, upper, ix, value)
  OBVIOUS
<1>19. g = [h EXCEPT ![upper].items = items, ![value].parent = upper]
  BY <1>4, <1>6, <1>7, <1>9, <1>11, <1>18 DEF AddArrayItem
<1>20. /\ DOMAIN g = DOMAIN h /\ g[upper] = c /\ g[value] = d
       /\ \A x \in DOMAIN h : x # upper /\ x # value => g[x] = h[x]
  BY <1>2, <1>4, <1>14, <1>16, <1>19 DEF WithItems, WithParent
<1>21. ASSUME NEW x \in DOMAIN h, x # upper
       PROVE  g[x].items = h[x].items /\ g[x].prototype = h[x].prototype
  BY <1>17, <1>20, <1>21 DEF SameButParent
<1>22. \A x \in DOMAIN h, i \in Positions : x # upper => Slot(g, x, i) = Slot(h, x, i)
  BY <1>21 DEF Slot
<1>23. at <= k => n.items[at] = NULL
  <2>1. at <= k => ix >= 0 /\ ix < k /\ at = ix + 1
    BY <1>6, <1>7
  <2> QED BY <2>1, <1>4, <1>6
<1>24. ASSUME NEW i \in Positions
       PROVE  IF i = at THEN Slot(g, upper, i) = value /\ Slot(h, upper, i) = NULL
              ELSE Slot(g, upper, i) = Slot(h, upper, i)
  <2>1. i \in Nat
    BY AddressesAre DEF Positions
  <2>2. g[upper].items = items /\ g[upper].prototype = n.prototype
    BY <1>15, <1>20
  <2>3. CASE i = 0
    BY <2>2, <2>3, <1>4, <1>8 DEF Slot
  <2>4. CASE i \in 1..size
    <3>1. Slot(g, upper, i) = items[i] /\ Slot(h, upper, i) = IF i <= k THEN n.items[i] ELSE NULL
      BY <2>2, <2>4, <1>4, <1>6, <1>13 DEF Slot
    <3>2. items[i] = IF i = at THEN value ELSE IF i <= k THEN n.items[i] ELSE NULL
      BY <2>4, <1>11
    <3> QED BY <3>1, <3>2, <1>23
  <2>5. CASE i > size
    BY <2>1, <2>2, <2>5, <1>4, <1>6, <1>8, <1>10, <1>13 DEF Slot
  <2> QED BY <2>1, <2>3, <2>4, <2>5, <1>10
<1>25. \A i \in Positions : IsRoot(h, Slot(g, upper, i)) => i = at
  BY <1>24 DEF IsRoot
<1>26. Joins(h, g, r, upper, r[upper])
  <2>1. upper # NULL /\ r[upper] \in Nat /\ DOMAIN g = DOMAIN h \cup {upper}
    <3>1. r \in [DOMAIN h -> Nat]
      BY <1>3 DEF Tree
    <3> QED BY <3>1, <1>1, <1>20
  <2>2. ASSUME NEW i \in Positions
        PROVE  \/ Slot(g, upper, i) = Slot(h, upper, i)
               \/ /\ Slot(h, upper, i) = NULL
                  /\ IsRoot(h, Slot(g, upper, i)) /\ r[Slot(g, upper, i)] < r[upper]
    BY <1>3, <1>24
  <2>3. ASSUME NEW i \in Positions, NEW j \in Positions, IsRoot(h, Slot(g, upper, i)),
               Slot(g, upper, i) = Slot(g, upper, j)
        PROVE  i = j
    BY <2>3, <1>25
  <2>4. ASSUME NEW x \in DOMAIN h
        PROVE  \/ g[x].parent = h[x].parent
               \/ g[x].parent = upper /\ \E i \in Positions \ {0} : Slot(g, upper, i) = x
    <3>1. at \in Positions \ {0}
      BY <1>8, AddressesAre
    <3>2. Slot(g, upper, at) = value
      BY <3>1, <1>24
    <3>3. CASE x = upper
      BY <3>3, <1>4, <1>15, <1>20
    <3>4. CASE x = value
      BY <3>1, <3>2, <3>4, <1>17, <1>20
    <3>5. CASE x # upper /\ x # value
      BY <3>5, <1>20
    <3> QED BY <3>3, <3>4, <3>5
  <2>5. upper \in DOMAIN h
    OBVIOUS
  <2> QED BY <2>1, <2>2, <2>3, <2>4, <2>5, <1>22 DEF Joins
<1>27. \E q : Tree(g, q)
  BY <1>1, <1>3, <1>26, JoinedTree
<1>28. Typed(g)
  <2>1. ASSUME NEW x \in DOMAIN g PROVE NodeShape(g[x]) /\ g[x].data \in Data
    BY <1>1, <1>2, <1>4, <1>15, <1>17, <1>20 DEF Typed, Shaped, SameButParent
  <2> QED BY <2>1, <1>1, <1>20 DEF Typed, Shaped
<1> QED BY <1>18, <1>27, <1>28 DEF WellMade

\* What GetArrayItem has made before it enlarges v: roots that rank lower than v,
\* or nothing.
Supplied(h, r, g, q, v, new) ==
  /\ Extended(h, r, g, q) /\ new \in Items
  /\ \A i \in 1..Len(new) : new[i] = NULL \/ (IsRoot(g, new[i]) /\ q[new[i]] < q[v])
  /\ \A i, j \in 1..Len(new) : new[i] # NULL /\ new[i] = new[j] => i = j

LEMMA ExpandSupplies ==
  ASSUME NEW h, NEW r, Typed(h), Tree(h, r), NEW v \in DOMAIN h, NEW n \in Nat,
         ~CannotExpand(h, v), HasRoom(h, h[v].prototype, n)
  PROVE  LET made == Duplicates(h, h[v].prototype, n, FALSE)
         IN Len(made.values) = n /\ \E q : Supplied(h, r, made.heap, q, v, made.values)
<1>1. Shaped(h) /\ r \in [DOMAIN h -> Nat]
  BY DEF Typed, Tree
<1>2. PICK p : p = h[v].prototype
  OBVIOUS
<1>3. PICK made : made = Duplicates(h, p, n, FALSE)
  OBVIOUS
<1>4. CASE p = NULL
  <2>1. made.heap = h /\ made.values \in Seq({NULL}) /\ Len(made.values) = n
    <3>1. PICK no \in BOOLEAN : no = FALSE
      OBVIOUS
    <3>2. made = Duplicates(h, NULL, n, no)
      BY <3>1, <1>3, <1>4
    <3> QED BY <3>2, NothingMultiplied
  <2>2. PICK new : new = made.values
    OBVIOUS
  <2>3. new \in Items /\ \A i \in 1..Len(new) : new[i] = NULL
    BY <2>1, <2>2 DEF Items
  <2>4. Extended(h, r, h, r)
    BY <1>1 DEF Extended
  <2>5. Supplied(h, r, h, r, v, new)
    BY <2>3, <2>4 DEF Supplied
  <2> QED BY <2>1, <2>2, <2>5, <1>2, <1>3
<1>5. CASE p # NULL
  <2>1. p \in DOMAIN h /\ r[p] < r[v]
    <3>1. Slot(h, v, 0) = p /\ 0 \in Positions
      BY <1>2, AddressesAre DEF Slot
    <3> QED BY <3>1, <1>5 DEF Tree
  <2>2. ~CannotDuplicate(h, p)
    BY <1>2, <1>5 DEF CannotExpand
  <2>3. n * Cardinality(Below(h, p)) <= Cardinality(Addresses \ DOMAIN h)
    <3>1. PICK b \in Nat : b = Cardinality(Below(h, p))
      BY <2>1, <1>1, BelowIs, TreeCloses, FS_Subset, FS_CardinalityType
    <3>2. PICK m \in Nat : m = Cardinality(Addresses \ DOMAIN h)
      BY AddressesAre, FS_Difference, FS_CardinalityType
    <3>3. n * b <= Room(h) /\ Room(h) <= m
      BY <3>1, <3>2, <1>1, <1>2, <1>5, RoomIsFree DEF HasRoom
    <3>4. Room(h) \in Int /\ n * b \in Int
      <4>1. Cardinality(DOMAIN h) \in Nat
        BY <1>1, TreeCloses, FS_CardinalityType
      <4> QED BY <4>1, HeapAssumption DEF Room
    <3> QED BY <3>1, <3>2, <3>3, <3>4
  <2>4. Multiplied(h, r, p, n, made)
    BY <2>1, <2>2, <2>3, <1>1, <1>3, DuplicatesMultiply
  <2>5. PICK q : /\ Extended(h, r, made.heap, q)
                 /\ made.values \in Seq(Addresses) /\ Len(made.values) = n
                 /\ \A i \in 1..n : NewRoot(h, made.heap, q, made.values[i], r[p])
                 /\ \A i, j \in 1..n : made.values[i] = made.values[j] => i = j
    BY <2>4 DEF Multiplied
  <2>6. q[v] = r[v]
    BY <2>5 DEF Extended
  <2>7. \A i \in 1..n : IsRoot(made.heap, made.values[i]) /\ q[made.values[i]] < q[v]
    BY <2>1, <2>5, <2>6 DEF NewRoot
  <2>8. PICK new : new = made.values
    OBVIOUS
  <2>9. new \in Items /\ Len(new) = n
    BY <2>5, <2>8 DEF Items
  <2>10. Supplied(h, r, made.heap, q, v, new)
    BY <2>5, <2>7, <2>8, <2>9 DEF Supplied
  <2> QED BY <2>8, <2>9, <2>10, <1>2, <1>3
<1> QED BY <1>4, <1>5

\* GetArrayItem
LEMMA ExpandTree ==
  ASSUME NEW h, WellMade(h), NEW v \in DOMAIN h, NEW index \in 0..MaxItems-1,
         CanExpand(h, v, index), ~CannotExpand(h, v)
  PROVE  WellMade(Expand(h, v, index))
<1>1. PICK s : Typed(h) /\ Shaped(h) /\ Tree(h, s)
  BY DEF WellMade, Typed
<1>2. PICK n : n = h[v]
  OBVIOUS
<1>3. NodeShape(n) /\ n.type = "ARRAY"
  BY <1>1, <1>2 DEF Shaped, CanExpand
<1>4. PICK k \in Nat : k = Len(n.items) /\ k <= MaxItems
  BY <1>3, NodeFields
<1>5. PICK m \in Nat : m = index + 1 - k /\ k + m <= MaxItems
  <2>1. index >= k
    BY <1>2, <1>4 DEF CanExpand
  <2>2. index + 1 - k \in Nat /\ k + (index + 1 - k) <= MaxItems
    BY <2>1, AddressesAre
  <2> QED BY <2>2
<1>6. PICK made : made = Duplicates(h, h[v].prototype, m, FALSE)
  OBVIOUS
<1>7. Len(made.values) = m /\ \E q : Supplied(h, s, made.heap, q, v, made.values)
  <2>1. HasRoom(h, h[v].prototype, m)
    BY <1>2, <1>4, <1>5 DEF CanExpand
  <2> QED BY <2>1, <1>1, <1>6, ExpandSupplies
<1>8. PICK f : f = made.heap
  OBVIOUS
<1>9. PICK new : new = made.values
  OBVIOUS
<1>10. PICK r : Supplied(h, s, f, r, v, new)
  BY <1>7, <1>8, <1>9
<1>11. /\ Shaped(f) /\ Typed(f) /\ Tree(f, r) /\ v \in DOMAIN f /\ f[v] = n
       /\ r \in [DOMAIN f -> Nat] /\ NULL \notin DOMAIN f
  BY <1>1, <1>2, <1>10, TreeCloses DEF Supplied, Extended, Tree
<1>12. /\ new \in Seq(Addresses \cup {NULL}) /\ Len(new) = m
       /\ \A i \in 1..m : new[i] = NULL \/ (IsRoot(f, new[i]) /\ r[new[i]] < r[v])
       /\ \A i, j \in 1..m : new[i] # NULL /\ new[i] = new[j] => i = j
  BY <1>7, <1>9, <1>10 DEF Supplied, Items
<1>13. PICK items : items = n.items \o new
  OBVIOUS
<1>14. /\ items \in Seq(Addresses \cup {NULL}) /\ Len(items) = k + m
       /\ \A i \in 1..k : items[i] = n.items[i]
       /\ \A i \in k+1..k+m : items[i] = new[i-k]
  <2>1. n.items \in Seq(Addresses \cup {NULL})
    BY <1>3, NodeFields
  <2>2. PICK S : S = Addresses \cup {NULL}
    OBVIOUS
  <2>3. PICK old : old = n.items
    OBVIOUS
  <2>4. old \in Seq(S) /\ new \in Seq(S) /\ Len(old) = k /\ Len(new) = m
    BY <2>1, <2>2, <2>3, <1>4, <1>12
  <2>5. items = old \o new
    BY <2>3, <1>13
  <2>6. items \in Seq(S) /\ Len(items) = k + m
    BY <2>4, <2>5, ConcatProperties
  <2>7. ASSUME NEW i \in 1..k PROVE items[i] = old[i]
    BY <2>4, <2>5, ConcatProperties
  <2>8. ASSUME NEW i \in k+1..k+m PROVE items[i] = new[i-k]
    BY <2>4, <2>5, ConcatProperties
  <2> QED BY <2>2, <2>3, <2>6, <2>7, <2>8
<1>15. PICK c : c = WithItems(n, items)
  OBVIOUS
<1>16. /\ NodeShape(c) /\ c.items = items /\ c.prototype = n.prototype
       /\ c.parent = n.parent /\ c.data = n.data
  BY <1>3, <1>5, <1>14, <1>15, ItemsWritten DEF Items
<1>17. PICK g : g = Expand(h, v, index)
  OBVIOUS
<1>18. g = [f EXCEPT ![v].items = items]
  <2>1. made = Duplicates(h, h[v].prototype, index + 1 - Len(h[v].items), FALSE)
    BY <1>2, <1>4, <1>5, <1>6
  <2>2. g = [made.heap EXCEPT ![v].items = ExpandedItems(made.heap[v].items, made.values)]
    BY <2>1, <1>17 DEF Expand
  <2> QED BY <2>2, <1>8, <1>9, <1>11, <1>13 DEF ExpandedItems
<1>19. DOMAIN g = DOMAIN f /\ g[v] = c /\ \A x \in DOMAIN f : x # v => g[x] = f[x]
  BY <1>11, <1>15, <1>18 DEF WithItems
<1>20. \A x \in DOMAIN f, i \in Positions : x # v => Slot(g, x, i) = Slot(f, x, i)
  BY <1>19 DEF Slot
<1>21. ASSUME NEW i \in Positions
       PROVE  IF i \in k+1..k+m THEN Slot(g, v, i) = new[i-k] /\ Slot(f, v, i) = NULL
              ELSE Slot(g, v, i) = Slot(f, v, i)
  <2>1. i \in Nat
    BY AddressesAre DEF Positions
  <2>2. g[v].items = items /\ g[v].prototype = n.prototype
    BY <1>16, <1>19
  <2>3. CASE i = 0
    BY <2>2, <2>3, <1>11 DEF Slot
  <2>4. CASE i \in 1..k
    BY <2>2, <2>4, <1>4, <1>11, <1>14 DEF Slot
  <2>5. CASE i \in k+1..k+m
    BY <2>2, <2>5, <1>4, <1>11, <1>14 DEF Slot
  <2>6. CASE i > k+m
    BY <2>1, <2>2, <2>6, <1>4, <1>11, <1>14 DEF Slot
  <2> QED BY <2>1, <2>3, <2>4, <2>5, <2>6
<1>22. \A w : IsRoot(f, w) => w # NULL /\ \A i \in Positions : Slot(f, v, i) # w
  BY <1>11 DEF IsRoot
<1>23. Joins(f, g, r, v, r[v])
  <2>1. v # NULL /\ r[v] \in Nat /\ DOMAIN g = DOMAIN f \cup {v}
    BY <1>11, <1>19
  <2>2. ASSUME NEW i \in Positions
        PROVE  \/ Slot(g, v, i) = Slot(f, v, i)
               \/ /\ Slot(f, v, i) = NULL
                  /\ IsRoot(f, Slot(g, v, i)) /\ r[Slot(g, v, i)] < r[v]
    <3>1. CASE i \in k+1..k+m
      <4>1. i - k \in 1..m
        BY <3>1
      <4>2. new[i-k] = NULL \/ (IsRoot(f, new[i-k]) /\ r[new[i-k]] < r[v])
        BY <4>1, <1>12
      <4> QED BY <3>1, <4>2, <1>21
    <3>2. CASE i \notin k+1..k+m
      BY <3>2, <1>21
    <3> QED BY <3>1, <3>2
  <2>3. ASSUME NEW i \in Positions, NEW j \in Positions, IsRoot(f, Slot(g, v, i)),
               Slot(g, v, i) = Slot(g, v, j)
        PROVE  i = j
    <3>1. i \in k+1..k+m /\ j \in k+1..k+m
      BY <2>3, <1>21, <1>22
    <3>2. new[i-k] = new[j-k] /\ new[i-k] # NULL
      BY <2>3, <3>1, <1>21, <1>22
    <3>3. i - k \in 1..m /\ j - k \in 1..m
      BY <3>1
    <3>4. i - k = j - k
      BY <3>2, <3>3, <1>12
    <3> QED BY <3>1, <3>4
  <2>4. \A x \in DOMAIN f : g[x].parent = f[x].parent
    BY <1>11, <1>16, <1>19
  <2> QED BY <2>1, <2>2, <2>3, <2>4, <1>11, <1>20 DEF Joins
<1>24. \E q : Tree(g, q)
  BY <1>11, <1>23, JoinedTree
<1>25. Typed(g)
  <2>1. ASSUME NEW x \in DOMAIN g PROVE NodeShape(g[x]) /\ g[x].data \in Data
    BY <1>11, <1>16, <1>19 DEF Typed, Shaped
  <2> QED BY <2>1, <1>11, <1>19 DEF Typed, Shaped
<1> QED BY <1>17, <1>24, <1>25 DEF WellMade

\* ParValueDefine has an address left for the array when the items are made.
LEMMA DefineSupplies ==
  ASSUME NEW h, NEW r, Shaped(h), Tree(h, r), NEW v \in DOMAIN h, NEW n \in Nat,
         n # 0 => ~CannotDuplicate(h, v), HasRoom(h, v, n + 1)
  PROVE  LET made == Duplicates(h, v, n, FALSE)
         IN Multiplied(h, r, v, n, made) /\ Fresh(made.heap) \in Addresses \ DOMAIN made.heap
<1>1. PICK made : made = Duplicates(h, v, n, FALSE)
  OBVIOUS
<1>2. PICK b \in Nat : b = Cardinality(Below(h, v))
  BY BelowIs, TreeCloses, FS_Subset, FS_CardinalityType
<1>3. b > 0
  <2>1. v \in Below(h, v) /\ IsFiniteSet(Below(h, v))
    BY BelowIs, TreeCloses, FS_Subset
  <2>2. Cardinality(Below(h, v)) # 0
    BY <2>1, FS_EmptySet
  <2> QED BY <2>2, <1>2
<1>4. PICK m \in Nat : m = Cardinality(Addresses \ DOMAIN h)
  BY AddressesAre, FS_Difference, FS_CardinalityType
<1>5. n * b + b <= m /\ n * b \in Nat
  <2>1. (n + 1) * b <= Room(h) /\ Room(h) <= m
    BY <1>2, <1>4, TreeCloses, RoomIsFree DEF HasRoom
  <2>2. Room(h) \in Int
    <3>1. Cardinality(DOMAIN h) \in Nat
      BY TreeCloses, FS_CardinalityType
    <3> QED BY <3>1, HeapAssumption DEF Room
  <2>3. (n + 1) * b = n * b + b /\ n * b \in Nat
    OBVIOUS
  <2> QED BY <2>1, <2>2, <2>3
<1>6. Multiplied(h, r, v, n, made)
  <2>1. n * Cardinality(Below(h, v)) <= Cardinality(Addresses \ DOMAIN h)
    BY <1>2, <1>4, <1>5
  <2> QED BY <2>1, <1>1, DuplicatesMultiply
<1>7. Cardinality(Addresses \ DOMAIN made.heap) > 0
  <2>1. PICK l \in Nat : l = Cardinality(Addresses \ DOMAIN made.heap)
    BY AddressesAre, FS_Difference, FS_CardinalityType
  <2>2. l + n * b = m
    BY <2>1, <1>2, <1>4, <1>6 DEF Multiplied
  <2>3. l > 0
    BY <2>2, <1>3, <1>5
  <2> QED BY <2>1, <2>3
<1>8. Fresh(made.heap) \in Addresses \ DOMAIN made.heap
  BY <1>7, FreshIsFree
<1> QED BY <1>1, <1>6, <1>8

\* ParValueDefine
LEMMA DefineTree ==
  ASSUME NEW h, WellMade(h), NEW value, IsRoot(h, value), NEW count \in 1..MaxItems,
         NEW expandable \in BOOLEAN, HasRoom(h, value, IF expandable THEN 1 ELSE count + 1),
         ~(CannotDuplicate(h, value) /\ ~expandable)
  PROVE  WellMade(DefineArray(h, value, count, expandable))
<1>1. PICK s : Typed(h) /\ Shaped(h) /\ Tree(h, s)
  BY DEF WellMade, Typed
<1>2. PICK n \in Nat : n = (IF expandable THEN 0 ELSE count) /\ n <= MaxItems
  <2>1. count \in Nat /\ count <= MaxItems /\ 0 <= MaxItems
    BY AddressesAre
  <2> QED BY <2>1
<1>3. value \in DOMAIN h /\ (n # 0 => ~CannotDuplicate(h, value)) /\ HasRoom(h, value, n + 1)
  <2>1. n + 1 = IF expandable THEN 1 ELSE count + 1
    BY <1>2
  <2> QED BY <2>1, <1>2 DEF IsRoot
<1>4. PICK made : made = Duplicates(h, value, n, FALSE)
  OBVIOUS
<1>5. Multiplied(h, s, value, n, made) /\ Fresh(made.heap) \in Addresses \ DOMAIN made.heap
  BY <1>1, <1>3, <1>4, DefineSupplies
<1>6. PICK f : f = made.heap
  OBVIOUS
<1>7. PICK items : items = made.values
  OBVIOUS
<1>8. PICK a \in Addresses \ DOMAIN f : a = Fresh(f)
  BY <1>5, <1>6
<1>9. PICK r : /\ Extended(h, s, f, r)
               /\ items \in Seq(Addresses) /\ Len(items) = n
               /\ \A i \in 1..n : NewRoot(h, f, r, items[i], s[value])
               /\ \A i, j \in 1..n : items[i] = items[j] => i = j
  BY <1>5, <1>6, <1>7 DEF Multiplied
<1>10. /\ Shaped(f) /\ Typed(f) /\ Tree(f, r) /\ IsRoot(f, value) /\ r[value] = s[value]
       /\ r \in [DOMAIN f -> Nat] /\ NULL \notin DOMAIN f
  BY <1>1, <1>3, <1>9, TreeCloses DEF Extended, Tree
<1>11. PICK K \in Nat : K = r[value] + 1 /\ r[value] < K
  <2>1. r[value] \in Nat
    BY <1>10 DEF IsRoot
  <2> QED BY <2>1
<1>12. \A i \in 1..n : /\ items[i] \in DOMAIN f /\ IsRoot(f, items[i])
                       /\ r[items[i]] < K /\ items[i] # value
  BY <1>3, <1>9, <1>10, <1>11 DEF NewRoot
<1>13. PICK c : c = NewNode("ARRAY", items, value, expandable)
  OBVIOUS
<1>14. /\ NodeShape(c) /\ c.items = items /\ c.prototype = value /\ c.parent = NULL /\ c.data \in Data
  <2>1. value \in Addresses \cup {NULL} /\ Len(items) <= MaxItems
    BY <1>1, <1>2, <1>3, <1>9 DEF Shaped
  <2>2. items \in Items
    <3>1. \A i \in 1..Len(items) : items[i] \in Addresses \cup {NULL}
      BY <1>9
    <3>2. items = [i \in 1..Len(items) |-> items[i]] /\ Len(items) \in Nat
      BY <1>9
    <3> QED BY <3>1, <3>2 DEF Items
  <2>3. PICK type \in Scalars \cup {"RECORD", "ARRAY"} : type = "ARRAY"
    OBVIOUS
  <2>4. c = NewNode(type, items, value, expandable)
    BY <1>13, <2>3
  <2>5. /\ NodeShape(NewNode(type, items, value, expandable))
        /\ NewNode(type, items, value, expandable).items = items
        /\ NewNode(type, items, value, expandable).prototype = value
        /\ NewNode(type, items, value, expandable).parent = NULL
        /\ NewNode(type, items, value, expandable).data \in Data
    BY <2>1, <2>2, <2>3, NodeMade
  <2> QED BY <2>4, <2>5
<1>15. PICK linked : linked = [x \in DOMAIN f |-> IF x \in Range(items) THEN WithParent(f[x], a) ELSE f[x]]
  OBVIOUS
<1>16. PICK g : g = Put(linked, a, c)
  OBVIOUS
<1>17. DefineArray(h, value, count, expandable) = g
  <2>1. made = Duplicates(h, value, IF expandable THEN 0 ELSE count, FALSE)
    BY <1>2, <1>4
  <2> QED BY <2>1, <1>6, <1>7, <1>8, <1>13, <1>15, <1>16 DEF DefineArray, NewNode, WithParent
<1>18. /\ DOMAIN g = DOMAIN f \cup {a} /\ g[a] = c
       /\ \A x \in DOMAIN f : g[x] = IF x \in Range(items) THEN WithParent(f[x], a) ELSE f[x]
  <2>1. \A x \in DOMAIN f : g[x] = linked[x]
    BY <1>8, <1>15, <1>16 DEF Put
  <2> QED BY <2>1, <1>15, <1>16 DEF Put
<1>19. ASSUME NEW x \in DOMAIN f
       PROVE  /\ NodeShape(g[x]) /\ SameButParent(g[x], f[x])
              /\ g[x].parent = IF x \in Range(items) THEN a ELSE f[x].parent
  <2>1. CASE x \in Range(items)
    <3>1. NodeShape(f[x]) /\ a \in Addresses \cup {NULL}
      BY <1>8, <1>10 DEF Shaped
    <3>2. g[x] = WithParent(f[x], a)
      BY <2>1, <1>18
    <3>3. /\ NodeShape(WithParent(f[x], a)) /\ WithParent(f[x], a).parent = a
          /\ SameButParent(WithParent(f[x], a), f[x])
      BY <3>1, ParentWritten
    <3> QED BY <2>1, <3>2, <3>3
  <2>2. CASE x \notin Range(items)
    BY <2>2, <1>10, <1>18 DEF Shaped, SameButParent
  <2> QED BY <2>1, <2>2
<1>20. \A x \in DOMAIN f, i \in Positions : Slot(g, x, i) = Slot(f, x, i)
  BY <1>19 DEF Slot, SameButParent
<1>21. \A i \in Positions : Slot(g, a, i) = IF i = 0 THEN value ELSE IF i \in 1..n THEN items[i] ELSE NULL
  <2>1. \A i \in Positions : i \in Nat
    BY AddressesAre DEF Positions
  <2> QED BY <2>1, <1>9, <1>14, <1>18 DEF Slot
<1>22. ~IsRoot(f, NULL)
  BY <1>10 DEF IsRoot
<1>23. Joins(f, g, r, a, K)
  <2>1. a # NULL /\ a \notin DOMAIN f /\ g[a].parent = NULL
    BY <1>8, <1>14, <1>18, AddressesAre
  <2>2. ASSUME NEW i \in Positions
        PROVE  Slot(g, a, i) = NULL \/ (IsRoot(f, Slot(g, a, i)) /\ r[Slot(g, a, i)] < K)
    BY <1>10, <1>11, <1>12, <1>21
  <2>3. ASSUME NEW i \in Positions, NEW j \in Positions, IsRoot(f, Slot(g, a, i)),
               Slot(g, a, i) = Slot(g, a, j)
        PROVE  i = j
    <3>1. (i = 0 \/ i \in 1..n) /\ (j = 0 \/ j \in 1..n)
      BY <2>3, <1>21, <1>22
    <3>2. CASE i = 0 /\ j = 0
      BY <3>2
    <3>3. CASE i \in 1..n /\ j \in 1..n
      BY <2>3, <3>3, <1>9, <1>21
    <3>4. CASE (i = 0 /\ j \in 1..n) \/ (i \in 1..n /\ j = 0)
      BY <2>3, <3>4, <1>12, <1>21
    <3> QED BY <3>1, <3>2, <3>3, <3>4
  <2>4. ASSUME NEW x \in DOMAIN f
        PROVE  \/ g[x].parent = f[x].parent
               \/ g[x].parent = a /\ \E i \in Positions \ {0} : Slot(g, a, i) = x
    <3>1. CASE x \in Range(items)
      <4>1. PICK i \in 1..n : items[i] = x
        BY <3>1, <1>9 DEF Range
      <4>2. i \in Positions \ {0}
        BY <1>2, AddressesAre DEF Positions
      <4>3. Slot(g, a, i) = x
        BY <4>1, <4>2, <1>21
      <4> QED BY <3>1, <4>2, <4>3, <1>19
    <3>2. CASE x \notin Range(items)
      BY <3>2, <1>19
    <3> QED BY <3>1, <3>2
  <2> QED BY <2>1, <2>2, <2>3, <2>4, <1>18, <1>20 DEF Joins
<1>24. \E q : Tree(g, q)
  BY <1>10, <1>23, JoinedTree
<1>25. Typed(g)
  <2>1. ASSUME NEW x \in DOMAIN g PROVE NodeShape(g[x]) /\ g[x].data \in Data
    BY <1>10, <1>14, <1>18, <1>19 DEF Typed, SameButParent
  <2>2. DOMAIN g \subseteq Addresses
    BY <1>8, <1>10, <1>18 DEF Shaped
  <2> QED BY <2>1, <2>2 DEF Typed, Shaped
<1> QED BY <1>17, <1>24, <1>25 DEF WellMade

\* DuplicateValue
LEMMA DuplicateMade ==
  ASSUME NEW h, WellMade(h), NEW v \in DOMAIN h, NEW fCopy \in BOOLEAN, HasRoom(h, v, 1),
         ~CannotDuplicate(h, v)
  PROVE  WellMade(Duplicate(h, v, fCopy).heap)
<1>1. PICK r : Typed(h) /\ Shaped(h) /\ Tree(h, r) /\ NULL \notin DOMAIN h
  BY TreeCloses DEF WellMade, Typed
<1>2. Below(h, v) \subseteq DOMAIN h /\ IsFiniteSet(DOMAIN h)
  BY <1>1, BelowIs, TreeCloses
<1>3. PICK b \in Nat : b = Cardinality(Below(h, v))
  BY <1>2, FS_Subset, FS_CardinalityType
<1>4. PICK f \in Nat : f = Cardinality(Addresses \ DOMAIN h)
  BY AddressesAre, FS_Difference, FS_CardinalityType
<1>5. Room(h) \in Int
  <2>1. Cardinality(DOMAIN h) \in Nat
    BY <1>2, FS_CardinalityType
  <2> QED BY <2>1, HeapAssumption DEF Room
<1>6. Cardinality(Below(h, v)) <= Cardinality(Addresses \ DOMAIN h)
  <2>1. 1 * b <= Room(h)
    BY <1>1, <1>3 DEF HasRoom
  <2>2. Room(h) <= f
    BY <1>1, <1>4, RoomIsFree
  <2> QED BY <2>1, <2>2, <1>3, <1>4, <1>5
<1>7. PICK q : Extended(h, r, Duplicate(h, v, fCopy).heap, q)
  BY <1>1, <1>6, DuplicateExtends
<1> QED BY <1>1, <1>7 DEF WellMade, Extended

\* Values of which only attributes and contents are written.
Rewritten(h, g) ==
  /\ DOMAIN g = DOMAIN h
  /\ \A x \in DOMAIN h :
       \/ g[x] = h[x]
       \/ \E nil \in BOOLEAN, expandable \in BOOLEAN, data \in Data :
            g[x] = WithAttributes(h[x], nil, expandable, data)

LEMMA RewrittenTree ==
  ASSUME NEW h, WellMade(h), NEW g, Rewritten(h, g)
  PROVE  WellMade(g)
<1>1. PICK r : Typed(h) /\ Shaped(h) /\ Tree(h, r)
  BY DEF WellMade, Typed
<1>2. DOMAIN g = DOMAIN h
  BY DEF Rewritten
<1>3. ASSUME NEW x \in DOMAIN h
      PROVE  /\ NodeShape(g[x]) /\ g[x].data \in Data /\ g[x].items = h[x].items
             /\ g[x].prototype = h[x].prototype /\ g[x].parent = h[x].parent
  <2>1. NodeShape(h[x]) /\ h[x].data \in Data
    BY <1>1 DEF Typed, Shaped
  <2>2. CASE g[x] = h[x]
    BY <2>1, <2>2
  <2>3. CASE \E nil \in BOOLEAN, expandable \in BOOLEAN, data \in Data :
               g[x] = WithAttributes(h[x], nil, expandable, data)
    <3>1. PICK nil \in BOOLEAN, expandable \in BOOLEAN, data \in Data :
            g[x] = WithAttributes(h[x], nil, expandable, data)
      BY <2>3
    <3>2. PICK c : c = WithAttributes(h[x], nil, expandable, data)
      OBVIOUS
    <3>3. /\ NodeShape(c) /\ c.items = h[x].items /\ c.prototype = h[x].prototype
          /\ c.parent = h[x].parent /\ c.data = data
      BY <2>1, <3>2, AttributesWritten
    <3> QED BY <3>1, <3>2, <3>3
  <2> QED BY <2>2, <2>3 DEF Rewritten
<1>4. Tree(g, r)
  BY <1>1, <1>2, <1>3, RelabelledTree
<1>5. Typed(g)
  BY <1>1, <1>2, <1>3 DEF Typed, Shaped
<1> QED BY <1>4, <1>5 DEF WellMade

\* InitializeValue
LEMMA InitializedTree ==
  ASSUME NEW h, WellMade(h), NEW v \in DOMAIN h
  PROVE  WellMade(Initialized(h, v))
<1>1. PICK g : g = Initialized(h, v)
  OBVIOUS
<1>2. PICK S : S = {x \in DOMAIN h : x \in Below(h, v) /\ h[x].type \in Scalars}
  OBVIOUS
<1>3. DOMAIN g = DOMAIN h
  BY <1>1 DEF Initialized
<1>4. ASSUME NEW x \in DOMAIN h
      PROVE  \/ g[x] = h[x]
             \/ \E nil \in BOOLEAN, expandable \in BOOLEAN, data \in Data :
                  g[x] = WithAttributes(h[x], nil, expandable, data)
  <2>1. g[x] = IF x \in S THEN [h[x] EXCEPT !.data = 0, !.nil = h[x].type # "INT"] ELSE h[x]
    BY <1>1, <1>2 DEF Initialized
  <2>2. CASE x \in S
    <3>1. PICK nil \in BOOLEAN : nil = (h[x].type # "INT")
      OBVIOUS
    <3>2. PICK expandable \in BOOLEAN : expandable = h[x].expandable
      BY NodeFields DEF WellMade, Typed, Shaped
    <3>3. NodeShape(h[x])
      BY DEF WellMade, Typed, Shaped
    <3>4. h[x] = [type |-> h[x].type, nil |-> h[x].nil, expandable |-> h[x].expandable,
                  parent |-> h[x].parent, prototype |-> h[x].prototype, data |-> h[x].data,
                  items |-> h[x].items, names |-> h[x].names, members |-> h[x].members]
      BY <3>3 DEF NodeShape, Fields
    <3>5. g[x] = [h[x] EXCEPT !.data = 0, !.nil = nil]
      BY <2>1, <2>2, <3>1
    <3>6. g[x] = WithAttributes(h[x], nil, expandable, 0)
      BY <3>2, <3>4, <3>5 DEF WithAttributes
    <3> QED BY <3>6, HeapAssumption
  <2> QED BY <2>1, <2>2
<1> QED BY <1>1, <1>3, <1>4, RewrittenTree DEF Rewritten

\* CopyValue
LEMMA CopiedTree ==
  ASSUME NEW h, WellMade(h), NEW vd, NEW vs
  PROVE  WellMade(Copied(h, vd, vs))
<1>1. PICK g : g = Copied(h, vd, vs)
  OBVIOUS
<1>2. PICK pairs : pairs = Pairs(h, vd, vs)
  OBVIOUS
<1>3. DOMAIN g = DOMAIN h
  BY <1>1 DEF Copied
<1>4. ASSUME NEW x \in DOMAIN h
      PROVE  \/ g[x] = h[x]
             \/ \E nil \in BOOLEAN, expandable \in BOOLEAN, data \in Data :
                  g[x] = WithAttributes(h[x], nil, expandable, data)
  <2>1. PICK from : from = CHOOSE y \in DOMAIN h : <<x, y>> \in pairs
    OBVIOUS
  <2>2. g[x] = IF \E y \in DOMAIN h : <<x, y>> \in pairs /\ ~h[y].nil
               THEN [h[x] EXCEPT !.nil = FALSE, !.expandable = h[from].expandable,
                                 !.data = h[from].data]
               ELSE h[x]
    BY <1>1, <1>2, <2>1 DEF Copied
  <2>3. CASE \E y \in DOMAIN h : <<x, y>> \in pairs /\ ~h[y].nil
    <3>1. from \in DOMAIN h
      BY <2>1, <2>3
    <3>2. NodeShape(h[from]) /\ h[from].data \in Data
      BY <3>1 DEF WellMade, Typed, Shaped
    <3>3. PICK expandable \in BOOLEAN : expandable = h[from].expandable
      BY <3>2, NodeFields
    <3>4. PICK data \in Data : data = h[from].data
      BY <3>2
    <3>5. PICK nil \in BOOLEAN : nil = FALSE
      OBVIOUS
    <3>6. g[x] = [h[x] EXCEPT !.nil = nil, !.expandable = expandable, !.data = data]
      BY <2>2, <2>3, <3>3, <3>4, <3>5
    <3>7. g[x] = WithAttributes(h[x], nil, expandable, data)
      BY <3>6 DEF WithAttributes
    <3> QED BY <3>7
  <2> QED BY <2>2, <2>3
<1> QED BY <1>1, <1>3, <1>4, RewrittenTree DEF Rewritten

\* A setter
LEMMA SetTree ==
  ASSUME NEW h, WellMade(h), NEW v \in DOMAIN h, NEW d \in Data, NEW nil \in BOOLEAN
  PROVE  WellMade([h EXCEPT ![v].data = d, ![v].nil = nil])
<1>1. PICK g : g = [h EXCEPT ![v].data = d, ![v].nil = nil]
  OBVIOUS
<1>2. DOMAIN g = DOMAIN h /\ \A x \in DOMAIN h : x # v => g[x] = h[x]
  BY <1>1
<1>3. PICK expandable \in BOOLEAN : expandable = h[v].expandable
  BY NodeFields DEF WellMade, Typed, Shaped
<1>4. NodeShape(h[v])
  BY DEF WellMade, Typed, Shaped
<1>5. h[v] = [type |-> h[v].type, nil |-> h[v].nil, expandable |-> h[v].expandable,
              parent |-> h[v].parent, prototype |-> h[v].prototype, data |-> h[v].data,
              items |-> h[v].items, names |-> h[v].names, members |-> h[v].members]
  BY <1>4 DEF NodeShape, Fields
<1>6. g[v] = [[h[v] EXCEPT !.data = d] EXCEPT !.nil = nil]
  BY <1>1
<1>7. g[v] = WithAttributes(h[v], nil, expandable, d)
  BY <1>3, <1>5, <1>6 DEF WithAttributes
<1>8. Rewritten(h, g)
  BY <1>2, <1>7 DEF Rewritten
<1> QED BY <1>1, <1>8, RewrittenTree

\* No values at all
LEMMA EmptyTree ==
  WellMade([a \in {} |-> New("INT")])
<1>1. PICK h : h = [a \in {} |-> New("INT")]
  OBVIOUS
<1>2. DOMAIN h = {}
  BY <1>1
<1>3. Typed(h)
  BY <1>2 DEF Typed, Shaped
<1>4. PICK r : r = [x \in {} |-> 0]
  OBVIOUS
<1>5. Tree(h, r)
  <2>1. r \in [{} -> Nat]
    BY <1>4
  <2> QED BY <1>2, <2>1 DEF Tree
<1> QED BY <1>1, <1>3, <1>5 DEF WellMade

-----------------------------------------------------------------------------
(* Every call *)

LEMMA InvariantHoldsInit == Init => TreeInv
BY EmptyTree DEF Init, TreeInv, WellMade

LEMMA InvariantKept == TreeInv /\ [Next]_vars => TreeInv'
<1> SUFFICES ASSUME TreeInv, [Next]_vars PROVE TreeInv'
  OBVIOUS
<1>1. PICK h : h = heap
  OBVIOUS
<1>2. WellMade(h) /\ crashed \in BOOLEAN
  BY <1>1 DEF TreeInv, WellMade
<1>3. \A w : w \in Roots(h) => IsRoot(h, w)
  BY <1>2, TreeCloses DEF WellMade, Typed
<1>4. SUFFICES WellMade(heap') /\ crashed' \in BOOLEAN
  BY DEF TreeInv, WellMade
<1>5. ASSUME NEW g, WellMade(g), Call(g) PROVE WellMade(heap') /\ crashed' \in BOOLEAN
  BY <1>2, <1>5 DEF Call
<1>6. ASSUME Crash PROVE WellMade(heap') /\ crashed' \in BOOLEAN
  BY <1>6, EmptyTree DEF Crash
<1>7. CASE UNCHANGED vars
  BY <1>1, <1>2, <1>7 DEF vars
<1>8. CASE NewValue
  <2>1. PICK type \in Scalars \cup {"RECORD", "ARRAY"} :
          Room(h) > 0 /\ Call(Put(h, Fresh(h), New(type)))
    BY <1>1, <1>8 DEF NewValue
  <2>2. Fresh(h) \in Addresses \ DOMAIN h
    <3>1. Shaped(h)
      BY <1>2 DEF WellMade, Typed
    <3>2. Room(h) \in Int /\ Cardinality(Addresses \ DOMAIN h) \in Nat
      <4>1. IsFiniteSet(DOMAIN h)
        BY <3>1, AddressesAre, FS_Subset DEF Shaped
      <4>2. Cardinality(DOMAIN h) \in Nat /\ Cardinality(Addresses \ DOMAIN h) \in Nat
        BY <4>1, AddressesAre, FS_Difference, FS_CardinalityType
      <4> QED BY <4>2, HeapAssumption DEF Room
    <3>3. Room(h) <= Cardinality(Addresses \ DOMAIN h)
      BY <3>1, RoomIsFree
    <3> QED BY <2>1, <3>2, <3>3, FreshIsFree
  <2>3. WellMade(Put(h, Fresh(h), New(type)))
    BY <1>2, <2>2, NewTree
  <2> QED BY <2>1, <2>3, <1>5
<1>9. CASE FreeValueStruct
  <2>1. PICK v \in Roots(h) : Call(Freed(h, v))
    BY <1>1, <1>9 DEF FreeValueStruct
  <2>2. WellMade(Freed(h, v))
    BY <1>2, <1>3, FreedTree DEF WellMade
  <2> QED BY <2>1, <2>2, <1>5
<1>10. CASE ParValueDefine
  <2>1. PICK value \in Roots(h), count \in 1..MaxItems, expandable \in BOOLEAN :
          /\ HasRoom(h, value, IF expandable THEN 1 ELSE count + 1)
          /\ IF CannotDuplicate(h, value) /\ ~expandable THEN Crash
             ELSE Call(DefineArray(h, value, count, expandable))
    BY <1>1, <1>10 DEF ParValueDefine
  <2>2. CASE CannotDuplicate(h, value) /\ ~expandable
    BY <2>1, <2>2, <1>6
  <2>3. CASE ~(CannotDuplicate(h, value) /\ ~expandable)
    <3>1. WellMade(DefineArray(h, value, count, expandable))
      BY <2>1, <2>3, <1>2, <1>3, DefineTree
    <3> QED BY <2>1, <2>3, <3>1, <1>5
  <2> QED BY <2>2, <2>3
<1>11. CASE ValueAddRecordItem
  <2>1. PICK upper \in DOMAIN h, value \in Roots(h), name \in Names :
          /\ h[upper].type = "RECORD" /\ Len(h[upper].items) < MaxItems
          /\ upper \notin Owned(h, value)
          /\ Call(AddRecordItem(h, upper, name, value))
    BY <1>1, <1>11 DEF ValueAddRecordItem
  <2>2. WellMade(AddRecordItem(h, upper, name, value))
    BY <2>1, <1>2, <1>3, RecordTree
  <2> QED BY <2>1, <2>2, <1>5
<1>12. CASE ValueAddArrayItem
  <2>1. PICK upper \in DOMAIN h, value \in Roots(h), ix \in -1..MaxItems-1 :
          /\ h[upper].type = "ARRAY"
          /\ ix < 0 => Len(h[upper].items) < MaxItems
          /\ ix >= 0 /\ ix < Len(h[upper].items) => h[upper].items[ix + 1] = NULL
          /\ upper \notin Owned(h, value)
          /\ Call(AddArrayItem(h, upper, ix, value))
    BY <1>1, <1>12 DEF ValueAddArrayItem
  <2>2. WellMade(AddArrayItem(h, upper, ix, value))
    BY <2>1, <1>2, <1>3, ArrayTree
  <2> QED BY <2>1, <2>2, <1>5
<1>13. CASE GetArrayItem
  <2>1. PICK v \in DOMAIN h, index \in 0..MaxItems-1 :
          /\ CanExpand(h, v, index)
          /\ IF CannotExpand(h, v) THEN Crash ELSE Call(Expand(h, v, index))
    BY <1>1, <1>13 DEF GetArrayItem
  <2>2. CASE CannotExpand(h, v)
    BY <2>1, <2>2, <1>6
  <2>3. CASE ~CannotExpand(h, v)
    <3>1. WellMade(Expand(h, v, index))
      BY <2>1, <2>3, <1>2, ExpandTree
    <3> QED BY <2>1, <2>3, <3>1, <1>5
  <2> QED BY <2>2, <2>3
<1>14. CASE DuplicateValue
  <2>1. PICK v \in DOMAIN h, fCopy \in BOOLEAN :
          /\ HasRoom(h, v, 1)
          /\ IF CannotDuplicate(h, v) THEN Crash ELSE Call(Duplicate(h, v, fCopy).heap)
    BY <1>1, <1>14 DEF DuplicateValue
  <2>2. CASE CannotDuplicate(h, v)
    BY <2>1, <2>2, <1>6
  <2>3. CASE ~CannotDuplicate(h, v)
    <3>1. WellMade(Duplicate(h, v, fCopy).heap)
      BY <2>1, <2>3, <1>2, DuplicateMade
    <3> QED BY <2>1, <2>3, <3>1, <1>5
  <2> QED BY <2>2, <2>3
<1>15. CASE InitializeValue
  <2>1. PICK v \in DOMAIN h : Call(Initialized(h, v))
    BY <1>1, <1>15 DEF InitializeValue
  <2> QED BY <2>1, <1>2, <1>5, InitializedTree
<1>16. CASE CopyValue
  <2>1. PICK vd, vs \in DOMAIN h : Call(Copied(h, vd, vs))
    BY <1>1, <1>16 DEF CopyValue
  <2> QED BY <2>1, <1>2, <1>5, CopiedTree
<1>17. CASE SetValue
  <2>1. PICK v \in DOMAIN h, d \in Data, nil \in Nils :
          Call([h EXCEPT ![v].data = d, ![v].nil = nil])
    BY <1>1, <1>17 DEF SetValue
  <2>2. nil \in BOOLEAN
    BY HeapAssumption
  <2>3. WellMade([h EXCEPT ![v].data = d, ![v].nil = nil])
    BY <1>2, <2>2, SetTree
  <2> QED BY <2>1, <2>3, <1>5
<1> QED BY <1>7, <1>8, <1>9, <1>10, <1>11, <1>12, <1>13, <1>14, <1>15, <1>16, <1>17 DEF Next

-----------------------------------------------------------------------------
(* The property *)

\* No value owns what holds it: what a value owns ranks no higher than itself.
LEMMA OwnedRanks ==
  ASSUME NEW h, NEW r, Shaped(h), Tree(h, r), NEW x \in DOMAIN h, NEW v \in DOMAIN h, r[x] < r[v]
  PROVE  v \notin Owned(h, x)
<1>1. PICK T : T = {y \in DOMAIN h : r[y] <= r[x]}
  OBVIOUS
<1>2. r \in [DOMAIN h -> Nat]
  BY DEF Tree
<1>3. T \in SUBSET DOMAIN h /\ x \in T
  BY <1>1, <1>2
<1>4. ASSUME NEW y \in T PROVE Held(h, y) \subseteq T
  <2>1. SUFFICES ASSUME NEW z \in Held(h, y) PROVE z \in T
    OBVIOUS
  <2>2. y \in DOMAIN h /\ r[y] <= r[x] /\ NodeShape(h[y])
    BY <1>1 DEF Shaped
  <2>3. PICK i \in Positions : Slot(h, y, i) = z /\ z # NULL
    BY <2>2, SlotsHold
  <2>4. z \in DOMAIN h /\ r[z] < r[y]
    BY <2>2, <2>3 DEF Tree
  <2> QED BY <2>2, <2>4, <1>1, <1>2
<1>5. Owned(h, x) \subseteq T
  BY <1>3, <1>4, OwnedIs, TreeCloses
<1>6. v \notin T
  BY <1>1, <1>2
<1> QED BY <1>5, <1>6

LEMMA ForestHolds == TreeInv => Forest
<1> SUFFICES ASSUME TreeInv, NEW v \in DOMAIN heap
    PROVE  /\ Held(heap, v) \subseteq DOMAIN heap
           /\ Cardinality(Places(heap, v)) <= 1
           /\ \A x \in Held(heap, v) : v \notin Owned(heap, x)
           /\ heap[v].parent # NULL =>
                heap[v].parent \in DOMAIN heap /\ v \in ItemSet(heap, heap[v].parent)
  BY DEF Forest
<1>1. PICK h : h = heap
  OBVIOUS
<1>2. PICK r : Shaped(h) /\ Tree(h, r) /\ NULL \notin DOMAIN h
  BY <1>1, TreeCloses DEF TreeInv, Typed
<1>3. v \in DOMAIN h /\ v # NULL
  BY <1>1, <1>2
<1>4. Held(h, v) \subseteq DOMAIN h
  BY <1>2, <1>3, TreeCloses
<1>5. Cardinality(Places(h, v)) <= 1
  <2>1. \A p, q \in Places(h, v) : p = q
    BY <1>2, <1>3 DEF Places, Tree, Positions
  <2>2. PICK P : P = Places(h, v)
    OBVIOUS
  <2>3. CASE P = {}
    BY <2>2, <2>3, FS_EmptySet
  <2>4. CASE P # {}
    <3>1. PICK p : p \in P
      BY <2>4
    <3>2. P = {p}
      BY <2>1, <2>2, <3>1
    <3> QED BY <2>2, <3>2, FS_Singleton
  <2> QED BY <2>3, <2>4
<1>6. ASSUME NEW x \in Held(h, v) PROVE v \notin Owned(h, x)
  <2>1. PICK i \in Positions : Slot(h, v, i) = x /\ x # NULL
    BY <1>2, <1>3, SlotsHold DEF Shaped
  <2>2. x \in DOMAIN h /\ r[x] < r[v]
    BY <1>2, <1>3, <2>1 DEF Tree
  <2> QED BY <1>2, <1>3, <2>2, OwnedRanks
<1>7. ASSUME h[v].parent # NULL
      PROVE  h[v].parent \in DOMAIN h /\ v \in ItemSet(h, h[v].parent)
  <2>1. PICK p : p = h[v].parent
    OBVIOUS
  <2>2. p \in DOMAIN h /\ \E i \in Positions \ {0} : Slot(h, p, i) = v
    BY <1>2, <1>3, <1>7, <2>1 DEF Tree
  <2>3. NodeShape(h[p])
    BY <1>2, <2>2 DEF Shaped
  <2> QED BY <1>3, <2>1, <2>2, <2>3, SlotsHold
<1> QED BY <1>1, <1>4, <1>5, <1>6, <1>7

LEMMA TypesHold == TreeInv => TypeOK
<1> SUFFICES ASSUME TreeInv PROVE TypeOK
  OBVIOUS
<1>1. Typed(heap) /\ Shaped(heap) /\ crashed \in BOOLEAN
  BY DEF TreeInv, Typed
<1>2. ASSUME NEW v \in DOMAIN heap
      PROVE  /\ heap[v] \in Nodes
             /\ Len(heap[v].names) = (IF heap[v].type = "RECORD" THEN Len(heap[v].items) ELSE 0)
             /\ DOMAIN heap[v].members = Range(heap[v].names)
  <2>1. NodeShape(heap[v]) /\ heap[v].data \in Data
    BY <1>1 DEF Typed, Shaped
  <2>2. heap[v] \in Fields
    BY <2>1 DEF NodeShape
  <2>3. heap[v] \in Nodes
    BY <2>1, <2>2 DEF Fields, Nodes, Items, Tables
  <2> QED BY <2>1, <2>3 DEF NodeShape
<1> QED BY <1>1, <1>2 DEF Shaped, TypeOK

\* However values are made, filled, duplicated, expanded, copied and freed with
\* the calls of value.c, each keeps its type and they are a forest: what a value
\* refers to is allocated, nothing is held twice or holds itself, and a parent
\* has its child among its items, so that FreeValueStruct (value.c:150-222)
\* frees everything once.
THEOREM ValuesAreAForest == Spec => []WellFormed
<1>1. TreeInv => WellFormed
  BY TypesHold, ForestHolds DEF WellFormed
<1> QED BY InvariantHoldsInit, InvariantKept, <1>1, PTL DEF Spec

-----------------------------------------------------------------------------
(* No more values than the bound *)

LEMMA RoomIs ==
  ASSUME NEW h, DOMAIN h \subseteq Addresses
  PROVE  /\ Room(h) \in Int /\ Cardinality(DOMAIN h) \in Nat
         /\ Cardinality(Addresses \ DOMAIN h) \in Nat
         /\ Room(h) = MaxHeap - Cardinality(DOMAIN h)
         /\ Cardinality(Addresses \ DOMAIN h) = Cardinality(Addresses) - Cardinality(DOMAIN h)
<1>1. Cardinality(DOMAIN h) \in Nat /\ Cardinality(Addresses) \in Nat
  BY AddressesAre, FS_Subset, FS_CardinalityType
<1>2. Cardinality(Addresses \ DOMAIN h) = Cardinality(Addresses) - Cardinality(DOMAIN h)
  <2>1. Addresses \cap DOMAIN h = DOMAIN h
    OBVIOUS
  <2> QED BY <2>1, AddressesAre, FS_Difference
<1>3. Cardinality(Addresses \ DOMAIN h) \in Nat
  BY AddressesAre, FS_Difference, FS_CardinalityType
<1> QED BY <1>1, <1>2, <1>3, HeapAssumption DEF Room

\* What a call takes of the room for it leaves no less than none.
LEMMA RoomTaken ==
  ASSUME NEW h, DOMAIN h \subseteq Addresses, NEW g, DOMAIN g \subseteq Addresses, NEW t \in Nat,
         Cardinality(Addresses \ DOMAIN g) + t = Cardinality(Addresses \ DOMAIN h), t <= Room(h)
  PROVE  Room(g) >= 0
<1>1. Cardinality(Addresses) \in Nat
  BY AddressesAre, FS_CardinalityType
<1>2. PICK m \in Nat : m = Cardinality(Addresses)
  BY <1>1
<1>3. PICK k \in Nat : k = Cardinality(DOMAIN h)
  BY RoomIs
<1>4. PICK l \in Nat : l = Cardinality(DOMAIN g)
  BY RoomIs
<1>5. /\ Room(h) = MaxHeap - k /\ Cardinality(Addresses \ DOMAIN h) = m - k
      /\ Room(g) = MaxHeap - l /\ Cardinality(Addresses \ DOMAIN g) = m - l
  BY <1>2, <1>3, <1>4, RoomIs
<1> QED BY <1>5, HeapAssumption

\* One value more.
LEMMA OneTaken ==
  ASSUME NEW h, DOMAIN h \subseteq Addresses, NEW g, NEW a \in Addresses \ DOMAIN h,
         DOMAIN g = DOMAIN h \cup {a}
  PROVE  Cardinality(Addresses \ DOMAIN g) + 1 = Cardinality(Addresses \ DOMAIN h)
<1>1. PICK F : F = Addresses \ DOMAIN h
  OBVIOUS
<1>2. IsFiniteSet(F) /\ a \in F /\ Addresses \ DOMAIN g = F \ {a}
  BY <1>1, AddressesAre, FS_Difference
<1>3. PICK n \in Nat : n = Cardinality(F)
  BY <1>2, FS_CardinalityType
<1>4. Cardinality(F \ {a}) = n - 1
  BY <1>2, <1>3, FS_RemoveElement
<1>5. Cardinality(Addresses \ DOMAIN g) = n - 1 /\ Cardinality(Addresses \ DOMAIN h) = n
  BY <1>1, <1>2, <1>3, <1>4
<1> QED BY <1>5

LEMMA DefineFits ==
  ASSUME NEW h, WellMade(h), NEW value \in DOMAIN h, NEW count \in 1..MaxItems,
         NEW expandable \in BOOLEAN, HasRoom(h, value, IF expandable THEN 1 ELSE count + 1),
         ~(CannotDuplicate(h, value) /\ ~expandable)
  PROVE  Room(DefineArray(h, value, count, expandable)) >= 0
<1>1. PICK r : Shaped(h) /\ Tree(h, r) /\ NULL \notin DOMAIN h
  BY TreeCloses DEF WellMade, Typed
<1>2. PICK n \in Nat : n = (IF expandable THEN 0 ELSE count)
  OBVIOUS
<1>3. (n # 0 => ~CannotDuplicate(h, value)) /\ HasRoom(h, value, n + 1)
  <2>1. n + 1 = IF expandable THEN 1 ELSE count + 1
    BY <1>2
  <2> QED BY <2>1, <1>2
<1>4. PICK made : made = Duplicates(h, value, n, FALSE)
  OBVIOUS
<1>5. PICK f : f = made.heap
  OBVIOUS
<1>6. Multiplied(h, r, value, n, made) /\ Fresh(f) \in Addresses \ DOMAIN f
  BY <1>1, <1>3, <1>4, <1>5, DefineSupplies
<1>7. PICK b \in Nat : b = Cardinality(Below(h, value))
  BY <1>1, BelowIs, TreeCloses, FS_Subset, FS_CardinalityType
<1>8. b > 0
  <2>1. value \in Below(h, value) /\ IsFiniteSet(Below(h, value))
    BY <1>1, BelowIs, TreeCloses, FS_Subset
  <2>2. Cardinality(Below(h, value)) # 0
    BY <2>1, FS_EmptySet
  <2> QED BY <2>2, <1>7
<1>9. DOMAIN h \subseteq Addresses /\ DOMAIN f \subseteq Addresses
  BY <1>1, <1>5, <1>6 DEF Multiplied, Extended, Shaped
<1>10. Cardinality(Addresses \ DOMAIN f) + n * b = Cardinality(Addresses \ DOMAIN h)
  BY <1>5, <1>6, <1>7 DEF Multiplied
<1>11. PICK g : g = DefineArray(h, value, count, expandable)
  OBVIOUS
<1>12. DOMAIN g = DOMAIN f \cup {Fresh(f)}
  <2>1. made = Duplicates(h, value, IF expandable THEN 0 ELSE count, FALSE)
    BY <1>2, <1>4
  <2>2. PICK linked : linked = [x \in DOMAIN f |-> IF x \in Range(made.values)
                                                  THEN [f[x] EXCEPT !.parent = Fresh(f)] ELSE f[x]]
    OBVIOUS
  <2>3. PICK node : node = [New("ARRAY") EXCEPT !.items = made.values, !.prototype = value,
                                                !.expandable = expandable]
    OBVIOUS
  <2>4. g = Put(linked, Fresh(f), node)
    BY <2>1, <2>2, <2>3, <1>5, <1>11 DEF DefineArray
  <2> QED BY <2>2, <2>4 DEF Put
<1>13. Cardinality(Addresses \ DOMAIN g) + 1 = Cardinality(Addresses \ DOMAIN f)
  BY <1>6, <1>9, <1>12, OneTaken
<1>14. PICK t \in Nat : t = n * b + 1
  <2>1. n * b \in Nat
    OBVIOUS
  <2> QED BY <2>1
<1>15. DOMAIN g \subseteq Addresses
  BY <1>6, <1>9, <1>12
<1>16. Cardinality(Addresses \ DOMAIN g) + t = Cardinality(Addresses \ DOMAIN h)
  <2>1. /\ Cardinality(Addresses \ DOMAIN g) \in Nat /\ Cardinality(Addresses \ DOMAIN f) \in Nat
        /\ n * b \in Nat
    BY <1>9, <1>15, RoomIs
  <2> QED BY <2>1, <1>10, <1>13, <1>14
<1>17. t <= Room(h)
  <2>1. (n + 1) * b <= Room(h)
    BY <1>1, <1>3, <1>7 DEF HasRoom
  <2>2. (n + 1) * b = n * b + b /\ n * b \in Nat
    OBVIOUS
  <2>3. Room(h) \in Int
    BY <1>9, RoomIs
  <2> QED BY <2>1, <2>2, <2>3, <1>8, <1>14
<1> QED BY <1>9, <1>11, <1>15, <1>16, <1>17, RoomTaken

LEMMA ExpandFits ==
  ASSUME NEW h, WellMade(h), Room(h) >= 0, NEW v \in DOMAIN h, NEW index \in 0..MaxItems-1,
         CanExpand(h, v, index), ~CannotExpand(h, v)
  PROVE  Room(Expand(h, v, index)) >= 0
<1>1. PICK r : Shaped(h) /\ Tree(h, r) /\ NULL \notin DOMAIN h
  BY TreeCloses DEF WellMade, Typed
<1>2. PICK p : p = h[v].prototype
  OBVIOUS
<1>3. PICK n \in Nat : n = index + 1 - Len(h[v].items)
  <2>1. PICK l \in Nat : l = Len(h[v].items)
    BY <1>1, NodeFields DEF Shaped
  <2>2. index >= l
    BY <2>1 DEF CanExpand
  <2>3. index + 1 - l \in Nat
    BY <2>2, AddressesAre
  <2> QED BY <2>1, <2>3
<1>4. PICK no \in BOOLEAN : no = FALSE
  OBVIOUS
<1>5. PICK made : made = Duplicates(h, p, n, no)
  OBVIOUS
<1>6. PICK g : g = Expand(h, v, index)
  OBVIOUS
<1>7. DOMAIN g = DOMAIN made.heap
  BY <1>2, <1>3, <1>4, <1>5, <1>6 DEF Expand
<1>8. CASE p = NULL
  <2>1. made.heap = h
    BY <1>5, <1>8, NothingMultiplied
  <2> QED BY <2>1, <1>6, <1>7 DEF Room
<1>9. CASE p # NULL
  <2>1. p \in DOMAIN h /\ ~CannotDuplicate(h, p) /\ HasRoom(h, p, n)
    <3>1. Slot(h, v, 0) = p
      BY <1>2 DEF Slot
    <3>2. p \in DOMAIN h
      BY <3>1, <1>1, <1>9, AddressesAre DEF Tree
    <3>3. HasRoom(h, p, n)
      BY <1>2, <1>3 DEF CanExpand
    <3> QED BY <3>2, <3>3, <1>2, <1>9 DEF CannotExpand
  <2>2. PICK b \in Nat : b = Cardinality(Below(h, p))
    BY <1>1, <2>1, BelowIs, TreeCloses, FS_Subset, FS_CardinalityType
  <2>3. PICK t \in Nat : t = n * b
    OBVIOUS
  <2>4. DOMAIN h \subseteq Addresses
    BY <1>1 DEF Shaped
  <2>5. t <= Room(h) /\ Room(h) <= Cardinality(Addresses \ DOMAIN h)
    BY <1>1, <1>9, <2>1, <2>2, <2>3, RoomIsFree DEF HasRoom
  <2>6. Multiplied(h, r, p, n, made)
    <3>1. n * Cardinality(Below(h, p)) <= Cardinality(Addresses \ DOMAIN h)
      <4>1. Room(h) \in Int /\ Cardinality(Addresses \ DOMAIN h) \in Nat
        BY <2>4, RoomIs
      <4> QED BY <4>1, <2>2, <2>3, <2>5
    <3> QED BY <3>1, <1>1, <1>5, <2>1, DuplicatesMultiply
  <2>7. DOMAIN g \subseteq Addresses
    BY <2>6, <1>7 DEF Multiplied, Extended, Shaped
  <2>8. Cardinality(Addresses \ DOMAIN g) + t = Cardinality(Addresses \ DOMAIN h)
    BY <2>2, <2>3, <2>6, <1>7 DEF Multiplied
  <2> QED BY <1>6, <2>4, <2>5, <2>7, <2>8, RoomTaken
<1> QED BY <1>8, <1>9

LEMMA DuplicateFits ==
  ASSUME NEW h, WellMade(h), NEW v \in DOMAIN h, NEW fCopy \in BOOLEAN, HasRoom(h, v, 1),
         ~CannotDuplicate(h, v)
  PROVE  Room(Duplicate(h, v, fCopy).heap) >= 0
<1>1. PICK r : Typed(h) /\ Shaped(h) /\ Tree(h, r) /\ NULL \notin DOMAIN h
  BY TreeCloses DEF WellMade, Typed
<1>2. PICK b \in Nat : b = Cardinality(Below(h, v))
  BY <1>1, BelowIs, TreeCloses, FS_Subset, FS_CardinalityType
<1>3. DOMAIN h \subseteq Addresses
  BY <1>1 DEF Shaped
<1>4. b <= Room(h)
  <2>1. 1 * b <= Room(h)
    BY <1>1, <1>2 DEF HasRoom
  <2> QED BY <2>1
<1>5. b <= Cardinality(Addresses \ DOMAIN h)
  <2>1. Room(h) \in Int /\ Cardinality(Addresses \ DOMAIN h) \in Nat
    BY <1>3, RoomIs
  <2> QED BY <2>1, <1>1, <1>4, RoomIsFree
<1>6. PICK g : g = Duplicate(h, v, fCopy).heap
  OBVIOUS
<1>7. /\ DOMAIN g \subseteq Addresses
      /\ Cardinality(Addresses \ DOMAIN g) = Cardinality(Addresses \ DOMAIN h) - b
  BY <1>1, <1>2, <1>5, <1>6, DuplicateExtends DEF Extended, Shaped
<1>8. Cardinality(Addresses \ DOMAIN g) + b = Cardinality(Addresses \ DOMAIN h)
  <2>1. Cardinality(Addresses \ DOMAIN h) \in Nat
    BY <1>3, RoomIs
  <2> QED BY <2>1, <1>7
<1> QED BY <1>3, <1>4, <1>6, <1>7, <1>8, RoomTaken

LEMMA BoundKept ==
  TreeInv /\ Room(heap) >= 0 /\ [Next]_vars => (Room(heap) >= 0)'
<1> SUFFICES ASSUME TreeInv, Room(heap) >= 0, [Next]_vars PROVE Room(heap') >= 0
  BY DEF Room
<1>1. PICK h : h = heap
  OBVIOUS
<1>2. WellMade(h) /\ Room(h) >= 0
  BY <1>1 DEF TreeInv, WellMade
<1>3. DOMAIN h \subseteq Addresses
  BY <1>2 DEF WellMade, Typed, Shaped
<1>4. ASSUME NEW g, Room(g) >= 0, Call(g) PROVE Room(heap') >= 0
  BY <1>4 DEF Call
<1>5. ASSUME NEW g, DOMAIN g = DOMAIN h PROVE Room(g) >= 0
  BY <1>2, <1>5 DEF Room
<1>6. ASSUME Crash PROVE Room(heap') >= 0
  <2>1. DOMAIN heap' = {}
    BY <1>6 DEF Crash
  <2> QED BY <2>1, FS_EmptySet, HeapAssumption DEF Room
<1>7. CASE UNCHANGED vars
  BY <1>1, <1>2, <1>7 DEF vars
<1>8. CASE NewValue
  <2>1. PICK type \in Scalars \cup {"RECORD", "ARRAY"} :
          Room(h) > 0 /\ Call(Put(h, Fresh(h), New(type)))
    BY <1>1, <1>8 DEF NewValue
  <2>2. Fresh(h) \in Addresses \ DOMAIN h
    <3>1. Room(h) <= Cardinality(Addresses \ DOMAIN h)
      BY <1>2, RoomIsFree DEF WellMade, Typed
    <3>2. Room(h) \in Int /\ Cardinality(Addresses \ DOMAIN h) \in Nat
      BY <1>3, RoomIs
    <3> QED BY <3>1, <3>2, <2>1, FreshIsFree
  <2>3. PICK g : g = Put(h, Fresh(h), New(type))
    OBVIOUS
  <2>4. DOMAIN g = DOMAIN h \cup {Fresh(h)}
    BY <2>3 DEF Put
  <2>5. Cardinality(Addresses \ DOMAIN g) + 1 = Cardinality(Addresses \ DOMAIN h)
    BY <2>2, <2>4, <1>3, OneTaken
  <2>6. DOMAIN g \subseteq Addresses /\ 1 <= Room(h)
    <3>1. Room(h) \in Int /\ Room(h) > 0
      BY <2>1, <1>3, RoomIs
    <3>2. DOMAIN g \subseteq Addresses
      BY <2>2, <2>4, <1>3
    <3> QED BY <3>1, <3>2
  <2>7. PICK t \in Nat : t = 1
    OBVIOUS
  <2>8. Cardinality(Addresses \ DOMAIN g) + t = Cardinality(Addresses \ DOMAIN h) /\ t <= Room(h)
    BY <2>5, <2>6, <2>7
  <2>9. Room(g) >= 0
    BY <2>6, <2>8, <1>3, RoomTaken
  <2> QED BY <2>1, <2>3, <2>9, <1>4
<1>9. CASE FreeValueStruct
  <2>1. PICK v \in Roots(h) : Call(Freed(h, v))
    BY <1>1, <1>9 DEF FreeValueStruct
  <2>2. DOMAIN Freed(h, v) \subseteq DOMAIN h
    BY DEF Freed
  <2>3. PICK g : g = Freed(h, v)
    OBVIOUS
  <2>4. Cardinality(DOMAIN g) <= Cardinality(DOMAIN h) /\ Cardinality(DOMAIN g) \in Nat
    BY <2>2, <2>3, <1>3, AddressesAre, FS_Subset, FS_CardinalityType
  <2>5. Room(g) >= 0
    <3>1. PICK k \in Nat : k = Cardinality(DOMAIN h)
      BY <1>3, RoomIs
    <3>2. PICK l \in Nat : l = Cardinality(DOMAIN g) /\ l <= k
      BY <2>4, <3>1
    <3>3. Room(h) = MaxHeap - k /\ Room(g) = MaxHeap - l
      BY <3>1, <3>2 DEF Room
    <3> QED BY <3>2, <3>3, <1>2, HeapAssumption
  <2> QED BY <2>1, <2>3, <2>5, <1>4
<1>10. CASE ParValueDefine
  <2>1. PICK value \in Roots(h), count \in 1..MaxItems, expandable \in BOOLEAN :
          /\ HasRoom(h, value, IF expandable THEN 1 ELSE count + 1)
          /\ IF CannotDuplicate(h, value) /\ ~expandable THEN Crash
             ELSE Call(DefineArray(h, value, count, expandable))
    BY <1>1, <1>10 DEF ParValueDefine
  <2>2. CASE CannotDuplicate(h, value) /\ ~expandable
    BY <2>1, <2>2, <1>6
  <2>3. CASE ~(CannotDuplicate(h, value) /\ ~expandable)
    <3>1. Room(DefineArray(h, value, count, expandable)) >= 0
      BY <2>1, <2>3, <1>2, DefineFits DEF Roots
    <3> QED BY <2>1, <2>3, <3>1, <1>4
  <2> QED BY <2>2, <2>3
<1>11. CASE ValueAddRecordItem
  <2>1. PICK upper \in DOMAIN h, value \in Roots(h), name \in Names :
          Call(AddRecordItem(h, upper, name, value))
    BY <1>1, <1>11 DEF ValueAddRecordItem
  <2>2. DOMAIN AddRecordItem(h, upper, name, value) = DOMAIN h
    BY DEF AddRecordItem
  <2> QED BY <2>1, <2>2, <1>4, <1>5
<1>12. CASE ValueAddArrayItem
  <2>1. PICK upper \in DOMAIN h, value \in Roots(h), ix \in -1..MaxItems-1 :
          Call(AddArrayItem(h, upper, ix, value))
    BY <1>1, <1>12 DEF ValueAddArrayItem
  <2>2. DOMAIN AddArrayItem(h, upper, ix, value) = DOMAIN h
    BY DEF AddArrayItem
  <2> QED BY <2>1, <2>2, <1>4, <1>5
<1>13. CASE GetArrayItem
  <2>1. PICK v \in DOMAIN h, index \in 0..MaxItems-1 :
          /\ CanExpand(h, v, index)
          /\ IF CannotExpand(h, v) THEN Crash ELSE Call(Expand(h, v, index))
    BY <1>1, <1>13 DEF GetArrayItem
  <2>2. CASE CannotExpand(h, v)
    BY <2>1, <2>2, <1>6
  <2>3. CASE ~CannotExpand(h, v)
    <3>1. Room(Expand(h, v, index)) >= 0
      BY <2>1, <2>3, <1>2, ExpandFits
    <3> QED BY <2>1, <2>3, <3>1, <1>4
  <2> QED BY <2>2, <2>3
<1>14. CASE DuplicateValue
  <2>1. PICK v \in DOMAIN h, fCopy \in BOOLEAN :
          /\ HasRoom(h, v, 1)
          /\ IF CannotDuplicate(h, v) THEN Crash ELSE Call(Duplicate(h, v, fCopy).heap)
    BY <1>1, <1>14 DEF DuplicateValue
  <2>2. CASE CannotDuplicate(h, v)
    BY <2>1, <2>2, <1>6
  <2>3. CASE ~CannotDuplicate(h, v)
    <3>1. Room(Duplicate(h, v, fCopy).heap) >= 0
      BY <2>1, <2>3, <1>2, DuplicateFits
    <3> QED BY <2>1, <2>3, <3>1, <1>4
  <2> QED BY <2>2, <2>3
<1>15. CASE InitializeValue
  <2>1. PICK v \in DOMAIN h : Call(Initialized(h, v))
    BY <1>1, <1>15 DEF InitializeValue
  <2>2. DOMAIN Initialized(h, v) = DOMAIN h
    BY DEF Initialized
  <2> QED BY <2>1, <2>2, <1>4, <1>5
<1>16. CASE CopyValue
  <2>1. PICK vd, vs \in DOMAIN h : Call(Copied(h, vd, vs))
    BY <1>1, <1>16 DEF CopyValue
  <2>2. DOMAIN Copied(h, vd, vs) = DOMAIN h
    BY DEF Copied
  <2> QED BY <2>1, <2>2, <1>4, <1>5
<1>17. CASE SetValue
  <2>1. PICK v \in DOMAIN h, d \in Data, nil \in Nils :
          Call([h EXCEPT ![v].data = d, ![v].nil = nil])
    BY <1>1, <1>17 DEF SetValue
  <2>2. DOMAIN [h EXCEPT ![v].data = d, ![v].nil = nil] = DOMAIN h
    OBVIOUS
  <2> QED BY <2>1, <2>2, <1>4, <1>5
<1> QED BY <1>7, <1>8, <1>9, <1>10, <1>11, <1>12, <1>13, <1>14, <1>15, <1>16, <1>17 DEF Next

-----------------------------------------------------------------------------
(* Duplicates *)

\* The pairs of items at the same place of a pair of values.
Together(h, p) ==
  {<<h[p[1]].items[i], h[p[2]].items[i]>> :
     i \in {j \in (DOMAIN h[p[1]].items) \cap (DOMAIN h[p[2]].items) :
              NULL \notin {h[p[1]].items[j], h[p[2]].items[j]}}}

LEMMA TogetherIs ==
  ASSUME NEW h, NEW r, Shaped(h), Tree(h, r), NEW p \in (DOMAIN h) \X (DOMAIN h)
  PROVE  Together(h, p) \subseteq (DOMAIN h) \X (DOMAIN h)
<1>1. p[1] \in DOMAIN h /\ p[2] \in DOMAIN h
  OBVIOUS
<1>2. ASSUME NEW x \in DOMAIN h, NEW i \in DOMAIN h[x].items, h[x].items[i] # NULL
      PROVE  h[x].items[i] \in DOMAIN h
  <2>1. h[x].items[i] \in ItemSet(h, x)
    BY <1>2 DEF ItemSet, Range
  <2> QED BY <2>1, TreeCloses
<1>3. SUFFICES ASSUME NEW q \in Together(h, p) PROVE q \in (DOMAIN h) \X (DOMAIN h)
  OBVIOUS
<1>4. PICK i : /\ i \in DOMAIN h[p[1]].items /\ i \in DOMAIN h[p[2]].items
               /\ h[p[1]].items[i] # NULL /\ h[p[2]].items[i] # NULL
               /\ q = <<h[p[1]].items[i], h[p[2]].items[i]>>
  BY DEF Together
<1> QED BY <1>1, <1>2, <1>4

LEMMA PairsAre ==
  ASSUME NEW h, NEW r, Shaped(h), Tree(h, r), NEW v \in DOMAIN h, NEW w \in DOMAIN h
  PROVE  \A T \in SUBSET ((DOMAIN h) \X (DOMAIN h)) :
           <<v, w>> \in T /\ (\A p \in T : Together(h, p) \subseteq T) => Pairs(h, v, w) \subseteq T
<1>0. PICK D : D = (DOMAIN h) \X (DOMAIN h)
  OBVIOUS
<1>f. IsFiniteSet(D)
  BY <1>0, TreeCloses, FS_Product
<1>1. PICK A : A = [p \in D |-> Together(h, p)]
  OBVIOUS
<1>2. A \in [D -> SUBSET D] /\ \A p \in D : A[p] = Together(h, p)
  BY <1>0, <1>1, TogetherIs
<1>3. \A f : (f = [S \in SUBSET D |-> LET T == S \cup UNION {Together(h, y) : y \in S}
                                     IN IF T = S THEN S ELSE f[T]])
             <=> Closing(D, A, f)
  <2>1. \A S \in SUBSET D : S \cup UNION {Together(h, y) : y \in S} = Step(A, S)
    BY <1>2 DEF Step
  <2> QED BY <2>1 DEF Closing
<1> DEFINE g == CHOOSE f : f = [S \in SUBSET D |-> LET T == S \cup UNION {Together(h, y) : y \in S}
                                                  IN IF T = S THEN S ELSE f[T]]
<1>4. Closing(D, A, g)
  BY <1>2, <1>3, ClosingExists
<1>5. Pairs(h, v, w) = g[{<<v, w>>}]
  BY <1>0 DEF Pairs, Reached, Together
<1> HIDE DEF g
<1>6. <<v, w>> \in D
  BY <1>0
<1>7. Pairs(h, v, w) = Closure(D, A, {<<v, w>>})
  <2>1. {<<v, w>>} \in SUBSET D
    BY <1>6
  <2> QED BY <2>1, <1>f, <1>2, <1>4, <1>5, ClosingCloses
<1>8. PICK x \in D : x = <<v, w>>
  BY <1>6
<1>9. \A T \in SUBSET D : x \in T /\ (\A p \in T : A[p] \subseteq T) => Closure(D, A, {x}) \subseteq T
  BY <1>2, ClosureIs
<1>10. ASSUME NEW T \in SUBSET D, <<v, w>> \in T, \A p \in T : Together(h, p) \subseteq T
       PROVE  Pairs(h, v, w) \subseteq T
  <2>1. \A p \in T : A[p] \subseteq T
    BY <1>2, <1>10
  <2>2. x \in T
    BY <1>8, <1>10
  <2> QED BY <2>1, <2>2, <1>7, <1>8, <1>9
<1> QED BY <1>0, <1>10

LEMMA DuplicateMirrors ==
  ASSUME NEW h, NEW r, Shaped(h), Tree(h, r), NEW v \in DOMAIN h, ~CannotDuplicate(h, v),
         NEW fCopy \in BOOLEAN, Cardinality(Below(h, v)) <= Cardinality(Addresses \ DOMAIN h)
  PROVE  LET d == Duplicate(h, v, fCopy)
         IN /\ EqualValue(d.heap, v, d.value)
            /\ Owned(d.heap, d.value) \cap DOMAIN h = {}
            /\ \A p \in Pairs(d.heap, v, d.value) :
                 d.heap[p[2]].data = IF fCopy THEN h[p[1]].data ELSE 0
<1>1. PICK B : B = Below(h, v)
  OBVIOUS
<1>2. B \subseteq DOMAIN h /\ v \in B
  BY <1>1, BelowIs, TreeCloses
<1>3. PICK g : g = Duplicate(h, v, fCopy).heap
  OBVIOUS
<1>4. PICK to \in [B -> Addresses \ DOMAIN h] :
        /\ \A x, y \in B : to[x] = to[y] => x = y
        /\ Duplicate(h, v, fCopy).value = to[v]
        /\ Doubled(h, g, B, v, to, fCopy)
  BY <1>1, <1>3, DuplicateIs
<1>5. PICK q : Shaped(g) /\ Tree(g, q) /\ to[v] \in DOMAIN g
  BY <1>1, <1>4, DuplicateTree
<1>6. /\ \A x \in B : /\ g[to[x]].type = h[x].type /\ g[to[x]].names = h[x].names
                      /\ Len(g[to[x]].items) = Len(h[x].items)
                      /\ g[to[x]].data = IF fCopy THEN h[x].data ELSE 0
      /\ \A x \in B, i \in Positions :
           /\ Slot(g, to[x], i) # NULL => /\ i # 0 /\ Slot(h, x, i) \in B
                                          /\ Slot(g, to[x], i) = to[Slot(h, x, i)]
  BY <1>1, <1>4, DuplicateSlots
<1>7. /\ DOMAIN g = DOMAIN h \cup {to[x] : x \in B}
      /\ \A x \in DOMAIN h : g[x] = h[x]
      /\ \A x \in B : g[x] = h[x] /\ x \in DOMAIN g /\ to[x] \in DOMAIN g
  BY <1>2, <1>4 DEF Doubled
<1>8. PICK T : T = {<<x, to[x]>> : x \in B}
  OBVIOUS
<1>9. Pairs(g, v, to[v]) \subseteq T
  <2>1. T \in SUBSET ((DOMAIN g) \X (DOMAIN g)) /\ <<v, to[v]>> \in T
    BY <1>2, <1>7, <1>8
  <2>2. ASSUME NEW p \in T PROVE Together(g, p) \subseteq T
    <3>1. PICK x \in B : p = <<x, to[x]>>
      BY <1>8
    <3>2. SUFFICES ASSUME NEW e \in Together(g, p) PROVE e \in T
      OBVIOUS
    <3>3. PICK i : /\ i \in DOMAIN g[x].items /\ i \in DOMAIN g[to[x]].items
                   /\ g[x].items[i] # NULL /\ g[to[x]].items[i] # NULL
                   /\ e = <<g[x].items[i], g[to[x]].items[i]>>
      BY <3>1 DEF Together
    <3>4. NodeShape(g[x]) /\ NodeShape(g[to[x]])
      BY <1>5, <1>7 DEF Shaped
    <3>5. /\ DOMAIN g[x].items = 1..Len(g[x].items) /\ Len(g[x].items) \in Nat
          /\ Len(g[x].items) <= MaxItems
          /\ DOMAIN g[to[x]].items = 1..Len(g[to[x]].items)
      BY <3>4, NodeFields
    <3>6. i \in Positions /\ i # 0 /\ i <= Len(g[x].items) /\ i <= Len(g[to[x]].items)
      BY <3>3, <3>5, AddressesAre DEF Positions
    <3>7. Slot(g, x, i) = g[x].items[i] /\ Slot(g, to[x], i) = g[to[x]].items[i]
      BY <3>6 DEF Slot
    <3>8. Slot(h, x, i) = g[x].items[i]
      BY <3>7, <1>7 DEF Slot
    <3>9. g[x].items[i] \in B /\ g[to[x]].items[i] = to[g[x].items[i]]
      BY <3>3, <3>6, <3>7, <3>8, <1>6
    <3> QED BY <3>3, <3>9, <1>8
  <2> QED BY <2>1, <2>2, <1>2, <1>5, <1>7, PairsAre
<1>10. ASSUME NEW p \in Pairs(g, v, to[v])
       PROVE  /\ g[p[1]].type = g[p[2]].type /\ Len(g[p[1]].items) = Len(g[p[2]].items)
              /\ g[p[1]].names = g[p[2]].names
              /\ g[p[2]].data = IF fCopy THEN h[p[1]].data ELSE 0
  <2>1. PICK x \in B : p = <<x, to[x]>>
    BY <1>8, <1>9
  <2>2. p[1] = x /\ p[2] = to[x]
    BY <2>1
  <2> QED BY <2>2, <1>6, <1>7
<1>11. EqualValue(g, v, to[v])
  BY <1>10 DEF EqualValue
<1>12. Owned(g, to[v]) \cap DOMAIN h = {}
  <2>1. PICK U : U = {to[x] : x \in B}
    OBVIOUS
  <2>2. U \in SUBSET DOMAIN g /\ to[v] \in U /\ U \cap DOMAIN h = {}
    BY <2>1, <1>2, <1>4, <1>7
  <2>3. ASSUME NEW y \in U PROVE Held(g, y) \subseteq U
    <3>1. SUFFICES ASSUME NEW z \in Held(g, y) PROVE z \in U
      OBVIOUS
    <3>2. PICK x \in B : y = to[x]
      BY <2>1
    <3>3. NodeShape(g[y])
      BY <3>2, <1>5, <1>7 DEF Shaped
    <3>4. PICK i \in Positions : Slot(g, y, i) = z /\ z # NULL
      BY <3>3, SlotsHold
    <3> QED BY <3>2, <3>4, <2>1, <1>6
  <2>4. Owned(g, to[v]) \subseteq U
    BY <2>2, <2>3, <1>5, OwnedIs, TreeCloses
  <2> QED BY <2>2, <2>4
<1> QED BY <1>3, <1>4, <1>10, <1>11, <1>12

\* What is below a value depends on the items only.
LEMMA BelowSame ==
  ASSUME NEW h, NEW g, NEW r, Shaped(h), Tree(h, r), Shaped(g), Tree(g, r), DOMAIN g = DOMAIN h,
         \A x \in DOMAIN h : g[x].items = h[x].items /\ g[x].type = h[x].type, NEW v \in DOMAIN h
  PROVE  Below(g, v) = Below(h, v) /\ (CannotDuplicate(g, v) <=> CannotDuplicate(h, v))
<1>1. \A x \in DOMAIN h : ItemSet(g, x) = ItemSet(h, x)
  BY DEF ItemSet
<1>2. PICK S : S = Below(h, v)
  OBVIOUS
<1>3. PICK T : T = Below(g, v)
  OBVIOUS
<1>4. S \in SUBSET DOMAIN h /\ v \in S /\ \A y \in S : ItemSet(h, y) \subseteq S
  BY <1>2, BelowIs, TreeCloses
<1>5. T \in SUBSET DOMAIN g /\ v \in T /\ \A y \in T : ItemSet(g, y) \subseteq T
  BY <1>3, BelowIs, TreeCloses
<1>6. S \subseteq T
  <2>1. T \in SUBSET DOMAIN h /\ \A y \in T : ItemSet(h, y) \subseteq T
    BY <1>1, <1>5
  <2> QED BY <2>1, <1>2, <1>5, BelowIs, TreeCloses
<1>7. T \subseteq S
  <2>1. S \in SUBSET DOMAIN g /\ \A y \in S : ItemSet(g, y) \subseteq S
    BY <1>1, <1>4
  <2> QED BY <2>1, <1>3, <1>4, BelowIs, TreeCloses
<1>8. Below(g, v) = Below(h, v)
  BY <1>2, <1>3, <1>6, <1>7
<1>9. \A x \in Below(h, v) : g[x].type = h[x].type /\ g[x].items = h[x].items
  BY <1>2, <1>4
<1> QED BY <1>8, <1>9 DEF CannotDuplicate

\* With every value holding its own address.
Addressed(h, g) == g = [x \in DOMAIN h |-> [h[x] EXCEPT !.data = x]]

LEMMA AddressedTree ==
  ASSUME NEW h, NEW r, Shaped(h), Tree(h, r), NEW g, Addressed(h, g)
  PROVE  /\ Shaped(g) /\ Tree(g, r) /\ DOMAIN g = DOMAIN h
         /\ \A x \in DOMAIN h : g[x].items = h[x].items /\ g[x].type = h[x].type
<1>0. DOMAIN g = DOMAIN h /\ \A x \in DOMAIN h : g[x] = [h[x] EXCEPT !.data = x]
  BY DEF Addressed
<1>1. ASSUME NEW x \in DOMAIN h
      PROVE  /\ NodeShape(g[x]) /\ g[x].items = h[x].items /\ g[x].type = h[x].type
             /\ g[x].prototype = h[x].prototype /\ g[x].parent = h[x].parent
  <2>1. NodeShape(h[x]) /\ x \in Addresses
    BY DEF Shaped
  <2>2. PICK c : c = [h[x] EXCEPT !.data = x]
    OBVIOUS
  <2>3. /\ c \in Fields /\ c.items = h[x].items /\ c.type = h[x].type /\ c.names = h[x].names
        /\ c.members = h[x].members /\ c.prototype = h[x].prototype /\ c.parent = h[x].parent
    BY <2>1, <2>2 DEF NodeShape, Fields
  <2>4. NodeShape(c)
    BY <2>1, <2>3 DEF NodeShape, NamesFound
  <2> QED BY <2>2, <2>3, <2>4, <1>0
<1>2. DOMAIN g = DOMAIN h
  BY <1>0
<1>3. Tree(g, r)
  BY <1>1, <1>2, RelabelledTree
<1>4. Shaped(g)
  BY <1>1, <1>2 DEF Shaped
<1> QED BY <1>1, <1>2, <1>3, <1>4

LEMMA FaithfulHere ==
  ASSUME 2 * MaxHeap <= Cardinality(Addresses), TreeInv, Room(heap) >= 0
  PROVE  DuplicateIsFaithful
<1>1. PICK h : h = heap
  OBVIOUS
<1>2. PICK r : Shaped(h) /\ Tree(h, r)
  BY <1>1 DEF TreeInv, Typed
<1>3. PICK full : full = [x \in DOMAIN h |-> [h[x] EXCEPT !.data = x]]
  OBVIOUS
<1>4. /\ Shaped(full) /\ Tree(full, r) /\ DOMAIN full = DOMAIN h
      /\ \A x \in DOMAIN h : full[x].items = h[x].items /\ full[x].type = h[x].type
  <2>1. Addressed(h, full)
    BY <1>3 DEF Addressed
  <2> QED BY <2>1, <1>2, AddressedTree
<1>5. SUFFICES ASSUME NEW v \in Roots(heap), NEW fCopy \in BOOLEAN, ~CannotDuplicate(heap, v)
      PROVE  LET d == Duplicate(full, v, fCopy)
             IN /\ EqualValue(d.heap, v, d.value)
                /\ Owned(d.heap, d.value) \cap DOMAIN heap = {}
                /\ \A p \in Pairs(d.heap, v, d.value) :
                     d.heap[p[2]].data = IF fCopy THEN full[p[1]].data ELSE 0
  <2>1. full = [x \in DOMAIN heap |-> [heap[x] EXCEPT !.data = x]]
    BY <1>1, <1>3
  <2> QED BY <2>1 DEF DuplicateIsFaithful
<1>6. v \in DOMAIN h /\ v \in DOMAIN full /\ ~CannotDuplicate(h, v)
  BY <1>1, <1>4, <1>5 DEF Roots
<1>7. ~CannotDuplicate(full, v)
  BY <1>2, <1>4, <1>6, BelowSame
<1>8. Cardinality(Below(full, v)) <= Cardinality(Addresses \ DOMAIN full)
  <2>1. DOMAIN h \subseteq Addresses
    BY <1>2 DEF Shaped
  <2>2. PICK k \in Nat : k = Cardinality(DOMAIN h)
    BY <2>1, RoomIs
  <2>3. PICK m \in Nat : m = Cardinality(Addresses)
    BY AddressesAre, FS_CardinalityType
  <2>4. Cardinality(Addresses \ DOMAIN h) = m - k
    BY <2>1, <2>2, <2>3, RoomIs
  <2>5. MaxHeap - k >= 0
    BY <2>2, <1>1 DEF Room
  <2>6. k <= m - k
    BY <2>3, <2>5, HeapAssumption
  <2>7. Below(full, v) \subseteq DOMAIN h /\ IsFiniteSet(DOMAIN h)
    BY <1>4, <1>6, BelowIs, TreeCloses
  <2>8. PICK b \in Nat : b = Cardinality(Below(full, v)) /\ b <= k
    BY <2>2, <2>7, FS_Subset, FS_CardinalityType
  <2> QED BY <2>4, <2>6, <2>8, <1>4
<1>9. LET d == Duplicate(full, v, fCopy)
      IN /\ EqualValue(d.heap, v, d.value)
         /\ Owned(d.heap, d.value) \cap DOMAIN full = {}
         /\ \A p \in Pairs(d.heap, v, d.value) :
              d.heap[p[2]].data = IF fCopy THEN full[p[1]].data ELSE 0
  BY <1>4, <1>6, <1>7, <1>8, DuplicateMirrors
<1> QED BY <1>1, <1>4, <1>9

\* If there are addresses for a duplicate of all there can be, a duplicate has the
\* structure of its original at every place, shares nothing with it or with any
\* other value, and has its contents just when they are asked for (DuplicateValue,
\* value.c:1064-1218).
THEOREM DuplicatesAreFaithful ==
  ASSUME 2 * MaxHeap <= Cardinality(Addresses)
  PROVE  Spec => []DuplicateIsFaithful
<1>1. Init => TreeInv /\ Room(heap) >= 0
  BY InvariantHoldsInit, FS_EmptySet, HeapAssumption DEF Init, Room
<1>2. TreeInv /\ Room(heap) >= 0 => DuplicateIsFaithful
  BY FaithfulHere
<1> QED BY <1>1, <1>2, InvariantKept, BoundKept, PTL DEF Spec

-----------------------------------------------------------------------------
(* Long names *)

\* f is the way from root by the parts of a long name.
Follows(h, root, longname, f) ==
  f = [k \in 0..Len(longname) |-> IF k = 0 THEN root ELSE NextItem(h, f[k-1], longname[k])]

\* Parts of long names.
Parts == [name : Names \cup {""}, index : Int]

LEMMA NextItemIs ==
  ASSUME NEW h, NEW r, Shaped(h), Tree(h, r), NEW v \in DOMAIN h \cup {NULL}, NEW s \in Parts
  PROVE  NextItem(h, v, s) \in DOMAIN h \cup {NULL}
<1>1. CASE v = NULL
  BY <1>1 DEF NextItem
<1>2. CASE v # NULL
  <2>1. v \in DOMAIN h /\ NodeShape(h[v])
    BY <1>2 DEF Shaped
  <2>2. PICK n : n = h[v]
    OBVIOUS
  <2>3. ASSUME NEW i \in DOMAIN n.items PROVE n.items[i] \in DOMAIN h \cup {NULL}
    <3>1. n.items[i] = NULL \/ n.items[i] \in ItemSet(h, v)
      BY <2>2 DEF ItemSet, Range
    <3> QED BY <3>1, <2>1, TreeCloses
  <2>4. DOMAIN n.items = 1..Len(n.items) /\ Len(n.items) \in Nat
    BY <2>1, <2>2, NodeFields
  <2>5. CASE s.index < 0
    <3>1. NextItem(h, v, s) = GetRecordItem(h, v, s.name)
      BY <1>2, <2>5 DEF NextItem
    <3>2. CASE n.type = "RECORD" /\ s.name \in DOMAIN n.members
      <4>1. n.members[s.name] \in DOMAIN n.names
        BY <3>2, <2>1, <2>2 DEF NodeShape, NamesFound
      <4>2. DOMAIN n.names = 1..Len(n.items)
        <5>1. n.names \in Seq(Names) /\ Len(n.names) = Len(n.items)
          BY <3>2, <2>1, <2>2 DEF NodeShape, Fields
        <5> QED BY <5>1
      <4>3. GetRecordItem(h, v, s.name) = n.items[n.members[s.name]]
        BY <3>2, <2>2 DEF GetRecordItem
      <4> QED BY <3>1, <4>1, <4>2, <4>3, <2>3, <2>4
    <3>3. CASE ~(n.type = "RECORD" /\ s.name \in DOMAIN n.members)
      BY <3>1, <3>3, <2>2 DEF GetRecordItem
    <3> QED BY <3>2, <3>3
  <2>6. CASE ~(s.index < 0)
    <3>1. CASE s.index < Len(n.items)
      <4>1. s.index \in Int
        BY DEF Parts
      <4>2. s.index + 1 \in DOMAIN n.items
        BY <3>1, <4>1, <2>4, <2>6
      <4>3. NextItem(h, v, s) = n.items[s.index + 1]
        BY <3>1, <1>2, <2>2, <2>6 DEF NextItem
      <4> QED BY <4>2, <4>3, <2>3
    <3>2. CASE ~(s.index < Len(n.items))
      BY <3>2, <1>2, <2>2, <2>6 DEF NextItem
    <3> QED BY <3>1, <3>2
  <2> QED BY <2>5, <2>6
<1> QED BY <1>1, <1>2

\* Where a long name leads is the end of that way.
LEMMA LookUpIs ==
  ASSUME NEW h, NEW r, Shaped(h), Tree(h, r), NEW root \in DOMAIN h, NEW longname \in Seq(Parts)
  PROVE  \E f : /\ GetItemLongName(h, root, longname) = f[Len(longname)] /\ f[0] = root
                /\ \A k \in 1..Len(longname) : f[k] = NextItem(h, f[k-1], longname[k])
                /\ \A k \in 0..Len(longname) : f[k] \in DOMAIN h \cup {NULL}
<1>1. PICK n \in Nat : n = Len(longname)
  OBVIOUS
<1>2. PICK X : X = DOMAIN h \cup {NULL}
  OBVIOUS
<1>3. PICK G : G = [p \in (1..n) \X X |-> NextItem(h, p[2], longname[p[1]])]
  OBVIOUS
<1>4. ASSUME NEW k \in 1..n, NEW x \in X
      PROVE  G[<<k, x>>] = NextItem(h, x, longname[k]) /\ G[<<k, x>>] \in X
  <2>1. longname[k] \in Parts
    BY <1>1
  <2>2. NextItem(h, x, longname[k]) \in X
    BY <2>1, <1>2, NextItemIs
  <2> QED BY <2>2, <1>3
<1>5. PICK e : Iterates(n, root, G, e)
  BY IterationExists
<1>6. e = [k \in 0..n |-> IF k = 0 THEN root ELSE G[<<k, e[k-1]>>]]
  BY <1>5 DEF Iterates
<1>7. e[0] = root /\ \A k \in 1..n : e[k] = G[<<k, e[k-1]>>]
  BY <1>6
<1>8. \A k \in 0..n : e[k] \in X
  <2>1. e[0] \in X
    BY <1>2, <1>7
  <2>2. \A k \in 1..n : e[k-1] \in X => e[k] \in X
    BY <1>4, <1>7
  <2> QED BY <2>1, <2>2, StepsStay
<1>9. \A k \in 1..n : e[k] = NextItem(h, e[k-1], longname[k])
  <2>1. \A k \in 1..n : k-1 \in 0..n
    OBVIOUS
  <2> QED BY <2>1, <1>4, <1>7, <1>8
<1>10. e = [k \in 0..n |-> IF k = 0 THEN root ELSE NextItem(h, e[k-1], longname[k])]
  <2>1. \A k \in 0..n : e[k] = IF k = 0 THEN root ELSE NextItem(h, e[k-1], longname[k])
    BY <1>7, <1>9
  <2>2. e = [k \in 0..n |-> e[k]]
    BY <1>6
  <2> QED BY <2>1, <2>2
<1>11. Follows(h, root, longname, e)
  BY <1>1, <1>10 DEF Follows
<1> DEFINE f == CHOOSE g : Follows(h, root, longname, g)
<1>12. GetItemLongName(h, root, longname) = f[n]
  BY <1>1 DEF GetItemLongName, Follows
<1>13. Follows(h, root, longname, f)
  BY <1>11
<1> HIDE DEF f
<1>14. f = [k \in 0..n |-> IF k = 0 THEN root ELSE NextItem(h, f[k-1], longname[k])]
  BY <1>1, <1>13 DEF Follows
<1>15. f[0] = root /\ \A k \in 1..n : f[k] = NextItem(h, f[k-1], longname[k])
  BY <1>14
<1>16. \A k \in 0..n : f[k] \in X
  <2>1. f[0] \in X
    BY <1>2, <1>15
  <2>2. \A k \in 1..n : f[k-1] \in X => f[k] \in X
    BY <1>4, <1>15
  <2> QED BY <2>1, <2>2, StepsStay
<1> QED BY <1>1, <1>2, <1>12, <1>15, <1>16

\* Values from the top down to v, each the parent of the next.
Linked(h, v, c) ==
  /\ c \in Seq(DOMAIN h) /\ Len(c) >= 1 /\ c[Len(c)] = v
  /\ \A i \in 1..Len(c)-1 : h[c[i+1]].parent = c[i]

Upwards(h, v, n, f) ==
  f = [k \in 0..n |-> IF k = 0 THEN <<v>>
                      ELSE LET c == f[k-1]
                           IN IF h[Head(c)].parent = NULL THEN c ELSE <<h[Head(c)].parent>> \o c]

\* One step up.
Upper(h, c) == IF h[Head(c)].parent = NULL THEN c ELSE <<h[Head(c)].parent>> \o c

LEMMA UpperLinked ==
  ASSUME NEW h, NEW r, Shaped(h), Tree(h, r), NEW v, NEW c, Linked(h, v, c)
  PROVE  Linked(h, v, Upper(h, c))
<1>1. CASE h[Head(c)].parent = NULL
  BY <1>1 DEF Upper
<1>2. CASE h[Head(c)].parent # NULL
  <2>1. PICK p : p = h[Head(c)].parent
    OBVIOUS
  <2>2. PICK n \in Nat : n = Len(c) /\ n >= 1
    BY DEF Linked
  <2>3. c \in Seq(DOMAIN h) /\ c # <<>> /\ Head(c) = c[1] /\ c[1] \in DOMAIN h
    BY <2>2 DEF Linked
  <2>4. p \in DOMAIN h
    BY <1>2, <2>1, <2>3 DEF Tree
  <2>5. PICK d : d = <<p>> \o c
    OBVIOUS
  <2>6. d \in Seq(DOMAIN h) /\ Len(d) = n + 1 /\ d[1] = p /\ \A i \in 1..n : d[i+1] = c[i]
    <3>1. PICK S : S = DOMAIN h
      OBVIOUS
    <3>2. PICK e : e = <<p>>
      OBVIOUS
    <3>3. e \in Seq(S) /\ c \in Seq(S) /\ Len(e) = 1 /\ e[1] = p /\ Len(c) = n
      BY <3>1, <3>2, <2>2, <2>3, <2>4
    <3>4. d = e \o c
      BY <3>2, <2>5
    <3>5. d \in Seq(S) /\ Len(d) = 1 + n
      BY <3>3, <3>4, ConcatProperties
    <3>6. d[1] = e[1]
      BY <3>3, <3>4, ConcatProperties
    <3>7. ASSUME NEW i \in 1..n PROVE d[i+1] = c[i]
      <4>1. PICK j \in Nat : j = i + 1
        OBVIOUS
      <4>2. j \in 1..1+n /\ ~(j <= 1) /\ j - 1 = i
        BY <4>1
      <4>3. \A k \in 1..Len(e)+Len(c) : d[k] = IF k <= Len(e) THEN e[k] ELSE c[k - Len(e)]
        BY <3>3, <3>4, ConcatProperties
      <4>4. d[j] = c[j - 1]
        BY <4>2, <4>3, <3>3
      <4> QED BY <4>1, <4>2, <4>4
    <3> QED BY <3>1, <3>3, <3>5, <3>6, <3>7
  <2>7. ASSUME NEW i \in 1..n PROVE h[d[i+1]].parent = d[i]
    <3>1. CASE i = 1
      BY <3>1, <2>1, <2>2, <2>3, <2>6
    <3>2. CASE i # 1
      <4>1. i-1 \in 1..n-1 /\ i-1 \in 1..n /\ (i-1)+1 = i
        BY <3>2
      <4>2. h[c[(i-1)+1]].parent = c[i-1]
        BY <4>1, <2>2 DEF Linked
      <4> QED BY <4>1, <4>2, <2>6
    <3> QED BY <3>1, <3>2
  <2>8. d[n+1] = v
    BY <2>2, <2>6 DEF Linked
  <2>9. Linked(h, v, d)
    BY <2>2, <2>6, <2>7, <2>8 DEF Linked
  <2> QED BY <1>2, <2>1, <2>5, <2>9 DEF Upper
<1> QED BY <1>1, <1>2

LEMMA ChainIs ==
  ASSUME NEW h, NEW r, Shaped(h), Tree(h, r), NEW v \in DOMAIN h
  PROVE  Linked(h, v, Chain(h, v))
<1>1. PICK n \in Nat : n = Cardinality(DOMAIN h)
  BY TreeCloses, FS_CardinalityType
<1>2. PICK X : X = {c \in Seq(DOMAIN h) : Linked(h, v, c)}
  OBVIOUS
<1>3. <<v>> \in X /\ \A c \in X : Upper(h, c) \in X
  <2>1. Linked(h, v, <<v>>)
    <3>1. <<v>> \in Seq(DOMAIN h) /\ Len(<<v>>) = 1 /\ <<v>>[1] = v
      OBVIOUS
    <3> QED BY <3>1 DEF Linked
  <2>2. \A c : c \in X <=> Linked(h, v, c)
    BY <1>2 DEF Linked
  <2> QED BY <2>1, <2>2, UpperLinked
<1>4. PICK G : G = [p \in (1..n) \X X |-> Upper(h, p[2])]
  OBVIOUS
<1>5. ASSUME NEW k \in 1..n, NEW c \in X
      PROVE  G[<<k, c>>] = Upper(h, c) /\ G[<<k, c>>] \in X
  BY <1>3, <1>4
<1>6. PICK e : Iterates(n, <<v>>, G, e)
  BY IterationExists
<1>7. e = [k \in 0..n |-> IF k = 0 THEN <<v>> ELSE G[<<k, e[k-1]>>]]
  BY <1>6 DEF Iterates
<1>8. e[0] = <<v>> /\ \A k \in 1..n : e[k] = G[<<k, e[k-1]>>]
  BY <1>7
<1>9. \A k \in 0..n : e[k] \in X
  <2>1. e[0] \in X
    BY <1>3, <1>8
  <2>2. \A k \in 1..n : e[k-1] \in X => e[k] \in X
    BY <1>5, <1>8
  <2> QED BY <2>1, <2>2, StepsStay
<1>10. \A k \in 1..n : e[k] = Upper(h, e[k-1])
  <2>1. \A k \in 1..n : k-1 \in 0..n
    OBVIOUS
  <2> QED BY <2>1, <1>5, <1>8, <1>9
<1>11. \A f : Upwards(h, v, n, f) <=> f = [k \in 0..n |-> IF k = 0 THEN <<v>> ELSE Upper(h, f[k-1])]
  BY DEF Upwards, Upper
<1>12. Upwards(h, v, n, e)
  <2>1. \A k \in 0..n : e[k] = IF k = 0 THEN <<v>> ELSE Upper(h, e[k-1])
    BY <1>8, <1>10
  <2>2. e = [k \in 0..n |-> e[k]]
    BY <1>7
  <2>3. e = [k \in 0..n |-> IF k = 0 THEN <<v>> ELSE Upper(h, e[k-1])]
    BY <2>1, <2>2
  <2> QED BY <2>3, <1>11
<1> DEFINE f == CHOOSE g : Upwards(h, v, n, g)
<1>13. Chain(h, v) = f[n]
  BY <1>1 DEF Chain, Upwards
<1>14. Upwards(h, v, n, f)
  BY <1>12
<1> HIDE DEF f
<1>15. f = [k \in 0..n |-> IF k = 0 THEN <<v>> ELSE Upper(h, f[k-1])]
  BY <1>11, <1>14
<1>16. f[0] = <<v>> /\ \A k \in 1..n : f[k] = Upper(h, f[k-1])
  BY <1>15
<1>17. \A k \in 0..n : f[k] \in X
  <2>1. f[0] \in X
    BY <1>3, <1>16
  <2>2. \A k \in 1..n : f[k-1] \in X => f[k] \in X
    BY <1>3, <1>16
  <2> QED BY <2>1, <2>2, StepsStay
<1>18. f[n] \in X
  BY <1>17
<1> QED BY <1>2, <1>13, <1>18

\* The place of a value in its parent.
LEMMA ValueIndexIs ==
  ASSUME NEW h, NEW r, Shaped(h), Tree(h, r), NEW w \in DOMAIN h, NEW p \in DOMAIN h, h[w].parent = p
  PROVE  \E i \in 1..Len(h[p].items) : h[p].items[i] = w /\ ValueIndex(h, w) = i - 1
<1>1. PICK items : items = h[p].items
  OBVIOUS
<1>2. NodeShape(h[p]) /\ p # NULL /\ w # NULL
  BY TreeCloses DEF Shaped
<1>3. DOMAIN items = 1..Len(items) /\ Len(items) \in Nat
  BY <1>1, <1>2, NodeFields
<1>4. PICK found : found = {i \in DOMAIN items : items[i] = w}
  OBVIOUS
<1>5. found # {}
  <2>1. PICK i \in Positions \ {0} : Slot(h, p, i) = w
    BY <1>2 DEF Tree
  <2>2. i \in 1..Len(items) /\ items[i] = w
    BY <2>1, <1>1, <1>2, <1>3, AddressesAre DEF Slot
  <2> QED BY <2>2, <1>3, <1>4
<1>6. PICK i \in found : \A j \in found : i <= j
  <2>1. found \subseteq Nat
    BY <1>3, <1>4
  <2> QED BY <2>1, <1>5, LeastElement
<1>7. PICK l : l = CHOOSE k \in found : \A j \in found : k <= j
  OBVIOUS
<1>8. l \in found
  BY <1>6, <1>7
<1>9. ValueIndex(h, w) = l - 1
  BY <1>1, <1>4, <1>5, <1>7 DEF ValueIndex
<1> QED BY <1>1, <1>3, <1>4, <1>8, <1>9

\* Names that are as many as there are items differ.
LEMMA NamesDiffer ==
  ASSUME NEW S, NEW names \in Seq(S), Cardinality(Range(names)) = Len(names)
  PROVE  \A i, j \in 1..Len(names) : names[i] = names[j] => i = j
<1>1. PICK n \in Nat : n = Len(names)
  OBVIOUS
<1>2. PICK T : T = Range(names)
  OBVIOUS
<1>3. PICK I : I = 1..n
  OBVIOUS
<1>4. names \in [I -> T] /\ \A t \in T : \E i \in I : names[i] = t
  BY <1>1, <1>2, <1>3 DEF Range
<1>5. names \in Surjection(I, T)
  BY <1>4 DEF Surjection
<1>6. IsFiniteSet(I) /\ Cardinality(I) = n
  BY <1>3, FS_Interval
<1>7. names \in Injection(I, T)
  <2>1. Cardinality(T) = Cardinality(I)
    BY <1>1, <1>2, <1>6
  <2> QED BY <2>1, <1>5, <1>6, FS_Surjection
<1> QED BY <1>1, <1>3, <1>7 DEF Injection, IsInjective

\* The index of a part that is a name.
LEMMA NoIndex == \E k \in Int : k = -1
OBVIOUS

\* The name of a value leads from its parent to it.
LEMMA NameLeads ==
  ASSUME NEW h, NEW r, Shaped(h), Tree(h, r), NEW w \in DOMAIN h, NEW p \in DOMAIN h, h[w].parent = p
  PROVE  /\ ValueName(h, w) \in Parts
         /\ Cardinality(Range(h[p].names)) = Len(h[p].names) => NextItem(h, p, ValueName(h, w)) = w
<1>1. PICK n : n = h[p]
  OBVIOUS
<1>2. NodeShape(n) /\ p # NULL
  BY <1>1, TreeCloses DEF Shaped
<1>3. PICK i \in 1..Len(n.items) : n.items[i] = w /\ ValueIndex(h, w) = i - 1
  BY <1>1, ValueIndexIs
<1>4. Len(n.items) \in Nat /\ i \in Nat /\ 1 <= i /\ i <= Len(n.items)
  BY <1>2, NodeFields
<1>5. PICK s : s = ValueName(h, w)
  OBVIOUS
<1>6. CASE n.type = "RECORD"
  <2>1. n.names \in Seq(Names) /\ Len(n.names) = Len(n.items)
    BY <1>2, <1>6 DEF NodeShape, Fields
  <2>2. i \in 1..Len(n.names) /\ DOMAIN n.names = 1..Len(n.names) /\ n.names[i] \in Names
    BY <2>1, <1>4
  <2>3. s = [name |-> n.names[i], index |-> -1]
    <3>1. s = [name |-> n.names[ValueIndex(h, w) + 1], index |-> -1]
      BY <1>1, <1>5, <1>6 DEF ValueName
    <3>2. ValueIndex(h, w) + 1 = i
      BY <1>3, <1>4
    <3> QED BY <3>1, <3>2
  <2>4. s \in Parts
    <3>1. PICK m \in Names \cup {""} : m = n.names[i]
      BY <2>2
    <3>2. PICK k \in Int : k = -1
      BY NoIndex
    <3>3. [name |-> m, index |-> k] \in [name : Names \cup {""}, index : Int]
      OBVIOUS
    <3> QED BY <3>1, <3>2, <3>3, <2>3 DEF Parts
  <2>5. ASSUME Cardinality(Range(n.names)) = Len(n.names) PROVE NextItem(h, p, s) = w
    <3>1. n.names[i] \in DOMAIN n.members
      BY <2>2, <1>2 DEF NodeShape, Range
    <3>2. PICK j \in 1..Len(n.names) : j = n.members[n.names[i]] /\ n.names[j] = n.names[i]
      BY <3>1, <2>2, <1>2 DEF NodeShape, NamesFound
    <3>3. j = i
      BY <3>2, <2>1, <2>2, <2>5, NamesDiffer
    <3>4. GetRecordItem(h, p, n.names[i]) = n.items[i]
      BY <3>1, <3>2, <3>3, <1>1, <1>6 DEF GetRecordItem
    <3>5. s.index < 0 /\ s.name = n.names[i]
      BY <2>3
    <3> QED BY <3>4, <3>5, <1>2, <1>3 DEF NextItem
  <2> QED BY <2>4, <2>5, <1>1, <1>5
<1>7. CASE n.type # "RECORD"
  <2>1. s = [name |-> "", index |-> i - 1]
    BY <1>1, <1>3, <1>5, <1>7 DEF ValueName
  <2>2. PICK k \in Int : k = i - 1 /\ ~(k < 0) /\ k < Len(n.items) /\ k + 1 = i
    BY <1>4
  <2>3. s \in Parts
    <3>1. PICK m \in Names \cup {""} : m = ""
      OBVIOUS
    <3>2. [name |-> m, index |-> k] \in [name : Names \cup {""}, index : Int]
      OBVIOUS
    <3> QED BY <3>1, <3>2, <2>1, <2>2 DEF Parts
  <2>4. NextItem(h, p, s) = n.items[i]
    <3>1. s.index = k
      BY <2>1, <2>2
    <3> QED BY <3>1, <2>2, <1>1, <1>2 DEF NextItem
  <2> QED BY <2>3, <2>4, <1>1, <1>3, <1>5
<1> QED BY <1>6, <1>7

\* The long name of v: its parts lead from value to value of the chain.
LEMMA LongNameIs ==
  ASSUME NEW h, NEW r, Shaped(h), Tree(h, r), NEW v \in DOMAIN h
  PROVE  \E c : /\ Linked(h, v, c) /\ c = Chain(h, v) /\ Top(h, v) = c[1] /\ c[1] \in DOMAIN h
                /\ LongName(h, v) \in Seq(Parts) /\ Len(LongName(h, v)) = Len(c) - 1
                /\ \A i \in 1..Len(c)-1 : LongName(h, v)[i] = ValueName(h, c[i+1])
<1>1. PICK c : c = Chain(h, v)
  OBVIOUS
<1>2. Linked(h, v, c)
  BY <1>1, ChainIs
<1>3. PICK n \in Nat : n = Len(c) - 1
  <2>1. PICK l \in Nat : l = Len(c) /\ l >= 1
    BY <1>2 DEF Linked
  <2>2. l - 1 \in Nat
    BY <2>1
  <2> QED BY <2>1, <2>2
<1>4. c \in Seq(DOMAIN h) /\ Len(c) = n + 1 /\ c # <<>>
  BY <1>2, <1>3 DEF Linked
<1>5. PICK t : t = Tail(c)
  OBVIOUS
<1>6. t \in Seq(DOMAIN h) /\ Len(t) = n /\ \A i \in 1..n : t[i] = c[i+1]
  BY <1>4, <1>5
<1>7. PICK l : l = LongName(h, v)
  OBVIOUS
<1>8. l = [i \in 1..n |-> ValueName(h, t[i])]
  <2>1. DOMAIN t = 1..n
    BY <1>6
  <2> QED BY <2>1, <1>1, <1>5, <1>7 DEF LongName
<1>9. \A i \in 1..n : c[i+1] \in DOMAIN h /\ c[i] \in DOMAIN h /\ h[c[i+1]].parent = c[i]
  <2>1. \A i \in 1..n : i \in 1..n+1 /\ i+1 \in 1..n+1 /\ i \in 1..Len(c)-1
    BY <1>3
  <2> QED BY <2>1, <1>2, <1>4 DEF Linked
<1>10. \A i \in 1..n : l[i] \in Parts /\ l[i] = ValueName(h, c[i+1])
  BY <1>6, <1>8, <1>9, NameLeads
<1>11. l \in Seq(Parts) /\ Len(l) = n
  BY <1>8, <1>10
<1>12. Top(h, v) = c[1] /\ c[1] \in DOMAIN h
  BY <1>1, <1>4 DEF Top
<1> QED BY <1>1, <1>2, <1>3, <1>7, <1>10, <1>11, <1>12

LEMMA LongNameLeads == TreeInv => LongNameFinds
<1> SUFFICES ASSUME TreeInv, NEW v \in DOMAIN heap, NamesDistinct(heap, v)
             PROVE  GetItemLongName(heap, Top(heap, v), LongName(heap, v)) = v
  BY DEF LongNameFinds
<1>1. PICK h : h = heap
  OBVIOUS
<1>2. PICK r : Shaped(h) /\ Tree(h, r)
  BY <1>1 DEF TreeInv, Typed
<1>3. PICK c : /\ Linked(h, v, c) /\ c = Chain(h, v) /\ Top(h, v) = c[1] /\ c[1] \in DOMAIN h
               /\ LongName(h, v) \in Seq(Parts) /\ Len(LongName(h, v)) = Len(c) - 1
               /\ \A i \in 1..Len(c)-1 : LongName(h, v)[i] = ValueName(h, c[i+1])
  <2>1. v \in DOMAIN h
    BY <1>1
  <2> QED BY <1>2, <2>1, LongNameIs, ZenonT(60)
<1>4. PICK l \in Seq(Parts) : l = LongName(h, v)
  BY <1>3
<1>5. PICK n \in Nat : n = Len(l)
  OBVIOUS
<1>6. PICK f : /\ GetItemLongName(h, c[1], l) = f[n] /\ f[0] = c[1]
               /\ \A k \in 1..n : f[k] = NextItem(h, f[k-1], l[k])
  <2>1. PICK root \in DOMAIN h : root = c[1]
    BY <1>3
  <2>2. PICK f : /\ GetItemLongName(h, root, l) = f[Len(l)] /\ f[0] = root
                 /\ \A k \in 1..Len(l) : f[k] = NextItem(h, f[k-1], l[k])
                 /\ \A k \in 0..Len(l) : f[k] \in DOMAIN h \cup {NULL}
    BY <1>2, LookUpIs
  <2> QED BY <2>1, <2>2, <1>5
<1>7. Len(c) = n + 1 /\ c \in Seq(DOMAIN h) /\ c[n+1] = v
  BY <1>3, <1>4, <1>5 DEF Linked
<1>8. ASSUME NEW k \in 1..n PROVE NextItem(h, c[k], l[k]) = c[k+1]
  <2>1. c[k] \in DOMAIN h /\ c[k+1] \in DOMAIN h /\ k \in 1..Len(c)-1
    BY <1>7
  <2>2. h[c[k+1]].parent = c[k] /\ l[k] = ValueName(h, c[k+1])
    BY <2>1, <1>3, <1>4 DEF Linked
  <2>3. Cardinality(Range(h[c[k]].names)) = Len(h[c[k]].names)
    <3>1. c[k] \in Range(c)
      BY <1>7 DEF Range
    <3> QED BY <3>1, <1>1, <1>3 DEF NamesDistinct
  <2> QED BY <2>1, <2>2, <2>3, <1>2, NameLeads
<1>9. PICK d : d = [k \in 0..n |-> IF f[k] = c[k+1] THEN 1 ELSE 0]
  OBVIOUS
<1>10. \A k \in 0..n : d[k] \in {1}
  <2>1. d[0] \in {1}
    BY <1>6, <1>9
  <2>2. ASSUME NEW k \in 1..n, d[k-1] \in {1} PROVE d[k] \in {1}
    <3>1. k-1 \in 0..n /\ k \in 0..n /\ (k-1)+1 = k
      OBVIOUS
    <3>2. f[k-1] = c[k]
      BY <3>1, <2>2, <1>9
    <3>3. f[k] = c[k+1]
      BY <3>2, <1>6, <1>8
    <3> QED BY <3>1, <3>3, <1>9
  <2>3. PICK X : X = {1}
    OBVIOUS
  <2>4. d[0] \in X /\ \A k \in 1..n : d[k-1] \in X => d[k] \in X
    BY <2>1, <2>2, <2>3
  <2>5. \A k \in 0..n : d[k] \in X
    BY <2>4, StepsStay
  <2> QED BY <2>3, <2>5
<1>11. f[n] = c[n+1]
  <2>1. n \in 0..n
    OBVIOUS
  <2> QED BY <2>1, <1>9, <1>10
<1> QED BY <1>1, <1>3, <1>4, <1>6, <1>7, <1>11

\* The long name that GetValueLongName gives to a value (value.c:255-279) leads
\* GetItemLongName (value.c:344-385) from the top of its parents back to it, if no
\* record on the way has two items of one name, however the tree was built,
\* duplicated and expanded.
THEOREM LongNamesLeadBack == Spec => []LongNameFinds
BY InvariantHoldsInit, InvariantKept, LongNameLeads, PTL DEF Spec

-----------------------------------------------------------------------------
(* Expansions *)

\* g has the values of h, with items added to the array v.
Expanded(h, g, v) ==
  /\ \A y \in DOMAIN h : y \in DOMAIN g /\ (y # v => g[y] = h[y])
  /\ h[v].type = "ARRAY" /\ g[v].type = "ARRAY" /\ Len(g[v].items) >= Len(h[v].items)
  /\ \A i \in 1..Len(h[v].items) : g[v].items[i] = h[v].items[i]

LEMMA ExpandIs ==
  ASSUME NEW h, WellMade(h), NEW v \in DOMAIN h, NEW index \in 0..MaxItems-1,
         CanExpand(h, v, index), ~CannotExpand(h, v)
  PROVE  Expanded(h, Expand(h, v, index), v)
<1>1. PICK s : Typed(h) /\ Shaped(h) /\ Tree(h, s)
  BY DEF WellMade, Typed
<1>2. PICK n : n = h[v]
  OBVIOUS
<1>3. NodeShape(n) /\ n.type = "ARRAY"
  BY <1>1, <1>2 DEF Shaped, CanExpand
<1>4. PICK k \in Nat : k = Len(n.items)
  BY <1>3, NodeFields
<1>5. PICK m \in Nat : m = index + 1 - k
  <2>1. index >= k
    BY <1>2, <1>4 DEF CanExpand
  <2>2. index + 1 - k \in Nat
    BY <2>1, AddressesAre
  <2> QED BY <2>2
<1>6. PICK made : made = Duplicates(h, h[v].prototype, m, FALSE)
  OBVIOUS
<1>7. PICK r : Supplied(h, s, made.heap, r, v, made.values)
  <2>1. HasRoom(h, h[v].prototype, m)
    BY <1>2, <1>4, <1>5 DEF CanExpand
  <2> QED BY <2>1, <1>1, <1>6, ExpandSupplies
<1>8. PICK f : f = made.heap
  OBVIOUS
<1>9. PICK new : new = made.values
  OBVIOUS
<1>10. /\ \A y \in DOMAIN h : y \in DOMAIN f /\ f[y] = h[y]
       /\ new \in Seq(Addresses \cup {NULL})
  BY <1>7, <1>8, <1>9 DEF Supplied, Extended, Items
<1>11. PICK items : items = n.items \o new
  OBVIOUS
<1>12. /\ Len(items) >= k /\ \A i \in 1..k : items[i] = n.items[i]
  <2>1. n.items \in Seq(Addresses \cup {NULL})
    BY <1>3, NodeFields
  <2>2. PICK S : S = Addresses \cup {NULL}
    OBVIOUS
  <2>3. PICK old : old = n.items
    OBVIOUS
  <2>4. old \in Seq(S) /\ new \in Seq(S) /\ Len(old) = k /\ Len(new) \in Nat
    BY <2>1, <2>2, <2>3, <1>4, <1>10
  <2>5. items = old \o new
    BY <2>3, <1>11
  <2>6. Len(items) = k + Len(new)
    BY <2>4, <2>5, ConcatProperties
  <2>7. ASSUME NEW i \in 1..k PROVE items[i] = old[i]
    BY <2>4, <2>5, ConcatProperties
  <2> QED BY <2>3, <2>4, <2>6, <2>7
<1>13. PICK g : g = Expand(h, v, index)
  OBVIOUS
<1>14. g = [f EXCEPT ![v].items = items]
  <2>1. made = Duplicates(h, h[v].prototype, index + 1 - Len(h[v].items), FALSE)
    BY <1>2, <1>4, <1>5, <1>6
  <2>2. g = [made.heap EXCEPT ![v].items = ExpandedItems(made.heap[v].items, made.values)]
    BY <2>1, <1>13 DEF Expand
  <2> QED BY <2>2, <1>2, <1>8, <1>9, <1>10, <1>11 DEF ExpandedItems
<1>15. DOMAIN g = DOMAIN f /\ \A y \in DOMAIN f : y # v => g[y] = f[y]
  BY <1>14
<1>16. g[v].items = items /\ g[v].type = n.type
  <2>1. g[v] = [n EXCEPT !.items = items]
    BY <1>2, <1>10, <1>14
  <2> QED BY <2>1, <1>3 DEF NodeShape, Fields
<1> QED BY <1>2, <1>3, <1>4, <1>10, <1>12, <1>13, <1>15, <1>16 DEF Expanded

\* What a part of a name leads to, it leads to afterwards.
LEMMA NextItemKept ==
  ASSUME NEW h, NEW r, Shaped(h), Tree(h, r), NEW v \in DOMAIN h, NEW g, Expanded(h, g, v),
         NEW q, Shaped(g), Tree(g, q),
         NEW y \in DOMAIN h, NEW s \in Parts, NextItem(h, y, s) # NULL
  PROVE  NextItem(g, y, s) = NextItem(h, y, s)
<1>1. y \in DOMAIN g /\ y # NULL
  BY TreeCloses DEF Expanded
<1>2. CASE y # v
  <2>1. g[y] = h[y]
    BY <1>2 DEF Expanded
  <2> QED BY <2>1 DEF NextItem, GetRecordItem
<1>3. CASE y = v
  <2>1. h[y].type = "ARRAY" /\ g[y].type = "ARRAY"
    BY <1>3 DEF Expanded
  <2>2. ~(s.index < 0)
    <3>1. ASSUME s.index < 0 PROVE FALSE
      <4>1. NextItem(h, y, s) = GetRecordItem(h, y, s.name)
        BY <3>1, <1>1 DEF NextItem
      <4>2. GetRecordItem(h, y, s.name) = NULL
        BY <2>1 DEF GetRecordItem
      <4> QED BY <4>1, <4>2
    <3> QED BY <3>1
  <2>3. s.index < Len(h[y].items)
    BY <2>2, <1>1 DEF NextItem
  <2>4. PICK k \in Int : k = s.index
    BY DEF Parts
  <2>5. PICK l \in Nat : l = Len(h[y].items)
    BY NodeFields DEF Shaped
  <2>6. PICK m \in Nat : m = Len(g[y].items)
    BY <1>1, NodeFields DEF Shaped
  <2>7. k + 1 \in 1..l /\ k < m /\ m >= l
    <3>1. m >= l
      BY <1>3, <2>5, <2>6 DEF Expanded
    <3> QED BY <3>1, <2>2, <2>3, <2>4, <2>5
  <2>8. g[y].items[k+1] = h[y].items[k+1]
    BY <1>3, <2>5, <2>7 DEF Expanded
  <2>9. NextItem(h, y, s) = h[y].items[k+1]
    BY <1>1, <2>2, <2>3, <2>4 DEF NextItem
  <2>10. NextItem(g, y, s) = g[y].items[k+1]
    BY <1>1, <2>2, <2>4, <2>6, <2>7 DEF NextItem
  <2> QED BY <2>8, <2>9, <2>10
<1> QED BY <1>2, <1>3

LEMMA LookUpKept ==
  ASSUME NEW h, NEW r, Shaped(h), Tree(h, r), NEW v \in DOMAIN h, NEW g, Expanded(h, g, v),
         NEW q, Shaped(g), Tree(g, q), NEW root \in DOMAIN h, NEW longname \in Seq(Parts),
         GetItemLongName(h, root, longname) # NULL
  PROVE  GetItemLongName(g, root, longname) = GetItemLongName(h, root, longname)
<1>1. PICK n \in Nat : n = Len(longname)
  OBVIOUS
<1>2. PICK f : /\ GetItemLongName(h, root, longname) = f[n] /\ f[0] = root
               /\ \A k \in 1..n : f[k] = NextItem(h, f[k-1], longname[k])
               /\ \A k \in 0..n : f[k] \in DOMAIN h \cup {NULL}
  <2>1. Shaped(h) /\ Tree(h, r)
    OBVIOUS
  <2>2. PICK f : /\ GetItemLongName(h, root, longname) = f[Len(longname)] /\ f[0] = root
                 /\ \A k \in 1..Len(longname) : f[k] = NextItem(h, f[k-1], longname[k])
                 /\ \A k \in 0..Len(longname) : f[k] \in DOMAIN h \cup {NULL}
    BY <2>1, LookUpIs
  <2> QED BY <2>2, <1>1
<1>3. PICK e : /\ GetItemLongName(g, root, longname) = e[n] /\ e[0] = root
               /\ \A k \in 1..n : e[k] = NextItem(g, e[k-1], longname[k])
  <2>1. root \in DOMAIN g
    BY DEF Expanded
  <2>2. Shaped(g) /\ Tree(g, q)
    OBVIOUS
  <2>3. PICK e : /\ GetItemLongName(g, root, longname) = e[Len(longname)] /\ e[0] = root
                 /\ \A k \in 1..Len(longname) : e[k] = NextItem(g, e[k-1], longname[k])
                 /\ \A k \in 0..Len(longname) : e[k] \in DOMAIN g \cup {NULL}
    BY <2>1, <2>2, LookUpIs
  <2> QED BY <2>3, <1>1
<1>4. PICK d : d = [k \in 0..n |-> IF f[k] = NULL \/ e[k] = f[k] THEN 1 ELSE 0]
  OBVIOUS
<1>5. PICK X : X = {1}
  OBVIOUS
<1>6. d[0] \in X
  BY <1>2, <1>3, <1>4, <1>5
<1>7. ASSUME NEW k \in 1..n, d[k-1] \in X PROVE d[k] \in X
  <2>1. k-1 \in 0..n /\ k \in 0..n
    OBVIOUS
  <2>2. f[k-1] = NULL \/ e[k-1] = f[k-1]
    BY <2>1, <1>4, <1>5, <1>7
  <2>3. longname[k] \in Parts
    BY <1>1
  <2>4. f[k] = NULL \/ e[k] = f[k]
    <3>1. CASE f[k-1] = NULL
      <4>1. f[k] = NextItem(h, NULL, longname[k])
        BY <3>1, <1>2
      <4> QED BY <4>1 DEF NextItem
    <3>2. CASE f[k-1] # NULL /\ f[k] # NULL
      <4>1. PICK y \in DOMAIN h : y = f[k-1] /\ y = e[k-1]
        BY <3>2, <2>1, <2>2, <1>2
      <4>2. f[k] = NextItem(h, y, longname[k]) /\ e[k] = NextItem(g, y, longname[k])
        BY <4>1, <1>2, <1>3
      <4> QED BY <3>2, <4>2, <2>3, NextItemKept
    <3> QED BY <3>1, <3>2
  <2> QED BY <2>1, <2>4, <1>4, <1>5
<1>8. d[n] \in X
  <2>1. \A k \in 0..n : d[k] \in X
    BY <1>6, <1>7, StepsStay
  <2> QED BY <2>1
<1>9. f[n] = NULL \/ e[n] = f[n]
  BY <1>4, <1>5, <1>8
<1> QED BY <1>2, <1>3, <1>9

LEMMA ExpansionKeeps == TreeInv => ExpandKeeps
<1> SUFFICES ASSUME TreeInv, NEW v \in DOMAIN heap, NEW index \in 0..MaxItems-1,
                    CanExpand(heap, v, index), ~CannotExpand(heap, v), NEW x \in DOMAIN heap,
                    GetItemLongName(heap, Top(heap, x), LongName(heap, x)) # NULL
             PROVE  GetItemLongName(Expand(heap, v, index), Top(heap, x), LongName(heap, x))
                      = GetItemLongName(heap, Top(heap, x), LongName(heap, x))
  BY DEF ExpandKeeps
<1>1. PICK h : h = heap
  OBVIOUS
<1>2. WellMade(h) /\ \E r : Shaped(h) /\ Tree(h, r)
  BY <1>1 DEF TreeInv, WellMade, Typed
<1>3. PICK r : Shaped(h) /\ Tree(h, r)
  BY <1>2
<1>4. PICK g : g = Expand(h, v, index)
  OBVIOUS
<1>5. Expanded(h, g, v) /\ WellMade(g)
  BY <1>1, <1>2, <1>4, ExpandIs, ExpandTree
<1>6. PICK q : Shaped(g) /\ Tree(g, q)
  BY <1>5 DEF WellMade, Typed
<1>7. PICK root \in DOMAIN h : root = Top(h, x)
  BY <1>1, <1>3, LongNameIs
<1>8. PICK longname \in Seq(Parts) : longname = LongName(h, x)
  BY <1>1, <1>3, LongNameIs
<1>9. GetItemLongName(h, root, longname) # NULL
  BY <1>1, <1>7, <1>8
<1>10. v \in DOMAIN h
  BY <1>1
<1>11. GetItemLongName(g, root, longname) = GetItemLongName(h, root, longname)
  BY <1>3, <1>5, <1>6, <1>9, <1>10, LookUpKept
<1> QED BY <1>1, <1>4, <1>7, <1>8, <1>11

\* GetArrayItem, a look-up that may enlarge the array (value.c:308-327), leaves
\* every value that could be found by its long name where it was found, also when
\* the name leads through the array that grows.
THEOREM ExpansionsKeepNames == Spec => []ExpandKeeps
BY InvariantHoldsInit, InvariantKept, ExpansionKeeps, PTL DEF Spec

=============================================================================
