--------------------------- MODULE RecParserProofs ---------------------------
(***************************************************************************)
(* The record parser of src/src/RecParser.c for texts of any tokens and    *)
(* any length, records of any depth and arrays of any size.                *)
(***************************************************************************)
EXTENDS RecParser, LeastNumber, SequenceTheorems

-----------------------------------------------------------------------------
(* Paths *)

Paths == Seq(Nat)

LEMMA PathBelow ==
  ASSUME NEW i \in Nat, NEW q \in Paths
  PROVE  /\ <<i>> \o q \in Paths /\ <<i>> \o q # <<>>
         /\ Head(<<i>> \o q) = i /\ Tail(<<i>> \o q) = q
         /\ OfItem(<<i>> \o q) <=> i # 0 /\ OfItem(q)
<1>1. PICK p : p = <<i>> \o q
  OBVIOUS
<1>2. p \in Seq(Nat) /\ Len(p) = Len(q) + 1 /\ p[1] = i /\ \A k \in 1..Len(q) : p[k+1] = q[k]
  BY <1>1 DEF Paths
<1>3. p # <<>> /\ Head(p) = i /\ Tail(p) \in Seq(Nat) /\ Len(Tail(p)) = Len(q)
  BY <1>2 DEF Paths
<1>4. \A k \in 1..Len(q) : Tail(p)[k] = q[k]
  BY <1>2, <1>3 DEF Paths
<1>5. Tail(p) = q
  BY <1>3, <1>4, SeqEqual DEF Paths
<1>6. OfItem(p) <=> i # 0 /\ OfItem(q)
  <2>1. DOMAIN p = 1..Len(q)+1 /\ DOMAIN q = 1..Len(q) /\ Len(q) \in Nat
    BY <1>2 DEF Paths
  <2>2. ASSUME NEW k \in DOMAIN p, p[k] = 0 PROVE i = 0 \/ \E j \in DOMAIN q : q[j] = 0
    <3>1. CASE k = 1
      BY <3>1, <2>2, <1>2
    <3>2. CASE k # 1
      <4>1. k-1 \in 1..Len(q) /\ (k-1)+1 = k
        BY <3>2, <2>1
      <4>2. p[k] = q[k-1]
        BY <4>1, <1>2
      <4> QED BY <4>1, <4>2, <2>1, <2>2
    <3> QED BY <3>1, <3>2
  <2>3. 1 \in DOMAIN p /\ \A j \in DOMAIN q : j+1 \in DOMAIN p /\ p[j+1] = q[j]
    BY <2>1, <1>2
  <2> QED BY <2>2, <2>3, <1>2 DEF OfItem, Range
<1> QED BY <1>1, <1>2, <1>3, <1>5, <1>6 DEF Paths

LEMMA PathLonger ==
  ASSUME NEW q \in Paths, NEW k \in Nat
  PROVE  /\ Append(q, k) \in Paths /\ Append(q, k) # <<>>
         /\ Head(Append(q, k)) = IF q = <<>> THEN k ELSE Head(q)
         /\ OfItem(Append(q, k)) <=> OfItem(q) /\ k # 0
<1>1. PICK p : p = Append(q, k)
  OBVIOUS
<1>2. p \in Seq(Nat) /\ Len(p) = Len(q) + 1 /\ p[Len(q)+1] = k /\ \A j \in 1..Len(q) : p[j] = q[j]
  BY <1>1 DEF Paths
<1>3. p # <<>> /\ Head(p) = p[1]
  BY <1>2 DEF Paths
<1>4. Head(p) = IF q = <<>> THEN k ELSE Head(q)
  <2>1. CASE q = <<>>
    BY <2>1, <1>2, <1>3
  <2>2. CASE q # <<>>
    <3>1. 1 \in 1..Len(q) /\ Head(q) = q[1]
      BY <2>2 DEF Paths
    <3> QED BY <3>1, <2>2, <1>2, <1>3
  <2> QED BY <2>1, <2>2
<1>5. OfItem(p) <=> OfItem(q) /\ k # 0
  <2>1. DOMAIN p = 1..Len(q)+1 /\ DOMAIN q = 1..Len(q) /\ Len(q) \in Nat
    BY <1>2 DEF Paths
  <2>2. ASSUME NEW j \in DOMAIN p, p[j] = 0 PROVE k = 0 \/ \E m \in DOMAIN q : q[m] = 0
    <3>1. CASE j = Len(q) + 1
      BY <3>1, <2>2, <1>2
    <3>2. CASE j # Len(q) + 1
      <4>1. j \in 1..Len(q)
        BY <3>2, <2>1
      <4> QED BY <4>1, <2>1, <2>2, <1>2
    <3> QED BY <3>1, <3>2
  <2>3. Len(q)+1 \in DOMAIN p /\ \A j \in DOMAIN q : j \in DOMAIN p /\ p[j] = q[j]
    BY <2>1, <1>2
  <2> QED BY <2>2, <2>3, <1>2 DEF OfItem, Range
<1> QED BY <1>1, <1>2, <1>3, <1>4, <1>5 DEF Paths

LEMMA PathJoined ==
  ASSUME NEW i \in Nat, NEW q \in Paths, NEW k \in Nat
  PROVE  Append(<<i>> \o q, k) = <<i>> \o Append(q, k)
<1>1. PICK a : a = Append(<<i>> \o q, k)
  OBVIOUS
<1>2. PICK b : b = <<i>> \o Append(q, k)
  OBVIOUS
<1>3. a \in Seq(Nat) /\ Len(a) = Len(q) + 2 /\ b \in Seq(Nat) /\ Len(b) = Len(q) + 2
  BY <1>1, <1>2 DEF Paths
<1>4. \A j \in 1..Len(q)+2 : a[j] = b[j]
  BY <1>1, <1>2 DEF Paths
<1> QED BY <1>1, <1>2, <1>3, <1>4, SeqEqual

LEMMA PathSplit ==
  ASSUME NEW p \in Paths, p # <<>>
  PROVE  Head(p) \in Nat /\ Tail(p) \in Paths /\ p = <<Head(p)>> \o Tail(p)
<1>1. Head(p) \in Nat /\ Tail(p) \in Seq(Nat) /\ Len(p) \in Nat /\ Len(p) > 0 /\ Len(Tail(p)) = Len(p) - 1
  BY DEF Paths
<1>2. PICK b : b = <<Head(p)>> \o Tail(p)
  OBVIOUS
<1>3. b \in Seq(Nat) /\ Len(b) = Len(p)
  BY <1>1, <1>2
<1>4. \A j \in 1..Len(p) : b[j] = p[j]
  BY <1>1, <1>2 DEF Paths
<1> QED BY <1>1, <1>2, <1>3, <1>4, SeqEqual DEF Paths

LEMMA NoPath == <<>> \in Paths /\ OfItem(<<>>) /\ \A k \in Nat : Append(<<>>, k) = <<k>> \o <<>>
BY DEF Paths, OfItem, Range

-----------------------------------------------------------------------------
(* Trees *)

Types == Reserved \cup {"NULL", "ROOT", "RECORD", "ARRAY"}
Nodes == [type : Types, attr : SUBSET Modifiers, size : Nat]
Trees == UNION {[D -> Nodes] : D \in SUBSET Paths}

\* Every item is there and has the attributes of what it is in, and nothing
\* is NULL.
Whole(t) ==
  /\ t \in Trees /\ <<>> \in DOMAIN t
  /\ \A p \in DOMAIN t : t[p].type # "NULL"
  /\ \A p \in DOMAIN t : p # <<>> => Head(p) \in 0..t[<<>>].size
  /\ \A p \in DOMAIN t : \A i \in 1..t[p].size :
       Append(p, i) \in DOMAIN t /\ t[p].attr \subseteq t[Append(p, i)].attr

LEMMA TreeIs ==
  ASSUME NEW D, D \subseteq Paths, NEW t, t = [p \in D |-> t[p]], \A p \in D : t[p] \in Nodes
  PROVE  t \in Trees /\ DOMAIN t = D
BY DEF Trees

LEMMA TreeHas ==
  ASSUME NEW t \in Trees
  PROVE  DOMAIN t \subseteq Paths /\ (\A p \in DOMAIN t : t[p] \in Nodes) /\ t = [p \in DOMAIN t |-> t[p]]
BY DEF Trees

LEMMA NodeMade ==
  ASSUME NEW type \in Types, NEW size \in Nat
  PROVE  /\ Node(type, size) \in Nodes /\ Node(type, size).type = type
         /\ Node(type, size).size = size /\ Node(type, size).attr = {}
BY DEF Node, Nodes

LEMMA NodeMarked ==
  ASSUME NEW n \in Nodes, NEW as \in SUBSET Modifiers, NEW m, m = [n EXCEPT !.attr = @ \cup as]
  PROVE  m \in Nodes /\ m.type = n.type /\ m.size = n.size /\ m.attr = n.attr \cup as
BY DEF Nodes

LEMMA NodeSized ==
  ASSUME NEW n \in Nodes, NEW size \in Nat, NEW m, m = [n EXCEPT !.size = size]
  PROVE  m \in Nodes /\ m.type = n.type /\ m.size = size /\ m.attr = n.attr
BY DEF Nodes

LEMMA ScalarIs ==
  ASSUME NEW type \in Types
  PROVE  /\ Scalar(type) \in Trees /\ DOMAIN Scalar(type) = {<<>>}
         /\ Scalar(type)[<<>>] = Node(type, 0)
<1>1. PICK t : t = Scalar(type)
  OBVIOUS
<1>2. t = [p \in {<<>>} |-> Node(type, 0)]
  BY <1>1 DEF Scalar
<1>3. t \in Trees
  BY <1>2, NodeMade, NoPath, TreeIs
<1> QED BY <1>1, <1>2, <1>3

\* A scalar, with whatever attributes.
LEMMA ScalarWhole ==
  ASSUME NEW t \in Trees, DOMAIN t = {<<>>}, t[<<>>].size = 0, t[<<>>].type # "NULL"
  PROVE  Whole(t)
BY DEF Whole

LEMMA NoTreeIs ==
  /\ NoTree \in Trees /\ DOMAIN NoTree = {<<>>} /\ Type(NoTree) = "NULL"
  /\ NoTree[<<>>].size = 0 /\ ~Whole(NoTree)
<1>1. "NULL" \in Types
  BY DEF Types
<1>2. PICK t : t = Scalar("NULL")
  OBVIOUS
<1>3. t \in Trees /\ DOMAIN t = {<<>>} /\ t[<<>>] = Node("NULL", 0)
  BY <1>1, <1>2, ScalarIs
<1>4. t[<<>>].type = "NULL" /\ t[<<>>].size = 0
  BY <1>1, <1>3, NodeMade
<1>5. ~Whole(t)
  BY <1>3, <1>4 DEF Whole
<1> QED BY <1>2, <1>3, <1>4, <1>5 DEF NoTree, Type

LEMMA AttributeWhole ==
  ASSUME NEW v, Whole(v), NEW as \in SUBSET Modifiers
  PROVE  LET m == SetValueAttribute(v, as)
         IN Whole(m) /\ Type(m) = Type(v) /\ as \subseteq m[<<>>].attr
<1>1. v \in Trees /\ <<>> \in DOMAIN v
  BY DEF Whole
<1>2. DOMAIN v \subseteq Paths /\ \A p \in DOMAIN v : v[p] \in Nodes
  BY <1>1, TreeHas
<1>3. PICK m : m = SetValueAttribute(v, as)
  OBVIOUS
<1>4. m = [p \in DOMAIN v |-> IF OfItem(p) THEN [v[p] EXCEPT !.attr = @ \cup as] ELSE v[p]]
  BY <1>3 DEF SetValueAttribute
<1>5. ASSUME NEW p \in DOMAIN v
      PROVE  /\ m[p] \in Nodes /\ m[p].type = v[p].type /\ m[p].size = v[p].size
             /\ m[p].attr = IF OfItem(p) THEN v[p].attr \cup as ELSE v[p].attr
  <2>1. v[p] \in Nodes
    BY <1>2
  <2>2. CASE OfItem(p)
    <3>1. PICK n \in Nodes : n = v[p]
      BY <2>1
    <3>2. PICK k : k = m[p]
      OBVIOUS
    <3>3. k = [n EXCEPT !.attr = @ \cup as]
      BY <2>2, <1>4, <3>1, <3>2
    <3>4. k \in Nodes /\ k.type = n.type /\ k.size = n.size /\ k.attr = n.attr \cup as
      BY <3>3, NodeMarked
    <3> QED BY <2>2, <3>1, <3>2, <3>4
  <2>3. CASE ~OfItem(p)
    BY <2>1, <2>3, <1>4
  <2> QED BY <2>2, <2>3
<1>6. DOMAIN m = DOMAIN v /\ m = [p \in DOMAIN v |-> m[p]]
  BY <1>4
<1>7. m \in Trees
  BY <1>2, <1>5, <1>6, TreeIs
<1>8. ASSUME NEW p \in DOMAIN m, NEW i \in 1..m[p].size
      PROVE  Append(p, i) \in DOMAIN m /\ m[p].attr \subseteq m[Append(p, i)].attr
  <2>1. p \in Paths /\ p \in DOMAIN v /\ i \in 1..v[p].size /\ v[p].size \in Nat
    BY <1>2, <1>5, <1>6 DEF Nodes
  <2>2. Append(p, i) \in DOMAIN v /\ v[p].attr \subseteq v[Append(p, i)].attr
    BY <2>1 DEF Whole
  <2>3. i \in Nat /\ i # 0
    BY <2>1
  <2>4. OfItem(Append(p, i)) <=> OfItem(p)
    BY <2>1, <2>3, PathLonger
  <2> QED BY <2>1, <2>2, <2>4, <1>5, <1>6
<1>9. Whole(m)
  BY <1>1, <1>5, <1>6, <1>7, <1>8 DEF Whole
<1>10. as \subseteq m[<<>>].attr
  BY <1>1, <1>5, NoPath
<1> QED BY <1>1, <1>3, <1>5, <1>9, <1>10 DEF Type

Dimensions == [count : Nat, expandable : BOOLEAN]

\* t has v, without its prototypes, at each place up to the size, and all of it
\* as the prototype.
Around(t, v, size) ==
  /\ t \in Trees /\ <<>> \in DOMAIN t /\ t[<<>>] = Node("ARRAY", size)
  /\ \A i \in Nat : \A q \in DOMAIN v :
       (i \in 1..size /\ OfItem(q)) \/ (i = 0 /\ v # NoTree) => <<i>> \o q \in DOMAIN t
  /\ \A p \in DOMAIN t : p # <<>> =>
       \E i \in 0..size : \E q \in DOMAIN v : /\ p = <<i>> \o q /\ t[p] = v[q]
                                              /\ IF i = 0 THEN v # NoTree ELSE OfItem(q)

LEMMA ArrayIs ==
  ASSUME NEW v \in Trees, NEW dim \in Dimensions
  PROVE  \E size \in Nat : /\ size = IF dim.expandable THEN 0 ELSE dim.count
                           /\ Around(MakeArray(v, dim), v, size)
<1>1. PICK size \in Nat : size = IF dim.expandable THEN 0 ELSE dim.count
  BY DEF Dimensions
<1>2. PICK items : items = UNION {Under(i, Duplicate(v)) : i \in 1..size}
  OBVIOUS
<1>3. PICK prototype : prototype = IF v = NoTree THEN {} ELSE Under(0, v)
  OBVIOUS
<1>4. PICK D : D = {<<>>} \cup items \cup prototype
  OBVIOUS
<1>5. PICK t : t = MakeArray(v, dim)
  OBVIOUS
<1>6. t = [p \in D |-> IF p = <<>> THEN Node("ARRAY", size) ELSE v[Tail(p)]]
  BY <1>1, <1>2, <1>3, <1>4, <1>5 DEF MakeArray
<1>7. DOMAIN v \subseteq Paths /\ \A q \in DOMAIN v : v[q] \in Nodes
  BY TreeHas
<1> DEFINE Copied(i, x) == \E q \in DOMAIN v : OfItem(q) /\ x = <<i>> \o q
<1>8. ASSUME NEW i, NEW x
      PROVE  x \in Under(i, Duplicate(v)) <=> Copied(i, x)
  <2>1. PICK d : d = Duplicate(v)
    OBVIOUS
  <2>2. \A q : q \in DOMAIN d <=> q \in DOMAIN v /\ OfItem(q)
    BY <2>1 DEF Duplicate
  <2>3. x \in Under(i, d) <=> \E q \in DOMAIN d : x = <<i>> \o q
    BY DEF Under
  <2> QED BY <2>1, <2>2, <2>3
<1>9. \A x : x \in items <=> \E i \in 1..size : Copied(i, x)
  <2> HIDE DEF Copied
  <2>1. PICK U : U = [i \in 1..size |-> Under(i, Duplicate(v))]
    OBVIOUS
  <2>2. \A i \in 1..size : U[i] = Under(i, Duplicate(v))
    BY <2>1
  <2>3. {Under(i, Duplicate(v)) : i \in 1..size} = {U[i] : i \in 1..size}
    BY <2>2, Zenon
  <2>4. items = UNION {U[i] : i \in 1..size}
    BY <1>2, <2>3, Zenon
  <2>5. \A x : x \in items <=> \E i \in 1..size : x \in U[i]
    BY <2>4
  <2>6. \A i \in 1..size : \A x : x \in U[i] <=> Copied(i, x)
    BY <1>8, <2>2
  <2> QED BY <2>5, <2>6
<1>10. \A x : x \in prototype <=> v # NoTree /\ \E q \in DOMAIN v : x = <<0>> \o q
  BY <1>3 DEF Under
<1>11. ASSUME NEW i \in Nat, NEW q \in DOMAIN v,
              (i \in 1..size /\ OfItem(q)) \/ (i = 0 /\ v # NoTree)
       PROVE  <<i>> \o q \in D
  BY <1>4, <1>9, <1>10, <1>11
<1>12. ASSUME NEW p \in D, p # <<>>
       PROVE  \E i \in 0..size : \E q \in DOMAIN v :
                /\ p = <<i>> \o q /\ p \in Paths /\ t[p] = v[q]
                /\ IF i = 0 THEN v # NoTree ELSE OfItem(q)
  <2>1. PICK i \in 0..size, q \in DOMAIN v :
           p = <<i>> \o q /\ IF i = 0 THEN v # NoTree ELSE OfItem(q)
    <3>1. CASE p \in items
      <4>1. PICK i \in 1..size : \E q \in DOMAIN v : OfItem(q) /\ p = <<i>> \o q
        BY <3>1, <1>9
      <4>2. i \in 0..size /\ i # 0
        OBVIOUS
      <4> QED BY <4>1, <4>2
    <3>2. CASE p \in prototype
      <4>1. 0 \in 0..size
        OBVIOUS
      <4> QED BY <3>2, <4>1, <1>10
    <3> QED BY <3>1, <3>2, <1>4, <1>12
  <2>2. i \in Nat /\ q \in Paths
    BY <1>7
  <2>3. p \in Paths /\ Tail(p) = q
    BY <2>1, <2>2, PathBelow
  <2>4. t[p] = v[q]
    BY <2>3, <1>6, <1>12
  <2> QED BY <2>1, <2>3, <2>4
<1>13. <<>> \in D /\ t[<<>>] = Node("ARRAY", size) /\ Node("ARRAY", size) \in Nodes
  <2>1. "ARRAY" \in Types
    BY DEF Types
  <2> QED BY <2>1, <1>4, <1>6, NodeMade
<1>14. D \subseteq Paths
  BY <1>12, NoPath
<1>15. \A p \in D : t[p] \in Nodes
  BY <1>7, <1>12, <1>13
<1>16. t = [p \in D |-> t[p]]
  BY <1>6
<1>17. t \in Trees /\ DOMAIN t = D
  BY <1>14, <1>15, <1>16, TreeIs
<1>18. Around(t, v, size)
  BY <1>11, <1>12, <1>13, <1>17 DEF Around
<1> QED BY <1>1, <1>5, <1>18

LEMMA ArrayWhole ==
  ASSUME NEW v \in Trees, NEW size \in Nat, NEW t, Around(t, v, size),
         Whole(v) \/ (v = NoTree /\ size = 0)
  PROVE  Whole(t)
<1>1. t \in Trees /\ <<>> \in DOMAIN t /\ t[<<>>] = Node("ARRAY", size)
  BY DEF Around
<1>2. t[<<>>].type = "ARRAY" /\ t[<<>>].size = size /\ t[<<>>].attr = {}
  <2>1. "ARRAY" \in Types
    BY DEF Types
  <2> QED BY <2>1, <1>1, NodeMade
<1>3. ASSUME NEW p \in DOMAIN t, p # <<>>
      PROVE  \E i \in 0..size : \E q \in DOMAIN v :
               /\ p = <<i>> \o q /\ t[p] = v[q] /\ i \in Nat /\ q \in Paths /\ Whole(v)
               /\ IF i = 0 THEN v # NoTree ELSE OfItem(q)
  <2>1. PICK i \in 0..size, q \in DOMAIN v : /\ p = <<i>> \o q /\ t[p] = v[q]
                                             /\ IF i = 0 THEN v # NoTree ELSE OfItem(q)
    BY <1>3 DEF Around
  <2>2. Whole(v)
    BY <2>1
  <2>3. i \in Nat /\ q \in Paths
    BY TreeHas
  <2> QED BY <2>1, <2>2, <2>3
<1>4. ASSUME NEW p \in DOMAIN t PROVE t[p].type # "NULL" /\ (p # <<>> => Head(p) \in 0..size)
  <2>1. CASE p = <<>>
    BY <2>1, <1>2
  <2>2. CASE p # <<>>
    <3>1. PICK i \in 0..size, q \in DOMAIN v :
             p = <<i>> \o q /\ t[p] = v[q] /\ i \in Nat /\ q \in Paths /\ Whole(v)
      BY <2>2, <1>3
    <3>2. Head(p) = i
      BY <3>1, PathBelow
    <3>3. v[q].type # "NULL"
      BY <3>1 DEF Whole
    <3> QED BY <3>1, <3>2, <3>3
  <2> QED BY <2>1, <2>2
<1>5. ASSUME NEW p \in DOMAIN t, NEW i \in 1..t[p].size
      PROVE  Append(p, i) \in DOMAIN t /\ t[p].attr \subseteq t[Append(p, i)].attr
  <2>1. CASE p = <<>>
    <3>1. i \in 1..size /\ i \in Nat
      BY <2>1, <1>2, <1>5
    <3>2. Whole(v) /\ <<>> \in DOMAIN v
      BY <3>1 DEF Whole
    <3>3. <<i>> \o <<>> \in DOMAIN t
      BY <3>1, <3>2, NoPath DEF Around
    <3>4. Append(p, i) = <<i>> \o <<>>
      BY <2>1, <3>1, NoPath
    <3> QED BY <2>1, <3>3, <3>4, <1>2
  <2>2. CASE p # <<>>
    <3>1. PICK j \in 0..size, q \in DOMAIN v :
             /\ p = <<j>> \o q /\ t[p] = v[q] /\ j \in Nat /\ q \in Paths /\ Whole(v)
             /\ IF j = 0 THEN v # NoTree ELSE OfItem(q)
      BY <2>2, <1>3
    <3>2. i \in Nat /\ i # 0 /\ i \in 1..v[q].size
      <4>1. v[q].size \in Nat
        BY <3>1, TreeHas DEF Nodes
      <4> QED BY <4>1, <3>1, <1>5
    <3>3. Append(q, i) \in DOMAIN v /\ v[q].attr \subseteq v[Append(q, i)].attr
      BY <3>1, <3>2 DEF Whole
    <3>4. PICK s \in DOMAIN v : s = Append(q, i)
      BY <3>3
    <3>5. s \in Paths /\ (OfItem(s) <=> OfItem(q)) /\ Append(p, i) = <<j>> \o s
      <4>1. q \in Paths /\ i \in Nat /\ j \in Nat /\ i # 0
        BY <3>1, <3>2
      <4>2. s \in Paths /\ (OfItem(s) <=> OfItem(q))
        BY <4>1, <3>4, PathLonger
      <4>3. Append(<<j>> \o q, i) = <<j>> \o Append(q, i)
        BY <4>1, PathJoined
      <4> QED BY <4>2, <4>3, <3>1, <3>4
    <3>6. <<j>> \o s \in DOMAIN t
      BY <3>1, <3>4, <3>5 DEF Around
    <3>7. t[<<j>> \o s] = v[s]
      <4>1. PICK z \in DOMAIN t : z = <<j>> \o s
        BY <3>6
      <4>2. z # <<>> /\ Tail(z) = s
        BY <4>1, <3>1, <3>5, PathBelow
      <4>3. PICK k \in 0..size, r \in DOMAIN v : z = <<k>> \o r /\ t[z] = v[r] /\ k \in Nat /\ r \in Paths
        BY <4>2, <1>3
      <4>4. Tail(z) = r
        BY <4>3, PathBelow
      <4> QED BY <4>1, <4>2, <4>3, <4>4
    <3> QED BY <3>1, <3>3, <3>4, <3>5, <3>6, <3>7
  <2> QED BY <2>1, <2>2
<1> QED BY <1>1, <1>2, <1>4, <1>5 DEF Whole

\* One array around the other.
Nested(v, ds, f) ==
  f = [k \in 0..Len(ds) |-> IF k = 0 THEN v ELSE MakeArray(f[k-1], ds[k])]

LEMMA ArraysAre ==
  ASSUME NEW v \in Trees, NEW ds \in Seq(Dimensions)
  PROVE  \E f : Nested(v, ds, f) /\ Arrays(v, ds) = f[Len(ds)]
<1>1. PICK n \in Nat : n = Len(ds)
  OBVIOUS
<1>2. PICK G : G = [p \in (1..n) \X Trees |-> MakeArray(p[2], ds[p[1]])]
  OBVIOUS
<1>3. ASSUME NEW k \in 1..n, NEW x \in Trees
      PROVE  G[<<k, x>>] = MakeArray(x, ds[k]) /\ G[<<k, x>>] \in Trees
  <2>1. ds[k] \in Dimensions
    BY <1>1
  <2>2. MakeArray(x, ds[k]) \in Trees
    BY <2>1, ArrayIs DEF Around
  <2>3. <<k, x>> \in (1..n) \X Trees
    OBVIOUS
  <2> QED BY <2>2, <2>3, <1>2
<1>4. PICK e : Iterates(n, v, G, e)
  BY IterationExists
<1>5. e = [k \in 0..n |-> IF k = 0 THEN v ELSE G[<<k, e[k-1]>>]]
  BY <1>4 DEF Iterates
<1>6. e[0] = v /\ \A k \in 1..n : e[k] = G[<<k, e[k-1]>>]
  BY <1>5
<1>7. \A k \in 0..n : e[k] \in Trees
  <2>1. \A k \in 1..n : e[k-1] \in Trees => e[k] \in Trees
    BY <1>3, <1>6
  <2>2. PICK X : X = Trees
    OBVIOUS
  <2>3. e[0] \in X /\ \A k \in 1..n : e[k-1] \in X => e[k] \in X
    BY <2>1, <2>2, <1>6
  <2> QED BY <2>2, <2>3, StepsStay
<1>8. \A k \in 0..n : e[k] = IF k = 0 THEN v ELSE MakeArray(e[k-1], ds[k])
  <2>1. \A k \in 1..n : k-1 \in 0..n
    OBVIOUS
  <2>2. \A k \in 1..n : e[k] = MakeArray(e[k-1], ds[k])
    BY <2>1, <1>3, <1>6, <1>7
  <2> QED BY <2>2, <1>6
<1>9. e = [k \in 0..n |-> IF k = 0 THEN v ELSE MakeArray(e[k-1], ds[k])]
  <2>1. e = [k \in 0..n |-> e[k]]
    BY <1>5
  <2> QED BY <2>1, <1>8
<1>10. Nested(v, ds, e)
  BY <1>1, <1>9 DEF Nested
<1> DEFINE f == CHOOSE g : Nested(v, ds, g)
<1>11. Arrays(v, ds) = f[n]
  BY <1>1 DEF Arrays, Nested
<1>12. Nested(v, ds, f)
  BY <1>10
<1> HIDE DEF f
<1> QED BY <1>1, <1>11, <1>12

\* Arrays around a value that is whole are whole, and around NULL if the
\* innermost has no items.
LEMMA ArraysWhole ==
  ASSUME NEW v, Whole(v) \/ v = NoTree, NEW ds \in Seq(Dimensions), ~NoItems(v, ds)
  PROVE  Whole(Arrays(v, ds)) \/ (v = NoTree /\ Arrays(v, ds) = NoTree)
<1>1. v \in Trees
  BY NoTreeIs DEF Whole
<1>2. PICK f : Nested(v, ds, f) /\ Arrays(v, ds) = f[Len(ds)]
  BY <1>1, ArraysAre
<1>3. PICK n \in Nat : n = Len(ds)
  OBVIOUS
<1>4. f = [k \in 0..n |-> IF k = 0 THEN v ELSE MakeArray(f[k-1], ds[k])]
  BY <1>2, <1>3 DEF Nested
<1>5. f[0] = v /\ (\A k \in 1..n : f[k] = MakeArray(f[k-1], ds[k])) /\ Arrays(v, ds) = f[n]
  BY <1>2, <1>3, <1>4
<1>6. CASE n = 0
  BY <1>5, <1>6
<1>7. CASE n # 0
  <2>1. 1 \in 1..n /\ ds # <<>> /\ ds[1] \in Dimensions /\ 1-1 = 0
    BY <1>3, <1>7
  <2>2. Whole(f[1])
    <3>1. PICK size \in Nat : /\ size = IF ds[1].expandable THEN 0 ELSE ds[1].count
                              /\ Around(MakeArray(v, ds[1]), v, size)
      BY <2>1, <1>1, ArrayIs
    <3>2. Whole(v) \/ (v = NoTree /\ size = 0)
      <4>1. v = NoTree => ds[1].expandable \/ ~(ds[1].count > 0)
        BY <2>1 DEF NoItems
      <4>2. ds[1].count \in Nat
        BY <2>1 DEF Dimensions
      <4> QED BY <3>1, <4>1, <4>2
    <3>3. f[1] = MakeArray(v, ds[1])
      BY <2>1, <1>5
    <3> QED BY <3>1, <3>2, <3>3, <1>1, ArrayWhole
  <2>3. PICK d : d = [k \in 0..n |-> IF k = 0 THEN f[1] ELSE f[k]]
    OBVIOUS
  <2>4. PICK X : X = {t \in Trees : Whole(t)}
    OBVIOUS
  <2>5. d[0] \in X
    BY <2>2, <2>3, <2>4 DEF Whole
  <2>6. ASSUME NEW k \in 1..n, d[k-1] \in X PROVE d[k] \in X
    <3>1. CASE k = 1
      BY <3>1, <2>3, <2>5
    <3>2. CASE k # 1
      <4>1. k-1 \in 0..n /\ k-1 # 0 /\ k \in 0..n /\ k # 0
        BY <3>2
      <4>2. d[k-1] = f[k-1] /\ d[k] = f[k]
        BY <4>1, <2>3
      <4>3. PICK x \in Trees : x = f[k-1] /\ Whole(x)
        BY <4>2, <2>4, <2>6
      <4>4. f[k] = MakeArray(x, ds[k]) /\ ds[k] \in Dimensions
        BY <4>3, <1>3, <1>5
      <4>5. PICK size \in Nat : Around(f[k], x, size)
        BY <4>4, ArrayIs
      <4>6. Whole(f[k])
        BY <4>3, <4>5, ArrayWhole
      <4> QED BY <4>2, <4>6, <2>4 DEF Whole
    <3> QED BY <3>1, <3>2
  <2>7. \A k \in 0..n : d[k] \in X
    BY <2>5, <2>6, StepsStay
  <2>8. d[n] \in X /\ d[n] = f[n]
    BY <2>3, <2>7, <1>7
  <2> QED BY <2>4, <2>8, <1>5
<1> QED BY <1>6, <1>7

LEMMA ItemAdded ==
  ASSUME NEW u, Whole(u), NEW v, Whole(v), u[<<>>].attr \subseteq v[<<>>].attr
  PROVE  Whole(AddItem(u, v)) /\ Type(AddItem(u, v)) = Type(u)
<1>1. u \in Trees /\ v \in Trees /\ <<>> \in DOMAIN u /\ <<>> \in DOMAIN v
  BY DEF Whole
<1>2. /\ DOMAIN u \subseteq Paths /\ \A p \in DOMAIN u : u[p] \in Nodes /\ u[p].size \in Nat
      /\ DOMAIN v \subseteq Paths /\ \A p \in DOMAIN v : v[p] \in Nodes /\ v[p].size \in Nat
  BY <1>1, TreeHas DEF Nodes
<1>3. PICK old \in Nat : old = u[<<>>].size
  BY <1>1, <1>2
<1>4. PICK size \in Nat : size = old + 1
  OBVIOUS
<1>5. PICK t : t = AddItem(u, v)
  OBVIOUS
<1>6. t = [p \in DOMAIN u \cup Under(size, v) |->
             IF p = <<>> THEN [u[p] EXCEPT !.size = size]
             ELSE IF Head(p) = size THEN v[Tail(p)] ELSE u[p]]
  BY <1>3, <1>4, <1>5 DEF AddItem
<1>7. \A p : p \in DOMAIN t <=> p \in DOMAIN u \/ \E q \in DOMAIN v : p = <<size>> \o q
  BY <1>6 DEF Under
<1>8. /\ t[<<>>] \in Nodes /\ t[<<>>].type = u[<<>>].type /\ t[<<>>].size = size
      /\ t[<<>>].attr = u[<<>>].attr
  <2>1. PICK n \in Nodes : n = u[<<>>]
    BY <1>1, <1>2
  <2>2. PICK m : m = t[<<>>]
    OBVIOUS
  <2>3. m = [n EXCEPT !.size = size]
    BY <2>1, <2>2, <1>1, <1>6
  <2>4. m \in Nodes /\ m.type = n.type /\ m.size = size /\ m.attr = n.attr
    BY <2>3, NodeSized
  <2> QED BY <2>1, <2>2, <2>4
<1>9. ASSUME NEW p \in DOMAIN u, p # <<>>
      PROVE  p \in DOMAIN t /\ t[p] = u[p] /\ Head(p) \in 0..old
  <2>1. Head(p) \in 0..old
    BY <1>3, <1>9 DEF Whole
  <2>2. Head(p) # size
    BY <2>1, <1>4
  <2> QED BY <2>1, <2>2, <1>6, <1>9
<1>10. ASSUME NEW q \in DOMAIN v
       PROVE  /\ <<size>> \o q \in DOMAIN t /\ t[<<size>> \o q] = v[q]
              /\ <<size>> \o q # <<>> /\ <<size>> \o q \in Paths /\ Head(<<size>> \o q) = size
  <2>1. PICK p : p = <<size>> \o q
    OBVIOUS
  <2>2. p \in Paths /\ p # <<>> /\ Head(p) = size /\ Tail(p) = q
    BY <2>1, <1>2, PathBelow
  <2>3. p \in DOMAIN t
    BY <2>1, <1>7
  <2>4. t[p] = v[q]
    BY <2>2, <2>3, <1>6
  <2> QED BY <2>1, <2>2, <2>3, <2>4
<1>11. t \in Trees
  <2>1. PICK D : D = DOMAIN t
    OBVIOUS
  <2>2. ASSUME NEW p \in D PROVE p \in Paths /\ t[p] \in Nodes
    <3>1. CASE p \in DOMAIN u
      BY <3>1, <1>2, <1>8, <1>9
    <3>2. CASE p \notin DOMAIN u
      <4>1. PICK q \in DOMAIN v : p = <<size>> \o q
        BY <3>2, <2>1, <1>7
      <4> QED BY <4>1, <1>2, <1>10
    <3> QED BY <3>1, <3>2
  <2>3. t = [p \in D |-> t[p]]
    BY <2>1, <1>6
  <2> QED BY <2>2, <2>3, TreeIs
<1>12. ASSUME NEW p \in DOMAIN t PROVE t[p].type # "NULL" /\ (p # <<>> => Head(p) \in 0..size)
  <2>1. CASE p = <<>>
    BY <2>1, <1>1, <1>8 DEF Whole
  <2>2. CASE p # <<>> /\ p \in DOMAIN u
    <3>1. Head(p) \in 0..size
      BY <2>2, <1>4, <1>9
    <3>2. u[p].type # "NULL"
      BY <2>2 DEF Whole
    <3> QED BY <2>2, <3>1, <3>2, <1>9
  <2>3. CASE p \notin DOMAIN u
    <3>1. PICK q \in DOMAIN v : p = <<size>> \o q
      BY <2>3, <1>7
    <3>2. v[q].type # "NULL"
      BY DEF Whole
    <3> QED BY <3>1, <3>2, <1>10
  <2> QED BY <2>1, <2>2, <2>3
<1>13. ASSUME NEW p \in DOMAIN t, NEW i \in 1..t[p].size
       PROVE  Append(p, i) \in DOMAIN t /\ t[p].attr \subseteq t[Append(p, i)].attr
  <2>1. CASE p = <<>> /\ i = size
    <3>1. Append(p, i) = <<size>> \o <<>>
      BY <2>1, NoPath
    <3> QED BY <2>1, <3>1, <1>1, <1>8, <1>10
  <2>2. CASE p = <<>> /\ i # size
    <3>1. i \in 1..old /\ i \in Nat
      BY <2>2, <1>4, <1>8, <1>13
    <3>2. Append(<<>>, i) \in DOMAIN u /\ u[<<>>].attr \subseteq u[Append(<<>>, i)].attr
      BY <3>1, <1>1, <1>3 DEF Whole
    <3>3. Append(<<>>, i) # <<>>
      BY <3>1, NoPath, PathLonger
    <3> QED BY <2>2, <3>2, <3>3, <1>8, <1>9
  <2>3. CASE p # <<>> /\ p \in DOMAIN u
    <3>1. t[p] = u[p] /\ p \in Paths /\ i \in Nat
      BY <2>3, <1>2, <1>9
    <3>2. Append(p, i) \in DOMAIN u /\ u[p].attr \subseteq u[Append(p, i)].attr
      BY <2>3, <3>1, <1>13 DEF Whole
    <3>3. Append(p, i) # <<>>
      BY <3>1, PathLonger
    <3> QED BY <3>1, <3>2, <3>3, <1>9
  <2>4. CASE p \notin DOMAIN u
    <3>1. PICK q \in DOMAIN v : p = <<size>> \o q
      BY <2>4, <1>7
    <3>2. t[p] = v[q] /\ q \in Paths /\ i \in 1..v[q].size /\ i \in Nat
      BY <3>1, <1>2, <1>10, <1>13
    <3>3. PICK s \in DOMAIN v : s = Append(q, i) /\ v[q].attr \subseteq v[s].attr
      BY <3>2 DEF Whole
    <3>4. Append(p, i) = <<size>> \o s
      BY <3>1, <3>2, <3>3, PathJoined
    <3> QED BY <3>2, <3>3, <3>4, <1>10
  <2> QED BY <2>1, <2>2, <2>3, <2>4
<1>14. <<>> \in DOMAIN t
  BY <1>1, <1>7
<1>15. Whole(t)
  BY <1>8, <1>11, <1>12, <1>13, <1>14 DEF Whole
<1> QED BY <1>5, <1>8, <1>15 DEF Type

-----------------------------------------------------------------------------
(* The invariant *)

\* Where a record is open, and where a value has been made for the name.
InRecord  == {"define", "alias", "suffix", "closing", "sized", "size", "scale", "digits", "close",
              "closeScale", "dims", "dimension", "bracket", "made", "modifiers", "modifier", "defines"}
WithValue == InRecord \ {"define", "defines"}

Typed ==
  /\ tok \in Tokens \cup {EOF} /\ num \in Numbers \cup {0}
  /\ left \in 0..MaxTokens /\ ends \in 0..3
  /\ attr \subseteq Modifiers /\ error \in BOOLEAN /\ crashed \in BOOLEAN
  /\ dims \in Seq(Dimensions)

WholeTrees == {t \in Trees : Whole(t)}

\* The records that are open are whole.
StackInv ==
  /\ stack \in Seq(WholeTrees)
  /\ \A i \in DOMAIN stack : Type(stack[i]) = IF i = 1 THEN "ROOT" ELSE "RECORD"
  /\ pc \in InRecord => stack # <<>>
  /\ pc \in {"head", "name", "brace"} => stack = <<>>

\* What is made is whole, or NULL behind an error, and is about to get all
\* modifiers of the record that it goes into.
ValueInv ==
  /\ value = NoTree \/ Whole(value)
  /\ pc \in WithValue => value # NoTree \/ error
  /\ pc \in {"modifiers", "modifier"} => Top[<<>>].attr \subseteq attr

\* Behind a crash the call does not return.
ResultInv ==
  /\ result = NoTree \/ Whole(result)
  /\ crashed => error /\ ~Idle
  /\ Idle => pc = "idle"

\* While a record is parsed for the table, the table has no value for it.
TableInv ==
  /\ answers = {} \/ (FoundIn(cached) /\ answers = {cached})
  /\ request = "RecParseValue" => ~FoundIn(cached)

\* Where the end of a text may have been read twice.
AtEnd == {"alias", "suffix", "closing", "closeScale", "dims", "made", "modifiers", "defines", "return"}
EndInv ==
  /\ ends \in {1, 2} => tok = EOF
  /\ ends = 2 => pc \in AtEnd

IInv == Typed /\ StackInv /\ ValueInv /\ ResultInv /\ TableInv /\ EndInv

-----------------------------------------------------------------------------
(* Reading *)

LEMMA BoundsAre ==
  /\ MaxTokens \in Nat /\ MaxTokens > 0 /\ MaxFile \in Nat /\ MaxFile > 0 /\ MaxFile <= MaxTokens
  /\ MaxBehind \in Nat /\ Numbers \subseteq Nat
<1>1. MaxTokens \in Nat \ {0} /\ MaxFile \in Nat \ {0} /\ MaxFile <= MaxTokens /\ MaxBehind \in Nat
  BY RecParserAssumption
<1>2. Numbers \subseteq Nat
  BY RecParserAssumption
<1> QED BY <1>1, <1>2

LEMMA ReadIs ==
  ASSUME Typed, EndInv, NEW kind, Read(kind)
  PROVE  /\ tok' \in Tokens \cup {EOF} /\ num' \in Numbers \cup {0}
         /\ left' \in 0..MaxTokens /\ ends' \in 0..3
         /\ ends' \in {1, 2} => tok' = EOF
         /\ ends' = 2 => ends = 1 \/ ends = 2
         /\ ends' = 3 => ends = 3 \/ ends = 2
<1>1. PICK t \in Offered(kind) :
         /\ tok' = t
         /\ IF t = "const" THEN num' \in Numbers ELSE num' = 0
         /\ left' = IF t = EOF THEN (IF Memory THEN left ELSE 0)
                    ELSE IF error /\ left > MaxBehind THEN MaxBehind ELSE left - 1
         /\ ends' = IF ends = 3 \/ t # EOF THEN ends ELSE ends + 1
  BY DEF Read
<1>2. t = EOF \/ (t \in Tokens /\ left > 0 /\ (ends = 0 \/ ends = 3))
  <2>1. t \in {EOF} \cup (IF left > 0 /\ (ends = 0 \/ Overrun)
                          THEN IF kind = "symbol" THEN Tokens ELSE Tokens \ Reserved ELSE {})
    BY DEF Offered
  <2>2. Overrun => ends = 3
    BY DEF Overrun
  <2> QED BY <2>1, <2>2
<1>3. left' \in 0..MaxTokens
  <2>1. PICK l \in Nat, m \in Nat, b \in Nat : l = left /\ m = MaxTokens /\ b = MaxBehind
    <3>1. left \in 0..MaxTokens
      BY DEF Typed
    <3>2. left \in Nat
      BY <3>1, BoundsAre
    <3> QED BY <3>2, BoundsAre
  <2>2. l <= m
    BY <2>1 DEF Typed
  <2>3. CASE t = EOF
    <3>1. left' = l \/ left' = 0
      BY <2>1, <2>3, <1>1
    <3> QED BY <2>1, <2>2, <3>1
  <2>4. CASE t # EOF /\ error /\ l > b
    <3>1. left' = b
      BY <2>1, <2>4, <1>1
    <3> QED BY <2>1, <2>2, <2>4, <3>1
  <2>5. CASE t # EOF /\ ~(error /\ l > b)
    <3>1. left' = l - 1 /\ l > 0
      BY <2>1, <2>5, <1>1, <1>2
    <3> QED BY <2>1, <2>2, <3>1
  <2> QED BY <2>3, <2>4, <2>5
<1>4. ends \in 0..3
  BY DEF Typed
<1>5. ends' \in 0..3 /\ (ends' \in {1, 2} => tok' = EOF)
  BY <1>1, <1>2, <1>4
<1> QED BY <1>1, <1>2, <1>3, <1>4, <1>5

\* Each step of the parser, but for its last, reads a token or keeps the last.
LEMMA ParsingReads ==
  ASSUME Parsing, ~Return
  PROVE  (\E kind : Read(kind)) \/ UNCHANGED <<tok, num, left, ends>>
<1> USE DEF GetSymbol, GetName, Stay
<1>1. CASE FirstToken BY <1>1 DEF FirstToken
<1>2. CASE RecordName BY <1>2 DEF RecordName
<1>3. CASE Brace BY <1>3 DEF Brace
<1>4. CASE Define BY <1>4 DEF Define
<1>5. CASE Alias BY <1>5 DEF Alias
<1>6. CASE AliasSuffix BY <1>6 DEF AliasSuffix
<1>7. CASE SizeOrNone BY <1>7 DEF SizeOrNone
<1>8. CASE Size BY <1>8 DEF Size
<1>9. CASE Scale BY <1>9 DEF Scale
<1>10. CASE Digits BY <1>10 DEF Digits
<1>11. CASE Close BY <1>11 DEF Close
<1>12. CASE Dimension BY <1>12 DEF Dimension
<1>13. CASE Count BY <1>13 DEF Count
<1>14. CASE Bracket BY <1>14 DEF Bracket
<1>15. CASE Made BY <1>15 DEF Made
<1>16. CASE Modify BY <1>16 DEF Modify
<1>17. CASE Modifier BY <1>17 DEF Modifier
<1>18. CASE Defined BY <1>18 DEF Defined
<1>19. CASE NextName BY <1>19 DEF NextName
<1>20. CASE EndRecord BY <1>20 DEF EndRecord
<1> QED BY <1>1, <1>2, <1>3, <1>4, <1>5, <1>6, <1>7, <1>8, <1>9, <1>10, <1>11, <1>12, <1>13, <1>14,
           <1>15, <1>16, <1>17, <1>18, <1>19, <1>20 DEF Parsing

-----------------------------------------------------------------------------
(* Steps *)

\* What only the caller's steps and the last of the parser change.
LEMMA ParsingKeeps ==
  ASSUME Parsing, ~Return
  PROVE  /\ UNCHANGED caller
         /\ ~Made => UNCHANGED crashed
         /\ error => error'
         /\ attr' = attr \/ FirstToken \/ Brace \/ Made \/ Modifier \/ Defined
         /\ dims' = dims \/ Define \/ Count \/ Made \/ EndRecord
         /\ stack' = stack \/ Brace \/ Define \/ Defined \/ EndRecord
         /\ value' = value \/ Define \/ SizeOrNone \/ Size \/ Close \/ Made \/ Defined \/ EndRecord
<1> USE DEF Rest, Error, NoError, ErrorIf, parser
<1>1. CASE FirstToken BY <1>1 DEF FirstToken
<1>2. CASE RecordName BY <1>2 DEF RecordName
<1>3. CASE Brace BY <1>3 DEF Brace
<1>4. CASE Define BY <1>4 DEF Define
<1>5. CASE Alias BY <1>5 DEF Alias
<1>6. CASE AliasSuffix BY <1>6 DEF AliasSuffix
<1>7. CASE SizeOrNone BY <1>7 DEF SizeOrNone
<1>8. CASE Size BY <1>8 DEF Size
<1>9. CASE Scale BY <1>9 DEF Scale
<1>10. CASE Digits BY <1>10 DEF Digits
<1>11. CASE Close BY <1>11 DEF Close
<1>12. CASE Dimension BY <1>12 DEF Dimension
<1>13. CASE Count BY <1>13 DEF Count
<1>14. CASE Bracket BY <1>14 DEF Bracket
<1>15. CASE Made BY <1>15 DEF Made
<1>16. CASE Modify BY <1>16 DEF Modify
<1>17. CASE Modifier BY <1>17 DEF Modifier
<1>18. CASE Defined BY <1>18 DEF Defined
<1>19. CASE NextName BY <1>19 DEF NextName
<1>20. CASE EndRecord BY <1>20 DEF EndRecord
<1> QED BY <1>1, <1>2, <1>3, <1>4, <1>5, <1>6, <1>7, <1>8, <1>9, <1>10, <1>11, <1>12, <1>13, <1>14,
           <1>15, <1>16, <1>17, <1>18, <1>19, <1>20 DEF Parsing

LEMMA BooleanStep == Parsing /\ ~Return /\ error \in BOOLEAN => error' \in BOOLEAN
<1> USE DEF Rest, Error, NoError, ErrorIf
<1> SUFFICES ASSUME Parsing, ~Return, error \in BOOLEAN PROVE error' \in BOOLEAN
  OBVIOUS
<1>1. CASE FirstToken BY <1>1, Zenon DEF FirstToken
<1>2. CASE RecordName BY <1>2, Zenon DEF RecordName
<1>3. CASE Brace BY <1>3, Zenon DEF Brace
<1>4. CASE Define
  <2>1. error' = error \/ error' = TRUE
    BY <1>4 DEF Define
  <2> QED BY <2>1, Zenon
<1>5. CASE Alias
  <2>1. error' = error \/ error' = TRUE
    BY <1>5 DEF Alias
  <2> QED BY <2>1, Zenon
<1>6. CASE AliasSuffix BY <1>6, Zenon DEF AliasSuffix
<1>7. CASE SizeOrNone BY <1>7, Zenon DEF SizeOrNone
<1>8. CASE Size BY <1>8, Zenon DEF Size
<1>9. CASE Scale BY <1>9, Zenon DEF Scale
<1>10. CASE Digits BY <1>10, Zenon DEF Digits
<1>11. CASE Close BY <1>11, Zenon DEF Close
<1>12. CASE Dimension BY <1>12, Zenon DEF Dimension
<1>13. CASE Count BY <1>13, Zenon DEF Count
<1>14. CASE Bracket BY <1>14, Zenon DEF Bracket
<1>15. CASE Made BY <1>15, Zenon DEF Made
<1>16. CASE Modify BY <1>16, Zenon DEF Modify
<1>17. CASE Modifier BY <1>17, Zenon DEF Modifier
<1>18. CASE Defined BY <1>18, Zenon DEF Defined
<1>19. CASE NextName BY <1>19, Zenon DEF NextName
<1>20. CASE EndRecord BY <1>20, Zenon DEF EndRecord
<1> QED BY <1>1, <1>2, <1>3, <1>4, <1>5, <1>6, <1>7, <1>8, <1>9, <1>10, <1>11, <1>12, <1>13, <1>14,
           <1>15, <1>16, <1>17, <1>18, <1>19, <1>20 DEF Parsing

\* The record that is read.
LEMMA TopIs ==
  ASSUME StackInv, pc \in InRecord
  PROVE  /\ Len(stack) \in Nat /\ Len(stack) > 0
         /\ Top \in Trees /\ Whole(Top) /\ <<>> \in DOMAIN Top /\ Top[<<>>] \in Nodes
         /\ Type(Top) = IF Len(stack) = 1 THEN "ROOT" ELSE "RECORD"
<1>1. stack \in Seq(WholeTrees) /\ stack # <<>>
  BY DEF StackInv
<1>2. Len(stack) \in Nat /\ Len(stack) > 0 /\ Len(stack) \in DOMAIN stack /\ stack[Len(stack)] \in WholeTrees
  BY <1>1
<1>3. Whole(Top) /\ Top \in Trees /\ <<>> \in DOMAIN Top
  BY <1>2 DEF Top, WholeTrees, Whole
<1> QED BY <1>2, <1>3, TreeHas DEF StackInv, Top

LEMMA TypedStep == Typed /\ StackInv /\ EndInv /\ Next => Typed'
<1> SUFFICES ASSUME Typed, StackInv, EndInv, Next PROVE Typed'
  OBVIOUS
<1>1. CASE RecParseValue \/ RecParseValueNoCache \/ RecParseValueMem
  <2>1. PICK r : Open(r)
    BY <1>1 DEF RecParseValue, RecParseValueNoCache, RecParseValueMem
  <2>2. tok' \in Tokens \cup {EOF} /\ num' \in Numbers \cup {0} /\ ends' \in 0..3
    <3>1. PICK t \in Tokens \cup {EOF} : tok' = t /\ num' = 0 /\ ends' = IF t = EOF THEN 1 ELSE 0
      BY <2>1 DEF Open
    <3> QED BY <3>1
  <2>3. left' \in 0..MaxTokens
    <3>1. left' = 0 \/ left' = MaxTokens - 1 \/ left' = MaxFile - 1
      BY <2>1 DEF Open
    <3> QED BY <3>1, BoundsAre
  <2>4. attr' \subseteq Modifiers /\ error' \in BOOLEAN /\ crashed' \in BOOLEAN /\ dims' \in Seq(Dimensions)
    <3>1. attr' = {} /\ dims' = <<>>
      BY <2>1 DEF Open
    <3>2. error' \in BOOLEAN
      BY <2>1 DEF Open
    <3>3. crashed' \in BOOLEAN
      BY <2>1, Zenon DEF Open, Typed
    <3> QED BY <3>1, <3>2, <3>3
  <2> QED BY <2>2, <2>3, <2>4 DEF Typed
<1>2. CASE RecParseValueHit
  <2>1. UNCHANGED <<tok, num, left, ends, attr, error, crashed, dims>>
    BY <1>2 DEF RecParseValueHit, parser
  <2> QED BY <2>1 DEF Typed
<1>3. CASE Return
  <2>1. tok' = EOF /\ num' = 0 /\ left' = 0 /\ ends' = 0 /\ attr' = {} /\ dims' = <<>>
    BY <1>3 DEF Return
  <2>2. left' \in 0..MaxTokens
    BY <2>1, BoundsAre
  <2>3. error' \in BOOLEAN
    BY <1>3 DEF Return
  <2>4. crashed' \in BOOLEAN
    BY <1>3, Zenon DEF Return, Typed
  <2>5. tok' \in Tokens \cup {EOF} /\ num' \in Numbers \cup {0} /\ ends' \in 0..3
    BY <2>1
  <2>6. attr' \subseteq Modifiers /\ dims' \in Seq(Dimensions)
    BY <2>1
  <2> QED BY <2>2, <2>3, <2>4, <2>5, <2>6, Zenon DEF Typed
<1>4. CASE Parsing /\ ~Return
  <2>1. tok' \in Tokens \cup {EOF} /\ num' \in Numbers \cup {0} /\ left' \in 0..MaxTokens /\ ends' \in 0..3
    <3>1. CASE UNCHANGED <<tok, num, left, ends>>
      BY <3>1 DEF Typed
    <3>2. CASE \E kind : Read(kind)
      BY <3>2, ReadIs
    <3> QED BY <3>1, <3>2, <1>4, ParsingReads
  <2>2. attr' \subseteq Modifiers
    <3>1. CASE attr' = attr
      BY <3>1 DEF Typed
    <3>2. CASE FirstToken
      <4>1. attr' = {"virtual"} \/ attr' = attr
        BY <3>2 DEF FirstToken
      <4> QED BY <4>1 DEF Typed, Modifiers
    <3>3. CASE Brace \/ Defined
      BY <3>3 DEF Brace, Defined
    <3>4. CASE Modifier
      <4>1. attr' = attr \cup ({tok} \cap Modifiers)
        BY <3>4 DEF Modifier
      <4> QED BY <4>1 DEF Typed
    <3>5. CASE Made
      <4>1. attr' = attr \/ attr' = Top[<<>>].attr
        BY <3>5 DEF Made
      <4>2. pc \in InRecord
        BY <3>5 DEF Made, InRecord
      <4> QED BY <4>1, <4>2, TopIs DEF Typed, Nodes
    <3> QED BY <3>1, <3>2, <3>3, <3>4, <3>5, <1>4, ParsingKeeps
  <2>3. error' \in BOOLEAN
    <3>1. error \in BOOLEAN
      BY Zenon DEF Typed
    <3> QED BY <3>1, <1>4, BooleanStep, Zenon
  <2>4. crashed' \in BOOLEAN
    <3>1. CASE Made
      BY <3>1, Zenon DEF Made, Typed
    <3>2. CASE ~Made
      <4>1. crashed' = crashed
        BY <3>2, <1>4, ParsingKeeps
      <4> QED BY <4>1, Zenon DEF Typed
    <3> QED BY <3>1, <3>2
  <2>5. dims' \in Seq(Dimensions)
    <3>1. CASE dims' = dims
      BY <3>1 DEF Typed
    <3>2. CASE Define \/ EndRecord
      <4>1. dims' = <<>>
        BY <3>2 DEF Define, EndRecord
      <4> QED BY <4>1
    <3>3. CASE Made
      <4>1. dims' = dims \/ dims' = <<>>
        BY <3>3 DEF Made
      <4>2. dims \in Seq(Dimensions) /\ <<>> \in Seq(Dimensions)
        BY DEF Typed
      <4> QED BY <4>1, <4>2
    <3>4. CASE Count
      <4>1. PICK d : d = [count |-> num, expandable |-> tok # "const"]
        OBVIOUS
      <4>2. num \in Nat
        BY BoundsAre DEF Typed
      <4>3. d \in Dimensions
        BY <4>1, <4>2 DEF Dimensions
      <4>4. dims' = <<d>> \o dims
        BY <3>4, <4>1 DEF Count
      <4> QED BY <4>3, <4>4 DEF Typed
    <3> QED BY <3>1, <3>2, <3>3, <3>4, <1>4, ParsingKeeps
  <2> QED BY <2>1, <2>2, <2>3, <2>4, <2>5 DEF Typed
<1> QED BY <1>1, <1>2, <1>3, <1>4 DEF Next

LEMMA RootMade ==
  ASSUME NEW as \in SUBSET Modifiers, NEW t, t = [Scalar("ROOT") EXCEPT ![<<>>].attr = as]
  PROVE  Whole(t) /\ Type(t) = "ROOT"
<1>1. "ROOT" \in Types
  BY DEF Types
<1>2. PICK b : b = Scalar("ROOT")
  OBVIOUS
<1>3. b \in Trees /\ DOMAIN b = {<<>>} /\ b[<<>>] = Node("ROOT", 0)
  BY <1>1, <1>2, ScalarIs
<1>4. PICK n \in Nodes : n = b[<<>>] /\ n.type = "ROOT" /\ n.size = 0 /\ n.attr = {}
  BY <1>1, <1>3, NodeMade
<1>5. PICK m : m = [n EXCEPT !.attr = as]
  OBVIOUS
<1>6. m \in Nodes /\ m.type = "ROOT" /\ m.size = 0
  BY <1>4, <1>5 DEF Nodes
<1>7. t = [b EXCEPT ![<<>>] = m]
  BY <1>2, <1>4, <1>5
<1>8. b = [p \in {<<>>} |-> b[p]]
  BY <1>3, TreeHas
<1>9. t = [p \in {<<>>} |-> m]
  BY <1>7, <1>8
<1>10. t \in Trees /\ DOMAIN t = {<<>>} /\ t[<<>>] = m
  <2>1. {<<>>} \subseteq Paths
    BY NoPath
  <2>2. t = [p \in {<<>>} |-> t[p]] /\ \A p \in {<<>>} : t[p] \in Nodes
    BY <1>6, <1>9
  <2> QED BY <2>1, <2>2, <1>9, TreeIs
<1> QED BY <1>6, <1>10, ScalarWhole DEF Type

LEMMA ScalarMade ==
  ASSUME NEW type \in Types \ {"NULL"}
  PROVE  Whole(Scalar(type)) /\ Type(Scalar(type)) = type /\ Scalar(type) # NoTree
<1>1. PICK t : t = Scalar(type)
  OBVIOUS
<1>2. t \in Trees /\ DOMAIN t = {<<>>} /\ t[<<>>] = Node(type, 0)
  BY <1>1, ScalarIs
<1>3. t[<<>>].type = type /\ t[<<>>].size = 0
  BY <1>2, NodeMade
<1> QED BY <1>1, <1>2, <1>3, ScalarWhole, NoTreeIs DEF Type

\* One record more, the first being that of the text.
LEMMA Pushed ==
  ASSUME NEW st \in Seq(WholeTrees), NEW t, Whole(t),
         \A i \in DOMAIN st : Type(st[i]) = IF i = 1 THEN "ROOT" ELSE "RECORD",
         Type(t) = IF st = <<>> THEN "ROOT" ELSE "RECORD"
  PROVE  /\ Append(st, t) \in Seq(WholeTrees) /\ Append(st, t) # <<>>
         /\ \A i \in DOMAIN Append(st, t) : Type(Append(st, t)[i]) = IF i = 1 THEN "ROOT" ELSE "RECORD"
<1>1. PICK n \in Nat : n = Len(st)
  OBVIOUS
<1>2. t \in WholeTrees
  BY DEF WholeTrees, Whole
<1>3. PICK s \in Seq(WholeTrees) : s = Append(st, t)
  <2>1. PICK X : X = WholeTrees
    OBVIOUS
  <2>2. st \in Seq(X) /\ t \in X
    BY <2>1, <1>2
  <2>3. Append(st, t) \in Seq(X)
    BY <2>2
  <2> QED BY <2>1, <2>3
<1>4. Len(s) = n + 1 /\ s[n+1] = t /\ \A i \in 1..n : s[i] = st[i]
  BY <1>1, <1>2, <1>3
<1>5. ASSUME NEW i \in 1..n+1 PROVE Type(s[i]) = IF i = 1 THEN "ROOT" ELSE "RECORD"
  <2>1. CASE i \in 1..n
    BY <2>1, <1>1, <1>4
  <2>2. CASE i = n+1
    <3>1. st = <<>> <=> i = 1
      BY <2>2, <1>1
    <3> QED BY <2>2, <3>1, <1>4
  <2> QED BY <2>1, <2>2
<1> QED BY <1>3, <1>4, <1>5

LEMMA Popped ==
  ASSUME NEW st \in Seq(WholeTrees), st # <<>>,
         \A i \in DOMAIN st : Type(st[i]) = IF i = 1 THEN "ROOT" ELSE "RECORD"
  PROVE  LET s == SubSeq(st, 1, Len(st) - 1)
         IN /\ s \in Seq(WholeTrees) /\ (s = <<>> <=> Len(st) = 1)
            /\ \A i \in DOMAIN s : Type(s[i]) = IF i = 1 THEN "ROOT" ELSE "RECORD"
<1>1. PICK n \in Nat : n = Len(st) - 1
  OBVIOUS
<1>2. PICK s : s = SubSeq(st, 1, n)
  OBVIOUS
<1>3. s \in Seq(WholeTrees) /\ Len(s) = n /\ \A i \in 1..n : s[i] = st[i]
  BY <1>1, <1>2
<1>4. \A i \in DOMAIN s : Type(s[i]) = IF i = 1 THEN "ROOT" ELSE "RECORD"
  BY <1>1, <1>3
<1>5. s = <<>> <=> Len(st) = 1
  BY <1>1, <1>3
<1> QED BY <1>1, <1>2, <1>3, <1>4, <1>5

\* Where the steps of the parser go that are not listed: no further into a
\* record, and not out of it.
StackKept == stack' = stack /\ (pc' \in InRecord => pc \in InRecord)
              /\ (pc' \in {"head", "name", "brace"} => pc \in {"head", "name", "brace"})

LEMMA StackStep == Typed /\ StackInv /\ ValueInv /\ Next => StackInv'
<1> SUFFICES ASSUME Typed, StackInv, ValueInv, Next PROVE StackInv'
  OBVIOUS
<1>1. CASE StackKept
  BY <1>1 DEF StackKept, StackInv
<1>2. CASE stack' = <<>> /\ pc' \notin InRecord
  BY <1>2 DEF StackInv
<1>3. CASE RecParseValue \/ RecParseValueNoCache \/ RecParseValueMem
  BY <1>2, <1>3 DEF RecParseValue, RecParseValueNoCache, RecParseValueMem, Open, Goto, InRecord
<1>4. CASE RecParseValueHit
  BY <1>1, <1>4 DEF RecParseValueHit, parser, StackKept
<1>5. CASE Return
  BY <1>2, <1>5 DEF Return, Goto, InRecord
<1>6. CASE Brace
  <2>1. stack = <<>> /\ pc' \notin {"head", "name", "brace"}
    BY <1>6 DEF Brace, Running, Goto, StackInv
  <2>2. CASE tok = "{"
    <3>1. PICK t : t = [Scalar("ROOT") EXCEPT ![<<>>].attr = attr]
      OBVIOUS
    <3>2. stack' = Append(stack, t)
      BY <2>2, <3>1, <1>6 DEF Brace, Push
    <3>3. attr \in SUBSET Modifiers
      BY DEF Typed
    <3>4. Whole(t) /\ Type(t) = "ROOT"
      BY <3>1, <3>3, RootMade
    <3>5. /\ stack' \in Seq(WholeTrees) /\ stack' # <<>>
          /\ \A i \in DOMAIN stack' : Type(stack'[i]) = IF i = 1 THEN "ROOT" ELSE "RECORD"
      BY <2>1, <3>2, <3>4, Pushed DEF StackInv
    <3> QED BY <2>1, <3>5 DEF StackInv
  <2>3. CASE tok # "{"
    <3>1. stack' = stack /\ pc' = "return"
      BY <2>3, <1>6 DEF Brace, Goto
    <3> QED BY <2>1, <3>1, <1>2 DEF InRecord
  <2> QED BY <2>2, <2>3
<1>7. CASE Define
  <2>1. pc \in InRecord /\ pc' \notin {"head", "name", "brace"}
    BY <1>7 DEF Define, Running, Goto, InRecord
  <2>2. CASE stack' = stack
    BY <2>1, <2>2, <1>1 DEF StackKept
  <2>3. CASE stack' # stack
    <3>1. PICK t : t = Scalar("RECORD")
      OBVIOUS
    <3>2. stack' = Append(stack, t)
      BY <2>3, <3>1, <1>7 DEF Define, Push
    <3>3. "RECORD" \in Types \ {"NULL"}
      BY DEF Types
    <3>4. Whole(t) /\ Type(t) = "RECORD"
      BY <3>1, <3>3, ScalarMade
    <3>5. stack \in Seq(WholeTrees) /\ stack # <<>>
      BY <2>1 DEF StackInv
    <3>6. /\ stack' \in Seq(WholeTrees) /\ stack' # <<>>
          /\ \A i \in DOMAIN stack' : Type(stack'[i]) = IF i = 1 THEN "ROOT" ELSE "RECORD"
      BY <3>2, <3>4, <3>5, Pushed DEF StackInv
    <3> QED BY <2>1, <3>6 DEF StackInv
  <2> QED BY <2>2, <2>3
<1>8. CASE Defined
  <2>1. pc = "modifiers" /\ pc \in InRecord /\ pc' = "defines"
    BY <1>8 DEF Defined, Running, Goto, InRecord
  <2>2. CASE error \/ tok # ";"
    <3>1. stack' = stack
      BY <2>2, <1>8 DEF Defined
    <3> QED BY <2>1, <3>1, <1>1 DEF StackKept
  <2>3. CASE ~(error \/ tok # ";")
    <3>1. PICK v : v = SetValueAttribute(value, attr)
      OBVIOUS
    <3>2. PICK t : t = AddItem(Top, v)
      OBVIOUS
    <3>3. PICK s : s = SubSeq(stack, 1, Len(stack) - 1)
      OBVIOUS
    <3>4. stack' = Append(s, t)
      BY <2>3, <3>1, <3>2, <3>3, <1>8 DEF Defined, Pop
    <3>5. Whole(value) /\ attr \in SUBSET Modifiers
      BY <2>1, <2>3 DEF ValueInv, WithValue, InRecord, Typed
    <3>6. Whole(v) /\ attr \subseteq v[<<>>].attr
      BY <3>1, <3>5, AttributeWhole
    <3>7. Top[<<>>].attr \subseteq attr
      BY <2>1 DEF ValueInv
    <3>8. Whole(Top) /\ Type(Top) = IF Len(stack) = 1 THEN "ROOT" ELSE "RECORD"
      BY <2>1, TopIs
    <3>9. PICK u : u = Top
      OBVIOUS
    <3>10. Whole(t) /\ Type(t) = Type(u)
      BY <3>2, <3>6, <3>7, <3>8, <3>9, ItemAdded
    <3>11. /\ stack \in Seq(WholeTrees) /\ stack # <<>>
           /\ \A i \in DOMAIN stack : Type(stack[i]) = IF i = 1 THEN "ROOT" ELSE "RECORD"
      BY <2>1 DEF StackInv
    <3>12. /\ s \in Seq(WholeTrees) /\ (s = <<>> <=> Len(stack) = 1)
           /\ \A i \in DOMAIN s : Type(s[i]) = IF i = 1 THEN "ROOT" ELSE "RECORD"
      BY <3>3, <3>11, Popped
    <3>13. Type(t) = IF s = <<>> THEN "ROOT" ELSE "RECORD"
      BY <3>8, <3>9, <3>10, <3>12
    <3>14. /\ stack' \in Seq(WholeTrees) /\ stack' # <<>>
           /\ \A i \in DOMAIN stack' : Type(stack'[i]) = IF i = 1 THEN "ROOT" ELSE "RECORD"
      BY <3>4, <3>10, <3>12, <3>13, Pushed
    <3> QED BY <2>1, <3>14 DEF StackInv
  <2> QED BY <2>2, <2>3
<1>9. CASE EndRecord
  <2>1. pc = "defines" /\ pc \in InRecord
    BY <1>9 DEF EndRecord, Running, InRecord
  <2>2. pc' = (IF Len(stack) = 1 THEN "return" ELSE "dims") /\ stack' = SubSeq(stack, 1, Len(stack) - 1)
    BY <1>9 DEF EndRecord, Goto, Pop
  <2>3. /\ stack \in Seq(WholeTrees) /\ stack # <<>>
        /\ \A i \in DOMAIN stack : Type(stack[i]) = IF i = 1 THEN "ROOT" ELSE "RECORD"
    BY <2>1 DEF StackInv
  <2>4. /\ stack' \in Seq(WholeTrees) /\ (stack' = <<>> <=> Len(stack) = 1)
        /\ \A i \in DOMAIN stack' : Type(stack'[i]) = IF i = 1 THEN "ROOT" ELSE "RECORD"
    BY <2>2, <2>3, Popped
  <2> QED BY <2>2, <2>4 DEF StackInv, InRecord
<1>10. CASE Parsing /\ ~Return /\ ~Brace /\ ~Define /\ ~Defined /\ ~EndRecord
  <2>1. stack' = stack
    BY <1>10, ParsingKeeps
  <2>2. /\ pc' \in InRecord => pc \in InRecord
        /\ pc' \in {"head", "name", "brace"} => pc \in {"head", "name", "brace"}
    <3> USE DEF Goto, Running, InRecord
    <3>1. CASE FirstToken BY <3>1 DEF FirstToken
    <3>2. CASE RecordName BY <3>2 DEF RecordName
    <3>3. CASE Alias BY <3>3 DEF Alias
    <3>4. CASE AliasSuffix BY <3>4 DEF AliasSuffix
    <3>5. CASE SizeOrNone BY <3>5 DEF SizeOrNone
    <3>6. CASE Size BY <3>6 DEF Size
    <3>7. CASE Scale BY <3>7 DEF Scale
    <3>8. CASE Digits BY <3>8 DEF Digits
    <3>9. CASE Close BY <3>9 DEF Close
    <3>10. CASE Dimension BY <3>10 DEF Dimension
    <3>11. CASE Count BY <3>11 DEF Count
    <3>12. CASE Bracket BY <3>12 DEF Bracket
    <3>13. CASE Made BY <3>13 DEF Made
    <3>14. CASE Modify BY <3>14 DEF Modify
    <3>15. CASE Modifier BY <3>15 DEF Modifier
    <3>16. CASE NextName BY <3>16 DEF NextName
    <3> QED BY <3>1, <3>2, <3>3, <3>4, <3>5, <3>6, <3>7, <3>8, <3>9, <3>10, <3>11, <3>12, <3>13, <3>14,
               <3>15, <3>16, <1>10 DEF Parsing
  <2> QED BY <2>1, <2>2, <1>1 DEF StackKept
<1> QED BY <1>3, <1>4, <1>5, <1>6, <1>7, <1>8, <1>9, <1>10 DEF Next

\* What steps that make no value and leave the modifiers alone need not care for.
ValueKept == /\ value' = value /\ (error => error')
             /\ pc' \in WithValue => pc \in WithValue
             /\ pc' \in {"modifiers", "modifier"} => stack' = stack /\ attr' = attr /\ pc \in {"modifiers", "modifier"}

LEMMA ValueStep == Typed /\ StackInv /\ ValueInv /\ Next => ValueInv'
<1> SUFFICES ASSUME Typed, StackInv, ValueInv, Next PROVE ValueInv'
  OBVIOUS
<1>1. CASE ValueKept
  <2>1. pc' \in {"modifiers", "modifier"} => Top' = Top
    BY <1>1 DEF ValueKept, Top
  <2> QED BY <1>1, <2>1 DEF ValueKept, ValueInv
<1>2. CASE /\ value' = NoTree \/ Whole(value')
           /\ pc' \in WithValue => value' # NoTree \/ error'
           /\ pc' \notin {"modifiers", "modifier"}
  BY <1>2 DEF ValueInv
<1>3. CASE RecParseValue \/ RecParseValueNoCache \/ RecParseValueMem
  BY <1>2, <1>3 DEF RecParseValue, RecParseValueNoCache, RecParseValueMem, Open, Goto, InRecord, WithValue
<1>4. CASE RecParseValueHit
  BY <1>1, <1>4 DEF RecParseValueHit, parser, ValueKept
<1>5. CASE Return
  BY <1>2, <1>5 DEF Return, Goto, InRecord, WithValue
<1>6. CASE Define
  <2>1. pc' \notin {"modifiers", "modifier"}
    BY <1>6 DEF Define, Goto
  <2>2. CASE tok \in Reserved \ Modifiers
    <3>1. tok \in Types \ {"NULL"}
      BY <2>2 DEF Types, Reserved, Sized, Modifiers
    <3>2. value' = Scalar(tok)
      BY <2>2, <1>6 DEF Define, Reserved, Sized, Modifiers
    <3> QED BY <2>1, <3>1, <3>2, <1>2, ScalarMade
  <2>3. CASE tok \notin Reserved \ Modifiers
    <3>1. value' = NoTree
      BY <2>3, <1>6 DEF Define
    <3>2. pc' = "defines" \/ error'
      BY <2>3, <1>6 DEF Define, Goto, Error
    <3> QED BY <2>1, <3>1, <3>2, <1>2 DEF WithValue, InRecord
  <2> QED BY <2>2, <2>3
<1>7. CASE SizeOrNone \/ Size \/ Close
  <2>1. pc \in WithValue /\ pc' \notin {"modifiers", "modifier"}
    BY <1>7 DEF SizeOrNone, Size, Close, Goto, Running, WithValue, InRecord
  <2>2. value' = value \/ value' = NoTree
    BY <1>7 DEF SizeOrNone, Size, Close, MadeValue
  <2>3. value # NoTree \/ error
    BY <2>1 DEF ValueInv
  <2>4. value' # NoTree \/ error'
    <3>1. CASE SizeOrNone
      BY <3>1, <2>3 DEF SizeOrNone, MadeValue, NoError
    <3>2. CASE Size
      BY <3>2, <2>3 DEF Size, NoError, Error
    <3>3. CASE Close
      BY <3>3, <2>3 DEF Close, MadeValue, ErrorIf
    <3> QED BY <3>1, <3>2, <3>3, <1>7
  <2> QED BY <2>1, <2>2, <2>4, <1>2 DEF ValueInv
<1>8. CASE Made
  <2>1. pc \in {"made", "dims"} /\ (error => error') /\ stack' = stack
    BY <1>8 DEF Made, NoError
  <2>2. pc \in WithValue /\ pc \in InRecord
    BY <2>1 DEF WithValue, InRecord
  <2>3. value # NoTree \/ error
    BY <2>2 DEF ValueInv
  <2>4. CASE NoItems(value, dims)
    <3>1. value' = value /\ pc' = pc
      BY <2>4, <1>8 DEF Made
    <3> QED BY <2>1, <2>3, <3>1, <1>2 DEF ValueInv
  <2>5. CASE ~NoItems(value, dims)
    <3>1. value' = Arrays(value, dims) /\ attr' = Top[<<>>].attr
      BY <2>5, <1>8 DEF Made
    <3>2. Whole(value') \/ (value = NoTree /\ value' = NoTree)
      <4>1. Whole(value) \/ value = NoTree
        BY DEF ValueInv
      <4>2. dims \in Seq(Dimensions)
        BY DEF Typed
      <4> QED BY <2>5, <3>1, <4>1, <4>2, ArraysWhole
    <3>3. value' # NoTree \/ error'
      BY <2>1, <2>3, <3>2, NoTreeIs
    <3>4. Top' = Top
      BY <2>1 DEF Top
    <3> QED BY <3>1, <3>2, <3>3, <3>4 DEF ValueInv
  <2> QED BY <2>4, <2>5
<1>9. CASE Modifier
  <2>1. pc = "modifier" /\ stack' = stack /\ value' = value /\ (error => error')
    BY <1>9 DEF Modifier, Running, ErrorIf
  <2>2. attr \subseteq attr'
    BY <1>9 DEF Modifier
  <2>3. Top' = Top
    BY <2>1 DEF Top
  <2>4. Top[<<>>].attr \subseteq attr
    BY <2>1 DEF ValueInv
  <2>5. value # NoTree \/ error
    BY <2>1 DEF ValueInv, WithValue, InRecord
  <2> QED BY <2>1, <2>2, <2>3, <2>4, <2>5 DEF ValueInv
<1>10. CASE Defined
  BY <1>2, <1>10 DEF Defined, Goto, InRecord, WithValue
<1>11. CASE EndRecord
  <2>1. pc \in InRecord /\ value' = Top /\ pc' \notin {"modifiers", "modifier"}
    BY <1>11 DEF EndRecord, Running, InRecord, Goto
  <2>2. Whole(Top)
    BY <2>1, TopIs
  <2> QED BY <2>1, <2>2, <1>2, NoTreeIs
<1>12. CASE /\ Parsing /\ ~Return /\ ~Define /\ ~SizeOrNone /\ ~Size /\ ~Close /\ ~Made /\ ~Modifier
            /\ ~Defined /\ ~EndRecord
  <2>1. value' = value /\ (error => error')
    BY <1>12, ParsingKeeps
  <2>2. /\ pc' \in WithValue => pc \in WithValue
        /\ pc' \in {"modifiers", "modifier"} => stack' = stack /\ attr' = attr /\ pc \in {"modifiers", "modifier"}
    <3> USE DEF Goto, Running, InRecord, WithValue, parser
    <3>1. CASE FirstToken BY <3>1 DEF FirstToken
    <3>2. CASE RecordName BY <3>2 DEF RecordName
    <3>3. CASE Brace BY <3>3 DEF Brace
    <3>4. CASE Alias BY <3>4 DEF Alias
    <3>5. CASE AliasSuffix BY <3>5 DEF AliasSuffix
    <3>6. CASE Scale BY <3>6 DEF Scale
    <3>7. CASE Digits BY <3>7 DEF Digits
    <3>8. CASE Dimension BY <3>8 DEF Dimension
    <3>9. CASE Count BY <3>9 DEF Count
    <3>10. CASE Bracket BY <3>10 DEF Bracket
    <3>11. CASE Modify BY <3>11 DEF Modify
    <3>12. CASE NextName BY <3>12 DEF NextName
    <3> QED BY <3>1, <3>2, <3>3, <3>4, <3>5, <3>6, <3>7, <3>8, <3>9, <3>10, <3>11, <3>12, <1>12
            DEF Parsing
  <2> QED BY <2>1, <2>2, <1>1 DEF ValueKept
<1> QED BY <1>3, <1>4, <1>5, <1>6, <1>7, <1>8, <1>9, <1>10, <1>11, <1>12 DEF Next

\* The parser runs only between a call and its return.
LEMMA ParsingCalled == Parsing => pc # "idle"
<1> USE DEF Running
<1> SUFFICES ASSUME Parsing PROVE pc # "idle"
  OBVIOUS
<1>1. CASE FirstToken BY <1>1 DEF FirstToken
<1>2. CASE RecordName BY <1>2 DEF RecordName
<1>3. CASE Brace BY <1>3 DEF Brace
<1>4. CASE Define BY <1>4 DEF Define
<1>5. CASE Alias BY <1>5 DEF Alias
<1>6. CASE AliasSuffix BY <1>6 DEF AliasSuffix
<1>7. CASE SizeOrNone BY <1>7 DEF SizeOrNone
<1>8. CASE Size BY <1>8 DEF Size
<1>9. CASE Scale BY <1>9 DEF Scale
<1>10. CASE Digits BY <1>10 DEF Digits
<1>11. CASE Close BY <1>11 DEF Close
<1>12. CASE Dimension BY <1>12 DEF Dimension
<1>13. CASE Count BY <1>13 DEF Count
<1>14. CASE Bracket BY <1>14 DEF Bracket
<1>15. CASE Made BY <1>15 DEF Made
<1>16. CASE Modify BY <1>16 DEF Modify
<1>17. CASE Modifier BY <1>17 DEF Modifier
<1>18. CASE Defined BY <1>18 DEF Defined
<1>19. CASE NextName BY <1>19 DEF NextName
<1>20. CASE EndRecord BY <1>20 DEF EndRecord
<1>21. CASE Return BY <1>21 DEF Return
<1> QED BY <1>1, <1>2, <1>3, <1>4, <1>5, <1>6, <1>7, <1>8, <1>9, <1>10, <1>11, <1>12, <1>13, <1>14,
           <1>15, <1>16, <1>17, <1>18, <1>19, <1>20, <1>21 DEF Parsing

LEMMA ResultStep == Typed /\ StackInv /\ ValueInv /\ ResultInv /\ Next => ResultInv'
<1> SUFFICES ASSUME Typed, StackInv, ValueInv, ResultInv, Next PROVE ResultInv'
  OBVIOUS
<1>1. CASE RecParseValue \/ RecParseValueNoCache \/ RecParseValueMem
  <2>1. PICK r \in {"RecParseValue", "RecParseValueNoCache", "RecParseValueMem"} : Open(r)
    BY <1>1 DEF RecParseValue, RecParseValueNoCache, RecParseValueMem
  <2>2. Idle /\ result' = NoTree /\ crashed' = crashed /\ request' = r
    BY <2>1 DEF Open
  <2> QED BY <2>2 DEF ResultInv, Idle
<1>2. CASE RecParseValueHit
  BY <1>2 DEF RecParseValueHit, ResultInv, Idle, parser
<1>3. CASE Return
  <2>1. ~crashed /\ crashed' = crashed /\ pc' = "idle"
    BY <1>3 DEF Return, Running, Goto
  <2>2. result' = NoTree \/ result' = value
    BY <1>3 DEF Return
  <2> QED BY <2>1, <2>2 DEF ResultInv, ValueInv
<1>4. CASE Parsing /\ ~Return
  <2>1. /\ result' = result /\ (error => error') /\ (~Made => crashed' = crashed)
        /\ ~Idle /\ ~Idle'
    <3>1. UNCHANGED caller /\ (error => error') /\ (~Made => crashed' = crashed)
      BY <1>4, ParsingKeeps
    <3>2. pc # "idle"
      BY <1>4, ParsingCalled
    <3> QED BY <3>1, <3>2 DEF caller, ResultInv, Idle
  <2>2. CASE ~Made
    BY <2>1, <2>2 DEF ResultInv
  <2>3. CASE Made
    <3>1. pc \in WithValue
      BY <2>3 DEF Made, WithValue, InRecord
    <3>2. CASE NoItems(value, dims)
      <4>1. error
        BY <3>1, <3>2 DEF NoItems, ValueInv
      <4> QED BY <2>1, <4>1 DEF ResultInv
    <3>3. CASE ~NoItems(value, dims)
      <4>1. crashed' = crashed
        BY <2>3, <3>3 DEF Made
      <4> QED BY <2>1, <4>1 DEF ResultInv
    <3> QED BY <3>2, <3>3
  <2> QED BY <2>2, <2>3
<1> QED BY <1>1, <1>2, <1>3, <1>4 DEF Next

LEMMA TableStep == TableInv /\ Next => TableInv'
<1> SUFFICES ASSUME TableInv, Next PROVE TableInv'
  OBVIOUS
<1>1. CASE RecParseValue \/ RecParseValueNoCache \/ RecParseValueMem
  <2>1. UNCHANGED <<cached, answers>>
    BY <1>1 DEF RecParseValue, RecParseValueNoCache, RecParseValueMem, Open
  <2>2. request' = "RecParseValue" => ~FoundIn(cached)
    BY <1>1 DEF RecParseValue, RecParseValueNoCache, RecParseValueMem, Open
  <2> QED BY <2>1, <2>2 DEF TableInv, FoundIn
<1>2. CASE RecParseValueHit
  BY <1>2 DEF RecParseValueHit, TableInv, FoundIn
<1>3. CASE Return
  <2>1. request' = "none"
    BY <1>3 DEF Return
  <2>2. CASE request # "RecParseValue"
    <3>1. UNCHANGED <<cached, answers>>
      BY <1>3, <2>2 DEF Return
    <3> QED BY <2>1, <3>1 DEF TableInv, FoundIn
  <2>3. CASE request = "RecParseValue"
    <3>1. answers = {}
      BY <2>3 DEF TableInv
    <3>2. PICK entry : entry \in {NULL, Parsed(parses)} /\ cached' = entry /\ answers' = answers \cup ({entry} \ {NULL})
      BY <1>3, <2>3 DEF Return
    <3>3. Parsed(parses) # Absent /\ Parsed(parses) # NULL /\ NULL # Absent
      BY DEF Parsed, Absent, NULL
    <3> QED BY <2>1, <3>1, <3>2, <3>3 DEF TableInv, FoundIn
  <2> QED BY <2>2, <2>3
<1>4. CASE Parsing /\ ~Return
  <2>1. UNCHANGED <<cached, answers, request>>
    BY <1>4, ParsingKeeps DEF caller
  <2> QED BY <2>1 DEF TableInv, FoundIn
<1> QED BY <1>1, <1>2, <1>3, <1>4 DEF Next

\* At the end of a text the parser goes where it may be read twice.
LEMMA EndsIn ==
  ASSUME Parsing, ~Return, tok = EOF
  PROVE  pc' \in AtEnd \/ (UNCHANGED <<tok, num, left, ends>> /\ pc \notin AtEnd)
<1> USE DEF EOF, AtEnd, Goto, Running, Stay
<1>1. CASE FirstToken BY <1>1 DEF FirstToken
<1>2. CASE RecordName BY <1>2 DEF RecordName
<1>3. CASE Brace BY <1>3 DEF Brace
<1>4. CASE Define BY <1>4 DEF Define, Reserved, Sized, Modifiers
<1>5. CASE Alias BY <1>5 DEF Alias
<1>6. CASE AliasSuffix BY <1>6 DEF AliasSuffix
<1>7. CASE SizeOrNone BY <1>7 DEF SizeOrNone
<1>8. CASE Size BY <1>8 DEF Size
<1>9. CASE Scale BY <1>9 DEF Scale
<1>10. CASE Digits BY <1>10 DEF Digits
<1>11. CASE Close BY <1>11 DEF Close
<1>12. CASE Dimension BY <1>12 DEF Dimension
<1>13. CASE Count BY <1>13 DEF Count
<1>14. CASE Bracket BY <1>14 DEF Bracket
<1>15. CASE Made BY <1>15 DEF Made
<1>16. CASE Modify BY <1>16 DEF Modify, MoreModifiers
<1>17. CASE Modifier BY <1>17 DEF Modifier
<1>18. CASE Defined BY <1>18 DEF Defined
<1>19. CASE NextName BY <1>19 DEF NextName
<1>20. CASE EndRecord BY <1>20 DEF EndRecord
<1> QED BY <1>1, <1>2, <1>3, <1>4, <1>5, <1>6, <1>7, <1>8, <1>9, <1>10, <1>11, <1>12, <1>13, <1>14,
           <1>15, <1>16, <1>17, <1>18, <1>19, <1>20 DEF Parsing

\* There it is read again only in an alias and behind the digits of a number.
LEMMA ReadsAgain ==
  ASSUME Parsing, ~Return, tok = EOF, pc \in AtEnd
  PROVE  UNCHANGED <<tok, num, left, ends>> \/ pc \in {"alias", "suffix", "closing", "closeScale"}
<1> USE DEF EOF, AtEnd, Running, Stay
<1>1. CASE FirstToken BY <1>1 DEF FirstToken
<1>2. CASE RecordName BY <1>2 DEF RecordName
<1>3. CASE Brace BY <1>3 DEF Brace
<1>4. CASE Define BY <1>4 DEF Define, Reserved, Sized, Modifiers
<1>5. CASE Alias BY <1>5 DEF Alias
<1>6. CASE AliasSuffix BY <1>6 DEF AliasSuffix
<1>7. CASE SizeOrNone BY <1>7 DEF SizeOrNone
<1>8. CASE Size BY <1>8 DEF Size
<1>9. CASE Scale BY <1>9 DEF Scale
<1>10. CASE Digits BY <1>10 DEF Digits
<1>11. CASE Close BY <1>11 DEF Close
<1>12. CASE Dimension BY <1>12 DEF Dimension
<1>13. CASE Count BY <1>13 DEF Count
<1>14. CASE Bracket BY <1>14 DEF Bracket
<1>15. CASE Made BY <1>15 DEF Made
<1>16. CASE Modify BY <1>16 DEF Modify, MoreModifiers
<1>17. CASE Modifier BY <1>17 DEF Modifier
<1>18. CASE Defined BY <1>18 DEF Defined
<1>19. CASE NextName BY <1>19 DEF NextName
<1>20. CASE EndRecord BY <1>20 DEF EndRecord
<1> QED BY <1>1, <1>2, <1>3, <1>4, <1>5, <1>6, <1>7, <1>8, <1>9, <1>10, <1>11, <1>12, <1>13, <1>14,
           <1>15, <1>16, <1>17, <1>18, <1>19, <1>20 DEF Parsing

LEMMA EndStep == Typed /\ EndInv /\ Next => EndInv'
<1> SUFFICES ASSUME Typed, EndInv, Next PROVE EndInv'
  OBVIOUS
<1>1. CASE RecParseValue \/ RecParseValueNoCache \/ RecParseValueMem
  <2>1. PICK r : Open(r)
    BY <1>1 DEF RecParseValue, RecParseValueNoCache, RecParseValueMem
  <2>2. PICK t : tok' = t /\ ends' = IF t = EOF THEN 1 ELSE 0
    BY <2>1 DEF Open
  <2> QED BY <2>2 DEF EndInv
<1>2. CASE RecParseValueHit
  BY <1>2 DEF RecParseValueHit, EndInv
<1>3. CASE Return
  BY <1>3 DEF Return, EndInv
<1>4. CASE Parsing /\ ~Return
  <2>1. ends' \in {1, 2} => tok' = EOF
    <3>1. CASE UNCHANGED <<tok, num, left, ends>>
      BY <3>1 DEF EndInv
    <3>2. CASE \E kind : Read(kind)
      BY <3>2, ReadIs
    <3> QED BY <3>1, <3>2, <1>4, ParsingReads
  <2>2. ASSUME ends' = 2 PROVE pc' \in AtEnd
    <3>1. CASE UNCHANGED <<tok, num, left, ends>>
      <4>1. tok = EOF /\ pc \in AtEnd
        BY <3>1, <2>2 DEF EndInv
      <4> QED BY <4>1, <1>4, EndsIn
    <3>2. CASE ~UNCHANGED <<tok, num, left, ends>>
      <4>1. \E kind : Read(kind)
        BY <3>2, <1>4, ParsingReads
      <4>2. ends = 1 \/ ends = 2
        BY <4>1, <2>2, ReadIs
      <4>3. tok = EOF
        BY <4>2 DEF EndInv
      <4> QED BY <4>3, <3>2, <1>4, EndsIn
    <3> QED BY <3>1, <3>2
  <2> QED BY <2>1, <2>2 DEF EndInv
<1> QED BY <1>1, <1>2, <1>3, <1>4 DEF Next

-----------------------------------------------------------------------------
(* Theorems *)

LEMMA InitInv == Init => IInv
<1> SUFFICES ASSUME Init PROVE IInv
  OBVIOUS
<1> USE DEF Init
<1>1. Typed
  <2>1. left \in 0..MaxTokens /\ ends \in 0..3
    BY BoundsAre
  <2>2. tok \in Tokens \cup {EOF} /\ num \in Numbers \cup {0} /\ attr \subseteq Modifiers
    OBVIOUS
  <2>3. error \in BOOLEAN /\ crashed \in BOOLEAN
    OBVIOUS
  <2>4. dims \in Seq(Dimensions)
    OBVIOUS
  <2> QED BY <2>1, <2>2, <2>3, <2>4 DEF Typed
<1>2. StackInv
  <2>1. stack \in Seq(WholeTrees) /\ DOMAIN stack = {}
    OBVIOUS
  <2> QED BY <2>1 DEF StackInv, InRecord
<1>3. ValueInv
  BY DEF ValueInv, WithValue, InRecord
<1>4. ResultInv
  BY DEF ResultInv, Idle
<1>5. TableInv
  BY DEF TableInv
<1>6. EndInv
  BY DEF EndInv
<1> QED BY <1>1, <1>2, <1>3, <1>4, <1>5, <1>6 DEF IInv

LEMMA NextInv == IInv /\ [Next]_vars => IInv'
<1> SUFFICES ASSUME IInv, [Next]_vars PROVE IInv'
  OBVIOUS
<1>1. CASE Next
  <2>1. Typed /\ StackInv /\ ValueInv /\ ResultInv /\ TableInv /\ EndInv
    BY DEF IInv
  <2> QED BY <1>1, <2>1, TypedStep, StackStep, ValueStep, ResultStep, TableStep, EndStep DEF IInv
<1>2. CASE UNCHANGED vars
  <2> USE <1>2 DEF vars, parser, caller, IInv
  <2>1. Typed'
    BY DEF Typed
  <2>2. StackInv'
    BY DEF StackInv
  <2>3. ValueInv'
    BY DEF ValueInv, Top
  <2>4. ResultInv'
    BY DEF ResultInv, Idle
  <2>5. TableInv'
    BY DEF TableInv, FoundIn
  <2>6. EndInv'
    BY DEF EndInv
  <2> QED BY <2>1, <2>2, <2>3, <2>4, <2>5, <2>6
<1> QED BY <1>1, <1>2

\* What holds of every state of the parser.
THEOREM ParserInvariant == Spec => []IInv
<1> QED BY InitInv, NextInv, PTL DEF Spec

\* What the parser holds and returns is whole, and it dereferences no NULL,
\* unless an error has been seen: for all texts of all tokens.
THEOREM WholeAlways == Spec => []ValuesWhole
<1>1. IInv => ValuesWhole
  <2> SUFFICES ASSUME IInv PROVE ValuesWhole
    OBVIOUS
  <2>1. Typed /\ StackInv /\ ValueInv /\ ResultInv
    BY DEF IInv
  <2>2. TypeOK
    <3>1. tok \in Tokens \cup {EOF} /\ num \in Numbers \cup {0} /\ left \in 0..MaxTokens /\ ends \in 0..3
      BY <2>1 DEF Typed
    <3>2. attr \subseteq Modifiers /\ {error, crashed} \subseteq BOOLEAN
      BY <2>1, Zenon DEF Typed
    <3>3. \A i \in DOMAIN stack : Type(stack[i]) = IF i = 1 THEN "ROOT" ELSE "RECORD"
      BY <2>1 DEF StackInv
    <3>4. pc \in {"define", "alias", "dims", "modifiers", "defines"} => Len(stack) > 0
      <4>1. {"define", "alias", "dims", "modifiers", "defines"} \subseteq InRecord
        BY DEF InRecord
      <4> QED BY <4>1, <2>1, TopIs
    <3>5. pc \in {"dims", "modifiers"} => value # NoTree \/ error
      BY <2>1 DEF ValueInv, WithValue, InRecord
    <3> QED BY <3>1, <3>2, <3>3, <3>4, <3>5 DEF TypeOK
  <2>3. CrashedBehindError
    BY <2>1 DEF CrashedBehindError, ResultInv
  <2>4. NoHoles
    <3>1. CASE result = NoTree
      BY <3>1, NoTreeIs DEF NoHoles
    <3>2. CASE Whole(result)
      BY <3>2 DEF NoHoles, Whole
    <3> QED BY <2>1, <3>1, <3>2 DEF ResultInv
  <2> QED BY <2>2, <2>3, <2>4 DEF ValuesWhole
<1> QED BY <1>1, ParserInvariant, PTL

\* A modifier reaches all that is in what it is declared of, however deep and
\* however it was made.
THEOREM AttributesReach == Spec => []AttributesReachItems
<1>1. IInv => AttributesReachItems
  <2> SUFFICES ASSUME IInv PROVE AttributesReachItems
    OBVIOUS
  <2>1. CASE result = NoTree
    <3>1. \A p \in DOMAIN result : result[p].size = 0
      BY <2>1, NoTreeIs
    <3> QED BY <3>1 DEF AttributesReachItems
  <2>2. CASE Whole(result)
    BY <2>2 DEF AttributesReachItems, Whole
  <2> QED BY <2>1, <2>2 DEF IInv, ResultInv
<1> QED BY <1>1, ParserInvariant, PTL

\* The table gives everyone who asks for a record the same value.
THEOREM SameAnswers == Spec => []SameForAll
<1>1. IInv => SameForAll
  BY DEF IInv, TableInv, FoundIn, SameForAll
<1> QED BY <1>1, ParserInvariant, PTL

\* Behind the end of its text, the parser reads on only in an alias and behind
\* the digits of a number.
THEOREM EndRead == Spec => EndReadTwice
<1>1. IInv /\ [Next]_vars
      => [ends = 2 /\ ends' = 3 => pc \in {"alias", "suffix", "closing", "closeScale"}]_vars
  <2> SUFFICES ASSUME IInv, Next, ends = 2, ends' = 3
               PROVE  pc \in {"alias", "suffix", "closing", "closeScale"}
    OBVIOUS
  <2>1. tok = EOF /\ pc \in AtEnd
    BY DEF IInv, EndInv
  <2>2. Parsing /\ ~Return
    <3>1. ~(RecParseValue \/ RecParseValueNoCache \/ RecParseValueMem)
      BY DEF RecParseValue, RecParseValueNoCache, RecParseValueMem, Open
    <3>2. ~RecParseValueHit /\ ~Return
      BY DEF RecParseValueHit, Return
    <3> QED BY <3>1, <3>2 DEF Next
  <2> QED BY <2>1, <2>2, ReadsAgain
<1> QED BY <1>1, ParserInvariant, PTL DEF Spec, EndReadTwice

=============================================================================
