----------------------------- MODULE ValueTree ------------------------------
(***************************************************************************)
(* The trees of ValueStructs of src/src/value.c: how records, arrays and   *)
(* scalars refer to each other, how they are named and how they are        *)
(* duplicated, copied and freed.  A heap takes addresses to ValueStructs;  *)
(* each function of the API is an operator on heaps.                       *)
(*                                                                         *)
(* Two kinds of scalar stand for all: "INT" for those that are written by  *)
(* a setter of getset.c, which makes them non-nil, and "CHAR" for those    *)
(* that value.c writes directly.  Their contents are a member of Data.     *)
(*                                                                         *)
(* Clients hold the values that no other value holds.  They attach only    *)
(* those, never below themselves, and fill only slots that have no item.   *)
(* Definitions marked "Fault" are mistakes that one property catches.      *)
(***************************************************************************)
EXTENDS Integers, FiniteSets, SequencesExt

CONSTANTS Addresses,  \* of ValueStructs
          Scalars,    \* the kinds of scalar, of "INT" and "CHAR"
          Names,      \* of record items
          Data,       \* contents of scalars, with 0 for what is cleared
          Nils,       \* whether scalars are given a value or made nil
          MaxItems,   \* bound on the items of a value
          MaxHeap,    \* bound on the ValueStructs allocated at a time
          MaxRoots    \* bound on the values that clients hold

ASSUME HeapAssumption ==
  /\ Addresses \subseteq Nat \ {0} /\ IsFiniteSet(Addresses)
  /\ MaxHeap \in Nat /\ MaxHeap <= Cardinality(Addresses)
  /\ Scalars \subseteq {"INT", "CHAR"} /\ 0 \in Data /\ Nils \subseteq BOOLEAN
  /\ MaxItems \in Nat /\ MaxRoots \in Nat

NULL == 0

VARIABLES heap,     \* the ValueStructs that are allocated
          crashed   \* NULL was dereferenced

vars == <<heap, crashed>>

-----------------------------------------------------------------------------
(* Heaps *)

\* v is the new contents of the address a.
Put(h, a, v) == [x \in DOMAIN h \cup {a} |-> IF x = a THEN v ELSE h[x]]

ItemSet(h, v) == Range(h[v].items) \ {NULL}

\* What FreeValueStruct frees along with v.
Held(h, v) == ItemSet(h, v) \cup ({h[v].prototype} \ {NULL})

\* The values that clients hold.
Roots(h) == {v \in DOMAIN h : \A x \in DOMAIN h : v \notin Held(h, x)}

Fresh(h) == CHOOSE a \in Addresses \ DOMAIN h : \A b \in Addresses \ DOMAIN h : a <= b

\* The bounds on what calls allocate.
Room(h)    == MaxHeap - Cardinality(DOMAIN h)
MayHold(h) == Cardinality(Roots(h)) < MaxRoots

\* What is reached from x by steps within D.
Reached(D, After(_), x) ==
  LET closed[S \in SUBSET D] ==
        LET T == S \cup UNION {After(y) : y \in S} IN IF T = S THEN S ELSE closed[T]
  IN closed[{x}]

Below(h, v) == LET after(x) == ItemSet(h, x) IN Reached(DOMAIN h, after, v)
Owned(h, v) == LET after(x) == Held(h, x) IN Reached(DOMAIN h, after, v)

\* Pairs of values at the same place below l and r.
Pairs(h, l, r) ==
  LET after(p) == {<<h[p[1]].items[i], h[p[2]].items[i]>> :
                     i \in {j \in (DOMAIN h[p[1]].items) \cap (DOMAIN h[p[2]].items) :
                              NULL \notin {h[p[1]].items[j], h[p[2]].items[j]}}}
  IN Reached((DOMAIN h) \X (DOMAIN h), after, <<l, r>>)

-----------------------------------------------------------------------------
(* Making and freeing values *)

New(type) ==
  [type |-> type, nil |-> type = "CHAR", expandable |-> FALSE, parent |-> NULL,
   items |-> <<>>, names |-> <<>>, members |-> [n \in {} |-> 0],
   prototype |-> NULL, data |-> 0]

Freed(h, v) == [x \in DOMAIN h \ Owned(h, v) |-> h[x]]

\* Fault: the duplicate of an array shares its prototype.
PrototypeShared(v) == v.prototype

\* The prototype of a duplicated array.
DuplicatePrototype(v) == NULL

\* Fault: where the copy of an item hangs is taken from the template.
TemplateParent(to, container, v) == v.parent

CopyParent(to, container, v) == to[container]

\* SetValueInteger makes the copy non-nil; other scalars keep the attribute.
DuplicateNil(v) == v.nil /\ v.type # "INT"

\* Fault: only what is empty is cleared.
DuplicateDataAlways(v, fCopy) == v.data

DuplicateData(v, fCopy) == IF fCopy THEN v.data ELSE 0

\* The names of a duplicated record: of equal ones the last is found.
DuplicateMembers(v) ==
  [n \in Range(v.names) |->
     CHOOSE i \in DOMAIN v.names :
       v.names[i] = n /\ \A j \in DOMAIN v.names : v.names[j] = n => j <= i]

\* The item of an array that has none is dereferenced.
CannotDuplicate(h, v) ==
  \E x \in Below(h, v) : h[x].type = "ARRAY" /\ NULL \in Range(h[x].items)

\* DuplicateValue: the heap with a duplicate of v, and its address.
Duplicate(h, v, fCopy) ==
  LET below == Below(h, v)
      free  == Addresses \ DOMAIN h
      rank  == [a \in free |-> Cardinality({b \in free : b < a})]
      to    == [x \in below |-> CHOOSE a \in free : rank[a] = Cardinality({y \in below : y < x})]
      holder(x) == CHOOSE y \in below : x \in ItemSet(h, y)
      copy(x) == [h[x] EXCEPT
                    !.nil       = DuplicateNil(h[x]),
                    !.parent    = IF x = v THEN NULL ELSE CopyParent(to, holder(x), h[x]),
                    !.items     = [i \in DOMAIN @ |-> to[@[i]]],
                    !.members   = DuplicateMembers(h[x]),
                    !.prototype = DuplicatePrototype(h[x]),
                    !.data      = DuplicateData(h[x], fCopy)]
      copied == {to[x] : x \in below}
  IN [heap |-> [a \in DOMAIN h \cup copied |->
                  IF a \in copied THEN copy(CHOOSE x \in below : to[x] = a) ELSE h[a]],
      value |-> to[v]]

\* MakeValueArray: n duplicates of v, which may be NULL.
Duplicates(h, v, n, fCopy) ==
  LET made[k \in 0..n] ==
        IF k = 0 THEN [heap |-> h, values |-> <<>>]
        ELSE IF v = NULL
        THEN [heap |-> h, values |-> Append(made[k-1].values, NULL)]
        ELSE LET d == Duplicate(made[k-1].heap, v, fCopy)
             IN [heap |-> d.heap, values |-> Append(made[k-1].values, d.value)]
  IN made[n]

HasRoom(h, v, n) == v # NULL => n * Cardinality(Below(h, v)) <= Room(h)

-----------------------------------------------------------------------------
(* Adding items *)

\* ValueAddRecordItem: of equal names the first is found.
AddRecordItem(h, upper, name, value) ==
  LET u == h[upper]
      n == Len(u.items) + 1
      added == [u EXCEPT
                  !.items   = Append(@, value),
                  !.names   = Append(@, name),
                  !.members = IF name \in DOMAIN @ THEN @
                              ELSE [x \in DOMAIN @ \cup {name} |-> IF x = name THEN n ELSE @[x]]]
  IN [h EXCEPT ![upper] = added, ![value].parent = upper]

\* ValueAddArrayItem: -1 adds at the end; slots that are skipped have no item.
AddArrayItem(h, upper, ix, value) ==
  LET items == h[upper].items
      at    == IF ix < 0 THEN Len(items) + 1 ELSE ix + 1
      size  == IF at > Len(items) THEN at ELSE Len(items)
      grown == [i \in 1..size |-> IF i = at THEN value
                                  ELSE IF i <= Len(items) THEN items[i] ELSE NULL]
  IN [h EXCEPT ![upper].items = grown, ![value].parent = upper]

\* An array as RecParser.c defines one: value becomes the prototype, and its
\* duplicates the items unless the array is expandable.
DefineArray(h, value, count, expandable) ==
  LET made  == Duplicates(h, value, IF expandable THEN 0 ELSE count, FALSE)
      array == Fresh(made.heap)
      node  == [New("ARRAY") EXCEPT !.items = made.values, !.prototype = value,
                                    !.expandable = expandable]
      linked == [x \in DOMAIN made.heap |->
                   IF x \in Range(made.values) THEN [made.heap[x] EXCEPT !.parent = array]
                   ELSE made.heap[x]]
  IN Put(linked, array, node)

\* Fault: the new items are put where the old ones are.
ExpandedOver(old, new) == new \o old

ExpandedItems(old, new) == old \o new

\* GetArrayItem: index + 1 items, the new ones duplicates of the prototype;
\* nothing sets their parent.
Expand(h, v, index) ==
  LET made == Duplicates(h, h[v].prototype, index + 1 - Len(h[v].items), FALSE)
  IN [made.heap EXCEPT ![v].items = ExpandedItems(@, made.values)]

\* Bound: an index is not negative.  A negative one makes the code allocate
\* nothing and copy the old items there, as it stands (value.c:312-318).
CanExpand(h, v, index) ==
  /\ h[v].type = "ARRAY" /\ h[v].expandable /\ index >= Len(h[v].items)
  /\ HasRoom(h, h[v].prototype, index + 1 - Len(h[v].items))

CannotExpand(h, v) == h[v].prototype # NULL /\ CannotDuplicate(h, h[v].prototype)

-----------------------------------------------------------------------------
(* Names *)

\* ValueIndex, from 0; a value that its parent does not have is at 0, too.
ValueIndex(h, v) ==
  LET items == h[h[v].parent].items
      found == {i \in DOMAIN items : items[i] = v}
  IN IF found = {} THEN 0 ELSE (CHOOSE i \in found : \A j \in found : i <= j) - 1

\* The name of v in its parent: what GetItemLongName has to look up.
ValueName(h, v) ==
  LET p == h[h[v].parent]
  IN IF p.type = "RECORD" THEN [name |-> p.names[ValueIndex(h, v) + 1], index |-> -1]
     ELSE [name |-> "", index |-> ValueIndex(h, v)]

\* v and the values above it, from the top down.
Chain(h, v) ==
  LET up[k \in 0..Cardinality(DOMAIN h)] ==
        IF k = 0 THEN <<v>>
        ELSE LET c == up[k-1]
             IN IF h[Head(c)].parent = NULL THEN c ELSE <<h[Head(c)].parent>> \o c
  IN up[Cardinality(DOMAIN h)]

Top(h, v)      == Head(Chain(h, v))
\* GetValueLongName: the names that lead from the top to v.  The top itself, for
\* which the code has NULL, has none.  Bound: the text of the names fits in
\* SIZE_LONGNAME, where the code cuts it off.
LongName(h, v) == LET c == Tail(Chain(h, v)) IN [i \in DOMAIN c |-> ValueName(h, c[i])]

GetRecordItem(h, v, name) ==
  IF h[v].type = "RECORD" /\ name \in DOMAIN h[v].members
  THEN h[v].items[h[v].members[name]] ELSE NULL

\* GetItemLongName, where no array has to be expanded: from v by one part s of
\* a long name, and by all parts.
NextItem(h, v, s) ==
  IF v = NULL THEN NULL
  ELSE IF s.index < 0 THEN GetRecordItem(h, v, s.name)
  ELSE IF s.index < Len(h[v].items) THEN h[v].items[s.index + 1]
  ELSE NULL

GetItemLongName(h, root, longname) ==
  LET at[k \in 0..Len(longname)] ==
        IF k = 0 THEN root ELSE NextItem(h, at[k-1], longname[k])
  IN at[Len(longname)]

-----------------------------------------------------------------------------
(* Contents *)

Initialized(h, v) ==
  [x \in DOMAIN h |->
     IF x \in Below(h, v) /\ h[x].type \in Scalars
     THEN [h[x] EXCEPT !.data = 0, !.nil = h[x].type # "INT"] ELSE h[x]]

\* Attributes and contents go from each value to the one at its place, except
\* from values that are nil.
Copied(h, vd, vs) ==
  LET pairs == Pairs(h, vd, vs)
      from(x) == CHOOSE y \in DOMAIN h : <<x, y>> \in pairs
  IN [x \in DOMAIN h |->
        IF \E y \in DOMAIN h : <<x, y>> \in pairs /\ ~h[y].nil
        THEN [h[x] EXCEPT !.nil = FALSE, !.expandable = h[from(x)].expandable,
                          !.data = h[from(x)].data]
        ELSE h[x]]

\* EqualValue compares structures, not contents.
EqualValue(h, l, r) ==
  \A p \in Pairs(h, l, r) :
    LET a == h[p[1]]
        b == h[p[2]]
    IN a.type = b.type /\ Len(a.items) = Len(b.items) /\ a.names = b.names

HasAllItems(h, v) == \A x \in Below(h, v) : NULL \notin Range(h[x].items)

-----------------------------------------------------------------------------
(* The calls *)

Init == heap = [a \in {} |-> New("INT")] /\ crashed = FALSE

Call(h) == heap' = h /\ UNCHANGED crashed
Crash   == crashed' = TRUE /\ heap' = [a \in {} |-> New("INT")]

NewValue == \E type \in Scalars \cup {"RECORD", "ARRAY"} :
              /\ Room(heap) > 0 /\ MayHold(heap)
              /\ Call(Put(heap, Fresh(heap), New(type)))

FreeValueStruct == \E v \in Roots(heap) : Call(Freed(heap, v))

ParValueDefine ==
  \E value \in Roots(heap), count \in 1..MaxItems, expandable \in BOOLEAN :
    /\ HasRoom(heap, value, IF expandable THEN 1 ELSE count + 1)
    /\ IF CannotDuplicate(heap, value) /\ ~expandable THEN Crash
       ELSE Call(DefineArray(heap, value, count, expandable))

ValueAddRecordItem ==
  \E upper \in DOMAIN heap, value \in Roots(heap), name \in Names :
    /\ heap[upper].type = "RECORD" /\ Len(heap[upper].items) < MaxItems
    /\ upper \notin Owned(heap, value)
    /\ Call(AddRecordItem(heap, upper, name, value))

ValueAddArrayItem ==
  \E upper \in DOMAIN heap, value \in Roots(heap), ix \in -1..MaxItems-1 :
    /\ heap[upper].type = "ARRAY"
    /\ ix < 0 => Len(heap[upper].items) < MaxItems
    /\ ix >= 0 /\ ix < Len(heap[upper].items) => heap[upper].items[ix + 1] = NULL
    /\ upper \notin Owned(heap, value)
    /\ Call(AddArrayItem(heap, upper, ix, value))

GetArrayItem ==
  \E v \in DOMAIN heap, index \in 0..MaxItems-1 :
    /\ CanExpand(heap, v, index)
    /\ IF CannotExpand(heap, v) THEN Crash ELSE Call(Expand(heap, v, index))

DuplicateValue ==
  \E v \in DOMAIN heap, fCopy \in BOOLEAN :
    /\ HasRoom(heap, v, 1) /\ MayHold(heap)
    /\ IF CannotDuplicate(heap, v) THEN Crash ELSE Call(Duplicate(heap, v, fCopy).heap)

InitializeValue == \E v \in DOMAIN heap : Call(Initialized(heap, v))

CopyValue ==
  \E vd, vs \in DOMAIN heap :
    /\ vd # vs /\ HasAllItems(heap, vd) /\ HasAllItems(heap, vs)
    /\ EqualValue(heap, vd, vs)
    /\ Call(Copied(heap, vd, vs))

\* A setter of getset.c, or ValueIsNil.
SetValue == \E v \in DOMAIN heap, d \in Data, nil \in Nils :
              /\ heap[v].type \in Scalars
              /\ Call([heap EXCEPT ![v].data = d, ![v].nil = nil])

Next == /\ ~crashed
        /\ \/ NewValue \/ FreeValueStruct \/ ParValueDefine
           \/ ValueAddRecordItem \/ ValueAddArrayItem \/ GetArrayItem
           \/ DuplicateValue \/ InitializeValue \/ CopyValue \/ SetValue

Spec == Init /\ [][Next]_vars

-----------------------------------------------------------------------------
(* Type correctness: the heap stays a partial function to ValueStructs whose *)
(* names and members belong to the items of records (value.h:63-130).        *)

Nodes == [type : Scalars \cup {"RECORD", "ARRAY"}, nil : BOOLEAN, expandable : BOOLEAN,
          parent : Addresses \cup {NULL}, prototype : Addresses \cup {NULL}, data : Data,
          items : Seq(Addresses \cup {NULL}), names : Seq(Names),
          members : UNION {[N -> 1..MaxItems] : N \in SUBSET Names}]

TypeOK ==
  /\ DOMAIN heap \subseteq Addresses /\ crashed \in BOOLEAN
  /\ \A v \in DOMAIN heap :
       /\ heap[v] \in Nodes
       /\ Len(heap[v].names) = (IF heap[v].type = "RECORD" THEN Len(heap[v].items) ELSE 0)
       /\ DOMAIN heap[v].members = Range(heap[v].names)

-----------------------------------------------------------------------------
(* Safety *)

\* Where a value refers to others: to its prototype and its items.
Slot(h, v, i) ==
  IF i = 0 THEN h[v].prototype ELSE IF i <= Len(h[v].items) THEN h[v].items[i] ELSE NULL

Places(h, x) ==
  {p \in (DOMAIN h) \X (0..MaxItems) : x = Slot(h, p[1], p[2])}

\* Whatever is built, duplicated, expanded and freed, the values are a forest:
\* what a value refers to is allocated, nothing is held twice (FreeValueStruct
\* frees every item, value.c:150-222, and would free it twice), no value holds
\* itself, and a value that has a parent is an item of it.
Forest ==
  \A v \in DOMAIN heap :
    /\ Held(heap, v) \subseteq DOMAIN heap
    /\ Cardinality(Places(heap, v)) <= 1
    /\ \A x \in Held(heap, v) : v \notin Owned(heap, x)
    /\ heap[v].parent # NULL =>
         heap[v].parent \in DOMAIN heap /\ v \in ItemSet(heap, heap[v].parent)

\* However values are built, duplicated, expanded and freed, each is of its type
\* and they are a forest.
WellFormed == TypeOK /\ Forest

NamesDistinct(h, v) ==
  \A x \in Range(Chain(h, v)) : Cardinality(Range(h[x].names)) = Len(h[x].names)

\* The long name that GetValueLongName gives to a value (value.c:255-279) leads
\* GetItemLongName (value.c:344-385) from the top of its parents back to it,
\* if no record on the way has two items of one name: parents, indices and
\* member tables agree, in duplicates as in originals.
LongNameFinds ==
  \A v \in DOMAIN heap :
    NamesDistinct(heap, v) => GetItemLongName(heap, Top(heap, v), LongName(heap, v)) = v

\* A duplicate has the structure of its original and shares nothing with it
\* (DuplicateValue, value.c:1064-1218); it has the contents of all scalars of
\* the original when they are asked for, and none of them otherwise.  So that
\* no two contents can be mistaken, each value holds its own address here.
DuplicateIsFaithful ==
  LET full == [x \in DOMAIN heap |-> [heap[x] EXCEPT !.data = x]]
  IN \A v \in Roots(heap), fCopy \in BOOLEAN :
       ~CannotDuplicate(heap, v) =>
         LET d == Duplicate(full, v, fCopy)
         IN /\ EqualValue(d.heap, v, d.value)
            /\ Owned(d.heap, d.value) \cap DOMAIN heap = {}
            /\ \A p \in Pairs(d.heap, v, d.value) :
                 d.heap[p[2]].data = IF fCopy THEN full[p[1]].data ELSE 0

\* GetArrayItem, a look-up that may enlarge the array (value.c:308-327), leaves
\* every value that could be found from anywhere where it was found.
ExpandKeeps ==
  \A v \in DOMAIN heap, index \in 0..MaxItems-1 :
    CanExpand(heap, v, index) /\ ~CannotExpand(heap, v) =>
      LET found(h, x) == GetItemLongName(h, Top(heap, x), LongName(heap, x))
          expanded == Expand(heap, v, index)
      IN \A x \in DOMAIN heap :
           found(heap, x) # NULL => found(expanded, x) = found(heap, x)

-----------------------------------------------------------------------------
(* What the code does not do *)

\* testvalue.c:178-185 takes any index of an array of variable size to give an
\* item.  In a duplicate it does not: DuplicateValue keeps the attribute
\* (value.c:1071) and drops the prototype (value.c:1165-1174), so GetArrayItem
\* makes items that are NULL.
ExpandableGivesItem ==
  [][GetArrayItem /\ ~crashed' =>
       \A v \in DOMAIN heap :
         heap[v].expandable /\ Len(heap'[v].items) > Len(heap[v].items)
           => NULL \notin Range(SubSeq(heap'[v].items, Len(heap[v].items) + 1, Len(heap'[v].items)))]_vars

=============================================================================
