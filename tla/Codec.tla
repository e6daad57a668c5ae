-------------------------------- MODULE Codec --------------------------------
(***************************************************************************)
(* What the codecs of src/src have in common: the trees of values that     *)
(* they pack and the fields of a packet.  A tree is a scalar of TypedValue *)
(* or                                                                      *)
(*    NULL      no value, as an item of an array may be                    *)
(*    ARRAY     its items                                                  *)
(*    RECORD    its items and their names                                  *)
(* A packet is a sequence of bytes.  An int has four of them, the lowest   *)
(* first; in an instance whose ints are narrow each holds fewer bits.      *)
(***************************************************************************)
EXTENDS TypedValue

\* NewValue makes arrays and records that are not nil.
NoValue == [type |-> "NULL", attr |-> {}, body |-> 0]
Array(items)         == [type |-> "ARRAY", attr |-> {}, items |-> items]
Record(names, items) == [type |-> "RECORD", attr |-> {}, names |-> names, items |-> items]

\* The scalars of a tree, from left to right.
RECURSIVE Leaves(_)
Leaves(v) == IF v.type \in {"ARRAY", "RECORD"}
             THEN FlattenSeq([i \in DOMAIN v.items |-> Leaves(v.items[i])]) ELSE <<v>>

\* Those that are not NULL.
Scalars(v) == SelectSeq(Leaves(v), LAMBDA x : x.type # "NULL")

IntRadix == 2^(Bits \div 4)
IntBytes(i) == [k \in 1..4 |-> ((i % 2^Bits) \div IntRadix^(k-1)) % IntRadix]
BytesInt(b) == Wrap(At(b, 0) + IntRadix * (At(b, 1) + IntRadix * (At(b, 2) + IntRadix * At(b, 3))))

\* The bytes of a size_t, of a double and of other fields that nothing but
\* their own reader looks into: the number and zeros.
Word(n, width) == [i \in 1..width |-> IF i = 1 THEN n ELSE 0]

Concat(parts) == FlattenSeq(parts)
SumOf(numbers) == FoldLeft(LAMBDA n, i : n + i, 0, numbers)

-----------------------------------------------------------------------------
\* Packing: the bytes of a buffer that have been written, and the size of the
\* packet in them, which is where the next are put.
NoBytes == [size |-> 0, bytes |-> <<>>]
Put(w, bytes) ==
  [size  |-> w.size + Len(bytes),
   bytes |-> SubSeq(w.bytes, 1, w.size) \o bytes \o From(w.bytes, w.size + Len(bytes))]

\* The terminator behind a text that sprintf writes is not counted: what is put
\* next takes its place, and the last one stays behind the packet.
Sprintf(w, text) == [Put(w, text \o <<NUL>>) EXCEPT !.size = @ - 1]

-----------------------------------------------------------------------------
\* Unpacking: the bytes that are read, and the value.
Field(size, v) == [size |-> size, value |-> v]

\* Items are read one behind the other; those that are NULL are left out.
ReadItems(v, UnPack(_, _), p) ==
  LET item(r, i) == LET f == UnPack(From(p, r.size), v.items[i])
                    IN [size |-> r.size + f.size, items |-> [r.items EXCEPT ![i] = f.value]]
      all == FoldLeft(item, [size |-> 0, items |-> v.items], [i \in DOMAIN v.items |-> i])
  IN Field(all.size, [v EXCEPT !.items = all.items])

=============================================================================
