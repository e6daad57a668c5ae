----------------------------- MODULE NativeCodec -----------------------------
(***************************************************************************)
(* src/src/Native.c: every value with its type and attributes in front of  *)
(* it, strings with their sizes, items of records with their names.        *)
(***************************************************************************)
EXTENDS Codec

TypeCode ==
  [NULL |-> 0, INT |-> 17, BOOL |-> 18, FLOAT |-> 19, NUMBER |-> 20, CHAR |-> 33, TEXT |-> 34,
   VARCHAR |-> 35, DBCODE |-> 36, SYMBOL |-> 38, BYTE |-> 49, BINARY |-> 50, OBJECT |-> 64,
   TIMESTAMP |-> 80, DATE |-> 81, TIME |-> 82, ARRAY |-> 129, RECORD |-> 130]

AttrBit == [NIL |-> 32768, EXPANDABLE |-> 128, DESC |-> 32]
AttrCode(attr) == SumOf([i \in 1..3 |-> LET a == <<"NIL", "EXPANDABLE", "DESC">>[i]
                                        IN IF a \in attr THEN AttrBit[a] ELSE 0])
AttrOf(n) == {a \in DOMAIN AttrBit : (n \div AttrBit[a]) % 2 = 1}

HeaderSize == 3
Header(v) == <<TypeCode[v.type]>> \o Word(AttrCode(v.attr), 2)

\* The least of the nine fields of a struct tm come first.
DateBytes(t) == Concat([i \in 1..9 |-> IF i <= 6 THEN Word(t[7 - i], 4) ELSE Word(0, 4)])
DateOf(p)    == [i \in 1..6 |-> At(p, 4 * (6 - i))]

Held(v) == SubSeq(v.body.sval, 1, v.body.length)

\* Fault: the terminator of a string is not packed.
UnterminatedString(s) == s

Terminated(s) == s \o <<NUL>>

RECURSIVE NativePackValue(_)
NativePackValue(v) ==
  LET body ==
        CASE v.type = "INT"       -> IntBytes(v.body)
          [] v.type \in DateTypes -> DateBytes(v.body)
          [] v.type = "BOOL"      -> IF v.body THEN <<84>> ELSE <<70>>
          [] v.type = "FLOAT"     -> Word(v.body, 8)
          [] v.type = "NUMBER"    -> Word(v.body.flen, 8) \o Word(v.body.slen, 8) \o v.body.sval
          [] v.type \in BitTypes  -> Word(v.body.length, 8) \o Held(v)
          [] v.type \in StringTypes ->
               Word(v.body.asize, 8) \o Word(v.body.length, 8)
                 \o IF IsNULL(v) THEN <<>> ELSE Terminated(v.body.sval)
          [] v.type = "OBJECT"    -> SubSeq(v.body, 1, Uuid)
          [] v.type = "ARRAY"     ->
               Word(Len(v.items), 8) \o Concat([i \in DOMAIN v.items |-> NativePackValue(v.items[i])])
          [] v.type = "RECORD"    ->
               Word(Len(v.items), 8)
                 \o Concat([i \in DOMAIN v.items |->
                              Terminated(v.names[i]) \o NativePackValue(v.items[i])])
          [] OTHER                -> <<>>
  IN IF v.type = "NULL" THEN <<>> ELSE Header(v) \o body

\* Fault: a string is as long as its buffer.
BufferSize(v) == v.body.asize

PackedStringSize(v) == IF IsNULL(v) THEN 0 ELSE Len(v.body.sval) + 1

RECURSIVE NativeSizeValue(_)
NativeSizeValue(v) ==
  LET size ==
        CASE v.type = "INT"         -> 4
          [] v.type \in DateTypes   -> 4 * 9
          [] v.type = "BOOL"        -> 1
          [] v.type = "FLOAT"       -> 8
          [] v.type = "NUMBER"      -> 8 + 8 + v.body.flen
          [] v.type \in BitTypes    -> 8 + v.body.length
          [] v.type \in StringTypes -> 8 + 8 + PackedStringSize(v)
          [] v.type = "OBJECT"      -> Uuid
          [] v.type = "ARRAY"       ->
               8 + SumOf([i \in DOMAIN v.items |-> NativeSizeValue(v.items[i])])
          [] v.type = "RECORD"      ->
               8 + SumOf([i \in DOMAIN v.items |->
                            Len(v.names[i]) + 1 + NativeSizeValue(v.items[i])])
          [] OTHER                  -> 0
  IN IF v.type = "NULL" THEN 0 ELSE HeaderSize + size

-----------------------------------------------------------------------------
(* Unpacking: how far the reader gets, -1 for a packet of something else,   *)
(* and the value.                                                           *)

Read(rc, v) == [rc |-> rc, value |-> v]

\* The string at p: its buffer grows to the size that is packed, and to more
\* if the text is longer; a string that was NULL is read as whatever follows.
ReadString(p, v) ==
  LET text == CString(From(p, 16))
      size == Larger(At(p, 0), Len(text) + 1)
  IN [v EXCEPT !.body = [length |-> IF v.type \in {"TEXT", "SYMBOL"} THEN At(p, 8) ELSE @.length,
                         asize  |-> Larger(@.asize, size), sval |-> text]]

\* BYTE keeps its buffer and what it has room for; what is behind the bytes
\* that were packed stays.
ReadByte(p, v) ==
  LET n == Smaller(At(p, 0), v.body.asize)
  IN [Overwritten(v, SubSeq(p, 9, 8 + n)) EXCEPT !.body.length = n]

ReadBinary(p, v) ==
  LET n == At(p, 0)
      u == [v EXCEPT !.body.sval = IF n > v.body.asize THEN Repeat(NUL, n) ELSE @,
                     !.body.asize = Larger(@, n), !.body.length = n]
  IN Overwritten(u, SubSeq(p, 9, 8 + n))

ReadNumber(p, v) ==
  [v EXCEPT !.body = [flen |-> At(p, 0), slen |-> At(p, 8), sval |-> SubSeq(p, 17, 16 + At(p, 0))]]

\* A scalar and the length of its body; setters write INT and BOOL, which
\* makes them non-nil.
ReadScalar(p, v) ==
  CASE v.type = "INT"         -> Read(4, WithInt(v, BytesInt(p)))
    [] v.type \in DateTypes   -> Read(4 * 9, [v EXCEPT !.body = DateOf(p)])
    [] v.type = "BOOL"        -> Read(1, WithBool(v, At(p, 0) = 84))
    [] v.type = "FLOAT"       -> Read(8, [v EXCEPT !.body = At(p, 0)])
    [] v.type = "NUMBER"      -> Read(16 + At(p, 0), ReadNumber(p, v))
    [] v.type = "BYTE"        -> Read(8 + At(p, 0), ReadByte(p, v))
    [] v.type = "BINARY"      -> Read(8 + At(p, 0), ReadBinary(p, v))
    [] v.type \in StringTypes -> Read(16 + Len(CString(From(p, 16))) + 1, ReadString(p, v))
    [] v.type = "OBJECT"      -> Read(Uuid, [Nil(v) EXCEPT !.body = SubSeq(p, 1, Uuid) \o <<NUL>>])
    [] OTHER                  -> Read(0, v)

CountSize == 8

\* Items are read until one fails; its code is then the result, which is 0
\* for an item that is NULL.  The count that was packed is not read.
RECURSIVE NativeUnPackValue(_, _)
NativeUnPackValue(p, v) ==
  LET named == v.type = "RECORD"
      item(r, i) ==
        LET at   == IF named THEN r.at + Len(v.names[i]) + 1 ELSE r.at
            read == NativeUnPackValue(From(p, at), v.items[i])
        IN CASE r.rc <= 0 -> r
             [] r.rc > 0 /\ named /\ CString(From(p, r.at)) # v.names[i] -> [r EXCEPT !.rc = -1]
             [] OTHER -> [rc |-> read.rc, at |-> at + read.rc,
                          items |-> [r.items EXCEPT ![i] = read.value]]
      attributed == [v EXCEPT !.attr = AttrOf(At(p, 1))]
      items  == FoldLeft(item, [rc |-> 1, at |-> HeaderSize + CountSize, items |-> v.items],
                         [i \in DOMAIN v.items |-> i])
      scalar == ReadScalar(From(p, HeaderSize), attributed)
  IN CASE v.type = "NULL" -> Read(0, v)
       [] v.type # "NULL" /\ At(p, 0) # TypeCode[v.type] -> Read(-1, v)
       [] v.type \in {"ARRAY", "RECORD"} /\ At(p, 0) = TypeCode[v.type] ->
            Read(IF items.rc > 0 THEN items.at ELSE items.rc, [attributed EXCEPT !.items = items.items])
       [] OTHER -> Read(HeaderSize + scalar.rc, scalar.value)

=============================================================================
