-------------------------------- MODULE Cobol --------------------------------
(***************************************************************************)
(* The two COBOL codecs, src/src/OpenCOBOL.c and src/src/dotCOBOL.c, with  *)
(* src/src/cobolvalue.c: fields of fixed size without any header.  opt has *)
(*    textsize, arraysize, fBigEndian   of the CONVOPT                     *)
(*    stale                             what the caller's buffer held      *)
(* A packet is what is written: behind a date there is a terminator.        *)
(***************************************************************************)
EXTENDS Codec

\* StringC2Cobol: spaces from the first NUL to the end of the field.
StringC2Cobol(field) == Padded(CString(field), Space, Len(field))

\* StringCobol2C: spaces and NULs at the end of the field become NULs.
StringCobol2C(field) ==
  LET kept == {i \in DOMAIN field : field[i] \notin {Space, NUL}}
  IN IF At(field, 0) = NUL THEN field
     ELSE [i \in DOMAIN field |-> IF \E k \in kept : i <= k THEN field[i] ELSE NUL]

\* The first n bytes of a text in a buffer that is longer.
Taken(text, n, stale) == SubSeq(text \o <<NUL>> \o Repeat(stale, n), 1, n)

Swapped(b) == <<b[4], b[3], b[2], b[1]>>

\* The sign of a NUMBER, which is in the first digit, goes to the last.
SignToLast(s) ==
  IF Signed(s[1])
  THEN LET t == [s EXCEPT ![1] = Low6(@)] IN [t EXCEPT ![Len(s)] = Mark(@)]
  ELSE s

\* What both codecs make of the types that they treat alike.
PackLike(opt, v) ==
  CASE v.type = "FLOAT"     -> Word(v.body, 8)
    [] v.type = "BOOL"      -> IF v.body THEN <<84>> ELSE <<70>>
    [] v.type = "BYTE"      -> SubSeq(v.body.sval, 1, v.body.length)
    [] v.type = "BINARY"    ->
         Padded(Taken(ValueToBinary(v), Smaller(opt.textsize, v.body.length), opt.stale),
                NUL, opt.textsize)
    [] v.type = "OBJECT"    -> StringC2Cobol(SubSeq(v.body, 1, Uuid))
    [] OTHER                -> <<>>

CharField(v, text) == IF IsNil(v) THEN Repeat(NUL, v.body.length) ELSE StringC2Cobol(text)

-----------------------------------------------------------------------------
(* OpenCOBOL *)

IntegerC2Cobol(opt, b) == IF opt.fBigEndian THEN Swapped(b) ELSE b

\* A number of one digit loses its sign: the bit is set and cleared again in
\* the one byte.
FixedCobol2C(s) ==
  IF Signed(s[Len(s)])
  THEN LET t == [s EXCEPT ![1] = Mark(@)]
           last == t[Len(s)]
       IN [t EXCEPT ![Len(s)] = IF Signed(last) THEN last - SignBit ELSE last + SignBit]
  ELSE s

FixedC2Cobol(s) == SignToLast(s)

\* A TEXT is cut to the length it was last given as bytes, and written over what
\* the field held, which shows behind it up to a NUL.
TextField(opt, v, field) ==
  LET n == Smaller(opt.textsize, v.body.length)
  IN StringC2Cobol(Taken(v.body.sval, n, opt.stale) \o From(field, n))

\* What is in the buffer where the next field goes: a date's terminator may be.
FieldAt(opt, w) ==
  [i \in 1..opt.textsize |-> IF w.size + i \in DOMAIN w.bytes THEN w.bytes[w.size + i] ELSE opt.stale]

OpenCOBOL_Field(opt, v) ==
  CASE v.type = "INT"                           -> IntegerC2Cobol(opt, IntBytes(v.body))
    [] v.type \in {"CHAR", "VARCHAR", "DBCODE"} ->
         CharField(v, SubSeq(Padded(v.body.sval, NUL, v.body.length), 1, v.body.length))
    [] v.type = "NUMBER"                        -> FixedC2Cobol(v.body.sval)
    [] OTHER                                    -> PackLike(opt, v)

RECURSIVE OpenCOBOL_Pack(_, _, _)
OpenCOBOL_Pack(opt, w, v) ==
  CASE v.type \in {"TEXT", "SYMBOL"}  -> Put(w, TextField(opt, v, FieldAt(opt, w)))
    [] v.type \in DateTypes           -> Sprintf(w, PrintDate(v.type, v.body))
    [] v.type \in {"ARRAY", "RECORD"} -> FoldLeft(LAMBDA x, item : OpenCOBOL_Pack(opt, x, item), w, v.items)
    [] OTHER                          -> Put(w, OpenCOBOL_Field(opt, v))

OpenCOBOL_PackValue(opt, v) == OpenCOBOL_Pack(opt, NoBytes, v)

\* What both codecs count for the types that they treat alike.
FieldSize(opt, v) ==
  CASE v.type = "INT"       -> 4
    [] v.type = "FLOAT"     -> 8
    [] v.type = "BOOL"      -> 1
    [] v.type \in {"BINARY", "TEXT", "SYMBOL"}          -> opt.textsize
    [] v.type \in {"BYTE", "CHAR", "VARCHAR", "DBCODE"} -> v.body.length
    [] v.type = "NUMBER"    -> v.body.flen
    [] v.type = "OBJECT"    -> Uuid
    [] v.type \in DateTypes -> DateSize[v.type]
    [] OTHER                -> 0

RECURSIVE OpenCOBOL_SizeValue(_, _)
OpenCOBOL_SizeValue(opt, v) ==
  IF v.type \in {"ARRAY", "RECORD"}
  THEN SumOf([i \in DOMAIN v.items |-> OpenCOBOL_SizeValue(opt, v.items[i])])
  ELSE FieldSize(opt, v)

\* A date whose month and day are checked by mktime, and a time that nothing
\* checks.
ReadDateField(p, v, yearDigits) ==
  LET places == [Places[v.type] EXCEPT ![1][2] = Smaller(@, yearDigits)]
  IN Field(DateSize[v.type], [v EXCEPT !.body = Checked(v.type, ReadPlaces(p, places))])

\* What both codecs read of the types that they treat alike; v is non-nil.
ReadLike(opt, p, v) ==
  CASE v.type = "FLOAT"  -> Field(8, [v EXCEPT !.body = At(p, 0)])
    [] v.type = "BOOL"   -> Field(1, WithBool(v, At(p, 0) = 84))
    [] v.type = "BYTE"   -> Field(v.body.length, Overwritten(v, SubSeq(p, 1, v.body.length)))
    [] v.type = "BINARY" -> Field(opt.textsize, SetValueBinary(v, SubSeq(p, 1, opt.textsize)))
    [] v.type = "OBJECT" ->
         Field(Uuid, [v EXCEPT !.body = StringCobol2C(SubSeq(p, 1, Uuid)) \o <<NUL>>])
    [] OTHER             -> Field(0, Nil(v))

RECURSIVE OpenCOBOL_UnPackValue(_, _, _)
OpenCOBOL_UnPackValue(opt, p, value) ==
  LET v    == NonNil(value)
      text == StringCobol2C(SubSeq(p, 1, IF v.type \in {"TEXT", "SYMBOL"} THEN opt.textsize
                                         ELSE v.body.length))
      next(q, x) == OpenCOBOL_UnPackValue(opt, q, x)
  IN CASE v.type = "NULL" -> Field(0, value)
       [] v.type = "INT"  -> Field(4, WithInt(v, BytesInt(IntegerC2Cobol(opt, SubSeq(p, 1, 4)))))
       [] v.type \in StringTypes ->
            Field(Len(text), SetValueStringWithLength(v, CString(text), Len(text)))
       [] v.type = "NUMBER" ->
            Field(v.body.flen, [v EXCEPT !.body.sval = FixedCobol2C(SubSeq(p, 1, v.body.flen))])
       [] v.type \in DateTypes           -> ReadDateField(p, v, 4)
       [] v.type \in {"ARRAY", "RECORD"} -> ReadItems(v, next, p)
       [] OTHER                          -> ReadLike(opt, p, v)

-----------------------------------------------------------------------------
(* dotCOBOL *)

dotCOBOL_FixedC2Cobol(s) == IF s[1] >= 112 THEN SignToLast(s) ELSE s

dotCOBOL_FixedCobol2C(s) ==
  IF s[Len(s)] >= 112
  THEN LET t == [s EXCEPT ![Len(s)] = Low6(@)] IN [t EXCEPT ![1] = Mark(@)]
  ELSE s

\* The field is cleared first: a TEXT always ends where it was cut.
dotCOBOL_Field(opt, v) ==
  CASE v.type = "INT"                           -> Swapped(IntBytes(v.body))
    [] v.type \in {"TEXT", "SYMBOL"}            -> TextField(opt, v, Repeat(NUL, opt.textsize))
    [] v.type \in {"CHAR", "VARCHAR", "DBCODE"} ->
         CharField(v, Taken(v.body.sval, v.body.length, opt.stale))
    [] v.type = "NUMBER"                        -> dotCOBOL_FixedC2Cobol(v.body.sval)
    [] OTHER                                    -> PackLike(opt, v)

RECURSIVE dotCOBOL_Pack(_, _, _)
dotCOBOL_Pack(opt, w, v) ==
  CASE v.type \in DateTypes           -> Sprintf(w, PrintDate(v.type, v.body))
    [] v.type \in {"ARRAY", "RECORD"} -> FoldLeft(LAMBDA x, item : dotCOBOL_Pack(opt, x, item), w, v.items)
    [] OTHER                          -> Put(w, dotCOBOL_Field(opt, v))

dotCOBOL_PackValue(opt, v) == dotCOBOL_Pack(opt, NoBytes, v)

\* Every item of an array counts as the first one does; an array that has none
\* yet counts as arraysize of its item 0.  That item is not there (NULL, here),
\* and the code that looks at it is undefined.
RECURSIVE dotCOBOL_SizeValue(_, _)
dotCOBOL_SizeValue(opt, v) ==
  LET empty == v.items = <<>>
  IN CASE v.type = "ARRAY"  -> dotCOBOL_SizeValue(opt, IF empty THEN NoValue ELSE v.items[1])
                                 * (IF empty THEN opt.arraysize ELSE Len(v.items))
       [] v.type = "RECORD" -> SumOf([i \in DOMAIN v.items |-> dotCOBOL_SizeValue(opt, v.items[i])])
       [] OTHER             -> FieldSize(opt, v)

\* Years are read from the first two of their four digits.
RECURSIVE dotCOBOL_UnPackValue(_, _, _)
dotCOBOL_UnPackValue(opt, p, value) ==
  LET v    == NonNil(value)
      text == CString(StringCobol2C(SubSeq(p, 1, IF v.type \in {"TEXT", "SYMBOL"} THEN opt.textsize
                                                 ELSE v.body.length)))
      size == IF v.type \in {"TEXT", "SYMBOL"} THEN opt.textsize ELSE v.body.length
      next(q, x) == dotCOBOL_UnPackValue(opt, q, x)
  IN CASE v.type = "NULL" -> Field(0, value)
       [] v.type = "INT"  -> Field(4, WithInt(v, BytesInt(Swapped(SubSeq(p, 1, 4)))))
       [] v.type \in StringTypes -> Field(size, WithString(v, text))
       [] v.type = "NUMBER" ->
            Field(v.body.flen, [v EXCEPT !.body.sval = dotCOBOL_FixedCobol2C(SubSeq(p, 1, v.body.flen))])
       [] v.type \in DateTypes           -> ReadDateField(p, v, 2)
       [] v.type \in {"ARRAY", "RECORD"} -> ReadItems(v, next, p)
       [] OTHER                          -> ReadLike(opt, p, v)

=============================================================================
