----------------------------- MODULE TypedValue -----------------------------
(***************************************************************************)
(* Scalar values and the conversions between their types: src/src/getset.c *)
(* and the functions of src/src/value.c on scalars.  A value has a type,   *)
(* attributes and a body:                                                  *)
(*    strings, BYTE, BINARY   [length, asize, sval]; NULL has no asize     *)
(*    NUMBER                  a number of Fixed                            *)
(*    INT, FLOAT, BOOL        an int, a count of hundredths, a Boolean     *)
(*    TIMESTAMP, DATE, TIME   <<year, mon, mday, hour, min, sec>>          *)
(*    OBJECT                  Uuid bytes and a terminator                  *)
(* A setter is an operator from values to values; codesets are NULL.       *)
(***************************************************************************)
EXTENDS Fixed

CONSTANTS Uuid  \* length of an OBJECT's name: 36 in the program

ASSUME UuidAssumption == Uuid \in Nat \ {0}

StringTypes == {"CHAR", "VARCHAR", "DBCODE", "TEXT", "SYMBOL"}
BitTypes    == {"BYTE", "BINARY"}
CharTypes   == StringTypes \cup BitTypes
DateTypes   == {"TIMESTAMP", "DATE", "TIME"}
ScalarTypes == CharTypes \cup DateTypes \cup {"NUMBER", "INT", "FLOAT", "BOOL", "OBJECT"}

\* The strings that getters read numbers and dates from.
ReadTypes == StringTypes \ {"DBCODE"}

IsNil(v)  == "NIL" \in v.attr
Nil(v)    == [v EXCEPT !.attr = @ \cup {"NIL"}]
NonNil(v) == [v EXCEPT !.attr = @ \ {"NIL"}]

IsNULL(v) == v.type \in CharTypes /\ v.body.asize = 0

Larger(a, b) == IF a > b THEN a ELSE b

-----------------------------------------------------------------------------
(* Dates.  mktime and localtime: a calendar whose months have 31 days.       *)

NoDate == <<0, 0, 0, 0, 0, 0>>

\* What overflows a field goes to the one above it.
Carried(t, i, low, radix) ==
  [t EXCEPT ![i] = low + ((@ - low) % radix), ![i-1] = @ + ((t[i] - low) \div radix)]

\* What mktime makes of the fields.
Normalized(t) ==
  Carried(Carried(Carried(Carried(Carried(t, 6, 0, 60), 5, 0, 60), 4, 0, 24), 3, 1, 31), 2, 0, 12)

\* Bound: the dates whose seconds are counted.
InEpoch(t) == LET u == Normalized(t) IN u[1] = 70 /\ u[2] < 3

Localtime(seconds) == Normalized(<<70, 0, 1, 0, 0, seconds>>)
Mktime(date) ==
  LET t == Normalized(date)
  IN ((((t[1] - 70) * 372 + t[2] * 31 + t[3] - 1) * 24 + t[4]) * 60 + t[5]) * 60 + t[6]

DatePart(t) == SubSeq(t, 1, 3) \o <<0, 0, 0>>
TimePart(t) == <<0, 0, 0>> \o SubSeq(t, 4, 6)

\* Where the texts of a type have the six fields, and in how many digits.
Places ==
  [TIMESTAMP |-> <<<<0, 4>>, <<4, 2>>, <<6, 2>>, <<8, 2>>, <<10, 2>>, <<12, 2>>>>,
   DATE      |-> <<<<0, 4>>, <<4, 2>>, <<6, 2>>, <<8, 0>>, <<8, 0>>, <<8, 0>>>>,
   TIME      |-> <<<<0, 0>>, <<0, 0>>, <<0, 0>>, <<0, 2>>, <<2, 2>>, <<4, 2>>>>]

\* January is 0, and 01 in a text.
Shift(i, digits) == IF i = 2 /\ digits > 0 THEN 1 ELSE 0

PrintDate(type, t) ==
  FlattenSeq([i \in 1..6 |-> LET digits == Places[type][i][2]
                             IN IF digits = 0 THEN <<>> ELSE PrintInt(t[i] + Shift(i, digits), digits)])

\* Digits at their places; behind the end of s there are none.
ReadPlaces(s, places) ==
  [i \in 1..6 |-> StrToInt(From(s, places[i][1]), places[i][2]) - Shift(i, places[i][2])]

DateSize == [TIMESTAMP |-> 14, DATE |-> 8, TIME |-> 6]

\* mktime is shown every date but a TIME.
Checked(type, t) == IF type = "TIME" THEN t ELSE Normalized(t)

ReadDate(type, s) == Checked(type, ReadPlaces(s, Places[type]))

-----------------------------------------------------------------------------
(* Floats and escapes as text                                                *)

Fraction(f) == Decimal(Abs(f) % Unit, Scale)
Whole(f)    == (IF f < 0 THEN <<Minus>> ELSE <<>>) \o PrintInt(Abs(f) \div Unit, 0)

PrintF(f) == Whole(f) \o <<Point>> \o Fraction(f) \o Repeat(Digit(0), 6 - Scale)
PrintG(f) == Whole(f) \o CASE f % Unit = 0 -> <<>>
                           [] f % Unit # 0 -> <<Point>> \o SubSeq(Fraction(f), 1, IF f % 10 = 0 THEN 1 ELSE Scale)

\* atof, of the digits that count.
Hundredths(whole, behind) ==
  Number(whole) * Unit
    + Number(SubSeq(Padded(IF At(behind, 0) = Point THEN Leading(Tail(behind), IsDigit) ELSE <<>>,
                           Digit(0), Scale), 1, Scale))
Unsigned(s, whole) == Hundredths(whole, From(s, Len(whole)))
Atof(s) == IF At(s, 0) = Minus THEN -Unsigned(Tail(s), Leading(Tail(s), IsDigit))
           ELSE Unsigned(s, Leading(s, IsDigit))

\* The letters that stand for \b, \f, \n, \r and \t.
Letters   == {<<98, 8>>, <<102, 12>>, <<110, 10>>, <<114, 13>>, <<116, 9>>}
Unescaped(c) == {p[2] : p \in {q \in Letters : q[1] = c}}
LetterFor(c) == {p[1] : p \in {q \in Letters : q[2] = c}}

\* What ValueToLBS writes for a byte: quotes, slashes and backslashes, and
\* whatever has a letter, get a backslash; other controls become \u and hex.
Escape(c) ==
  CASE c \in {Backslash, DQuote, 47}  -> <<Backslash, c>>
    [] LetterFor(c) # {}          -> <<Backslash, CHOOSE l \in LetterFor(c) : TRUE>>
    [] IsPrint(c) /\ c \notin {Backslash, DQuote, 47} -> <<c>>
    [] OTHER                      -> <<Backslash, 117>> \o Hex(c)

\* The byte that the text at i stands for, and how long that text is.
EscapeLength(s, i) == IF At(s, i) # Backslash THEN 1 ELSE IF At(s, i + 1) = 117 THEN 4 ELSE 2
EscapedByte(s, i) ==
  LET c == At(s, i + 1)
  IN CASE At(s, i) # Backslash  -> At(s, i)
       [] At(s, i) = Backslash /\ c = 117 -> HexToInt(From(s, i + 2), 2) % 256
       [] At(s, i) = Backslash /\ Unescaped(c) # {} -> CHOOSE b \in Unescaped(c) : TRUE
       [] OTHER -> c

\* DecodeStringToBinary: n bytes, the text being read from its beginning.
DecodeStringToBinary(s, n) ==
  FoldLeft(LAMBDA r, i : [at |-> r.at + EscapeLength(s, r.at),
                          out |-> Append(r.out, EscapedByte(s, r.at))],
           [at |-> 0, out |-> <<>>], [i \in 1..n |-> i]).out

\* The number of bytes that a text stands for.
BinarySize(s) ==
  FoldLeft(LAMBDA r, i : IF r.at < Len(s)
                         THEN [at |-> r.at + EscapeLength(s, r.at), n |-> r.n + 1] ELSE r,
           [at |-> 0, n |-> 0], s).n

-----------------------------------------------------------------------------
(* Making values                                                             *)

EmptyBody(type) ==
  CASE type \in CharTypes -> [length |-> 0, asize |-> 0, sval |-> <<>>]
    [] type = "NUMBER"    -> [flen |-> 0, slen |-> 0, sval |-> <<>>]
    [] type = "BOOL"      -> FALSE
    [] type \in DateTypes -> NoDate
    [] type = "OBJECT"    -> Repeat(NUL, Uuid + 1)
    [] OTHER              -> 0

\* NewValue: INT and BOOL are given their first content by a setter, which
\* makes them non-nil; strings can grow.
NewValue(type) ==
  [type |-> type,
   attr |-> CASE type \in {"INT", "BOOL"}  -> {}
              [] type \in StringTypes      -> {"NIL", "EXPANDABLE"}
              [] OTHER                     -> {"NIL"},
   body |-> EmptyBody(type)]

\* What the record parser makes of "type(size, scale)" and of "text", "dbcode"
\* and "binary" without a size.
Declared(type, size, scale) ==
  LET v == NewValue(type)
  IN CASE type = "NUMBER" ->
            [v EXCEPT !.body = [flen |-> size, slen |-> scale, sval |-> Repeat(Digit(0), size)]]
       [] type = "BYTE" ->
            [v EXCEPT !.body = [length |-> size, asize |-> size, sval |-> Repeat(NUL, size)]]
       [] type = "BINARY" -> [v EXCEPT !.attr = @ \cup {"EXPANDABLE"}]
       [] type \in StringTypes /\ size > 0 ->
            [v EXCEPT !.attr = @ \ {"EXPANDABLE"},
                      !.body = [length |-> size, asize |-> size + 1, sval |-> <<>>]]
       [] OTHER -> v

InitializedBody(v) ==
  CASE v.type = "BYTE" -> [v.body EXCEPT !.sval = Repeat(NUL, v.body.asize)]
    [] v.type \in {"CHAR", "VARCHAR", "DBCODE"}  -> [v.body EXCEPT !.sval = <<>>]
    [] v.type = "NUMBER" -> [v.body EXCEPT !.sval = Repeat(Digit(0), v.body.flen)]
    [] OTHER -> EmptyBody(v.type)

\* InitializeValue: INT and BOOL are written by setters, after the nil.
InitializeValue(v) ==
  LET u == [Nil(v) EXCEPT !.body = InitializedBody(v)]
  IN IF v.type \in {"INT", "BOOL"} THEN NonNil(u) ELSE u

-----------------------------------------------------------------------------
(* SetValueStringWithLength                                                  *)

\* Fault: the buffer has no room for the terminator.
TerminatorForgotten(v, slen) == Larger(v.body.asize, slen)

\* Strings grow to what they are given, whatever they were declared with.
RoomFor(v, slen) == Larger(v.body.asize, slen + 1)

WithText(v, s, slen) == [v EXCEPT !.body.asize = RoomFor(v, slen), !.body.sval = s]

\* SetValueString of a value that is a string.
WithString(v, s) == IF At(s, 0) = CharNil THEN Nil(v) ELSE WithText(NonNil(v), s, Len(s))

\* The first bytes of the buffer are replaced.
Overwritten(v, bytes) ==
  [v EXCEPT !.body.sval = [i \in DOMAIN @ |-> IF i <= Len(bytes) THEN bytes[i] ELSE @[i]]]

WithBytes(v, bytes) ==
  LET asize == Larger(v.body.asize, Len(bytes))
  IN [v EXCEPT !.body = [length |-> Len(bytes), asize |-> asize,
                         sval |-> Padded(bytes, NUL, asize)]]

\* Fault: the places behind the point are counted from the point itself.
CountedFromPoint(s) == IF Contains(s, Point) THEN Len(s) - SelectInSeq(s, LAMBDA c : c = Point) + 1
                       ELSE 0

\* Each character behind the point counts as a place.
PlacesBehindPoint(s) ==
  IF Contains(s, Point) THEN Len(s) - SelectInSeq(s, LAMBDA c : c = Point) ELSE 0

WithNumber(v, s) ==
  LET digits == SelectSeq(s, IsDigit)
      buff   == IF digits = <<>> THEN <<NUL>> ELSE digits
  IN [v EXCEPT !.body = FixedRescale(@, [flen |-> Len(digits), slen |-> PlacesBehindPoint(s),
                                         sval |-> Marked(buff, Contains(s, Minus))])]

\* InitializeValue makes the value nil again, and nothing makes it non-nil.
WithObject(v, s, slen) ==
  [Nil(v) EXCEPT !.body = SubSeq(IF slen >= Uuid THEN Padded(s, NUL, Uuid) ELSE Repeat(NUL, Uuid), 1, Uuid)
                            \o <<NUL>>]

WithInt(v, i)  == [NonNil(v) EXCEPT !.body = Wrap(i)]
WithBool(v, b) == [NonNil(v) EXCEPT !.body = b]

\* slen is how long the caller says that the string s is: no shorter than it.
SetValueStringWithLength(v, s, slen) ==
  LET u == NonNil(v)
  IN CASE At(s, 0) = CharNil        -> Nil(v)
       [] At(s, 0) # CharNil ->
            CASE v.type \in StringTypes -> WithText(u, s, slen)
              [] v.type = "BYTE"      -> Overwritten(u, DecodeStringToBinary(s, v.body.length))
              [] v.type = "BINARY"    -> WithBytes(u, DecodeStringToBinary(s, BinarySize(s)))
              [] v.type = "OBJECT"    -> WithObject(u, s, slen)
              [] v.type = "NUMBER"    -> WithNumber(u, s)
              [] v.type = "INT"       -> WithInt(u, StrToIntCast(s, slen))
              [] v.type = "FLOAT"     -> [u EXCEPT !.body = Atof(s)]
              [] v.type = "BOOL"      -> WithBool(u, At(s, 0) \in {84, 116})
              [] v.type \in DateTypes -> [u EXCEPT !.body = ReadDate(v.type, s)]
              [] OTHER                -> Nil(v)

SetValueString(v, s) == SetValueStringWithLength(v, s, Len(s))

-----------------------------------------------------------------------------
(* The other setters.  Those that print are SetValueString of the text.       *)

TRUEText  == <<84, 82, 85, 69>>
FALSEText == <<70, 65, 76, 83, 69>>

SetValueInteger(v, i) ==
  LET u == NonNil(v)
  IN CASE v.type \in StringTypes -> WithString(u, PrintInt(i, 0))
       [] v.type = "NUMBER"      -> WithNumber(u, PrintInt(i, v.body.flen))
       [] v.type = "INT"         -> WithInt(u, i)
       [] v.type = "FLOAT"       -> [u EXCEPT !.body = i * Unit]
       [] v.type = "BOOL"        -> [u EXCEPT !.body = i # 0]
       [] v.type \in DateTypes   -> [u EXCEPT !.body = Localtime(i)]
       [] OTHER                  -> Nil(v)

\* Dates have no character.
SetValueChar(v, c) ==
  CASE v.type \in StringTypes -> WithString(NonNil(v), CString(<<c>>))
    [] v.type \in {"NUMBER", "INT", "FLOAT", "BOOL"} -> SetValueInteger(v, c)
    [] OTHER -> Nil(v)

SetValueBool(v, b) ==
  LET u == NonNil(v)
      i == IF b THEN 1 ELSE 0
  IN CASE v.type \in StringTypes -> WithString(u, IF b THEN TRUEText ELSE FALSEText)
       [] v.type = "NUMBER"      -> WithNumber(u, <<Digit(i)>>)
       [] v.type = "INT"         -> WithInt(u, i)
       [] v.type = "FLOAT"       -> [u EXCEPT !.body = i * Unit]
       [] v.type = "BOOL"        -> WithBool(u, b)
       [] OTHER                  -> Nil(v)

\* The places of a NUMBER are written where they are: f has to fit.
SetValueFloat(v, f) ==
  LET u == NonNil(v)
  IN CASE v.type \in StringTypes -> WithString(u, PrintF(f))
       [] v.type = "NUMBER"      -> [u EXCEPT !.body = FloatToFixed(@, f)]
       [] v.type = "INT"         -> WithInt(u, Quotient(f, Unit))
       [] v.type = "FLOAT"       -> [u EXCEPT !.body = f]
       [] v.type = "BOOL"        -> [u EXCEPT !.body = f # 0]
       [] v.type \in DateTypes   -> [u EXCEPT !.body = Localtime(Quotient(f, Unit))]
       [] OTHER                  -> Nil(v)

\* A string is given the digits as they are, sign bit included; a BOOL is
\* made nil.
SetValueFixed(v, x) ==
  LET u == NonNil(v)
  IN CASE v.type \in StringTypes -> WithString(u, x.sval)
       [] v.type = "NUMBER"      -> [u EXCEPT !.body = FixedRescale(@, x)]
       [] v.type = "INT"         -> WithInt(u, FixedToInt(x))
       [] v.type = "FLOAT"       -> [u EXCEPT !.body = FixedToFloat(x)]
       [] v.type \in DateTypes   -> [u EXCEPT !.body = ReadDate(v.type, x.sval)]
       [] OTHER                  -> Nil(v)

\* Strings, BYTE, BINARY and OBJECT; other types take the bytes of the struct
\* in memory, which callers of this library do not use.
SetValueBinary(v, bytes) ==
  LET u == NonNil(v)
  IN CASE v.type \in StringTypes /\ bytes # <<>> /\ At(bytes, 0) # CharNil ->
            [u EXCEPT !.body = [length |-> IF v.type = "TEXT" THEN Len(bytes) ELSE @.length,
                                asize  |-> Larger(@.asize, Len(bytes) + 1),
                                sval   |-> CString(bytes)]]
       [] v.type = "BYTE" /\ bytes # <<>> ->
            [u EXCEPT !.body.sval =
               Padded(SubSeq(bytes, 1, Smaller(v.body.length, Len(bytes))), NUL, v.body.asize)]
       [] v.type = "BINARY" /\ bytes # <<>> -> WithBytes(u, bytes)
       [] v.type = "OBJECT" /\ bytes # <<>> -> WithObject(u, bytes, Len(bytes))
       [] OTHER -> Nil(v)

\* An INT is given whether the date can be counted, not its seconds, and a
\* BOOL is true.
SetValueDateTime(v, t) ==
  LET u == NonNil(v)
  IN CASE v.type \in StringTypes -> WithString(u, PrintDate("TIMESTAMP", t))
       [] v.type = "NUMBER"    -> WithNumber(u, PrintDate("TIMESTAMP", t))
       [] v.type = "INT"       -> WithInt(u, IF Wrap(Mktime(t)) < 0 THEN 0 ELSE 1)
       [] v.type = "FLOAT"     -> [u EXCEPT !.body = Mktime(t) * Unit]
       [] v.type = "BOOL"      -> [u EXCEPT !.body = TRUE]
       [] v.type \in DateTypes -> [u EXCEPT !.body = Normalized(t)]
       [] OTHER                -> Nil(v)

-----------------------------------------------------------------------------
(* The getters.  They take no notice of a nil; a string that is NULL they    *)
(* dereference (Unreadable), except ValueToString.                           *)

Unreadable(v) == v.type \in ReadTypes /\ IsNULL(v)

ValueToInteger(v) ==
  CASE v.type = "INT"       -> v.body
    [] v.type \in ReadTypes -> StrToIntCast(v.body.sval, Len(v.body.sval))
    [] v.type = "NUMBER"    -> FixedToInt(v.body)
    [] v.type = "FLOAT"     -> Quotient(v.body, Unit)
    [] v.type = "BOOL"      -> IF v.body THEN 1 ELSE 0
    [] v.type \in DateTypes -> Wrap(Mktime(v.body))
    [] OTHER                -> 0

ValueToFloat(v) ==
  CASE v.type \in ReadTypes -> Atof(v.body.sval)
    [] v.type = "NUMBER"    -> FixedToFloat(v.body)
    [] v.type = "FLOAT"     -> v.body
    [] v.type \in {"INT", "BOOL"} -> (IF v.type = "INT" THEN v.body ELSE IF v.body THEN 1 ELSE 0) * Unit
    [] v.type \in DateTypes -> Mktime(v.body) * Unit
    [] OTHER                -> 0

\* From a FLOAT 60 digits are printed, half of them behind the point: all
\* that are not 0.  NewFixed(0, 0) has no digits and no buffer.
ValueToFixed(v) ==
  CASE v.type = "NUMBER"    -> v.body
    [] v.type \in ReadTypes \cup {"INT", "BOOL"} -> IntToFixed(ValueToInteger(v))
    [] v.type = "FLOAT"     -> FloatToFixed([flen |-> 9, slen |-> Scale, sval |-> <<>>], v.body)
    [] v.type \in DateTypes -> [flen |-> DateSize[v.type], slen |-> 0, sval |-> PrintDate(v.type, v.body)]
    [] OTHER                -> [flen |-> 0, slen |-> 0, sval |-> <<>>]

\* A string is true only if it begins with a capital T.
ValueToBool(v) ==
  CASE v.type \in ReadTypes -> At(v.body.sval, 0) = 84
    [] v.type \in {"NUMBER", "INT", "FLOAT"} -> ValueToInteger(v) # 0
    [] v.type = "BOOL"      -> v.body
    [] OTHER                -> FALSE

\* The date that a string or a NUMBER says, where it has so many digits.
ValueToDateTime(v) ==
  CASE v.type \in ReadTypes \cup {"NUMBER"} -> ReadDate("TIMESTAMP", v.body.sval)
    [] v.type \in {"INT", "FLOAT"}         -> Localtime(ValueToInteger(v))
    [] v.type = "TIMESTAMP"                -> Normalized(v.body)
    [] v.type = "DATE"                     -> Normalized(DatePart(v.body))
    [] v.type = "TIME"                     -> TimePart(Normalized(v.body))
    [] OTHER                         -> NoDate

ValueToDate(v) ==
  CASE v.type \in ReadTypes \cup {"NUMBER"} -> ReadDate("DATE", v.body.sval)
    [] v.type \in {"TIMESTAMP", "DATE"}    -> Normalized(DatePart(v.body))
    [] OTHER                               -> NoDate

ValueToTime(v) ==
  CASE v.type \in ReadTypes \cup {"NUMBER"} -> ReadDate("TIME", v.body.sval)
    [] v.type \in {"INT", "FLOAT"}         -> TimePart(Localtime(ValueToInteger(v)))
    [] v.type \in {"TIMESTAMP", "TIME"}    -> TimePart(v.body)
    [] OTHER                               -> NoDate

\* The point goes before the last slen digits.
WithPoint(digits, slen) ==
  IF slen = 0 THEN digits
  ELSE SubSeq(digits, 1, Len(digits) - slen) \o <<Point>> \o From(digits, Len(digits) - slen)

PrintFixed(x) ==
  LET minus  == At(x.sval, 0) >= 112
      digits == IF minus THEN [x.sval EXCEPT ![1] = @ - SignBit] ELSE x.sval
  IN WithPoint((IF minus THEN <<Minus>> ELSE <<>>) \o digits, x.slen)

\* ValueToLBS and ValueToString: the text up to its terminator.
ValueToString(v) ==
  CASE v.type \in StringTypes -> v.body.sval
    [] v.type \in BitTypes    -> FlattenSeq([i \in 1..v.body.length |-> Escape(At(v.body.sval, i - 1))])
    [] v.type = "NUMBER"      -> PrintFixed(v.body)
    [] v.type = "INT"         -> PrintInt(v.body, 0)
    [] v.type = "FLOAT"       -> PrintG(v.body)
    [] v.type = "BOOL"        -> IF v.body THEN TRUEText ELSE FALSEText
    [] v.type \in DateTypes   -> PrintDate(v.type, v.body)
    [] v.type = "OBJECT"      -> CString(v.body)
    [] OTHER                  -> <<>>

\* ValueToBinary of the types that have bytes of their own; here alone nil is
\* shown.
ValueToBinary(v) ==
  CASE IsNil(v) -> <<CharNil>>
    [] ~IsNil(v) /\ v.type \in StringTypes -> IF IsNULL(v) THEN <<CharNil>> ELSE v.body.sval
    [] ~IsNil(v) /\ v.type \in BitTypes    -> [i \in 1..v.body.length |-> At(v.body.sval, i - 1)]
    [] ~IsNil(v) /\ v.type = "OBJECT"      -> v.body
    [] OTHER -> <<>>

-----------------------------------------------------------------------------
(* value.c on scalars                                                        *)

\* FillValue takes one byte less than the buffer has, which an expandable
\* string without a buffer does not survive.
CannotFill(v) == v.type \in {"CHAR", "VARCHAR", "DBCODE", "BYTE"} /\ IsNULL(v)

FillValue(v) ==
  LET n == Nil(v)
  IN CASE v.type = "INT"    -> WithInt(n, 1)
       [] v.type = "FLOAT"  -> [n EXCEPT !.body = Unit]
       [] v.type = "BOOL"   -> WithBool(n, FALSE)
       [] v.type = "NUMBER" -> [n EXCEPT !.body.sval = Repeat(Digit(1), v.body.flen)]
       [] v.type \in {"CHAR", "VARCHAR", "DBCODE", "BYTE"} ->
            SetValueString(n, Repeat(97, v.body.asize - 1))
       [] OTHER -> [n EXCEPT !.body = EmptyBody(v.type)]

\* Strings are moved to strings, and bytes to bytes: the whole buffer.
Movable(to, from) ==
  /\ from.type \in StringTypes <=> to.type \in StringTypes
  /\ from.type \in BitTypes <=> to.type \in BitTypes
  /\ from.type = "OBJECT" <=> to.type = "OBJECT"

MovedSize(to, from) == Larger(to.body.asize, from.body.asize)

\* MoveValue: the attributes first, which the setters may change again.
MoveValue(to, from) ==
  LET u == [to EXCEPT !.attr = from.attr]
  IN CASE to.type \in StringTypes ->
            [u EXCEPT !.body = [length |-> IF to.type = "TEXT" THEN from.body.length ELSE @.length,
                                asize  |-> MovedSize(to, from), sval |-> from.body.sval]]
       [] to.type \in BitTypes ->
            [u EXCEPT !.body = [length |-> IF to.type = "BINARY" THEN from.body.length ELSE @.length,
                                asize  |-> MovedSize(to, from),
                                sval   |-> Padded(from.body.sval, NUL, MovedSize(to, from))]]
       [] to.type = "NUMBER"      -> SetValueFixed(u, ValueToFixed(from))
       [] to.type = "INT"         -> WithInt(u, ValueToInteger(from))
       [] to.type = "FLOAT"       -> SetValueFloat(u, ValueToFloat(from))
       [] to.type = "BOOL"        -> WithBool(u, ValueToBool(from))
       [] to.type \in DateTypes   -> SetValueDateTime(u, ValueToDateTime(from))
       [] to.type = "OBJECT"      -> [u EXCEPT !.body = SubSeq(from.body, 1, Uuid) \o <<NUL>>]
       [] OTHER                   -> u

AssignValue(to, from) == SetValueString(to, ValueToString(from))

Sign(i) == IF i < 0 THEN -1 ELSE IF i > 0 THEN 1 ELSE 0

\* strcmp and memcmp.
CompareBytes(l, r) ==
  LET differ == SelectInSeq([i \in 1..Larger(Len(l), Len(r)) + 1 |-> At(l, i - 1) # At(r, i - 1)],
                            LAMBDA d : d)
  IN IF differ = 0 THEN 0 ELSE Sign(At(l, differ - 1) - At(r, differ - 1))

\* The difference of floats is cut to an int.
CompareFloats(f, g) == Sign(Quotient(f - g, Unit))

\* Fault: a nil is compared by what it last held.
NilIgnored(vl, vr) == FALSE

EitherNil(vl, vr) == IsNil(vl) \/ IsNil(vr)

\* The number that a value of another type than those is compared by.
Compared(type, v) ==
  CASE type = "INT"    -> ValueToInteger(v)
    [] type = "BOOL"   -> IF ValueToBool(v) THEN 1 ELSE 0
    [] type = "NUMBER" -> FixedToNumeric(ValueToFixed(v))
    [] OTHER           -> ValueToFloat(v)
CompareNumbers(type, i, j) ==
  CASE type = "INT"               -> Sign(Wrap(i - j))
    [] type \in {"BOOL", "NUMBER"} -> Sign(i - j)
    [] OTHER                      -> CompareFloats(i, j)

\* CompareValue of scalars, up to its sign: the types are those of vl.  Of two
\* nils the left one comes first; the difference of two ints may wrap.
CompareValue(vl, vr) ==
  LET desc == "DESC" \in vr.attr
      a == IF desc THEN vr ELSE vl
      b == IF desc THEN vl ELSE vr
  IN CASE EitherNil(vl, vr) -> IF IsNil(vl) THEN -1 ELSE 1
       [] ~EitherNil(vl, vr) ->
            CASE vl.type = "OBJECT"   -> CompareBytes(vl.body, vr.body)
              [] vl.type \in CharTypes -> CompareBytes(ValueToString(a), ValueToString(b))
              [] OTHER                -> CompareNumbers(vl.type, Compared(vl.type, a), Compared(vl.type, b))
=============================================================================
