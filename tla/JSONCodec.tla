----------------------------- MODULE JSONCodec ------------------------------
(***************************************************************************)
(* src/src/json.c: values as JSON, in full and with what is left out put   *)
(* back by the reader ("ommit").  A packet is the JSON value that its text *)
(* says, json-c being the reader of texts:                                 *)
(*    string    its text between the quotes, escapes included              *)
(*    boolean, int, double                                                 *)
(*    array, object                                                        *)
(*    none      no text at all, as for an item that is NULL or left out    *)
(* Packets are read into trees of the shape that they were packed from.    *)
(***************************************************************************)
EXTENDS Codec

JString(text)         == [json |-> "string", text |-> text]
JBoolean(b)           == [json |-> "boolean", is |-> b]
JInt(i)               == [json |-> "int", is |-> i]
JDouble(f)            == [json |-> "double", is |-> f]
JArray(items)         == [json |-> "array", items |-> items]
JObject(names, items) == [json |-> "object", names |-> names, items |-> items]
None                  == [json |-> "none"]

\* The types that are strings in JSON.
TextTypes == CharTypes \cup DateTypes \cup {"OBJECT"}

EscapeChar(c) == CASE c \in {DQuote, Backslash, 47} -> <<Backslash, c>>
                   [] LetterFor(c) # {}            -> <<Backslash, CHOOSE l \in LetterFor(c) : TRUE>>
                   [] OTHER                        -> <<c>>

EscapeStr(s) == FlattenSeq([i \in DOMAIN s |-> EscapeChar(s[i])])

EscapeSize(c) == IF c \in {DQuote, Backslash, 47, 8, 9, Newline, 12, CR} THEN 2 ELSE 1
EscapeStrLength(s) == 2 + FoldLeft(LAMBDA n, c : n + EscapeSize(c), 0, s)

\* json-c reads those escapes as getset.c does.
Unescape(text) == DecodeStringToBinary(text, BinarySize(text))

\* How long the text of a packet is, and whether there is all that JSON asks for.
RECURSIVE TextLength(_), Proper(_)
TextLength(j) ==
  LET items  == SumOf([i \in DOMAIN j.items |-> TextLength(j.items[i])])
      commas == IF j.items = <<>> THEN 0 ELSE Len(j.items) - 1
  IN CASE j.json = "string"  -> Len(j.text) + 2
       [] j.json = "boolean" -> IF j.is THEN 4 ELSE 5
       [] j.json = "int"     -> Len(PrintInt(j.is, 0))
       [] j.json = "double"  -> Len(PrintF(j.is))
       [] j.json = "array"   -> 2 + items + commas
       [] j.json = "object"  -> 2 + items + commas + SumOf([i \in DOMAIN j.names |-> Len(j.names[i]) + 3])
       [] OTHER              -> 0
Proper(j) == CASE j.json = "none" -> FALSE
               [] j.json \in {"array", "object"} -> \A i \in DOMAIN j.items : Proper(j.items[i])
               [] OTHER -> TRUE

-----------------------------------------------------------------------------
(* Packing                                                                   *)

PackScalar(v) ==
  CASE v.type \in TextTypes -> JString(EscapeStr(ValueToString(v)))
    [] v.type = "BOOL"      -> JBoolean(v.body)
    [] v.type = "INT"       -> JInt(v.body)
    [] v.type \in {"NUMBER", "FLOAT"} -> JDouble(ValueToFloat(v))
    [] OTHER                -> None

RECURSIVE _JSON_PackValue(_)
_JSON_PackValue(v) ==
  CASE v.type = "ARRAY"  -> JArray([i \in DOMAIN v.items |-> _JSON_PackValue(v.items[i])])
    [] v.type = "RECORD" -> JObject(v.names, [i \in DOMAIN v.items |-> _JSON_PackValue(v.items[i])])
    [] OTHER             -> PackScalar(v)

JSON_PackValue(v) == _JSON_PackValue(v)

\* What each is counted as.
ScalarSize(v) ==
  CASE v.type \in TextTypes -> EscapeStrLength(ValueToString(v))
    [] v.type = "BOOL"      -> IF v.body THEN 4 ELSE 5
    [] v.type = "INT"       -> Len(PrintInt(v.body, 0))
    [] v.type \in {"NUMBER", "FLOAT"} -> Len(PrintF(ValueToFloat(v)))
    [] OTHER                -> 0

\* Braces, commas and names in quotes with a colon.
RecordSize(names, sizes) ==
  Len(names) + 1 + SumOf(sizes) + SumOf([k \in DOMAIN names |-> Len(names[k]) + 3])

\* With the terminator.
RECURSIVE _JSON_SizeValue(_)
_JSON_SizeValue(v) ==
  LET sizes == [i \in DOMAIN v.items |-> _JSON_SizeValue(v.items[i])]
  IN CASE v.type = "ARRAY"  -> 2 + SumOf(sizes) + IF v.items = <<>> THEN 0 ELSE Len(v.items) - 1
       [] v.type = "RECORD" -> IF v.items = <<>> THEN 2 ELSE RecordSize(v.names, sizes)
       [] OTHER             -> ScalarSize(v)
JSON_SizeValue(v) == _JSON_SizeValue(v) + 1

\* What is left out: of the scalars those of the first content of their type;
\* JSON_PackValueOmmitString leaves out empty strings only.
Left(v, strings) ==
  CASE v.type \in TextTypes -> ValueToString(v) = <<>>
    [] v.type = "BOOL"      -> ~strings /\ v.body
    [] v.type = "INT"       -> ~strings /\ v.body = 0
    [] v.type \in {"NUMBER", "FLOAT"} -> ~strings /\ ValueToFloat(v) = 0
    [] OTHER                -> TRUE

\* What stands in an array for an item that is left out.
Placeholder(v) ==
  CASE v.type \in TextTypes -> JString(<<>>)
    [] v.type = "BOOL"      -> JBoolean(TRUE)
    [] v.type = "INT"       -> JInt(0)
    [] v.type \in {"NUMBER", "FLOAT"} -> JDouble(0)
    [] v.type = "ARRAY"     -> JArray(<<>>)
    [] v.type = "RECORD"    -> JObject(<<>>, <<>>)
    [] OTHER                -> None

\* How long the text is without what is left out, 0 if that is all of it.
RECURSIVE SizeOmmit(_, _)

ArraySize(v, strings) ==
  Len(v.items) + 1 + SumOf([i \in DOMAIN v.items |->
                              LET n == SizeOmmit(v.items[i], strings)
                              IN IF n > 0 THEN n ELSE TextLength(Placeholder(v.items[i]))])

Kept(v, strings) == SelectSeq([i \in DOMAIN v.items |-> i], LAMBDA i : SizeOmmit(v.items[i], strings) > 0)

SizeOmmit(v, strings) ==
  LET kept == Kept(v, strings)
  IN CASE v.type \in {"ARRAY", "RECORD"} /\ kept = <<>> -> 0
       [] v.type = "ARRAY" /\ kept # <<>>  -> ArraySize(v, strings)
       [] v.type = "RECORD" /\ kept # <<>> ->
            RecordSize([k \in DOMAIN kept |-> v.names[kept[k]]],
                       [k \in DOMAIN kept |-> SizeOmmit(v.items[kept[k]], strings)])
       [] OTHER -> IF Left(v, strings) THEN 0 ELSE ScalarSize(v)

\* A record leaves items out and an array puts something in their place; what
\* has nothing else is left out itself.  An item of an array that is NULL the
\* code does not survive.
RECURSIVE PackOmmit(_, _)
PackOmmit(v, strings) ==
  LET kept == Kept(v, strings)
      item(i) == IF SizeOmmit(v.items[i], strings) > 0 THEN PackOmmit(v.items[i], strings)
                 ELSE Placeholder(v.items[i])
  IN CASE v.type \in {"ARRAY", "RECORD"} /\ kept = <<>> -> None
       [] v.type = "ARRAY" /\ kept # <<>>  -> JArray([i \in DOMAIN v.items |-> item(i)])
       [] v.type = "RECORD" /\ kept # <<>> ->
            JObject([k \in DOMAIN kept |-> v.names[kept[k]]], [k \in DOMAIN kept |-> item(kept[k])])
       [] OTHER -> IF Left(v, strings) THEN None ELSE PackScalar(v)

\* A value that is left out as a whole is an empty object.
Packed(v, strings) ==
  IF SizeOmmit(v, strings) = 0 THEN JObject(<<>>, <<>>) ELSE PackOmmit(v, strings)
Size(v, strings) == 1 + (IF SizeOmmit(v, strings) = 0 THEN 2 ELSE SizeOmmit(v, strings))

JSON_PackValueOmmit(v)       == Packed(v, FALSE)
JSON_PackValueOmmitString(v) == Packed(v, TRUE)
JSON_SizeValueOmmit(v)       == Size(v, FALSE)
JSON_SizeValueOmmitString(v) == Size(v, TRUE)

-----------------------------------------------------------------------------
(* Unpacking                                                                 *)

TrueText  == <<84, 114, 117, 101>>
FalseText == <<70, 97, 108, 115, 101>>

\* What is of the wrong type leaves the content as it is, but non-nil.  Texts
\* would take an array or an object as its text; none is sent to them here.
ReadText(j) ==
  CASE j.json = "boolean" -> IF j.is THEN TrueText ELSE FalseText
    [] j.json = "double"  -> PrintF(j.is)
    [] j.json = "int"     -> PrintInt(j.is, 0)
    [] j.json = "string"  -> CString(Unescape(j.text))
ReadBool(j) ==
  CASE j.json = "string"  -> At(j.text, 0) \in {84, 116}
    [] j.json = "boolean" -> j.is
    [] j.json = "int"     -> j.is # 0
ReadInt(j) ==
  CASE j.json = "boolean" -> IF j.is THEN 1 ELSE 0
    [] j.json = "double"  -> Quotient(j.is, Unit)
    [] j.json = "int"     -> j.is
    [] j.json = "string"  -> StrToIntCast(j.text, Len(j.text))
ReadFloat(j) ==
  CASE j.json = "double"  -> j.is
    [] j.json = "int"     -> j.is * Unit
    [] j.json = "string"  -> Atof(j.text)

\* What a scalar is read from.
Readable(v, j) ==
  j.json \in CASE v.type \in TextTypes \cup {"INT"} -> {"boolean", "double", "int", "string"}
              [] v.type = "BOOL"                   -> {"boolean", "int", "string"}
              [] v.type \in {"NUMBER", "FLOAT"}    -> {"double", "int", "string"}
              [] OTHER                             -> {}

ReadJSON(v, j) ==
  CASE ~Readable(v, j)                -> v
    [] Readable(v, j) /\ v.type \in TextTypes -> SetValueString(v, ReadText(j))
    [] Readable(v, j) /\ v.type = "BOOL"      -> WithBool(v, ReadBool(j))
    [] Readable(v, j) /\ v.type = "INT"       -> WithInt(v, ReadInt(j))
    [] OTHER                          -> SetValueFloat(v, ReadFloat(j))

Member(j, name) == LET i == SelectInSeq(j.names, LAMBDA n : n = name)
                   IN IF i = 0 THEN None ELSE j.items[i]

RECURSIVE UnPackJSON(_, _, _)
UnPackJSON(v, j, ommit) ==
  LET u == NonNil(v)
      items(from(_)) == [u EXCEPT !.items = [i \in DOMAIN v.items |-> UnPackJSON(v.items[i], from(i), ommit)]]
      nth(i)    == IF i <= Len(j.items) THEN j.items[i] ELSE [json |-> "kept"]
      member(i) == Member(j, v.names[i])
      none(i)   == None
  IN \* a scalar that was left out is set to what its placeholder says
     CASE v.type = "NULL" \/ j.json = "kept" \/ (j.json = "none" /\ ~ommit) -> v
       [] v.type = "ARRAY" /\ j.json = "array"   -> items(nth)
       [] v.type = "RECORD" /\ j.json = "object" -> items(member)
       [] v.type \in {"ARRAY", "RECORD"} /\ j.json = "none" /\ ommit -> items(none)
       [] OTHER -> ReadJSON(u, IF j.json = "none" THEN Placeholder(v) ELSE j)

\* A text that is not JSON is not read.
JSON_UnPackValue(j, v)      == IF Proper(j) THEN UnPackJSON(v, j, FALSE) ELSE v
JSON_UnPackValueOmmit(j, v) == IF Proper(j) THEN UnPackJSON(v, j, TRUE) ELSE v

=============================================================================
