------------------------------ MODULE XMLCodec ------------------------------
(***************************************************************************)
(* src/src/XML.c: values as the elements of an XML document, in two kinds  *)
(* of markup.  A packet is the sequence of what libxml2 reports of it, in  *)
(* order: elements that start and end, and texts, each with the number of  *)
(* characters that it is written with.  The reader keeps a long name and   *)
(* a cursor into the tree, which each report moves.  opt is what a CONVOPT *)
(* and its XMLOPT say: [type, output, fType, recname].  Layout and encoding*)
(* are left out, and so are names with a colon.                            *)
(***************************************************************************)
EXTENDS TextCodecs

\* What is written of a document, and the length of NS_URI.
Parts == {"HEADER", "BODY", "TAILER"}
Uri   == 36

Starts(element, name, size) == [is |-> "start", element |-> element, name |-> name, size |-> size]
Ends(element, name, size)   == [is |-> "end", element |-> element, name |-> name, size |-> size]
Characters(text, size)           == [is |-> "text", text |-> text, size |-> size]

IntLength(n) == Len(PrintInt(n, 0))

LessThan    == 60
GreaterThan == 62
Markup      == {LessThan, GreaterThan, Ampersand}

\* XML_EncodeSize, which counts what XML_Encode writes.
EncodeSize(str) ==
  LET size(c) == CASE c \in {LessThan, GreaterThan} -> 4
                   [] c = Ampersand                 -> 5
                   [] OTHER                         -> 1
  IN EachLength(size, str)

\* A type in quotes and what it was declared with.
TypeText(v) ==
  CASE v.type \in StringTypes \cup BitTypes ->
         Len(v.type) + Len("\"\" size=\"\"") + IntLength(v.body.length)
    [] v.type = "NUMBER" ->
         Len("\"number\" size=\"\" ssize=\"\"") + IntLength(v.body.flen) + IntLength(v.body.slen)
    [] OTHER -> Len(v.type) + 2

\* What it is counted as.
TypeSize(v) == CASE v.type = "TIMESTAMP" -> 9
                 [] v.type = "DATE"      -> 4
                 [] v.type = "TIME"      -> 8
                 [] OTHER                -> TypeText(v)

-----------------------------------------------------------------------------
(* The first kind of markup: <lm:record name="...">, with all that is nil     *)

ElementOf(v) == CASE v.type = "ARRAY"  -> "array"
                  [] v.type = "RECORD" -> "record"
                  [] OTHER             -> "item"

\* The names of the items; those of an array have its name and their index.
Names1(name, v) ==
  IF v.type = "RECORD" THEN v.names
  ELSE [i \in DOMAIN v.items |-> name \o <<LeftBracket>> \o PrintInt(i - 1, 0) \o <<RightBracket>>]

\* type is the length of the type.
Open1(opt, name, v, type) ==
  Len(name) + CASE v.type = "ARRAY"  -> Len("<lm:array name=\"\" count=\"\">") + IntLength(Len(v.items))
                [] v.type = "RECORD" -> Len("<lm:record name=\"\" size=\"\">") + IntLength(Len(v.items))
                [] OTHER -> Len("<lm:item name=\"\">") + IF opt.fType THEN Len(" type=") + type ELSE 0
Close1(v) == Len("</lm:>") + Len(ElementOf(v))

Encoding(text) == Characters(text, EncodeSize(text))
TextOf(v)   == IF IsNil(v) THEN <<>> ELSE <<Encoding(ValueToString(v))>>
TextSize(v) == IF IsNil(v) THEN 0 ELSE EncodeSize(ValueToString(v))

RECURSIVE _XML_PackValue1(_, _, _), _XML_SizeValue1(_, _, _)
_XML_PackValue1(opt, name, v) ==
  LET names == Names1(name, v)
  IN IF v.type = "NULL" THEN <<>>
     ELSE <<Starts(ElementOf(v), name, Open1(opt, name, v, TypeText(v)))>>
            \o (IF IsComposite(v)
                THEN Concat([i \in DOMAIN v.items |-> _XML_PackValue1(opt, names[i], v.items[i])])
                ELSE TextOf(v))
            \o <<Ends(ElementOf(v), name, Close1(v))>>

_XML_SizeValue1(opt, name, v) ==
  LET names == Names1(name, v)
  IN IF v.type = "NULL" THEN 0
     ELSE Open1(opt, name, v, TypeSize(v)) + Close1(v)
            + IF IsComposite(v)
              THEN SumOf([i \in DOMAIN v.items |-> _XML_SizeValue1(opt, names[i], v.items[i])])
              ELSE TextSize(v)

-----------------------------------------------------------------------------
(* The second: <recname:name type="record">, without what is nil.  Items of   *)
(* an array are written with its name; they are counted with their indices.   *)
(* An item that is NULL the code does not survive.                            *)

Open2(opt, name, v, type) ==
  Len(opt.recname) + Len(name) +
    CASE v.type = "ARRAY"  -> Len("<: type=\"array\" count=\"\">") + IntLength(Len(v.items))
      [] v.type = "RECORD" -> Len("<: type=\"record\" size=\"\">") + IntLength(Len(v.items))
      [] OTHER             -> Len("<: type=>") + type
Close2(opt, name) == Len("</:>") + Len(opt.recname) + Len(name)

RECURSIVE _XML_PackValue2(_, _, _), _XML_SizeValue2(_, _, _)
_XML_PackValue2(opt, name, v) ==
  LET names == IF v.type = "RECORD" THEN v.names ELSE [i \in DOMAIN v.items |-> name]
  IN IF IsNil(v) THEN <<>>
     ELSE <<Starts(ElementOf(v), name, Open2(opt, name, v, TypeText(v)))>>
            \o (IF IsComposite(v)
                THEN Concat([i \in DOMAIN v.items |-> _XML_PackValue2(opt, names[i], v.items[i])])
                ELSE TextOf(v))
            \o <<Ends(ElementOf(v), name, Close2(opt, name))>>

_XML_SizeValue2(opt, name, v) ==
  LET names == IF v.type = "RECORD" THEN v.names
               ELSE [i \in DOMAIN v.items |-> name \o <<Colon>> \o PrintInt(i - 1, 0)]
  IN IF v.type = "NULL" \/ IsNil(v) THEN 0
     ELSE Open2(opt, name, v, TypeSize(v)) + Close2(opt, name)
            + IF IsComposite(v)
              THEN SumOf([i \in DOMAIN v.items |-> _XML_SizeValue2(opt, names[i], v.items[i])])
              ELSE TextSize(v)

-----------------------------------------------------------------------------
(* Documents                                                                 *)

\* <?xml version="1.0"?> and the element round the value.
OpeningSize(opt) ==
  Len("<?xml version=\"1.0\"?>") + Uri +
    IF opt.type = 1 THEN Len("<lm:block xmlns:lm=\"\">")
    ELSE Len("<:data xmlns:=\"/.rec\">") + 3 * Len(opt.recname)
ClosingSize(opt) == IF opt.type = 1 THEN Len("</lm:block>") ELSE Len("</:data>") + Len(opt.recname)

If(part, opt, packet) == IF part \in opt.output THEN packet ELSE <<>>

XML_PackValue(opt, v) ==
  If("HEADER", opt, <<Starts("block", <<>>, OpeningSize(opt))>>)
    \o If("BODY", opt, IF opt.type = 1 THEN _XML_PackValue1(opt, opt.recname, v)
                       ELSE _XML_PackValue2(opt, opt.recname, v))
    \o If("TAILER", opt, <<Ends("block", <<>>, ClosingSize(opt))>>)

\* What the packet counts as, behind which a terminator is written.
Written(packet) == SumOf([i \in DOMAIN packet |-> packet[i].size])

XML_SizeValue(opt, v) ==
  SumOf(If("HEADER", opt, <<OpeningSize(opt)>>)
          \o If("BODY", opt, <<IF opt.type = 1 THEN _XML_SizeValue1(opt, opt.recname, v)
                               ELSE _XML_SizeValue2(opt, opt.recname, v)>>)
          \o If("TAILER", opt, <<ClosingSize(opt)>>))

-----------------------------------------------------------------------------
(* The reader: the tree, the path to ctx->value, ctx->longname and ctx->fStart *)

NoValuePath == <<0>>

Pushed(longname, name) == IF longname = <<>> THEN name ELSE longname \o <<Point>> \o name

\* The part behind the last point, and what is before that point.
LastPart(longname) ==
  LET points == {i \in DOMAIN longname : longname[i] = Point}
  IN IF points = {} THEN 0 ELSE CHOOSE i \in points : \A j \in points : j <= i
Popped(longname) == SubSeq(longname, 1, LastPart(longname) - 1)

PointAt(r, longname) == [r EXCEPT !.at = PathTo(r.value, longname)]

\* A record is entered, the one at the top without its name.
RecordStarts(r, name) ==
  LET into == IF Found(r.at) THEN Pushed(r.longname, name) ELSE r.longname
  IN [PointAt(r, into) EXCEPT !.longname = into, !.fStart = FALSE]

startElement1_(r, e) ==
  CASE e.element = "item"   -> [PointAt(r, Pushed(r.longname, e.name)) EXCEPT !.fStart = TRUE]
    [] e.element = "record" -> RecordStarts(r, e.name)
    [] e.element = "array"  -> [r EXCEPT !.fStart = FALSE]
    [] e.element = "block"  -> [r EXCEPT !.at = NoValuePath, !.fStart = FALSE]

endElement1_(r, e) ==
  [r EXCEPT !.fStart   = FALSE,
            !.longname = IF e.element \in {"array", "record"} THEN Popped(@) ELSE @]

startElement2_(r, e) ==
  CASE e.element = "item" ->
         LET name == Pushed(r.longname, e.name)
         IN [PointAt(r, name) EXCEPT !.longname = name, !.fStart = TRUE]
    [] e.element = "record" -> RecordStarts(r, e.name)
    [] e.element = "array"  -> [r EXCEPT !.fStart = FALSE]
    [] e.element = "block"  -> [r EXCEPT !.at = NoValuePath, !.longname = <<>>, !.fStart = FALSE]

\* The last part of the long name goes if it is the element's, with or without
\* an index, and the first always.
endElement2_(r, e) ==
  LET last == Leading(From(r.longname, LastPart(r.longname)), LAMBDA c : c # LeftBracket)
      name == IF e.element = "block" THEN <<100, 97, 116, 97>> ELSE e.name
  IN [r EXCEPT !.fStart   = FALSE,
               !.longname = IF LastPart(@) = 0 \/ last = name THEN Popped(@) ELSE @]

\* libxml2 hands a text over in pieces: what was written as &...; is one of
\* its own.  An empty text is not handed over.
Pieces(text) ==
  FoldLeft(LAMBDA ps, c : IF ps = <<>> \/ c \in Markup \/ ps[Len(ps)][1] \in Markup
                          THEN Append(ps, <<c>>) ELSE [ps EXCEPT ![Len(ps)] = Append(@, c)],
           <<>>, text)

\* Each piece sets the value anew.
characters_(r, text) ==
  IF r.fStart /\ Found(r.at)
  THEN [r EXCEPT !.value = WithItemAt(@, r.at, NonNil(SetValueString(ItemAt(@, r.at), text)))]
  ELSE r

Reported(opt, r, e) ==
  CASE e.is = "text"  -> FoldLeft(characters_, r, Pieces(e.text))
    [] e.is = "start" -> IF opt.type = 1 THEN startElement1_(r, e) ELSE startElement2_(r, e)
    [] e.is = "end"   -> IF opt.type = 1 THEN endElement1_(r, e) ELSE endElement2_(r, e)

RECURSIVE SetNil(_)
SetNil(v) == IF IsComposite(v) THEN [v EXCEPT !.items = [i \in DOMAIN @ |-> SetNil(@[i])]] ELSE Nil(v)

XML_UnPackValue(opt, packet, v) ==
  FoldLeft(LAMBDA r, e : Reported(opt, r, e),
           [value |-> SetNil(v), at |-> NoValuePath, longname |-> <<>>, fStart |-> FALSE],
           packet).value

=============================================================================
