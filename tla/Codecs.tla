------------------------------- MODULE Codecs -------------------------------
(***************************************************************************)
(* Values on their way through the codecs: what goes through Conversions   *)
(* is packed and unpacked into another value of its declaration.  The      *)
(* codecs are given trees that the value is an item of.                    *)
(***************************************************************************)
EXTENDS Conversions, NativeCodec, Cobol, TextCodecs, JSONCodec, XMLCodec

CONSTANTS Options,       \* of the COBOL codecs
          TextOptions,   \* of the text codecs
          Neighbour      \* the scalar that follows the value in a record

\* Names of items, and of the record.
A == <<97>>
B == <<98>>

-----------------------------------------------------------------------------
\* Sent to a value of the same declaration.  Bounds: dates that are not in the
\* calendar are sent by the native codec and as texts only.
SendNative ==
  /\ val' = NativeUnPackValue(NativePackValue(val), Fresh(decl)).value
  /\ UNCHANGED <<decl, moves>>

SendOpenCOBOL ==
  /\ ProperDate(val)
  /\ \E opt \in Options :
       val' = OpenCOBOL_UnPackValue(opt, OpenCOBOL_PackValue(opt, val).bytes, Fresh(decl)).value
  /\ UNCHANGED <<decl, moves>>

SenddotCOBOL ==
  /\ ProperDate(val)
  /\ \E opt \in Options :
       val' = dotCOBOL_UnPackValue(opt, dotCOBOL_PackValue(opt, val).bytes, Fresh(decl)).value
  /\ UNCHANGED <<decl, moves>>

\* Texts are mangled where a codec cannot say them, and grow: those count as
\* moves.
SendText ==
  /\ moves < MaxMoves
  /\ \E opt \in TextOptions :
       \/ \E format \in {CSV1, CSV2, CSV3} :
            val' = CSV_UnPackValue(CSV_PackValue(opt.fNewLine, format, val).bytes, Fresh(decl)).value
       \/ val' = SQL_UnPackValue(SQL_PackValue(val).bytes, Fresh(decl)).value
       \/ val' = RFC822_UnPackValue(opt, RFC822_PackValue(opt, val).bytes, Fresh(decl)).value
       \/ val' = CGI_UnPackValue(A, CGI_PackValue(A, val).bytes, Fresh(decl)).value
  /\ moves' = moves + 1
  /\ UNCHANGED decl

SendJSON ==
  /\ Countable(val) /\ ProperDate(val)
  /\ \/ val' = JSON_UnPackValue(JSON_PackValue(val), Fresh(decl))
     \/ val' = JSON_UnPackValueOmmit(JSON_PackValueOmmit(val), Fresh(decl))
     \/ val' = JSON_UnPackValueOmmit(JSON_PackValueOmmitString(val), Fresh(decl))
  /\ UNCHANGED <<decl, moves>>

\* Only records have documents that are read back.
XMLDocument(type) == [type |-> type, output |-> Parts, fType |-> TRUE, recname |-> A]

SendXML ==
  /\ moves < MaxMoves
  /\ \E type \in 1..2 :
       LET packet == XML_PackValue(XMLDocument(type), Record(<<A>>, <<val>>))
       IN val' = XML_UnPackValue(XMLDocument(type), packet, Record(<<A>>, <<Fresh(decl)>>)).items[1]
  /\ moves' = moves + 1
  /\ UNCHANGED decl

Next == Convert \/ SendNative \/ SendOpenCOBOL \/ SenddotCOBOL \/ SendText \/ SendJSON \/ SendXML

Spec == Init /\ [][Next]_vars

-----------------------------------------------------------------------------
(* The codecs *)

\* Trees of the value v, alone and before the neighbour n.
Trees(v, n) == <<v, Record(<<A, B>>, <<v, n>>), Array(<<v, v>>),
                 Record(<<A, B>>, <<Array(<<v>>), n>>)>>

\* What SizeValue says is what PackValue returns, and a terminator is all that is
\* written behind it.
Counts(size, packet) == size = packet.size /\ Len(packet.bytes) \in size..(size + 1)

\* The packets of fixed layout are what was counted for them, whatever the value
\* has gone through; COBOL writes one byte more where a date comes last.
SizesAgree ==
  \A k \in 1..4 :
    LET t == Trees(val, Neighbour)[k]
    IN /\ NativeSizeValue(t) = Len(NativePackValue(t))
       /\ ProperDate(val) =>
            \A opt \in Options :
              /\ Counts(OpenCOBOL_SizeValue(opt, t), OpenCOBOL_PackValue(opt, t))
              /\ Counts(dotCOBOL_SizeValue(opt, t), dotCOBOL_PackValue(opt, t))
              /\ (k \in {2, 4} \/ val.type \notin DateTypes) =>
                   Len(dotCOBOL_PackValue(opt, t).bytes) = dotCOBOL_SizeValue(opt, t)

Alike(t, u) == /\ Len(Leaves(t)) = Len(Leaves(u))
               /\ \A i \in DOMAIN Leaves(t) :
                    ValueToString(Leaves(t)[i]) = ValueToString(Leaves(u)[i])

\* The native codec restores what it packed, and the reader ends where the
\* packet ends.  Attributes come along, but that setters make INT and BOOL
\* non-nil and an OBJECT is made nil.  A string that is NULL is not restored:
\* the reader takes what follows it for its text.
NativeRestores ==
  (val.type \in StringTypes => ~IsNULL(val)) =>
    \A k \in 1..4 :
      LET packet == NativePackValue(Trees(val, Neighbour)[k])
          read   == NativeUnPackValue(packet, Trees(Fresh(decl), NewValue("INT"))[k])
      IN /\ read.rc = Len(packet)
         /\ Alike(read.value, Trees(val, Neighbour)[k])
         /\ val.type \notin {"INT", "BOOL", "OBJECT"} => Leaves(read.value)[1].attr = val.attr

\* What a COBOL field can say of a value: nothing of what its text is longer
\* than the field or its length, of spaces at the end, of a text that begins
\* with what means nil; OpenCOBOL has no sign for one digit and dotCOBOL no
\* centuries.
CobolText(v, size) ==
  LET s == v.body.sval
  IN Len(s) <= size /\ At(s, 0) # CharNil /\ (s # <<>> => s[Len(s)] # Space)
CobolCanSay(opt, v) ==
  CASE v.type \in {"TEXT", "SYMBOL"}            -> CobolText(v, Smaller(opt.textsize, v.body.length))
    [] v.type \in {"CHAR", "VARCHAR", "DBCODE"} -> CobolText(v, v.body.length) /\ ~IsNil(v)
    [] v.type = "BINARY"    -> v.body.length = opt.textsize /\ ~IsNil(v)
    [] v.type = "OBJECT"    -> \A i \in 1..Uuid : v.body[i] \notin {Space, NUL}
    [] v.type = "BYTE"      -> v.body.length = v.body.asize
    [] v.type \in DateTypes -> ProperDate(v)
    [] OTHER                -> TRUE

\* OpenCOBOL does not clear the field of a TEXT: where its length leaves no room
\* for a terminator, what the buffer held follows it.
Cleared(opt, v) ==
  v.type \in {"TEXT", "SYMBOL"} =>
    opt.stale = NUL \/ v.body.length >= opt.textsize \/ Len(v.body.sval) < v.body.length

\* The COBOL codecs restore what a field can say, and fields stay in step.
CobolRestores ==
  \A opt \in {o \in Options : CobolCanSay(o, val)} : \A k \in 1..4 :
    LET t == Trees(val, Neighbour)[k]
        u == Trees(Fresh(decl), NewValue("INT"))[k]
        o == OpenCOBOL_UnPackValue(opt, OpenCOBOL_PackValue(opt, t).bytes, u)
        d == dotCOBOL_UnPackValue(opt, dotCOBOL_PackValue(opt, t).bytes, u)
    IN /\ (Cleared(opt, val) /\ (val.type = "NUMBER" => val.body.flen > 1 \/ ~Signed(val.body.sval[1])))
            => Alike(o.value, t)
       /\ val.type \notin {"TIMESTAMP", "DATE"} => Alike(d.value, t)
       /\ o.size = OpenCOBOL_SizeValue(opt, t) /\ d.size = dotCOBOL_SizeValue(opt, t)

-----------------------------------------------------------------------------
(* The codecs of texts.  They restore what AssignValue would: each scalar is  *)
(* set to the text that the packed one shows.                                 *)

Text == ValueToString(val)
Has(text, chars) == \E i \in DOMAIN text : text[i] \in chars

\* A record with the value in the middle and at the end, packed and received.
RecordOf(v, n) == Record(<<A, B>>, <<n, Array(<<v, v>>)>>)
Sent           == RecordOf(val, Neighbour)
Receiver       == RecordOf(Fresh(decl), NewValue("INT"))

Assigned(t, u, got) ==
  LET sent == Leaves(t)
      held == Leaves(u)
  IN Leaves(got) = [i \in DOMAIN sent |-> AssignValue(held[i], sent[i])]

\* The fields that are read back: escapes and ends of lines are mangled, and
\* quotes where the format drops them.
CSVCanSay(format) ==
  /\ ~Has(Text, {Backslash, Newline})
  /\ (val.type \in CSVStrings /\ ~format.ssep) => ~Has(Text, {DQuote, CR})

\* CSV keeps its fields apart whatever commas and quotes they have.
CSVRestores ==
  \A format \in {f \in {CSV1, CSV2, CSV3} : CSVCanSay(f)} :
    Assigned(Sent, Receiver, CSV_UnPackValue(CSV_PackValue(FALSE, format, Sent).bytes, Receiver).value)

\* What SQL says of a value: nothing of a nil, commas only in quotes.
SQLCanSay ==
  /\ ~IsNil(val) /\ ~Has(Text, {Backslash, SQuote})
  /\ val.type \in {"DBCODE", "SYMBOL"} => ~Has(Text, {Comma})

\* SQL keeps its fields apart.
SQLRestores ==
  SQLCanSay => Assigned(Sent, Receiver, SQL_UnPackValue(SQL_PackValue(Sent).bytes, Receiver).value)

\* The lines that are read back: an end of line ends a text that is not
\* encoded; behind a name spaces are skipped, and an empty text is where the
\* next line is.
RFC822CanSay(opt) ==
  LET plain == val.type \notin CharTypes \/ opt.encode = "NULL"
  IN /\ plain => ~Has(Text, {Newline})
     /\ opt.fName => Text # <<>> /\ (plain => ~IsSpace(Text[1]))

\* RFC822 and CGI find the items by their names, or in their order, and restore
\* whatever the encoding may hide.
NamesRestore ==
  /\ \A opt \in {o \in TextOptions : RFC822CanSay(o)} :
       Assigned(Sent, Receiver, RFC822_UnPackValue(opt, RFC822_PackValue(opt, Sent).bytes, Receiver).value)
  /\ Assigned(Sent, Receiver, CGI_UnPackValue(A, CGI_PackValue(A, Sent).bytes, Receiver).value)

\* The formats of CSV as they are chosen by name, and what each is counted as.
CSVFormats == {<<CSV1, CSV1>>, <<CSV2, CSV3>>, <<CSV3, CSV3>>, <<CSVE, CSVE>>}

\* The packets of texts are what was counted for them; only CSV counts more than
\* it writes, and only CGI writes nothing behind the packet.
TextsFit ==
  /\ \A f \in CSVFormats, newLine \in BOOLEAN :
       LET lines  == Array(<<val, Sent>>)
           packet == CSV_PackValue(newLine, f[1], lines)
           size   == CSV_SizeValue(newLine, f[2], lines)
       IN size >= packet.size /\ size + 1 >= Len(packet.bytes)
  /\ \A t \in {Sent, Nil(Sent)} : Counts(SQL_SizeValue(t), SQL_PackValue(t))
  /\ \A opt \in TextOptions : Counts(RFC822_SizeValue(opt, Sent), RFC822_PackValue(opt, Sent))
  /\ CGI_SizeValue(A, Sent) = Len(CGI_PackValue(A, Sent).bytes)

\* JSON restores every value, whatever the receiver held, also where the
\* packet of a record leaves it out: what is put back is what was left out.  A
\* double has no minus zero.
JSONRestores ==
  (Countable(val) /\ (val.type = "NUMBER" => FixedToFloat(val.body) # 0 \/ ~Signed(val.body.sval[1]))) =>
    \A to \in {Fresh(decl), SetValueString(Fresh(decl), CHOOSE s \in Texts : IsDigit(At(s, 0)))} :
      LET u == RecordOf(to, NewValue("INT"))
      IN /\ Assigned(Sent, u, JSON_UnPackValue(JSON_PackValue(Sent), u))
         /\ \A j \in {JSON_PackValueOmmit(Sent), JSON_PackValueOmmitString(Sent)} :
              Assigned(Sent, u, JSON_UnPackValueOmmit(j, u))

\* JSON counts the terminator, and what was counted is what is written.
JSONFits ==
  Countable(val) =>
    /\ JSON_SizeValue(Sent) = TextLength(JSON_PackValue(Sent)) + 1
    /\ \A t \in {Sent, Array(<<val, Neighbour>>)} :
         /\ JSON_SizeValueOmmit(t) = TextLength(JSON_PackValueOmmit(t)) + 1
         /\ JSON_SizeValueOmmitString(t) = TextLength(JSON_PackValueOmmitString(t)) + 1

\* A document says nothing of an empty text, which is nil then, and the last
\* piece of a text with markup.
XMLCanSay == ~Has(Text, Markup)

\* Records in records, with items behind them; in the first kind of markup
\* arrays of records and of scalars.
XMLTree(type, v, n) ==
  LET inner == Record(<<B, A>>, <<n, v>>)
  IN IF type = 1 THEN Record(<<A, B>>, <<Array(<<inner>>), Array(<<v, v>>)>>)
     ELSE Record(<<A, B>>, <<Record(<<B, A>>, <<inner, v>>), n>>)

\* What XML sets a value of the receiver to that is sent v.
XMLAssigned(held, v, text) ==
  IF IsNil(v) \/ text = <<>> THEN Nil(held) ELSE NonNil(SetValueString(held, text))

\* The long name that the reader keeps leads to the item that each text belongs
\* to, in both kinds of markup, and what has no text is nil.
XMLRestores ==
  XMLCanSay =>
    \A type \in 1..2 :
      LET t    == XMLTree(type, val, Neighbour)
          u    == XMLTree(type, Fresh(decl), NewValue("INT"))
          sent == Leaves(t)
          held == Leaves(u)
      IN Leaves(XML_UnPackValue(XMLDocument(type), XML_PackValue(XMLDocument(type), t), u))
           = [i \in DOMAIN sent |-> XMLAssigned(held[i], sent[i], ValueToString(sent[i]))]

\* A document is what was counted for it, but that the second kind of markup
\* counts more for arrays than it writes, and has a terminator behind it.  Not
\* enough is counted for a TIMESTAMP or DATE with its type, two bytes less, and
\* by the codec XML1, which writes the first kind and is registered with the
\* size of the second, where nothing that is nil counts (valueconv.c:81).
XMLFits ==
  \A o \in {<<1, FALSE>>, <<1, TRUE>>, <<2, TRUE>>} :
    LET opt  == [XMLDocument(o[1]) EXCEPT !.fType = o[2]]
        size == XML_SizeValue(opt, Sent)
        sent == Written(XML_PackValue(opt, Sent))
    IN (~o[2] \/ val.type \notin {"TIMESTAMP", "DATE"}) =>
         IF o[1] = 1 /\ (~o[2] \/ val.type # "TIME") THEN size = sent ELSE size >= sent

\* Both codecs of fixed layout restore what their fields can say, with every
\* reader at the end of its field.
BinaryRestores == NativeRestores /\ CobolRestores

\* All codecs of texts restore what their formats can say.
TextsRestore == CSVRestores /\ SQLRestores /\ NamesRestore /\ JSONRestores /\ XMLRestores

\* PackValue writes without a bound into what a client has reserved by SizeValue.
\* It returns no more than SizeValue, and writes no more than that and a
\* terminator: one byte more than SizeValue is enough (testjson.c:68 reserves it),
\* and SizeValue itself is for the native codec, JSON, CGI and a COBOL packet that
\* does not end in a date.  What XMLFits names is left out.
SizesSuffice == SizesAgree /\ TextsFit /\ JSONFits /\ XMLFits

=============================================================================
