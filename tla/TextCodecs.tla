----------------------------- MODULE TextCodecs -----------------------------
(***************************************************************************)
(* The codecs of src/src/Text.c, which write each scalar as text: CSV and  *)
(* SQL one behind the other, RFC822 and CGI with their names.  opt is what *)
(* a CONVOPT says: [encode, fName, recname, fNewLine], with an encoding of *)
(* those that both directions know.  A packet is what is written, which    *)
(* CSV, SQL and RFC822 do up to a terminator behind the size they return;  *)
(* the reader finds NULs behind it.                                        *)
(***************************************************************************)
EXTENDS Codec, Encodings

SQuote    == 39
LetterN   == 110
nullText  == <<110, 117, 108, 108>>

IsComposite(v)  == v.type \in {"ARRAY", "RECORD"}
Quoted(q, text) == <<q>> \o text \o <<q>>
EndedBy(s, c)   == IF s = <<>> THEN s ELSE [s EXCEPT ![Len(s)] = c]

-----------------------------------------------------------------------------
(* Reading a field of CSV (q = DQuote) or SQL (q = SQuote)                   *)

\* Fault: a quote ends the text whatever follows it.
AnyQuote(q, p, at) == At(p, at) = q

\* The quote that ends a text is one that a comma follows.
ClosingQuote(q, p, at) == At(p, at) = q /\ At(p, at + 1) = Comma

\* What is behind a backslash is read once more, as it is.  A quote is
\* dropped and what is behind it taken; only SQL takes both of two quotes.
RECURSIVE QuotedText(_, _, _, _)
QuotedText(q, p, at, out) ==
  LET c == At(p, at)
      d == At(p, at + 1)
  IN IF c = NUL \/ ClosingQuote(q, p, at) THEN [text |-> out, at |-> at]
     ELSE CASE c = Backslash -> QuotedText(q, p, at + 1, Append(out, IF q = DQuote /\ d = LetterN THEN Newline ELSE d))
            [] c = q         -> QuotedText(q, p, at + 2, IF q = SQuote /\ d = q THEN out \o <<q, q>> ELSE Append(out, d))
            [] OTHER         -> QuotedText(q, p, at + 1, Append(out, c))

\* A text and the bytes up to the next one: behind a text in quotes up to the
\* comma, and one more also where there is none.
QuotedField(q, p) ==
  LET r    == QuotedText(q, p, 1, <<>>)
      rest == Leading(From(p, r.at + 1), LAMBDA c : c \notin {NUL, Comma})
  IN [text |-> r.text, size |-> r.at + 1 + Len(rest) + 1]

PlainCSV(p) ==
  LET text == Leading(p, LAMBDA c : c \notin {NUL, Comma, Newline, CR})
      n    == Len(text)
  IN [text |-> text,
      size |-> IF At(p, n) = Comma \/ (At(p, n) = CR /\ At(p, n + 1) = Newline) THEN n + 1 ELSE n]

PlainSQL(p) == LET text == Leading(p, LAMBDA c : c \notin {NUL, Comma})
               IN [text |-> text, size |-> Len(text) + 1]

Take(q, p) == IF At(p, 0) = q THEN QuotedField(q, p)
              ELSE IF q = DQuote THEN PlainCSV(p) ELSE PlainSQL(p)

\* Every scalar is set to the text of its field.
RECURSIVE ReadTexts(_, _, _)
ReadTexts(q, p, v) ==
  LET next(rest, x) == ReadTexts(q, rest, x)
  IN CASE IsComposite(v)  -> ReadItems(v, next, p)
       [] v.type = "NULL" -> Field(0, v)
       [] OTHER           -> LET field == Take(q, p)
                             IN Field(field.size, SetValueString(v, CString(field.text)))

CSV_UnPackValue(p, v) == ReadTexts(DQuote, p, v)
SQL_UnPackValue(p, v) == ReadTexts(SQuote, p, v)

-----------------------------------------------------------------------------
(* Writing CSV.  Its variants put quotes round numbers (nsep) and strings     *)
(* (ssep).                                                                    *)

CSV1 == [nsep |-> TRUE,  ssep |-> TRUE]
CSV2 == [nsep |-> FALSE, ssep |-> FALSE]
CSV3 == [nsep |-> FALSE, ssep |-> TRUE]
CSVE == [nsep |-> FALSE, ssep |-> FALSE]

\* The scalars that are written as strings.
CSVStrings == CharTypes \cup {"BOOL", "OBJECT"}

\* Without quotes round the text those in it are dropped.
CSV_Encode(str, ssep) ==
  FlattenSeq([i \in DOMAIN str |->
                CASE str[i] = DQuote    -> IF ssep THEN <<DQuote, DQuote>> ELSE <<>>
                  [] str[i] = Newline   -> <<Backslash, LetterN>>
                  [] str[i] = Backslash -> <<Backslash, Backslash>>
                  [] OTHER              -> <<str[i]>>])

IsComma(text) == Contains(text, Comma)

CSVQuotes(format, v, text) ==
  IF v.type \in CSVStrings THEN format.ssep \/ IsComma(text) ELSE format.nsep
CSVQuoted(format, v, text) ==
  (IF CSVQuotes(format, v, text) THEN Quoted(DQuote, text) ELSE text) \o <<Comma>>
CSVText(format, v, str) == IF v.type \in CSVStrings THEN CSV_Encode(str, format.ssep) ELSE str
CSVField(format, v) == CSVQuoted(format, v, CSVText(format, v, ValueToString(v)))

\* The items of an array that is packed itself may be lines.
CSV_Pack(newLine, format, v) ==
  LET fields(x) == LET scalars == Scalars(x)
                   IN Concat([i \in DOMAIN scalars |-> CSVField(format, scalars[i])])
  IN IF v.type = "ARRAY" /\ newLine
     THEN Concat([i \in DOMAIN v.items |-> EndedBy(fields(v.items[i]), Newline)])
     ELSE fields(v)

\* The last separator becomes the terminator of the packet, which it counts
\* with; behind it is sprintf's, or the one that an empty packet begins with.
CSV_PackValue(newLine, format, v) ==
  Sprintf(NoBytes, EndedBy(CSV_Pack(newLine, format, v), NUL))

\* What is reserved: backslashes of a text without quotes are counted when
\* they are written and once more, and lines count one.
CSVExtra(format, v, text) ==
  CASE v.type \notin CSVStrings                  -> IF format.nsep THEN 2 ELSE 0
    [] v.type \in CSVStrings /\ format.ssep      -> 2
    [] OTHER -> Len(SelectSeq(text, LAMBDA c : c = Backslash)) + (IF IsComma(text) THEN 2 ELSE 0)
CSVCount(format, v, text) == Len(text) + 1 + CSVExtra(format, v, text)
CSVFieldSize(format, v) == CSVCount(format, v, CSVText(format, v, ValueToString(v)))

CSV_SizeValue(newLine, format, v) ==
  LET scalars == Scalars(v)
  IN SumOf([i \in DOMAIN scalars |-> CSVFieldSize(format, scalars[i])])
       + IF v.type = "ARRAY" /\ newLine THEN Len(v.items) ELSE 0

-----------------------------------------------------------------------------
(* Writing SQL                                                               *)

SQL_Encode(str) == EachByte(LAMBDA c : IF c \in {SQuote, Backslash} THEN <<Backslash, c>> ELSE <<c>>, str)

SQLText(v, text) ==
  CASE v.type \in {"DBCODE", "SYMBOL"}              -> SQL_Encode(text)
    [] v.type \in CSVStrings \ {"DBCODE", "SYMBOL"} -> Quoted(SQuote, SQL_Encode(text))
    [] OTHER                                        -> text
SQLField(v) == IF IsNil(v) THEN nullText ELSE SQLText(v, ValueToString(v))

\* What stands between commas.  A record or an array that is nil is a single
\* null.
RECURSIVE SQLFields(_)
SQLFields(v) ==
  CASE IsComposite(v) /\ ~IsNil(v) -> Concat([i \in DOMAIN v.items |-> SQLFields(v.items[i])])
    [] v.type = "NULL"              -> <<>>
    [] OTHER                        -> <<SQLField(v)>>

Separated(fields, c) ==
  Concat([i \in DOMAIN fields |-> IF i > 1 THEN <<c>> \o fields[i] ELSE fields[i]])

SQL_PackValue(v) == Sprintf(NoBytes, Separated(SQLFields(v), Comma))

SQLSize(c) == IF c \in {SQuote, Backslash} THEN 2 ELSE 1

SQLTextSize(v, text) ==
  CASE v.type \in {"DBCODE", "SYMBOL"}              -> EachLength(SQLSize, text)
    [] v.type \in CSVStrings \ {"DBCODE", "SYMBOL"} -> 2 + EachLength(SQLSize, text)
    [] OTHER                                        -> Len(text)
SQLFieldSize(v) == IF IsNil(v) THEN 4 ELSE SQLTextSize(v, ValueToString(v))

\* Every field but the first counts its comma.
RECURSIVE SQLCounts(_)
SQLCounts(v) ==
  CASE IsComposite(v) /\ ~IsNil(v) -> Concat([i \in DOMAIN v.items |-> SQLCounts(v.items[i])])
    [] v.type = "NULL"              -> <<>>
    [] OTHER                        -> <<SQLFieldSize(v)>>

SQL_SizeValue(v) ==
  LET counts == SQLCounts(v)
  IN SumOf(counts) + IF counts = <<>> THEN 0 ELSE Len(counts) - 1

-----------------------------------------------------------------------------
(* Names                                                                     *)

LeftBracket  == 91
RightBracket == 93

\* The scalars of a tree with the names that lead to them.
RECURSIVE Named(_, _)
Named(name, v) ==
  CASE v.type = "ARRAY" ->
         Concat([i \in DOMAIN v.items |->
                   Named(name \o <<LeftBracket>> \o PrintInt(i - 1, 0) \o <<RightBracket>>, v.items[i])])
    [] v.type = "RECORD" ->
         Concat([i \in DOMAIN v.items |-> Named(name \o <<Point>> \o v.names[i], v.items[i])])
    [] v.type = "NULL" -> <<>>
    [] OTHER -> <<[name |-> name, value |-> v]>>

\* A name in a packet: that of the record and that of an item in it.
RecordName(name) == Leading(name, LAMBDA c : c # Point)
ItemName(name)   == Leading(From(name, Len(RecordName(name)) + 1), LAMBDA c : ~IsSpace(c))

\* GetItemLongName: the indices that lead to the item of a name, the last of
\* them 0 if there is none.
RECURSIVE PathTo(_, _)
PathTo(v, name) ==
  LET indexed == At(name, 0) = LeftBracket
      digits == Leading(Tail(name), IsDigit)
      word   == Leading(name, LAMBDA c : c \notin {Point, LeftBracket})
      behind == From(name, IF indexed THEN Len(digits) + 2 ELSE Len(word))
      rest   == IF At(behind, 0) = Point THEN Tail(behind) ELSE behind
      i == IF indexed THEN Number(digits) + 1 ELSE SelectInSeq(v.names, LAMBDA n : n = word)
  IN CASE name = <<>>                -> <<>>
       [] name # <<>> /\ v.type = (IF indexed THEN "ARRAY" ELSE "RECORD") /\ (~indexed => word # <<>>) ->
            IF i \in DOMAIN v.items THEN <<i>> \o PathTo(v.items[i], rest) ELSE <<0>>
       [] name # <<>> /\ ~indexed /\ word = <<>> -> PathTo(v, rest)
       [] OTHER                      -> <<0>>

Found(path) == ~Contains(path, 0)

RECURSIVE ItemAt(_, _), WithItemAt(_, _, _)
ItemAt(v, path) == IF path = <<>> THEN v ELSE ItemAt(v.items[path[1]], Tail(path))
WithItemAt(v, path, item) ==
  IF path = <<>> THEN item
  ELSE [v EXCEPT !.items[path[1]] = WithItemAt(@, Tail(path), item)]

-----------------------------------------------------------------------------
(* RFC822: lines, with the name of the scalar in front or without            *)

Colon == 58

\* The types whose text is encoded.
Encoded(opt, v) == EncodeString(IF v.type \in CharTypes THEN opt.encode ELSE "NULL", ValueToString(v))
Decoded(opt, v, text) == IF v.type \in CharTypes THEN DecodeString(opt.encode, text) ELSE text

RFC822_PackValue(opt, v) ==
  LET lines == Named(opt.recname, v)
      line(n) == (IF opt.fName THEN n.name \o <<Colon, Space>> ELSE <<>>)
                   \o Encoded(opt, n.value) \o <<Newline>>
  IN Sprintf(NoBytes, EndedBy(Concat([i \in DOMAIN lines |-> line(lines[i])]), NUL))

RFC822_SizeValue(opt, v) ==
  LET lines == Named(opt.recname, v)
      text(n) == EncodeLength(IF n.type \in CharTypes THEN opt.encode ELSE "NULL", ValueToString(n))
  IN SumOf([i \in DOMAIN lines |-> 1 + text(lines[i].value) + IF opt.fName THEN Len(lines[i].name) + 2 ELSE 0])

LineOf(p) == Leading(p, LAMBDA c : c \notin {NUL, Newline})

\* Without names: a line for each scalar.
RECURSIVE UnPackValueNoNamed(_, _, _)
UnPackValueNoNamed(opt, p, v) ==
  LET next(q, x) == UnPackValueNoNamed(opt, q, x)
  IN CASE IsComposite(v)  -> ReadItems(v, next, p)
       [] v.type = "NULL" -> Field(0, v)
       [] OTHER -> Field(Len(LineOf(p)) + 1, SetValueString(v, CString(Decoded(opt, v, LineOf(p)))))

\* What a line of another record is skipped to: the end of it, which the next
\* name then begins with.
RFC822_SkipNext(opt, p, at) ==
  IF opt.encode \in {"NULL", "URL"} THEN at + Len(LineOf(From(p, at))) ELSE at

\* All spaces behind a colon are skipped, the end of an empty line too.
SkipSpaces(p, at) == at + Len(Leading(From(p, at), IsSpace))

\* A line that names an item of v sets it, if it is a scalar.
NamedLine(opt, p, r) ==
  LET name == Leading(From(p, r.size), LAMBDA c : c \notin {NUL, Colon})
      at   == SkipSpaces(p, r.size + Len(name) + 1)
      line == LineOf(From(p, at))
      path == PathTo(r.value, ItemName(name))
      item == ItemAt(r.value, path)
  IN CASE At(p, r.size) = NUL -> r
       [] At(p, r.size) # NUL /\ RecordName(name) = opt.recname /\ Found(path) ->
            [size  |-> at + Len(line) + 1,
             value |-> IF IsComposite(item) THEN r.value
                       ELSE WithItemAt(r.value, path,
                                       SetValueString(item, CString(Decoded(opt, item, line))))]
       [] OTHER -> [r EXCEPT !.size = RFC822_SkipNext(opt, p, at)]

\* Each but the last name ends at a colon.
OnlyThe(c, p) == SelectSeq(p, LAMBDA x : x = c)

UnPackValueNamed(opt, p, v) ==
  FoldLeft(LAMBDA r, i : NamedLine(opt, p, r), Field(0, v), <<Colon>> \o OnlyThe(Colon, p))

RFC822_UnPackValue(opt, p, v) ==
  IF opt.fName THEN UnPackValueNamed(opt, CString(p), v) ELSE UnPackValueNoNamed(opt, CString(p), v)

-----------------------------------------------------------------------------
(* CGI: name=text&, in the encoding for URLs                                  *)

Equal     == 61
Ampersand == 38

\* The "&" takes the place of each text's terminator.
CGI_PackValue(recname, v) ==
  LET parts == Named(recname, v)
      part(n) == n.name \o <<Equal>> \o EncodeStringURL(ValueToString(n.value)) \o <<Ampersand>>
  IN Put(NoBytes, EndedBy(Concat([i \in DOMAIN parts |-> part(parts[i])]), NUL))

CGI_SizeValue(recname, v) ==
  LET parts == Named(recname, v)
  IN SumOf([i \in DOMAIN parts |->
              EncodeStringLengthURL(ValueToString(parts[i].value)) + Len(parts[i].name) + 2])

\* Skipping a part and reading it end behind the same "&".
CGIPart(recname, p, r) ==
  LET name == Leading(From(p, r.size), LAMBDA c : c \notin {NUL, Equal})
      at   == r.size + Len(name) + (IF At(p, r.size + Len(name)) = NUL THEN 0 ELSE 1)
      text == Leading(From(p, at), LAMBDA c : c \notin {NUL, Ampersand, Newline})
      next == at + Len(text) + (IF At(p, at + Len(text)) = NUL THEN 0 ELSE 1)
      path == PathTo(r.value, ItemName(name))
  IN CASE At(p, r.size) = NUL -> r
       [] At(p, r.size) # NUL /\ RecordName(name) = recname /\ Found(path) ->
            [size  |-> next,
             value |-> WithItemAt(r.value, path,
                                  SetValueString(ItemAt(r.value, path), CString(DecodeStringURL(text))))]
       [] OTHER -> [r EXCEPT !.size = next]

CGI_UnPackValue(recname, p, v) ==
  FoldLeft(LAMBDA r, i : CGIPart(recname, p, r), Field(0, v), <<Equal>> \o OnlyThe(Equal, p))

=============================================================================
