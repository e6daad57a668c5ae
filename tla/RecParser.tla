------------------------------ MODULE RecParser ------------------------------
(***************************************************************************)
(* The parser of record definitions, src/src/RecParser.c, and the table of *)
(* the records it has parsed.  A text is a sequence of the tokens that Lex *)
(* finds, chosen as they are read; each step goes to the next call of Lex. *)
(* Parsing goes on behind an error, often without a value.                 *)
(*                                                                         *)
(* Some tokens stand for several: "char" for byte, char and varchar,       *)
(* "text" for text and dbcode, "int" for the types without a size, "alias" *)
(* also for "=", "{" also for "(" where a record begins, and "other" for   *)
(* whatever is not expected anywhere.  Names and sizes are left out.       *)
(***************************************************************************)
EXTENDS Integers, SequencesExt

CONSTANTS Tokens,      \* of texts
          MaxTokens,   \* bound on the tokens of a text in memory that is parsed first
          MaxFile,     \* bound on those of other texts
          MaxBehind,   \* bound on those behind an error
          Numbers,     \* that texts contain
          MaxParses    \* bound on the texts that are parsed

Modifiers == {"input", "output", "virtual"}
Sized     == {"char", "text", "number"}
Reserved  == Modifiers \cup Sized \cup {"int", "alias"}

ASSUME RecParserAssumption ==
  /\ Tokens \subseteq Reserved \cup {"symbol", "const", "{", "}", ")", "(", "[", "]", ",", ";",
                                     ".", "other"}
  /\ {MaxFile, MaxTokens} \subseteq Nat \ {0} /\ MaxFile <= MaxTokens
  /\ MaxBehind \in Nat /\ Numbers \subseteq Nat /\ MaxParses \in Nat

EOF == "EOF"

VARIABLES pc,       \* what is parsed next
          tok,      \* ComToken, the last token read
          num,      \* ComInt
          left,     \* bound: how many tokens may still be read
          ends,     \* how often its end was read, three standing for more
          stack,    \* the records that are open, each with its value
          value,    \* the value that ParValueDefine makes
          dims,     \* the dimensions behind it, the last one first
          attr,     \* the modifiers behind it
          error,    \* in->fError
          crashed,  \* NULL was dereferenced
          request,  \* which function was called
          parses,   \* how many texts were parsed
          cached,   \* ParsedRec for a name: not entered, NULL or the parse
          result,   \* what was returned, a tree
          answers   \* the parses that RecParseValue returned for the name

parser == <<stack, value, dims, attr>>
caller == <<request, parses, cached, result, answers>>
vars   == <<pc, tok, num, left, ends, parser, error, crashed, caller>>

-----------------------------------------------------------------------------
(* Values: a tree is a function from paths.  A path has the places of the  *)
(* items that it leads through, 0 being the prototype of an array.         *)

Node(type, size) == [type |-> type, attr |-> {}, size |-> size]
Scalar(type)     == [p \in {<<>>} |-> Node(type, 0)]
NoTree           == Scalar("NULL")
Type(v)          == v[<<>>].type

\* Where the parts of v are in what has it at place i.
Under(i, v) == {<<i>> \o p : p \in DOMAIN v}

OfItem(p) == 0 \notin Range(p)

\* Fault: the items of what is inside keep their attributes.
TopOnly(v, as) == [v EXCEPT ![<<>>].attr = @ \cup as]

\* Prototypes are not visited.
SetValueAttribute(v, as) ==
  [p \in DOMAIN v |-> IF OfItem(p) THEN [v[p] EXCEPT !.attr = @ \cup as] ELSE v[p]]

\* DuplicateValue leaves the prototypes of arrays out.
Duplicate(v) == [p \in {q \in DOMAIN v : OfItem(q)} |-> v[p]]

\* An array of a dimension; one that is expandable has no items yet.
MakeArray(v, dim) ==
  LET size      == IF dim.expandable THEN 0 ELSE dim.count
      items     == UNION {Under(i, Duplicate(v)) : i \in 1..size}
      prototype == IF v = NoTree THEN {} ELSE Under(0, v)
  IN [p \in {<<>>} \cup items \cup prototype |->
        IF p = <<>> THEN Node("ARRAY", size) ELSE v[Tail(p)]]

\* MakeValueArray duplicates NULL to NULL, whose parent is then set.
NoItems(v, ds) == v = NoTree /\ ds # <<>> /\ ~ds[1].expandable /\ ds[1].count > 0

Arrays(v, ds) ==
  LET made[k \in 0..Len(ds)] == IF k = 0 THEN v ELSE MakeArray(made[k-1], ds[k])
  IN made[Len(ds)]

-----------------------------------------------------------------------------
(* Reading tokens *)

Memory == request = "RecParseValueMem"

\* A text in memory ends twice: GetChar compares its place with the end, which it
\* is then behind.  What is read next is whatever lies there, in the bound of the
\* tokens that the text did not use.
Overrun == Memory /\ ends = 3

Offered(kind) ==
  LET some == IF kind = "symbol" THEN Tokens ELSE Tokens \ Reserved
  IN (IF left > 0 /\ (ends = 0 \/ Overrun) THEN some ELSE {}) \cup {EOF}

Read(kind) ==
  \E t \in Offered(kind) :
    /\ tok' = t
    /\ IF t = "const" THEN num' \in Numbers ELSE num' = 0
    /\ left' = IF t = EOF THEN (IF Memory THEN left ELSE 0)
               ELSE IF error /\ left > MaxBehind THEN MaxBehind ELSE left - 1
    /\ ends' = IF ends = 3 \/ t # EOF THEN ends ELSE ends + 1

GetSymbol == Read("symbol")
GetName   == Read("name")
Stay      == UNCHANGED <<tok, num, left, ends>>

Goto(label)  == pc' = label
Error        == error' = TRUE
NoError      == UNCHANGED error

\* Fault: an error is forgotten.
LastError(bad) == error' = bad

ErrorIf(bad) == error' = (error \/ bad)
Running(at)  == pc = at /\ ~crashed
Rest         == UNCHANGED <<crashed, caller>>

Top    == stack[Len(stack)]
Pop    == SubSeq(stack, 1, Len(stack) - 1)
Push(v) == stack' = Append(stack, v)

-----------------------------------------------------------------------------
(* RecParseMain *)

FirstToken ==
  /\ Running("head")
  /\ IF tok = "virtual" /\ attr = {}
     THEN attr' = {"virtual"} /\ GetSymbol /\ Goto("head")
     ELSE attr' = attr /\ Stay /\ Goto("name")
  /\ NoError /\ UNCHANGED <<stack, value, dims>> /\ Rest

\* A text without a name has no value, and that is no error.
RecordName ==
  /\ Running("name")
  /\ IF tok = "symbol" THEN GetSymbol /\ Goto("brace") ELSE Stay /\ Goto("return")
  /\ NoError /\ UNCHANGED parser /\ Rest

Brace ==
  /\ Running("brace")
  /\ IF tok = "{"
     THEN /\ Push([Scalar("ROOT") EXCEPT ![<<>>].attr = attr])
          /\ GetName /\ Goto("defines") /\ NoError
     ELSE UNCHANGED stack /\ Stay /\ Goto("return") /\ Error
  /\ attr' = {}
  /\ UNCHANGED <<value, dims>> /\ Rest

-----------------------------------------------------------------------------
(* ParValueDefine *)

Define ==
  /\ Running("define")
  /\ CASE tok \in Reserved \ Modifiers ->
            /\ value' = Scalar(tok) /\ GetSymbol /\ NoError /\ UNCHANGED stack
            /\ Goto(IF tok = "alias" THEN "alias" ELSE IF tok = "int" THEN "dims" ELSE "sized")
       [] tok \in {"{", "("} ->
            /\ Push(Scalar("RECORD")) /\ value' = NoTree /\ GetName /\ NoError
            /\ Goto("defines")
       [] OTHER ->
            /\ value' = NoTree /\ Error /\ Stay /\ UNCHANGED stack /\ Goto("dims")
  /\ dims' = <<>>
  /\ UNCHANGED attr /\ Rest

\* The name that an alias stands for: to the next "," or ";", the end of the
\* text being nothing but one more error.
Alias ==
  /\ Running("alias")
  /\ CASE tok \in {",", ";"}      -> Stay /\ NoError /\ Goto("dims")
       [] tok = "["               -> GetSymbol /\ NoError /\ Goto("suffix")
       [] tok \in {"symbol", "."} -> GetSymbol /\ NoError /\ Goto("alias")
       [] OTHER                   -> GetSymbol /\ Error /\ Goto("alias")
  /\ UNCHANGED parser /\ Rest

AliasSuffix ==
  /\ pc \in {"suffix", "closing"} /\ ~crashed
  /\ GetSymbol
  /\ IF pc = "suffix" /\ tok = "const" THEN Goto("closing") /\ NoError
     ELSE Goto("alias") /\ ErrorIf(tok # "]")
  /\ UNCHANGED parser /\ Rest

\* Behind an error nothing that has a size is made.
MadeValue(bad) == IF error \/ bad THEN NoTree ELSE value

SizeOrNone ==
  /\ Running("sized")
  /\ IF tok = "(" THEN GetSymbol /\ Goto("size") /\ UNCHANGED value
     ELSE Stay /\ Goto("dims") /\ value' = MadeValue(FALSE)
  /\ NoError
  /\ UNCHANGED <<stack, dims, attr>> /\ Rest

Size ==
  /\ Running("size")
  /\ GetSymbol
  /\ IF tok = "const"
     THEN /\ Goto(IF Type(value) = "number" THEN "scale" ELSE "close")
          /\ NoError /\ UNCHANGED value
     ELSE Goto("dims") /\ Error /\ value' = NoTree
  /\ UNCHANGED <<stack, dims, attr>> /\ Rest

\* The digits behind the point.
Scale ==
  /\ Running("scale")
  /\ IF tok = "," THEN GetSymbol /\ Goto("digits") ELSE Stay /\ Goto("close")
  /\ NoError
  /\ UNCHANGED parser /\ Rest

Digits ==
  /\ Running("digits")
  /\ GetSymbol /\ Goto("closeScale") /\ ErrorIf(tok # "const")
  /\ UNCHANGED parser /\ Rest

Close ==
  /\ pc \in {"close", "closeScale"} /\ ~crashed
  /\ GetSymbol /\ Goto("dims") /\ ErrorIf(tok # ")")
  /\ value' = MadeValue(tok # ")")
  /\ UNCHANGED <<stack, dims, attr>> /\ Rest

Dimension ==
  /\ Running("dims") /\ tok = "["
  /\ GetSymbol /\ Goto("dimension") /\ NoError
  /\ UNCHANGED parser /\ Rest

Count ==
  /\ Running("dimension")
  /\ dims' = <<[count |-> num, expandable |-> tok # "const"]>> \o dims
  /\ IF tok = "const" THEN GetSymbol ELSE Stay
  /\ Goto("bracket") /\ NoError
  /\ UNCHANGED <<stack, value, attr>> /\ Rest

Bracket ==
  /\ Running("bracket")
  /\ IF tok = "]" THEN GetSymbol /\ Goto("dims") /\ NoError ELSE Stay /\ Goto("made") /\ Error
  /\ UNCHANGED parser /\ Rest

\* The arrays around the value, and the modifiers that it inherits.
Made ==
  /\ pc = "made" \/ (pc = "dims" /\ tok # "[")
  /\ ~crashed
  /\ IF NoItems(value, dims)
     THEN crashed' = TRUE /\ UNCHANGED <<value, dims, attr, pc>>
     ELSE /\ value' = Arrays(value, dims)
          /\ dims' = <<>> /\ attr' = Top[<<>>].attr /\ Goto("modifiers")
          /\ UNCHANGED crashed
  /\ Stay /\ NoError
  /\ UNCHANGED <<stack, caller>>

-----------------------------------------------------------------------------
(* ParValueDefines *)

\* Fault: the modifiers last to the semicolon.
NotYetSemicolon(t) == t # ";"

MoreModifiers(t) == t = ","

Modify ==
  /\ Running("modifiers") /\ MoreModifiers(tok)
  /\ GetSymbol /\ Goto("modifier") /\ NoError
  /\ UNCHANGED parser /\ Rest

Modifier ==
  /\ Running("modifier")
  /\ GetSymbol /\ Goto("modifiers")
  /\ attr' = attr \cup ({tok} \cap Modifiers)
  /\ ErrorIf(tok \notin Modifiers)
  /\ UNCHANGED <<stack, value, dims>> /\ Rest

AddItem(upper, v) ==
  LET size == upper[<<>>].size + 1
  IN [p \in DOMAIN upper \cup Under(size, v) |->
        IF p = <<>> THEN [upper[p] EXCEPT !.size = size]
        ELSE IF Head(p) = size THEN v[Tail(p)] ELSE upper[p]]

\* The value becomes an item of the record.
Defined ==
  /\ Running("modifiers") /\ ~MoreModifiers(tok)
  /\ IF tok = ";" THEN GetName /\ NoError ELSE Stay /\ Error
  /\ stack' = IF error \/ tok # ";" THEN stack
              ELSE Append(Pop, AddItem(Top, SetValueAttribute(value, attr)))
  /\ value' = NoTree /\ attr' = {}
  /\ Goto("defines")
  /\ UNCHANGED dims /\ Rest

NextName ==
  /\ Running("defines") /\ tok = "symbol"
  /\ GetSymbol /\ Goto("define") /\ NoError
  /\ UNCHANGED parser /\ Rest

\* The end of a record; that of one in another is behind it a value with
\* dimensions and modifiers like any other.
EndRecord ==
  /\ Running("defines") /\ tok # "symbol"
  /\ IF ~error /\ tok \in {"}", ")"} THEN GetSymbol /\ NoError ELSE Stay /\ Error
  /\ value' = Top
  /\ stack' = Pop /\ dims' = <<>>
  /\ Goto(IF Len(stack) = 1 THEN "return" ELSE "dims")
  /\ UNCHANGED attr /\ Rest

-----------------------------------------------------------------------------
(* Calls *)

Idle == request = "none"

\* What may be in the table: nothing, NULL or what a parse made.
Absent    == <<"absent">>
NULL      == <<"NULL">>
Parsed(n) == <<"parsed", n>>

\* Fault: what failed to parse is found, too.
FoundEntered(entry) == entry # Absent

FoundIn(entry) == entry \notin {Absent, NULL}

\* PushLexInfo or PushLexInfoMem, then the first token of RecParseMain.
Open(r) ==
  /\ Idle /\ parses < MaxParses
  /\ request' = r /\ parses' = parses + 1
  /\ \E t \in Tokens \cup {EOF} :
       /\ tok' = t /\ num' = 0
       /\ left' = IF t = EOF THEN 0
                  ELSE (IF r = "RecParseValueMem" /\ parses = 0 THEN MaxTokens ELSE MaxFile) - 1
       /\ ends' = IF t = EOF THEN 1 ELSE 0
  /\ stack' = <<>> /\ value' = NoTree /\ dims' = <<>> /\ attr' = {} /\ error' = FALSE
  /\ result' = NoTree
  /\ Goto("head")
  /\ UNCHANGED <<crashed, cached, answers>>

RecParseValueNoCache == Open("RecParseValueNoCache")
RecParseValueMem     == Open("RecParseValueMem")
RecParseValue        == ~FoundIn(cached) /\ Open("RecParseValue")

\* RecParseValue of a record that is in the table.
RecParseValueHit ==
  /\ Idle /\ FoundIn(cached)
  /\ answers' = answers \cup {cached}
  /\ UNCHANGED <<pc, tok, num, left, ends, parser, error, crashed, request, parses, cached, result>>

\* The end of RecParseMain, DropLexInfo, and what RecParseValue enters.
Return ==
  /\ Running("return")
  /\ LET ret == IF error \/ Type(value) # "ROOT" THEN NoTree ELSE value
         entry == IF ret = NoTree THEN NULL ELSE Parsed(parses)
     IN /\ result' = ret
        /\ cached' = IF request = "RecParseValue" THEN entry ELSE cached
        /\ answers' = IF request = "RecParseValue" THEN answers \cup ({entry} \ {NULL})
                      ELSE answers
  /\ request' = "none" /\ Goto("idle")
  /\ tok' = EOF /\ num' = 0 /\ left' = 0 /\ ends' = 0
  /\ stack' = <<>> /\ value' = NoTree /\ dims' = <<>> /\ attr' = {} /\ error' = FALSE
  /\ UNCHANGED <<crashed, parses>>

Parsing ==
  \/ FirstToken \/ RecordName \/ Brace \/ Define \/ Alias \/ AliasSuffix \/ SizeOrNone \/ Size \/ Scale
  \/ Digits \/ Close \/ Dimension \/ Count \/ Bracket \/ Made \/ Modify \/ Modifier \/ Defined
  \/ NextName \/ EndRecord \/ Return

Init ==
  /\ pc = "idle" /\ tok = EOF /\ num = 0 /\ left = 0 /\ ends = 0
  /\ stack = <<>> /\ value = NoTree /\ dims = <<>> /\ attr = {} /\ error = FALSE
  /\ crashed = FALSE /\ request = "none" /\ parses = 0 /\ cached = Absent
  /\ result = NoTree /\ answers = {}

Next == \/ RecParseValue \/ RecParseValueNoCache \/ RecParseValueMem \/ RecParseValueHit
        \/ Parsing

\* A call runs until it returns.
Spec == Init /\ [][Next]_vars /\ WF_vars(Parsing)

-----------------------------------------------------------------------------
(* Properties *)

TypeOK ==
  /\ tok \in Tokens \cup {EOF} /\ num \in Numbers \cup {0}
  /\ left \in 0..MaxTokens /\ ends \in 0..3
  /\ \A i \in DOMAIN stack : Type(stack[i]) = IF i = 1 THEN "ROOT" ELSE "RECORD"
  /\ attr \subseteq Modifiers /\ {error, crashed} \subseteq BOOLEAN
  /\ pc \in {"define", "alias", "dims", "modifiers", "defines"} => Len(stack) > 0
  /\ pc \in {"dims", "modifiers"} => value # NoTree \/ error

\* A record definition without an error makes no NULL and no crash: dimensions
\* of a value that could not be made are dereferenced only behind an error.
CrashedBehindError == crashed => error
NoHoles == \A p \in DOMAIN result : p # <<>> => result[p].type # "NULL"

\* Whatever is parsed, what the parser holds and returns is whole, or an error
\* has been seen.
ValuesWhole == TypeOK /\ CrashedBehindError /\ NoHoles

\* What is declared input, output or virtual is so in all that it contains,
\* the items of its arrays and of the records in it: those that were made
\* before the modifier was read, too.
AttributesReachItems ==
  \A p \in DOMAIN result : \A i \in 1..result[p].size :
    /\ Append(p, i) \in DOMAIN result
    /\ result[p].attr \subseteq result[Append(p, i)].attr

\* Whoever asks for a record gets the same value, whatever its file contains by
\* then, and only a parse without error is such an answer.
SameForAll == NULL \notin answers /\ \A a, b \in answers : a = b

\* The end of a text is read again only once, to go on behind an error, but in
\* an alias, which it does not end, and behind the digits of a number.
EndReadTwice == [][ends = 2 /\ ends' = 3 => pc \in {"alias", "suffix", "closing", "closeScale"}]_vars

\* Every call returns, but for an alias at the end of the text, or behind the
\* end of a text in memory.
CallsReturn ==
  ~Idle ~> (Idle \/ crashed \/ (pc \in {"alias", "suffix", "closing"} /\ tok = EOF) \/ Overrun)

=============================================================================
