--------------------------------- MODULE Lex ---------------------------------
(***************************************************************************)
(* The lexer of src/src/Lex.c: a reader of characters with one character   *)
(* pushed back, over a text in memory, a file or a stream, and a stack of  *)
(* the inputs that includes interrupted.  Each step reads one character;   *)
(* texts are chosen as they are read.  The letter "i" stands for a word    *)
(* that begins with "include".  Line numbers, which only messages show,    *)
(* and the text of tokens are left out.                                    *)
(***************************************************************************)
EXTENDS Integers, FiniteSets, Sequences

CONSTANTS Files,       \* FILEs that can be open at a time
          Alphabet,    \* characters of texts
          Sizes,       \* bound: the lengths of texts
          SizeSymbol   \* SIZE_SYMBOL, the longest word

ASSUME LexAssumption ==
  /\ IsFiniteSet(Files) /\ "none" \notin Files
  /\ Sizes \subseteq Nat /\ IsFiniteSet(Sizes) /\ Sizes # {} /\ SizeSymbol \in Nat \ {0}
  /\ Alphabet \subseteq {"a", "i", "1", ".", " ", "nl", "#", "quote", "/", "*", "bs", "<", ">",
                         "=", "!", ";"}

NUL     == "NUL"
NoChar  == "none"
None    == "none"   \* no FILE, no token
Unknown == -1       \* the size of a stream
NoInput == [fp |-> None, fn |-> FALSE, pos |-> 0, size |-> Unknown]

VARIABLES in,      \* what is read: the fields of the CURFILE that includes save
          back,    \* the character that was pushed back
          ftop,    \* the inputs that were interrupted, the last one at the end
          file,    \* the FILEs that are open
          mode,    \* the loop of Lex that reads
          type,    \* what the call of Lex is for
          end,     \* the character that ends a name or a string
          count,   \* characters of the word, the name or the directive so far
          token,   \* what the call found, none while it runs
          text,    \* the caller's text in memory: kept or freed
          missed   \* an include that was read from that text was not found

vars == <<in, back, ftop, file, mode, type, end, count, token, text, missed>>

Calls == {"name", "symbol", "string"}

-----------------------------------------------------------------------------
(* Characters *)

IsSpace(c) == c \in {" ", "nl"}
IsWord(c)  == c \in {"a", "i", "1"}

InMemory(i) == i.fp = None

\* What GetChar may find: at the size it was told there is nothing more, a
\* FILE has nothing behind its end, and a text in memory, or one
\* that is freed, has whatever comes.
Found ==
  CASE back # NoChar                     -> {back}
    [] back = NoChar /\ in.pos = in.size -> {NUL}
    [] OTHER ->
         IF InMemory(in)
         THEN IF text = "freed" THEN Alphabet \cup {NUL}
              ELSE IF in.pos < in.size - 1 THEN Alphabet
              ELSE IF in.pos = in.size - 1 THEN {NUL} ELSE Alphabet \cup {NUL}
         ELSE IF file[in.fp].offset < file[in.fp].length THEN Alphabet ELSE {NUL}

Longest == CHOOSE n \in Sizes : \A m \in Sizes : m <= n

\* Bound: behind the end all positions are alike.
Position(p, size) ==
  LET last == (IF size = Unknown THEN Longest ELSE size) + 2 IN IF p > last THEN last ELSE p

FromFile == back = NoChar /\ in.pos # in.size /\ ~InMemory(in)
ReadFile ==
  IF file[in.fp].offset < file[in.fp].length THEN [file EXCEPT ![in.fp].offset = @ + 1] ELSE file
Advanced == IF FromFile THEN ReadFile ELSE file

\* GetChar.
Take(c) == /\ c \in Found
           /\ in' = [in EXCEPT !.pos = Position(@ + 1, in.size)]
           /\ back' = NoChar
           /\ file' = Advanced

\* Fault: the position is left behind the character that is put back.
PositionKept(c) == in' = [in EXCEPT !.pos = Position(@ + 1, in.size)] /\ back' = c

UnGetChar(c) == in' = in /\ back' = c

\* GetChar and UnGetChar.
Peek(c) == /\ c \in Found
           /\ UnGetChar(c)
           /\ file' = Advanced

-----------------------------------------------------------------------------
(* Inputs *)

Closed(f) == [x \in DOMAIN file \ {f} |-> file[x]]

Opened(f, length) ==
  [x \in DOMAIN file \cup {f} |-> IF x = f THEN [length |-> length, offset |-> 0] ELSE file[x]]

Idle(i) == /\ in' = i /\ back' = NoChar /\ ftop' = <<>> /\ mode' = "idle" /\ type' = "symbol"
           /\ end' = NoChar /\ count' = 0 /\ token' = None
           /\ text' = "kept" /\ missed' = FALSE

PushLexInfo ==
  /\ in = NoInput
  /\ \E f \in Files \ DOMAIN file : \E n \in Sizes :
       Idle([fp |-> f, fn |-> TRUE, pos |-> 0, size |-> n]) /\ file' = Opened(f, n)

PushLexInfoMem ==
  /\ in = NoInput
  /\ \E n \in Sizes : Idle([fp |-> None, fn |-> FALSE, pos |-> 0, size |-> n + 1])
  /\ UNCHANGED file

PushLexInfoStream ==
  /\ in = NoInput
  /\ \E f \in Files \ DOMAIN file : \E n \in Sizes :
       Idle([fp |-> f, fn |-> FALSE, pos |-> 0, size |-> Unknown]) /\ file' = Opened(f, n)

\* A text of the caller's has no file name, and is left alone.
FreedByDrop(i) == i.fn /\ InMemory(i)

\* DropLexInfo closes what is being read.  What includes interrupted stays
\* open, and nothing refers to it any more.
DropLexInfo ==
  /\ in # NoInput /\ mode = "idle"
  /\ file' = IF InMemory(in) THEN file ELSE Closed(in.fp)
  /\ text' = IF text = "kept" /\ FreedByDrop(in) THEN "freed" ELSE text
  /\ in' = NoInput /\ ftop' = <<>> /\ back' = NoChar
  /\ UNCHANGED <<mode, type, end, count, token, missed>>

\* Fault: the FILE of the include goes on.
FileKept(i) == [i EXCEPT !.fp = in.fp]

Resumed(i) == i

\* ExitInclude: on with the input that the include interrupted.
ExitInclude ==
  /\ in' = Resumed(ftop[Len(ftop)])
  /\ ftop' = SubSeq(ftop, 1, Len(ftop) - 1)
  /\ file' = Closed(in.fp)
  /\ UNCHANGED text

\* DoInclude of a file that is found, the quote before its name being read.
Include(f, n) ==
  /\ ftop' = Append(ftop, [in EXCEPT !.pos = Position(@ + 1, in.size)])
  /\ in' = [fp |-> f, fn |-> TRUE, pos |-> 0, size |-> n]
  /\ back' = NoChar
  /\ file' = LET g == Advanced IN [x \in DOMAIN g \cup {f} |->
                                     IF x = f THEN [length |-> n, offset |-> 0] ELSE g[x]]
  /\ UNCHANGED <<text, missed>>

\* DoInclude of a file that is not: ExitInclude frees the body of the input
\* that goes on, which may be the caller's text.
Missing(c) ==
  /\ Take(c)
  /\ text' = IF InMemory(in) /\ text = "kept" THEN "freed" ELSE text
  /\ missed' = (missed \/ InMemory(in))
  /\ UNCHANGED ftop

-----------------------------------------------------------------------------
(* Lex *)

Goto(m) == mode' = m
Got(t)  == mode' = "idle" /\ token' = t
Same    == UNCHANGED <<ftop, text, missed, type>>

Lex(t) ==
  /\ in # NoInput /\ mode = "idle"
  /\ mode' = "space" /\ type' = t
  /\ end' = NoChar /\ count' = 0 /\ token' = None
  /\ UNCHANGED <<in, back, ftop, file, text, missed>>

\* The first character behind spaces.
Begin ==
  /\ mode = "space"
  /\ \E c \in Found \ {NUL} :
       /\ Take(c)
       /\ CASE IsSpace(c)      -> Goto("space") /\ UNCHANGED <<end, count, token>>
            [] c = "#"         -> Goto("hash") /\ UNCHANGED <<end, count, token>>
            [] c = "/"         -> /\ Goto(IF type = "string" THEN "string" ELSE "slash")
                                  /\ end' = "/" /\ UNCHANGED <<count, token>>
            [] c = "quote"     -> Goto("string") /\ end' = "quote" /\ UNCHANGED <<count, token>>
            [] c \in {"<", ">", "=", "!"} ->
                                  Goto("compare") /\ end' = c /\ UNCHANGED <<count, token>>
            [] c \in {"a", "i"} -> Goto("word") /\ count' = 1 /\ UNCHANGED <<end, token>>
            [] c = "1"         -> Goto("number") /\ count' = 1 /\ UNCHANGED <<end, token>>
            [] OTHER           -> Got(c) /\ UNCHANGED <<end, count>>
  /\ Same

\* The end of a text is the end of an include or of all.
AtEnd ==
  /\ mode = "space" /\ NUL \in Found
  /\ IF ftop = <<>>
     THEN Take(NUL) /\ Got("EOF") /\ UNCHANGED <<ftop, text>>
     ELSE ExitInclude /\ back' = NoChar /\ UNCHANGED <<mode, token>>
  /\ UNCHANGED <<type, end, count, missed>>

\* Words end where they have to or where buff ends.
Word ==
  /\ mode = "word"
  /\ \E c \in Found :
       \/ /\ IsWord(c) /\ count < SizeSymbol
          /\ Take(c) /\ count' = count + 1 /\ UNCHANGED <<mode, token>>
       \/ /\ ~IsWord(c) \/ count = SizeSymbol
          /\ Peek(c) /\ UNCHANGED count
          /\ \E t \in {"symbol", IF type = "symbol" THEN "reserved" ELSE "symbol"} : Got(t)
  /\ UNCHANGED end /\ Same

\* The rest of a number with the point that makes it one with a fraction.
NumberToken ==
  /\ mode \in {"number", "fraction"}
  /\ \E c \in Found :
       \/ /\ IsWord(c) \/ c = "."
          /\ count < SizeSymbol
          /\ Take(c) /\ count' = count + 1 /\ UNCHANGED token
          /\ Goto(IF c = "." THEN "fraction" ELSE mode)
       \/ /\ (~IsWord(c) /\ c # ".") \/ count = SizeSymbol
          /\ Peek(c) /\ Got(IF mode = "fraction" \/ c = "." THEN "NCONST" ELSE "ICONST")
          /\ UNCHANGED count
  /\ UNCHANGED end /\ Same

\* Strings and, between slashes, regular expressions.  The end of the text
\* does not end them.
StringToken ==
  /\ mode = "string"
  /\ \E c \in Found :
       /\ Take(c)
       /\ IF c = end THEN Got(IF end = "/" THEN "RCONST" ELSE "SCONST")
          ELSE Goto(IF c = "bs" THEN "escape" ELSE "string") /\ UNCHANGED token
  /\ UNCHANGED <<end, count>> /\ Same

Escaped ==
  /\ mode = "escape"
  /\ \E c \in Found : Take(c)
  /\ Goto("string")
  /\ UNCHANGED <<end, count, token>> /\ Same

\* <=, >=, == and so on; for "!" without "=" it is the character itself.
Compare ==
  /\ mode = "compare"
  /\ \E c \in Found :
       LET both == c = "=" \/ (end = "=" /\ c \in {"<", ">"})
       IN /\ IF both THEN Take(c) ELSE Peek(c)
          /\ Got(CASE end = "<" -> (IF both THEN "LE" ELSE "<")
                   [] end = ">" -> (IF both THEN "GE" ELSE ">")
                   [] end = "!" -> (IF both THEN "NE" ELSE "!")
                   [] OTHER     -> (IF c = ">" THEN "GE" ELSE IF c = "<" THEN "LE" ELSE "="))
  /\ UNCHANGED <<end, count>> /\ Same

\* A slash, or a comment up to the next star and slash.
Slash ==
  /\ mode = "slash"
  /\ \E c \in Found :
       IF c = "*" THEN Take(c) /\ Goto("comment") /\ UNCHANGED token
       ELSE Peek(c) /\ Got("/")
  /\ UNCHANGED <<end, count>> /\ Same

Comment ==
  /\ mode \in {"comment", "star"}
  /\ \E c \in Found :
       IF mode = "comment" THEN Take(c) /\ Goto(IF c = "*" THEN "star" ELSE "comment")
       ELSE (IF c = "/" THEN Take(c) ELSE Peek(c)) /\ Goto(IF c = "/" THEN "space" ELSE "comment")
  /\ UNCHANGED <<end, count, token>> /\ Same

\* ReadyDirective: the word behind "#", of which count 1 says that it begins
\* with "include".
Hash ==
  /\ mode = "hash"
  /\ \E c \in Found :
       /\ Take(c)
       /\ IF IsSpace(c) THEN Goto("hash") /\ UNCHANGED count
          ELSE Goto("directive") /\ count' = IF c = "i" THEN 1 ELSE 0
  /\ UNCHANGED <<end, token>> /\ Same

Directive ==
  /\ mode = "directive"
  /\ \E c \in Found :
       IF c # NUL /\ ~IsSpace(c) THEN Take(c) /\ Goto("directive")
       ELSE IF count = 1 THEN Take(c) /\ Goto("before")
       ELSE Peek(c) /\ Goto("rest")
  /\ UNCHANGED <<end, count, token>> /\ Same

\* Fault: the end of the text does not end a directive.
EndsLineOnly(c) == c = "nl"

EndsDirective(c) == c \in {NUL, "nl"}

\* What is no include lasts to the end of its line.
Rest ==
  /\ mode = "rest"
  /\ \E c \in Found : IF EndsDirective(c) THEN Peek(c) /\ Goto("space")
                      ELSE Take(c) /\ Goto("rest")
  /\ UNCHANGED <<end, count, token>> /\ Same

\* The quote before the name; anything else is dropped, the end of the text
\* included.
Before ==
  /\ mode = "before"
  /\ \E c \in Found :
       /\ Take(c)
       /\ Goto(IF IsSpace(c) THEN "before" ELSE IF c \in {"quote", "<"} THEN "file" ELSE "space")
       /\ end' = IF c = "<" THEN ">" ELSE "quote"
  /\ count' = 0
  /\ UNCHANGED token /\ Same

\* The name of the include, which the end of the text does not end either.
FileName ==
  /\ mode = "file"
  /\ \E c \in Found \ {end} : Take(c)
  /\ count' = 1
  /\ UNCHANGED <<mode, end, token>> /\ Same

NoInclude ==
  /\ mode = "file" /\ count = 0
  /\ \E c \in Found \cap {end} : Take(c)
  /\ Goto("space")
  /\ UNCHANGED <<end, count, token>> /\ Same

DoInclude ==
  /\ mode = "file" /\ count = 1
  /\ \E c \in Found \cap {end} :
       \/ \E f \in Files \ DOMAIN file : \E n \in Sizes : Include(f, n)
       \/ Missing(c)
  /\ Goto("space")
  /\ UNCHANGED <<type, end, count, token>>

Reading ==
  \/ Begin \/ AtEnd \/ Word \/ NumberToken \/ StringToken \/ Escaped \/ Compare \/ Slash \/ Comment
  \/ Hash \/ Directive \/ Rest \/ Before \/ FileName \/ NoInclude \/ DoInclude

Init ==
  /\ in = NoInput /\ back = NoChar /\ ftop = <<>> /\ file = [f \in {} |-> 0] /\ mode = "idle"
  /\ type = "symbol" /\ end = NoChar /\ count = 0 /\ token = None /\ text = "kept"
  /\ missed = FALSE

Next ==
  \/ PushLexInfo \/ PushLexInfoMem \/ PushLexInfoStream \/ DropLexInfo
  \/ \E t \in Calls : Lex(t)
  \/ Reading

\* A call of Lex runs until it returns.
Spec == Init /\ [][Next]_vars /\ WF_vars(Reading)

-----------------------------------------------------------------------------
(* Properties *)

Inputs == {ftop[k] : k \in DOMAIN ftop} \cup (IF in = NoInput THEN {} ELSE {in})

TypeOK ==
  /\ in.fp \in Files \cup {None}
  /\ back \in Alphabet \cup {NUL, NoChar}
  /\ DOMAIN file \subseteq Files
  /\ \A f \in DOMAIN file : file[f].offset \in 0..file[f].length
  /\ type \in Calls /\ count \in 0..SizeSymbol /\ text \in {"kept", "freed"}

\* What is being read and what includes interrupted are files that are open,
\* each its own: none is closed twice or read when it is closed.
FilesHeld ==
  /\ \A i \in Inputs : ~InMemory(i) => i.fp \in DOMAIN file
  /\ \A j, k \in DOMAIN ftop : j # k => ftop[j].fp # ftop[k].fp
  /\ in # NoInput => \A k \in DOMAIN ftop : in.fp # ftop[k].fp

\* The text of a caller of RecParseValueMem is not freed, but by an include
\* that is not found.
CallerTextKept == text = "freed" => missed

\* Files and texts are held by what reads them, once, and by nobody else.
InputsHeld == TypeOK /\ FilesHeld /\ CallerTextKept

\* The position, which the end of a text is told by, keeps step with what was
\* read of the FILE: behind an include and behind a character put back, no
\* character is lost and none is read twice.
PositionInStep ==
  \A i \in Inputs :
    (~InMemory(i) /\ i.size # Unknown /\ i.pos <= i.size) =>
      i.pos + (IF i = in /\ back \notin {NoChar, NUL} THEN 1 ELSE 0) = file[i.fp].offset

\* A call of Lex returns, unless the text ends in a string, in a comment or in
\* the name of an include, where the loops do not look for the end, or a text
\* in memory is read behind its end, where what follows decides.
NeverLooksForEnd == mode \in {"string", "escape", "comment", "star", "file"}
EndReached == in # NoInput /\ NUL \in Found
Overrun    == in # NoInput /\ InMemory(in) /\ (in.pos > in.size \/ text = "freed")
LexReturns == (mode # "idle") ~> (mode = "idle" \/ (NeverLooksForEnd /\ EndReached) \/ Overrun)

=============================================================================
