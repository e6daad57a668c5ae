------------------------------ MODULE LexProofs ------------------------------
(***************************************************************************)
(* Proofs about the lexer of src/src/Lex.c and its include stack, for      *)
(* every set of FILEs, every length of texts and every longest word: the   *)
(* FILEs that are read or interrupted are open, each its own, the caller's *)
(* text is left alone, and the position keeps step with the FILE.          *)
(***************************************************************************)
EXTENDS Lex, LeastNumber, SequenceTheorems, TLAPS

InputRecords == [fp : Files \cup {None}, fn : BOOLEAN, pos : Nat, size : Nat \cup {Unknown}]

\* An input that was opened: a text in memory has a size and no file name.
Input(i) == i \in InputRecords /\ (InMemory(i) => ~i.fn /\ i.size # Unknown)

\* A FILE whose size was asked for when it was opened.
Measured(i) == ~InMemory(i) /\ i.size # Unknown

\* i is ahead characters behind the FILE that it reads.
InStep(i, ahead) ==
  Measured(i) => /\ file[i.fp].length = i.size
                 /\ i.pos <= i.size => i.pos + ahead = file[i.fp].offset

Ahead == IF back \in {NoChar, NUL} THEN 0 ELSE 1

FilesOK ==
  /\ file \in [DOMAIN file -> [length : Nat, offset : Nat]]
  /\ DOMAIN file \subseteq Files
  /\ \A f \in DOMAIN file : file[f].offset <= file[f].length

StackOK ==
  /\ ftop \in Seq(InputRecords)
  /\ \A k \in 1..Len(ftop) : /\ Input(ftop[k]) /\ InStep(ftop[k], 0)
                             /\ ~InMemory(ftop[k]) => ftop[k].fp \in DOMAIN file
  /\ \A j, k \in 1..Len(ftop) : j # k => ftop[j].fp # ftop[k].fp

\* What is being read.  The end of the text is put back only where it is.
ReadOK ==
  /\ Input(in) /\ InStep(in, Ahead)
  /\ ~InMemory(in) => in.fp \in DOMAIN file
  /\ \A k \in 1..Len(ftop) : in.fp # ftop[k].fp
  /\ back \in Alphabet \cup {NUL, NoChar}
  /\ back = NUL /\ Measured(in) => in.pos >= in.size

NothingRead == in = NoInput /\ ftop = <<>> /\ back = NoChar

ReaderOK == FilesOK /\ StackOK /\ (NothingRead \/ ReadOK)

ControlOK ==
  /\ mode # "idle" => in # NoInput
  /\ end # NUL
  /\ type \in Calls /\ count \in 0..SizeSymbol
  /\ text \in {"kept", "freed"} /\ CallerTextKept

\* The inductive invariant.
IInv == ReaderOK /\ ControlOK

-----------------------------------------------------------------------------
(* Characters *)

LEMMA WordLengths == SizeSymbol \in Nat /\ SizeSymbol >= 1 /\ 0 \in 0..SizeSymbol /\ 1 \in 0..SizeSymbol
<1>1. SizeSymbol \in Nat \ {0}
  BY LexAssumption
<1> QED BY <1>1

LEMMA LongestIsNat == Longest \in Nat
<1>1. \E n \in Sizes : \A m \in Sizes : m <= n
  BY LexAssumption, LargestElement
<1> QED BY <1>1, LexAssumption DEF Longest

\* The position goes on by one, as long as it is not behind the end.
LEMMA PositionSteps ==
  ASSUME NEW p \in Nat, NEW size \in Nat \cup {Unknown}
  PROVE  /\ Position(p + 1, size) \in Nat
         /\ size # Unknown /\ Position(p + 1, size) <= size =>
              Position(p + 1, size) = p + 1
         /\ Position(p + 1, size) = size => p + 1 = size
<1> DEFINE last == (IF size = Unknown THEN Longest ELSE size) + 2
<1>1. last \in Nat /\ last >= 2 /\ (size # Unknown => last = size + 2)
  BY LongestIsNat DEF Unknown
<1>2. Position(p + 1, size) = IF p + 1 > last THEN last ELSE p + 1
  BY DEF Position
<1> HIDE DEF last
<1> QED BY <1>1, <1>2 DEF Unknown

LEMMA CharactersDiffer == NUL \notin Alphabet /\ NoChar \notin Alphabet /\ NUL # NoChar
BY LexAssumption DEF NUL, NoChar

\* GetChar moves in the FILE that is read and in no other.
LEMMA AdvancedFiles ==
  ASSUME FilesOK, ReadOK
  PROVE  /\ Advanced \in [DOMAIN file -> [length : Nat, offset : Nat]]
         /\ \A f \in DOMAIN file : /\ Advanced[f].length = file[f].length
                                   /\ Advanced[f].offset <= Advanced[f].length
                                   /\ f # in.fp => Advanced[f] = file[f]
         /\ FromFile /\ file[in.fp].offset < file[in.fp].length =>
              Advanced[in.fp].offset = file[in.fp].offset + 1
         /\ ~FromFile => Advanced = file
<1>1. FromFile => in.fp \in DOMAIN file
  BY DEF FromFile, ReadOK
<1>2. CASE FromFile /\ file[in.fp].offset < file[in.fp].length
  <2>1. Advanced = [file EXCEPT ![in.fp].offset = @ + 1]
    BY <1>2 DEF Advanced, ReadFile
  <2>2. \A f \in DOMAIN file : file[f].length \in Nat /\ file[f].offset \in Nat
    BY DEF FilesOK
  <2> QED BY <1>1, <1>2, <2>1, <2>2 DEF FilesOK
<1>3. CASE ~(FromFile /\ file[in.fp].offset < file[in.fp].length)
  <2>1. Advanced = file
    BY <1>3 DEF Advanced, ReadFile
  <2> QED BY <1>3, <2>1 DEF FilesOK
<1> QED BY <1>2, <1>3

\* Of a FILE that was measured GetChar finds a character as long as the
\* position is before the end, and moves in the FILE with the position.
LEMMA FoundInStep ==
  ASSUME FilesOK, ReadOK, NEW c \in Found
  PROVE  /\ c \in Alphabet \cup {NUL}
         /\ Measured(in) /\ in.pos <= in.size =>
              IF c = NUL THEN in.pos = in.size /\ Advanced[in.fp].offset = in.pos
              ELSE in.pos < in.size /\ Advanced[in.fp].offset = in.pos + 1
<1>1. c \in Alphabet \cup {NUL}
  BY DEF Found, ReadOK
<1>2. ASSUME Measured(in), in.pos <= in.size
      PROVE  IF c = NUL THEN in.pos = in.size /\ Advanced[in.fp].offset = in.pos
             ELSE in.pos < in.size /\ Advanced[in.fp].offset = in.pos + 1
  <2>1. /\ in.pos \in Nat /\ in.size \in Nat /\ in.fp \in DOMAIN file
        /\ file[in.fp].offset \in Nat /\ file[in.fp].length = in.size
        /\ file[in.fp].offset <= file[in.fp].length
        /\ in.pos + Ahead = file[in.fp].offset
    BY <1>2 DEF ReadOK, FilesOK, InStep, Measured, Input, InputRecords
  <2>2. CASE back # NoChar
    <3>1. c = back /\ Advanced = file
      BY <2>2 DEF Found, Advanced, FromFile
    <3> QED BY <2>1, <2>2, <3>1, <1>2 DEF Ahead, ReadOK
  <2>3. CASE back = NoChar /\ in.pos = in.size
    <3>1. c = NUL /\ Advanced = file
      BY <2>3 DEF Found, Advanced, FromFile
    <3> QED BY <2>1, <2>3, <3>1 DEF Ahead
  <2>4. CASE back = NoChar /\ in.pos # in.size
    <3>1. FromFile /\ file[in.fp].offset = in.pos /\ in.pos < in.size
      BY <2>1, <2>4, <1>2 DEF FromFile, Measured, Ahead
    <3>2. c \in Alphabet
      BY <2>1, <2>4, <3>1 DEF Found, FromFile
    <3>3. Advanced[in.fp].offset = file[in.fp].offset + 1
      BY <3>1, <2>1, AdvancedFiles
    <3> QED BY <3>1, <3>2, <3>3, CharactersDiffer
  <2> QED BY <2>2, <2>3, <2>4
<1> QED BY <1>1, <1>2

-----------------------------------------------------------------------------
(* Steps of the reader *)

\* The fields of an input can be given one by one.
LEMMA InputFields ==
  ASSUME NEW i, Input(i)
  PROVE  /\ i.fp \in Files \cup {None} /\ i.fn \in BOOLEAN
         /\ i.pos \in Nat /\ i.size \in Nat \cup {Unknown}
         /\ i = [fp |-> i.fp, fn |-> i.fn, pos |-> i.pos, size |-> i.size]
BY DEF Input, InputRecords

\* One character further: the same input.
LEMMA OneFurther ==
  ASSUME NEW i, Input(i), NEW j, j = [i EXCEPT !.pos = Position(@ + 1, i.size)]
  PROVE  /\ Input(j) /\ j.fp = i.fp /\ j.size = i.size
         /\ InMemory(j) <=> InMemory(i)
         /\ Measured(j) <=> Measured(i)
         /\ Measured(i) /\ j.pos <= j.size => j.pos = i.pos + 1
<1>1. /\ i.fp \in Files \cup {None} /\ i.fn \in BOOLEAN
      /\ i.pos \in Nat /\ i.size \in Nat \cup {Unknown}
      /\ i = [fp |-> i.fp, fn |-> i.fn, pos |-> i.pos, size |-> i.size]
  BY InputFields
<1> DEFINE p == Position(i.pos + 1, i.size)
<1>2. /\ p \in Nat
      /\ i.size # Unknown /\ p <= i.size => p = i.pos + 1
  BY <1>1, PositionSteps
<1>3. j = [i EXCEPT !.pos = p]
  OBVIOUS
<1> HIDE DEF p
<1>4. j = [fp |-> i.fp, fn |-> i.fn, pos |-> p, size |-> i.size]
  BY <1>1, <1>3
<1> QED BY <1>1, <1>2, <1>4 DEF Input, InputRecords, InMemory, Measured

\* What moves in the FILE that is read leaves the interrupted inputs in step.
LEMMA StackKept ==
  ASSUME FilesOK, StackOK, ReadOK, file' = Advanced, ftop' = ftop
  PROVE  FilesOK' /\ StackOK' /\ DOMAIN file' = DOMAIN file
<1>1. /\ Advanced \in [DOMAIN file -> [length : Nat, offset : Nat]]
      /\ \A f \in DOMAIN file : /\ Advanced[f].length = file[f].length
                                /\ Advanced[f].offset <= Advanced[f].length
                                /\ f # in.fp => Advanced[f] = file[f]
  BY AdvancedFiles
<1>2. FilesOK' /\ DOMAIN file' = DOMAIN file
  BY <1>1 DEF FilesOK
<1>3. ASSUME NEW k \in 1..Len(ftop)
      PROVE  InStep(ftop[k], 0)' /\ (~InMemory(ftop[k]) => ftop[k].fp \in DOMAIN file')
  <2>1. /\ InStep(ftop[k], 0) /\ in.fp # ftop[k].fp
        /\ ~InMemory(ftop[k]) => ftop[k].fp \in DOMAIN file
    BY <1>3 DEF StackOK, ReadOK
  <2>2. ~InMemory(ftop[k]) => file'[ftop[k].fp] = file[ftop[k].fp]
    BY <1>1, <2>1
  <2> QED BY <1>2, <2>1, <2>2 DEF InStep, Measured, InMemory
<1>4. StackOK'
  BY <1>3 DEF StackOK, Input, InMemory
<1> QED BY <1>2, <1>4

\* GetChar.
LEMMA TakeReads ==
  ASSUME ReaderOK, in # NoInput, NEW c, Take(c), ftop' = ftop
  PROVE  ReaderOK' /\ in' # NoInput
<1>1. FilesOK /\ StackOK /\ ReadOK
  BY DEF ReaderOK, NothingRead
<1>2. FilesOK' /\ StackOK' /\ DOMAIN file' = DOMAIN file
  BY <1>1, StackKept DEF Take
<1>3. /\ c \in Alphabet \cup {NUL}
      /\ Measured(in) /\ in.pos <= in.size =>
           IF c = NUL THEN in.pos = in.size /\ Advanced[in.fp].offset = in.pos
           ELSE in.pos < in.size /\ Advanced[in.fp].offset = in.pos + 1
  BY <1>1, FoundInStep DEF Take
<1>4. /\ Input(in') /\ in'.fp = in.fp /\ in'.size = in.size
      /\ InMemory(in') <=> InMemory(in)
      /\ Measured(in') <=> Measured(in)
      /\ Measured(in) /\ in'.pos <= in'.size => in'.pos = in.pos + 1
  BY <1>1, OneFurther DEF Take, ReadOK
<1>5. Measured(in) => file'[in.fp].length = in.size
  BY <1>1, AdvancedFiles DEF Take, ReadOK, InStep, Measured
<1>6. InStep(in, Ahead)'
  <2>1. SUFFICES ASSUME Measured(in'), in'.pos <= in'.size
                 PROVE  in'.pos + Ahead' = file'[in'.fp].offset
    BY <1>4, <1>5 DEF InStep, Measured, InMemory
  <2>2. in.pos \in Nat /\ in.size \in Nat /\ in'.pos = in.pos + 1 /\ in.pos <= in.size
    BY <1>1, <1>4, <2>1 DEF ReadOK, Input, InputRecords, Measured
  <2>3. Advanced[in.fp].offset = in.pos + 1
    BY <1>3, <1>4, <2>1, <2>2
  <2>4. Ahead' = 0
    BY DEF Take, Ahead
  <2> QED BY <2>2, <2>3, <2>4, <1>4 DEF Take
<1>7. back' = NoChar
  BY DEF Take
<1>8. ReadOK'
  <2>1. Input(in)'
    BY <1>4 DEF Input, InMemory
  <2>2. \A k \in 1..Len(ftop') : in'.fp # ftop'[k].fp
    BY <1>1, <1>4 DEF ReadOK
  <2>3. ~InMemory(in)' => in'.fp \in DOMAIN file'
    BY <1>1, <1>2, <1>4 DEF ReadOK, InMemory
  <2> QED BY <1>6, <1>7, <2>1, <2>2, <2>3, CharactersDiffer DEF ReadOK
<1>9. in' # NoInput
  BY <1>4 DEF Input, InMemory, NoInput
<1> QED BY <1>2, <1>8, <1>9 DEF ReaderOK

\* GetChar and UnGetChar.
LEMMA PeekReads ==
  ASSUME ReaderOK, in # NoInput, NEW c, Peek(c), ftop' = ftop
  PROVE  ReaderOK' /\ in' # NoInput
<1>1. FilesOK /\ StackOK /\ ReadOK
  BY DEF ReaderOK, NothingRead
<1>2. FilesOK' /\ StackOK' /\ DOMAIN file' = DOMAIN file
  BY <1>1, StackKept DEF Peek
<1>3. /\ c \in Alphabet \cup {NUL}
      /\ Measured(in) /\ in.pos <= in.size =>
           IF c = NUL THEN in.pos = in.size /\ Advanced[in.fp].offset = in.pos
           ELSE in.pos < in.size /\ Advanced[in.fp].offset = in.pos + 1
  BY <1>1, FoundInStep DEF Peek
<1>4. in' = in /\ back' = c
  BY DEF Peek, UnGetChar
<1>5. in.pos \in Nat /\ (Measured(in) => in.size \in Nat)
  BY <1>1 DEF ReadOK, Input, InputRecords, Measured
<1>6. Ahead' = IF c = NUL THEN 0 ELSE 1
  BY <1>3, <1>4, CharactersDiffer DEF Ahead
<1>7. InStep(in, Ahead)'
  <2>1. Measured(in) => file'[in.fp].length = in.size
    BY <1>1, AdvancedFiles DEF Peek, ReadOK, InStep, Measured
  <2>2. ASSUME Measured(in), in.pos <= in.size
        PROVE  in.pos + Ahead' = file'[in.fp].offset
    BY <1>3, <1>5, <1>6, <2>2 DEF Peek
  <2> QED BY <1>4, <2>1, <2>2 DEF InStep, Measured, InMemory
<1>8. back' = NUL /\ Measured(in) => in.pos >= in.size
  BY <1>3, <1>4, <1>5
<1>9. ReadOK'
  <2>1. Input(in)'
    BY <1>1, <1>4 DEF Input, InMemory, ReadOK
  <2>2. \A k \in 1..Len(ftop') : in'.fp # ftop'[k].fp
    BY <1>1, <1>4 DEF ReadOK
  <2>3. ~InMemory(in)' => in'.fp \in DOMAIN file'
    BY <1>1, <1>2, <1>4 DEF ReadOK, InMemory
  <2> QED BY <1>3, <1>4, <1>7, <1>8, <2>1, <2>2, <2>3 DEF ReadOK, Measured, InMemory
<1> QED BY <1>2, <1>4, <1>9 DEF ReaderOK

\* A FILE that is opened disturbs no other.
LEMMA OpenedKeeps ==
  ASSUME FilesOK, NEW f \in Files \ DOMAIN file, NEW n \in Sizes, NEW g,
         g = [x \in DOMAIN file \cup {f} |->
                IF x = f THEN [length |-> n, offset |-> 0] ELSE file[x]]
  PROVE  /\ DOMAIN g = DOMAIN file \cup {f}
         /\ g \in [DOMAIN g -> [length : Nat, offset : Nat]] /\ DOMAIN g \subseteq Files
         /\ \A x \in DOMAIN g : g[x].offset <= g[x].length
         /\ g[f].length = n /\ g[f].offset = 0
         /\ \A x \in DOMAIN file : g[x] = file[x]
<1>1. n \in Nat
  BY LexAssumption
<1>2. [length |-> n, offset |-> 0] \in [length : Nat, offset : Nat]
  BY <1>1
<1> QED BY <1>1, <1>2 DEF FilesOK

\* DoInclude: the input that is interrupted is put on the stack as it will be
\* found again, and the new one begins.
LEMMA IncludeReads ==
  ASSUME ReaderOK, in # NoInput, NEW c \in Found, c # NUL,
         NEW f \in Files \ DOMAIN file, NEW n \in Sizes, Include(f, n)
  PROVE  ReaderOK' /\ in' # NoInput
<1>1. FilesOK /\ StackOK /\ ReadOK
  BY DEF ReaderOK, NothingRead
<1>n. n \in Nat /\ f \in Files /\ f # None /\ f \notin DOMAIN file
  BY LexAssumption DEF None
<1>i. PICK i : i = [in EXCEPT !.pos = Position(@ + 1, in.size)]
  OBVIOUS
<1>2. /\ Input(i) /\ i.fp = in.fp /\ i.size = in.size
      /\ InMemory(i) <=> InMemory(in)
      /\ Measured(i) <=> Measured(in)
      /\ Measured(in) /\ i.pos <= i.size => i.pos = in.pos + 1
  BY <1>1, <1>i, OneFurther DEF ReadOK
<1>3. ftop' = Append(ftop, i) /\ in' = [fp |-> f, fn |-> TRUE, pos |-> 0, size |-> n]
      /\ back' = NoChar
  BY <1>i DEF Include
<1>4. Advanced \in [DOMAIN file -> [length : Nat, offset : Nat]] /\ DOMAIN Advanced = DOMAIN file
  BY <1>1, AdvancedFiles
<1>5. /\ DOMAIN file' = DOMAIN file \cup {f}
      /\ file'[f] = [length |-> n, offset |-> 0]
      /\ \A x \in DOMAIN file : file'[x] = Advanced[x]
  BY <1>4, <1>n DEF Include
<1>6. \A x \in DOMAIN file : /\ file'[x] \in [length : Nat, offset : Nat]
                             /\ file'[x].length = file[x].length
                             /\ file'[x].offset <= file'[x].length
                             /\ x # in.fp => file'[x] = file[x]
  BY <1>1, <1>4, <1>5, AdvancedFiles
<1>7. FilesOK'
  <2>1. DOMAIN file' \subseteq Files
    BY <1>1, <1>5, <1>n DEF FilesOK
  <2>2. \A x \in DOMAIN file' : /\ file'[x] \in [length : Nat, offset : Nat]
                               /\ file'[x].offset <= file'[x].length
    BY <1>5, <1>6, <1>n
  <2>3. file' = [x \in DOMAIN file' |-> file'[x]]
    BY DEF Include
  <2> QED BY <2>1, <2>2, <2>3 DEF FilesOK
<1>8. InStep(i, 0)'
  <2>1. Measured(in) => file'[in.fp].length = in.size /\ file'[in.fp] = Advanced[in.fp]
    BY <1>1, <1>5, <1>6 DEF ReadOK, InStep, Measured
  <2>2. ASSUME Measured(in), i.pos <= i.size
        PROVE  i.pos = file'[in.fp].offset
    <3>1. in.pos \in Nat /\ in.size \in Nat /\ i.pos = in.pos + 1 /\ in.pos <= in.size
      BY <1>1, <1>2, <2>2 DEF ReadOK, Input, InputRecords, Measured
    <3>2. Advanced[in.fp].offset = in.pos + 1
      BY <1>1, <2>2, <3>1, FoundInStep
    <3> QED BY <2>1, <2>2, <3>1, <3>2
  <2>3. i.pos \in Nat
    BY <1>2 DEF Input, InputRecords
  <2>4. /\ Measured(i) => file'[i.fp].length = i.size
        /\ Measured(i) /\ i.pos <= i.size => i.pos + 0 = file'[i.fp].offset
    BY <1>2, <2>1, <2>2, <2>3
  <2> QED BY <2>4 DEF InStep, Measured, InMemory
<1>9. /\ ftop' \in Seq(InputRecords) /\ Len(ftop') = Len(ftop) + 1
      /\ \A k \in 1..Len(ftop) : ftop'[k] = ftop[k]
      /\ ftop'[Len(ftop) + 1] = i
  <2>1. ftop \in Seq(InputRecords) /\ i \in InputRecords
    BY <1>1, <1>2 DEF StackOK, Input
  <2> QED BY <2>1, <1>3, AppendProperties
<1>10. Len(ftop) \in Nat
  BY <1>1 DEF StackOK
<1>11. \A k \in 1..Len(ftop') : k \in 1..Len(ftop) \/ k = Len(ftop) + 1
  BY <1>9, <1>10
<1>12. ASSUME NEW k \in 1..Len(ftop')
       PROVE  /\ Input(ftop'[k]) /\ InStep(ftop[k], 0)'
              /\ ~InMemory(ftop'[k]) => ftop'[k].fp \in DOMAIN file
  <2>1. CASE k \in 1..Len(ftop)
    <3>1. /\ Input(ftop[k]) /\ InStep(ftop[k], 0) /\ in.fp # ftop[k].fp
          /\ ~InMemory(ftop[k]) => ftop[k].fp \in DOMAIN file
      BY <1>1, <2>1 DEF StackOK, ReadOK
    <3>2. ~InMemory(ftop[k]) => file'[ftop[k].fp] = file[ftop[k].fp]
      BY <1>6, <3>1
    <3> QED BY <1>9, <2>1, <3>1, <3>2 DEF InStep, Measured, InMemory
  <2>2. CASE k = Len(ftop) + 1
    BY <1>1, <1>2, <1>8, <1>9, <2>2 DEF InStep, Measured, InMemory, ReadOK
  <2> QED BY <1>11, <2>1, <2>2
<1>13. \A j, k \in 1..Len(ftop') : j # k => ftop'[j].fp # ftop'[k].fp
  <2>1. \A k \in 1..Len(ftop) : in.fp # ftop[k].fp
    BY <1>1 DEF ReadOK
  <2>2. \A j, k \in 1..Len(ftop) : j # k => ftop[j].fp # ftop[k].fp
    BY <1>1 DEF StackOK
  <2> QED BY <2>1, <2>2, <1>2, <1>9, <1>11
<1>14. StackOK'
  BY <1>5, <1>9, <1>12, <1>13 DEF StackOK, Input, InMemory
<1>15. ReadOK'
  <2>1. Input(in)' /\ Measured(in)' /\ ~InMemory(in')
    BY <1>3, <1>n DEF Input, InputRecords, InMemory, Measured, Unknown
  <2>2. InStep(in, Ahead)'
    BY <1>3, <1>5, <1>n DEF InStep, Ahead, Measured, InMemory
  <2>3. \A k \in 1..Len(ftop') : in'.fp # ftop'[k].fp
    BY <1>12, <1>3, <1>n DEF InMemory
  <2> QED BY <2>1, <2>2, <2>3, <1>3, <1>5, CharactersDiffer DEF ReadOK
<1>16. in' # NoInput
  BY <1>3 DEF NoInput
<1> QED BY <1>7, <1>14, <1>15, <1>16 DEF ReaderOK

\* A FILE that is closed: the others stay as they are.
LEMMA ClosedKeeps ==
  ASSUME FilesOK, NEW f, NEW g, g = Closed(f)
  PROVE  /\ DOMAIN g = DOMAIN file \ {f}
         /\ g \in [DOMAIN g -> [length : Nat, offset : Nat]] /\ DOMAIN g \subseteq Files
         /\ \A x \in DOMAIN g : g[x] = file[x] /\ g[x].offset <= g[x].length
BY DEF FilesOK, Closed

\* ExitInclude: the input that goes on is the one that was interrupted, and
\* nobody else reads the FILE that is closed.
LEMMA ExitIncludeReads ==
  ASSUME ReaderOK, in # NoInput, ftop # <<>>, ExitInclude, back' = NoChar
  PROVE  ReaderOK' /\ in' # NoInput
<1>1. FilesOK /\ StackOK /\ ReadOK
  BY DEF ReaderOK, NothingRead
<1> DEFINE n == Len(ftop)
<1>2. n \in Nat /\ n > 0 /\ ftop \in Seq(InputRecords)
  BY <1>1, EmptySeq DEF StackOK
<1>3. in' = ftop[n] /\ ftop' = SubSeq(ftop, 1, n - 1) /\ file' = Closed(in.fp)
  BY DEF ExitInclude, Resumed
<1>4. /\ DOMAIN file' = DOMAIN file \ {in.fp}
      /\ file' \in [DOMAIN file' -> [length : Nat, offset : Nat]] /\ DOMAIN file' \subseteq Files
      /\ \A x \in DOMAIN file' : file'[x] = file[x] /\ file'[x].offset <= file'[x].length
  BY <1>1, <1>3, ClosedKeeps
<1>5. /\ ftop' \in Seq(InputRecords) /\ Len(ftop') = n - 1
      /\ \A k \in 1..n-1 : ftop'[k] = ftop[k]
  <2>1. \A k \in 1..n-1 : ftop[k] \in InputRecords
    BY <1>2
  <2>2. 1 \in Int /\ n - 1 \in Int
    BY <1>2
  <2> HIDE DEF n
  <2>3. /\ SubSeq(ftop, 1, n - 1) \in Seq(InputRecords)
        /\ Len(SubSeq(ftop, 1, n - 1)) = IF 1 <= n - 1 THEN n - 1 - 1 + 1 ELSE 0
        /\ \A k \in 1..n-1-1+1 : SubSeq(ftop, 1, n - 1)[k] = ftop[1 + k - 1]
    BY <2>1, <2>2, SubSeqProperties
  <2> QED BY <2>3, <1>2, <1>3
<1> HIDE DEF n
<1>6. ASSUME NEW k \in 1..n
      PROVE  /\ Input(ftop[k]) /\ InStep(ftop[k], 0) /\ in.fp # ftop[k].fp
             /\ ~InMemory(ftop[k]) => /\ ftop[k].fp \in DOMAIN file'
                                      /\ file'[ftop[k].fp] = file[ftop[k].fp]
  BY <1>1, <1>4, <1>6 DEF StackOK, ReadOK, n
<1>7. \A j, k \in 1..n : j # k => ftop[j].fp # ftop[k].fp
  BY <1>1 DEF StackOK, n
<1>8. FilesOK'
  BY <1>4 DEF FilesOK
<1>9. StackOK'
  <2>1. ASSUME NEW k \in 1..n-1
        PROVE  /\ Input(ftop'[k]) /\ InStep(ftop[k], 0)'
               /\ ~InMemory(ftop'[k]) => ftop'[k].fp \in DOMAIN file'
    <3>1. k \in 1..n /\ ftop'[k] = ftop[k]
      BY <1>2, <1>5
    <3> QED BY <3>1, <1>6 DEF InStep, Measured, InMemory
  <2>2. \A j, k \in 1..n-1 : j # k => ftop'[j].fp # ftop'[k].fp
    BY <1>2, <1>5, <1>7
  <2> QED BY <1>5, <2>1, <2>2 DEF StackOK, Input, InMemory
<1>10. ReadOK'
  <2>0. n \in 1..n
    BY <1>2
  <2>1. Input(in)' /\ (~InMemory(in') => in'.fp \in DOMAIN file')
    BY <1>3, <1>6, <2>0 DEF Input, InMemory
  <2>2. Ahead' = 0
    BY DEF Ahead
  <2>3. InStep(in, Ahead)'
    BY <1>3, <1>6, <2>0, <2>2 DEF InStep, Measured, InMemory
  <2>4. \A k \in 1..Len(ftop') : in'.fp # ftop'[k].fp
    BY <1>2, <1>3, <1>5, <1>7, <2>0
  <2> QED BY <2>1, <2>3, <2>4, CharactersDiffer DEF ReadOK, InMemory
<1>11. in' # NoInput
  <2>1. Input(in')
    BY <1>2, <1>3, <1>6
  <2> QED BY <2>1 DEF Input, InMemory, NoInput
<1> QED BY <1>8, <1>9, <1>10, <1>11 DEF ReaderOK

\* The three ways to begin: a file that is asked for its size, a text in
\* memory, and a stream.
LEMMA IdleReads ==
  ASSUME FilesOK', NEW i, Input(i), Idle(i),
         ~InMemory(i) => i.fp \in DOMAIN file' /\ file'[i.fp].offset = 0 /\ i.pos = 0,
         Measured(i) => file'[i.fp].length = i.size
  PROVE  ReaderOK' /\ ControlOK'
<1>1. in' = i /\ back' = NoChar /\ ftop' = <<>>
  BY DEF Idle
<1>2. StackOK'
  BY <1>1 DEF StackOK
<1>3. ReadOK'
  <2>1. Input(in)' /\ (~InMemory(in') => in'.fp \in DOMAIN file')
    BY <1>1 DEF Input, InMemory
  <2>2. InStep(in, Ahead)'
    BY <1>1 DEF InStep, Measured, InMemory, Ahead
  <2> QED BY <1>1, <2>1, <2>2, CharactersDiffer DEF ReadOK, InMemory
<1>4. in' # NoInput
  BY <1>1 DEF Input, InMemory, NoInput
<1>5. ControlOK'
  BY <1>4, WordLengths DEF Idle, ControlOK, Calls, CallerTextKept, NoChar, NUL
<1> QED BY <1>2, <1>3, <1>5 DEF ReaderOK

LEMMA PushReads ==
  ASSUME IInv, PushLexInfo \/ PushLexInfoMem \/ PushLexInfoStream
  PROVE  IInv'
<1>0. FilesOK
  BY DEF IInv, ReaderOK
<1>1. ASSUME PushLexInfo PROVE IInv'
  <2>1. PICK f \in Files \ DOMAIN file, n \in Sizes :
           Idle([fp |-> f, fn |-> TRUE, pos |-> 0, size |-> n]) /\ file' = Opened(f, n)
    BY <1>1 DEF PushLexInfo
  <2>2. PICK i : i = [fp |-> f, fn |-> TRUE, pos |-> 0, size |-> n]
    OBVIOUS
  <2>3. n \in Nat /\ f # None
    BY LexAssumption DEF None
  <2>4. Input(i) /\ ~InMemory(i) /\ i.fp = f /\ i.pos = 0 /\ i.size = n
    BY <2>2, <2>3 DEF Input, InputRecords, InMemory
  <2>5. FilesOK' /\ file'[f].length = n /\ file'[f].offset = 0 /\ f \in DOMAIN file'
    BY <1>0, <2>1, OpenedKeeps DEF Opened, FilesOK
  <2>6. Idle(i)
    BY <2>1, <2>2
  <2> QED BY <2>4, <2>5, <2>6, IdleReads DEF IInv, Measured
<1>2. ASSUME PushLexInfoMem PROVE IInv'
  <2>1. PICK n \in Sizes : Idle([fp |-> None, fn |-> FALSE, pos |-> 0, size |-> n + 1])
    BY <1>2 DEF PushLexInfoMem
  <2>2. PICK i : i = [fp |-> None, fn |-> FALSE, pos |-> 0, size |-> n + 1]
    OBVIOUS
  <2>3. n \in Nat
    BY LexAssumption
  <2>4. Input(i) /\ InMemory(i)
    BY <2>2, <2>3 DEF Input, InputRecords, InMemory, Unknown
  <2>5. FilesOK'
    BY <1>0, <1>2 DEF PushLexInfoMem, FilesOK
  <2>6. Idle(i)
    BY <2>1, <2>2
  <2> QED BY <2>4, <2>5, <2>6, IdleReads DEF IInv, Measured
<1>3. ASSUME PushLexInfoStream PROVE IInv'
  <2>1. PICK f \in Files \ DOMAIN file, n \in Sizes :
           Idle([fp |-> f, fn |-> FALSE, pos |-> 0, size |-> Unknown]) /\ file' = Opened(f, n)
    BY <1>3 DEF PushLexInfoStream
  <2>2. PICK i : i = [fp |-> f, fn |-> FALSE, pos |-> 0, size |-> Unknown]
    OBVIOUS
  <2>3. f # None
    BY LexAssumption DEF None
  <2>4. Input(i) /\ ~InMemory(i) /\ i.fp = f /\ i.pos = 0 /\ i.size = Unknown
    <3>1. i.fp = f /\ i.fn = FALSE /\ i.pos = 0 /\ i.size = Unknown
      BY <2>2
    <3>2. ~InMemory(i)
      BY <2>3, <3>1 DEF InMemory
    <3>3. i \in InputRecords
      BY <2>2 DEF InputRecords
    <3> QED BY <3>1, <3>2, <3>3 DEF Input
  <2>5. FilesOK' /\ file'[f].offset = 0 /\ f \in DOMAIN file'
    BY <1>0, <2>1, OpenedKeeps DEF Opened, FilesOK
  <2>6. Idle(i)
    BY <2>1, <2>2
  <2> QED BY <2>4, <2>5, <2>6, IdleReads DEF IInv, Measured
<1> QED BY <1>1, <1>2, <1>3

\* DropLexInfo never frees the caller's text: a text in memory has no name.
LEMMA DropReads ==
  ASSUME IInv, DropLexInfo
  PROVE  IInv'
<1>1. FilesOK /\ ReadOK /\ ControlOK
  BY DEF IInv, ReaderOK, NothingRead, DropLexInfo
<1>2. FilesOK'
  <2>1. CASE InMemory(in)
    BY <1>1, <2>1 DEF DropLexInfo, FilesOK
  <2>2. CASE ~InMemory(in)
    BY <1>1, <2>2, ClosedKeeps DEF DropLexInfo, FilesOK
  <2> QED BY <2>1, <2>2
<1>3. NothingRead' /\ StackOK'
  BY DEF DropLexInfo, NothingRead, StackOK
<1>4. text' = text
  BY <1>1 DEF DropLexInfo, FreedByDrop, ReadOK, Input
<1>5. ControlOK'
  BY <1>1, <1>4 DEF DropLexInfo, ControlOK, CallerTextKept
<1> QED BY <1>2, <1>3, <1>5 DEF IInv, ReaderOK

-----------------------------------------------------------------------------
(* Steps of Lex *)

\* What most steps of Lex are: a character is read or looked at, and only the
\* state of the call changes.
LEMMA CharacterStep ==
  ASSUME IInv, mode # "idle", NEW c, Take(c) \/ Peek(c), Same,
         end' # NUL, count' \in 0..SizeSymbol
  PROVE  IInv'
<1>1. ReaderOK /\ in # NoInput /\ ftop' = ftop
  BY DEF IInv, ControlOK, Same
<1>2. ReaderOK' /\ in' # NoInput
  BY <1>1, TakeReads, PeekReads
<1>3. ControlOK'
  BY <1>2 DEF IInv, ControlOK, CallerTextKept, Same
<1> QED BY <1>2, <1>3 DEF IInv

LEMMA AtEndReads ==
  ASSUME IInv, AtEnd
  PROVE  IInv'
<1>1. ReaderOK /\ ControlOK /\ in # NoInput
  BY DEF IInv, ControlOK, AtEnd
<1>2. ReaderOK' /\ in' # NoInput
  <2>1. CASE ftop = <<>>
    BY <1>1, <2>1, TakeReads DEF AtEnd
  <2>2. CASE ftop # <<>>
    BY <1>1, <2>2, ExitIncludeReads DEF AtEnd
  <2> QED BY <2>1, <2>2
<1>3. text' = text /\ UNCHANGED <<type, end, count, missed>>
  BY DEF AtEnd, ExitInclude
<1> QED BY <1>1, <1>2, <1>3 DEF IInv, ControlOK, CallerTextKept

LEMMA DoIncludeReads ==
  ASSUME IInv, DoInclude
  PROVE  IInv'
<1>1. ReaderOK /\ ControlOK /\ in # NoInput
  BY DEF IInv, ControlOK, DoInclude
<1>2. UNCHANGED <<type, end, count, token>>
  BY DEF DoInclude
<1>3. PICK c \in Found \cap {end} :
        \/ \E f \in Files \ DOMAIN file : \E n \in Sizes : Include(f, n)
        \/ Missing(c)
  BY DEF DoInclude
<1>4. c # NUL
  BY <1>1 DEF ControlOK
<1>5. CASE \E f \in Files \ DOMAIN file : \E n \in Sizes : Include(f, n)
  <2>1. PICK f \in Files \ DOMAIN file, n \in Sizes : Include(f, n)
    BY <1>5
  <2>2. ReaderOK' /\ in' # NoInput
    BY <1>1, <1>3, <1>4, <2>1, IncludeReads
  <2>3. UNCHANGED <<text, missed>>
    BY <2>1 DEF Include
  <2> QED BY <1>1, <1>2, <2>2, <2>3 DEF IInv, ControlOK, CallerTextKept
<1>6. CASE Missing(c)
  <2>1. ReaderOK' /\ in' # NoInput
    BY <1>1, <1>6, TakeReads DEF Missing
  <2>2. text' \in {"kept", "freed"} /\ CallerTextKept'
    BY <1>1, <1>6 DEF Missing, ControlOK, CallerTextKept
  <2> QED BY <1>1, <1>2, <2>1, <2>2 DEF IInv, ControlOK
<1> QED BY <1>3, <1>5, <1>6

LEMMA ReadingKeeps ==
  ASSUME IInv, Reading
  PROVE  IInv'
<1>0. end # NUL /\ count \in 0..SizeSymbol /\ SizeSymbol \in Nat
      /\ 0 \in 0..SizeSymbol /\ 1 \in 0..SizeSymbol
  BY WordLengths DEF IInv, ControlOK
<1>1. ASSUME Begin PROVE IInv'
  <2>1. /\ mode # "idle" /\ Same /\ count' \in {count, 1}
        /\ \E c : Take(c) /\ end' \in {end, "/", "quote", c} /\ c # NUL
    BY <1>1 DEF Begin, Goto, Got
  <2> QED BY <1>0, <2>1, CharacterStep DEF NUL
<1>2. ASSUME Word PROVE IInv'
  <2>1. \E c : (Take(c) \/ Peek(c)) /\ (count' = count \/ (count < SizeSymbol /\ count' = count + 1))
    BY <1>2 DEF Word
  <2>2. count' \in 0..SizeSymbol
    BY <1>0, <2>1
  <2> QED BY <1>0, <1>2, <2>1, <2>2, CharacterStep DEF Word
<1>3. ASSUME NumberToken PROVE IInv'
  <2>1. \E c : (Take(c) \/ Peek(c)) /\ (count' = count \/ (count < SizeSymbol /\ count' = count + 1))
    BY <1>3 DEF NumberToken
  <2>2. count' \in 0..SizeSymbol
    BY <1>0, <2>1
  <2>3. mode # "idle" /\ Same /\ end' = end
    BY <1>3 DEF NumberToken
  <2> QED BY <1>0, <2>1, <2>2, <2>3, CharacterStep
<1>4. ASSUME StringToken \/ Escaped \/ Compare \/ Slash \/ Comment PROVE IInv'
  <2>1. mode # "idle" /\ Same /\ end' = end /\ count' = count
    BY <1>4 DEF StringToken, Escaped, Compare, Slash, Comment
  <2>2. \E c : Take(c) \/ Peek(c)
    BY <1>4 DEF StringToken, Escaped, Compare, Slash, Comment
  <2> QED BY <1>0, <2>1, <2>2, CharacterStep
<1>5. ASSUME Hash PROVE IInv'
  <2>1. mode # "idle" /\ Same /\ end' = end /\ (\E c : Take(c)) /\ count' \in {count, 0, 1}
    BY <1>5 DEF Hash
  <2> QED BY <1>0, <2>1, CharacterStep
<1>6. ASSUME Directive \/ Rest PROVE IInv'
  <2>1. mode # "idle" /\ Same /\ end' = end /\ count' = count
    BY <1>6 DEF Directive, Rest
  <2>2. \E c : Take(c) \/ Peek(c)
    BY <1>6 DEF Directive, Rest
  <2> QED BY <1>0, <2>1, <2>2, CharacterStep
<1>7. ASSUME Before \/ FileName \/ NoInclude PROVE IInv'
  <2>1. mode # "idle" /\ Same /\ end' \in {end, ">", "quote"} /\ count' \in {0, 1, count}
    BY <1>7 DEF Before, FileName, NoInclude
  <2>2. \E c : Take(c)
    BY <1>7 DEF Before, FileName, NoInclude
  <2> QED BY <1>0, <2>1, <2>2, CharacterStep DEF NUL
<1> QED BY <1>1, <1>2, <1>3, <1>4, <1>5, <1>6, <1>7, AtEndReads, DoIncludeReads DEF Reading

-----------------------------------------------------------------------------
(* Theorems *)

LEMMA InitHolds == Init => IInv
<1> SUFFICES ASSUME Init PROVE IInv
  OBVIOUS
<1>1. FilesOK /\ StackOK /\ NothingRead
  BY DEF Init, FilesOK, StackOK, NothingRead
<1>2. ControlOK
  BY WordLengths DEF Init, ControlOK, Calls, CallerTextKept, NoChar, NUL
<1> QED BY <1>1, <1>2 DEF IInv, ReaderOK

LEMMA StepHolds == IInv /\ [Next]_vars => IInv'
<1> SUFFICES ASSUME IInv, [Next]_vars PROVE IInv'
  OBVIOUS
<1>1. ASSUME PushLexInfo \/ PushLexInfoMem \/ PushLexInfoStream PROVE IInv'
  BY <1>1, PushReads
<1>2. ASSUME DropLexInfo PROVE IInv'
  BY <1>2, DropReads
<1>3. ASSUME NEW t \in Calls, Lex(t) PROVE IInv'
  <2>1. UNCHANGED <<in, back, ftop, file, text, missed>> /\ in # NoInput
    BY <1>3 DEF Lex
  <2>2. ReaderOK'
    BY <2>1 DEF IInv, ReaderOK, FilesOK, StackOK, NothingRead, ReadOK, InStep, Ahead, Input,
                Measured, InMemory
  <2>3. ControlOK'
    BY <1>3, <2>1, WordLengths DEF Lex, IInv, ControlOK, CallerTextKept, NoChar, NUL
  <2> QED BY <2>2, <2>3 DEF IInv
<1>4. ASSUME Reading PROVE IInv'
  BY <1>4, ReadingKeeps
<1>5. CASE UNCHANGED vars
  BY <1>5 DEF vars, IInv, ReaderOK, FilesOK, StackOK, NothingRead, ReadOK, InStep, Ahead, Input,
              Measured, InMemory, ControlOK, CallerTextKept
<1> QED BY <1>1, <1>2, <1>3, <1>4, <1>5 DEF Next

LEMMA Invariant == Spec => []IInv
BY InitHolds, StepHolds, PTL DEF Spec

LEMMA InvariantHolds == IInv => InputsHeld /\ PositionInStep
<1> SUFFICES ASSUME IInv PROVE InputsHeld /\ PositionInStep
  OBVIOUS
<1>1. FilesOK /\ StackOK /\ (NothingRead \/ ReadOK) /\ ControlOK
  BY DEF IInv, ReaderOK
<1>2. DOMAIN ftop = 1..Len(ftop) /\ Len(ftop) \in Nat
  BY <1>1 DEF StackOK
<1>3. TypeOK
  <2>1. \A f \in DOMAIN file : file[f].offset \in 0..file[f].length
    BY <1>1 DEF FilesOK
  <2>2. in.fp \in Files \cup {None} /\ back \in Alphabet \cup {NUL, NoChar}
    BY <1>1 DEF NothingRead, NoInput, ReadOK, Input, InputRecords
  <2> QED BY <1>1, <2>1, <2>2 DEF TypeOK, FilesOK, ControlOK
<1>4. FilesHeld
  <2>1. \A i \in Inputs : ~InMemory(i) => i.fp \in DOMAIN file
    BY <1>1, <1>2 DEF Inputs, StackOK, ReadOK, NothingRead
  <2>2. in # NoInput => \A k \in DOMAIN ftop : in.fp # ftop[k].fp
    BY <1>1, <1>2 DEF ReadOK, NothingRead
  <2> QED BY <1>1, <1>2, <2>1, <2>2 DEF FilesHeld, StackOK
<1>5. PositionInStep
  <2>1. SUFFICES ASSUME NEW i \in Inputs, ~InMemory(i), i.size # Unknown, i.pos <= i.size
                 PROVE  i.pos + (IF i = in /\ back \notin {NoChar, NUL} THEN 1 ELSE 0)
                          = file[i.fp].offset
    BY DEF PositionInStep
  <2>2. CASE i = in /\ in # NoInput
    <3>1. InStep(in, Ahead)
      BY <1>1, <2>2 DEF NothingRead, ReadOK
    <3>2. Ahead = IF i = in /\ back \notin {NoChar, NUL} THEN 1 ELSE 0
      BY <2>2 DEF Ahead
    <3> QED BY <2>1, <2>2, <3>1, <3>2 DEF InStep, Measured
  <2>3. CASE ~(i = in /\ in # NoInput)
    <3>1. PICK k \in 1..Len(ftop) : i = ftop[k]
      BY <2>1, <2>3, <1>2 DEF Inputs
    <3>2. ReadOK
      BY <1>1, <1>2, <3>1 DEF NothingRead
    <3>3. i # in
      BY <3>1, <3>2 DEF ReadOK
    <3>4. InStep(i, 0)
      BY <1>1, <3>1 DEF StackOK
    <3> QED BY <2>1, <3>3, <3>4 DEF InStep, Measured
  <2> QED BY <2>2, <2>3
<1> QED BY <1>1, <1>3, <1>4, <1>5 DEF InputsHeld, ControlOK

\* Whatever the texts include, what is read and what was interrupted are FILEs
\* that are open, each its own, and the text of RecParseValueMem's caller is
\* freed by nothing but an include that is not found.
THEOREM FilesAndTextsHeld == Spec => []InputsHeld
BY Invariant, InvariantHolds, PTL

\* Through includes, their ends and characters put back, the position by which
\* GetChar tells the end keeps step with the FILE.
THEOREM PositionKeepsStep == Spec => []PositionInStep
BY Invariant, InvariantHolds, PTL

=============================================================================
