------------------------------ MODULE Strings -------------------------------
(***************************************************************************)
(* Strings of C as sequences of bytes without their terminator, and the    *)
(* conversions between strings and numbers of src/src/monstring.c.  Ints   *)
(* are Bits wide: 32 in the program, less in an instance, so that numbers  *)
(* that are too wide for an int stay small.                                *)
(***************************************************************************)
EXTENDS Integers, FiniteSets, SequencesExt

CONSTANTS Bits  \* width of an int

ASSUME BitsAssumption == Bits \in 2..30

NUL       == 0
CharNil   == 1     \* CHAR_NIL: a string that begins with it means nil
Newline   == 10
CR        == 13
Space     == 32
DQuote    == 34
Plus      == 43
Comma     == 44
Minus     == 45
Point     == 46
Backslash == 92

Digit(d)   == 48 + d
IsDigit(c) == c \in 48..57
IsPrint(c) == c \in 32..126

\* What an int keeps of a number.
Wrap(i) == ((i + 2^(Bits-1)) % 2^Bits) - 2^(Bits-1)

\* Division as C rounds it.
Quotient(a, b) == IF a < 0 THEN -((-a) \div b) ELSE a \div b

Smaller(a, b) == IF a < b THEN a ELSE b

\* The byte at index i, from 0; behind the end there is the terminator.
At(s, i) == IF i < Len(s) THEN s[i + 1] ELSE NUL

\* What strcpy reads of an array of bytes.
CString(s) == LET ends == {i \in DOMAIN s : s[i] = NUL}
              IN IF ends = {} THEN s
                 ELSE SubSeq(s, 1, (CHOOSE i \in ends : \A j \in ends : i <= j) - 1)

From(s, i)     == SubSeq(s, i + 1, Len(s))
Repeat(c, n)   == [i \in 1..n |-> c]
Padded(s, c, n) == s \o Repeat(c, n - Smaller(n, Len(s)))

\* The least number of digits that n has; n as w decimal digits, the highest
\* first.
Digits(n)     == CHOOSE w \in 1..9 : n < 10^w /\ (w = 1 \/ n >= 10^(w-1))
Decimal(n, w) == [i \in 1..w |-> IF w - i >= Digits(n) THEN Digit(0)
                                 ELSE Digit((n \div 10^(w - i)) % 10)]
Wider(n, w)   == IF w > Digits(n) THEN w ELSE Digits(n)

\* sprintf's %0*d, and %d with a width of 0; the sign counts as one of the w.
PrintInt(i, w) == IF i < 0 THEN <<Minus>> \o Decimal(-i, Wider(-i, w - 1))
                  ELSE Decimal(i, Wider(i, w))

\* The number that decimal digits say.
Number(digits) == FoldLeft(LAMBDA n, c : 10 * n + (c - 48), 0, digits)

\* The leading elements of s that pass the test.
Leading(s, Test(_)) ==
  LET stop == SelectInSeq(s, LAMBDA c : ~Test(c))
  IN IF stop = 0 THEN s ELSE SubSeq(s, 1, stop - 1)

\* StrToInt: up to len digits behind an optional sign, which is not counted.
DigitsOf(s, len) == Leading(SubSeq(s, 1, Smaller(len, Len(s))), IsDigit)
StrToInt(s, len) ==
  IF At(s, 0) = Minus THEN -Number(DigitsOf(Tail(s), len)) ELSE Number(DigitsOf(s, len))

\* StrToInt cast to an int: the low bits of the number.
LowBits(digits) == FoldLeft(LAMBDA n, c : (10 * n + (c - 48)) % 2^Bits, 0, digits)
StrToIntCast(s, len) ==
  Wrap(IF At(s, 0) = Minus THEN -LowBits(DigitsOf(Tail(s), len)) ELSE LowBits(DigitsOf(s, len)))

\* HexToInt: len hexadecimal digits, of either case; others count as 0.
HexToInt(s, len) ==
  LET value(c) == IF IsDigit(c) THEN c - 48
                  ELSE IF c \in 65..70 THEN c - 55
                  ELSE IF c \in 97..102 THEN c - 87 ELSE 0
  IN FoldLeft(LAMBDA n, i : 16 * n + value(At(s, i - 1)), 0, [i \in 1..len |-> i])

\* sprintf's %02X.
HexDigit(d) == IF d < 10 THEN Digit(d) ELSE 55 + d
Hex(c)      == <<HexDigit(c \div 16), HexDigit(c % 16)>>

=============================================================================
