------------------------------- MODULE Fixed --------------------------------
(***************************************************************************)
(* Fixed-point numbers: src/src/fixed.c and src/src/numerici.c.  A number  *)
(* is flen digits, the last slen of them behind the point; a negative one  *)
(* has bit 64 set in its first digit, "p" to "y".  Floats and Numerics are *)
(* integers that count hundredths, so that two digits behind the point are *)
(* exact.                                                                  *)
(***************************************************************************)
EXTENDS Strings

Unit  == 100   \* 1.0 as a float
Scale == 2     \* digits behind the point that a float has

SignBit   == 64
Signed(b) == (b \div SignBit) % 2 = 1
Mark(b)   == IF Signed(b) THEN b ELSE b + SignBit
Low6(b)   == b % SignBit

\* Sets the sign of a string of digits.
Marked(s, minus) == IF minus /\ s # <<>> THEN [s EXCEPT ![1] = Mark(@)] ELSE s

Abs(i) == IF i < 0 THEN -i ELSE i

\* Fault: the integer part is copied from its first digit on.
DigitsFromLeft(to, fr, i) ==
  IF i \in 1..fr.flen THEN Low6(fr.sval[i]) ELSE Digit(0)

\* The digit of fr at the place that i has in to: what both have of the
\* integer part ends at the point, and what both have of the fraction begins
\* there.
DigitFor(to, fr, i) ==
  LET at == i + (fr.flen - fr.slen) - (to.flen - to.slen)
  IN IF at \in 1..fr.flen THEN Low6(fr.sval[at]) ELSE Digit(0)

FixedRescale(to, fr) ==
  LET digits == [i \in 1..to.flen |-> DigitFor(to, fr, i)]
  IN [to EXCEPT !.sval = Marked(digits, Signed(At(fr.sval, 0)))]

\* What printf makes of |f| with slen digits behind the point, without it;
\* halves go to the even neighbour.
Rounded(f, slen) ==
  LET cut  == 10^(Scale - slen)
      down == Abs(f) \div cut
      rest == Abs(f) % cut
  IN CASE slen >= Scale -> Abs(f) * 10^(slen - Scale)
       [] slen < Scale /\ (2 * rest > cut \/ (2 * rest = cut /\ down % 2 = 1)) -> down + 1
       [] OTHER -> down

\* FloatToFixed prints as many digits as the number has: if it has more than
\* flen, it writes behind the buffer.
FitsFixed(to, f) == Digits(Rounded(f, to.slen)) <= to.flen

FloatToFixed(to, f) ==
  [to EXCEPT !.sval = Marked(Decimal(Rounded(f, to.slen), to.flen), f < 0)]

\* IntToFixed: as many digits as the number needs.  The negation of the least
\* int is itself.
IntToFixed(i) ==
  LET s == PrintInt(Wrap(Abs(i)), 0)
  IN [flen |-> Len(s), slen |-> 0, sval |-> Marked(s, i < 0)]

\* FixedToInt: the digits are made an int before the fraction is dropped, and
\* a sign is no digit: it ends the number where it begins.
FixedToInt(x) == Quotient(StrToIntCast(x.sval, Len(x.sval)), 10^x.slen)

\* Fault: the sign in the first digit is taken for a digit.
SignTakenForDigit(x) == (Number(x.sval) * Unit) \div 10^x.slen

FixedToFloat(x) ==
  LET minus == At(x.sval, 0) >= 112
      s == IF minus THEN [x.sval EXCEPT ![1] = @ - SignBit] ELSE x.sval
      f == (Number(Leading(s, IsDigit)) * Unit) \div 10^x.slen
  IN IF minus THEN -f ELSE f

FixedToNumeric(x) ==
  LET s == [i \in DOMAIN x.sval |-> IF i = 1 THEN Low6(x.sval[1]) ELSE x.sval[i]]
      n == (Number(s) * Unit) \div 10^x.slen
  IN IF Signed(At(x.sval, 0)) THEN -n ELSE n

\* NumericToFixed: the places that are asked for, cut off at both ends.
NumericToFixed(n, precision, scale) ==
  LET digits == Quotient(Abs(n) * 10^scale, Unit) % 10^precision
  IN Marked(Decimal(digits, precision), n < 0)

=============================================================================
