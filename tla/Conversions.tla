----------------------------- MODULE Conversions -----------------------------
(***************************************************************************)
(* The life of a scalar value: a client declares it, sets it from values   *)
(* of C and moves it to values of other types.                             *)
(*                                                                         *)
(* Clients do not read numbers from strings that are NULL, nor fill those. *)
(***************************************************************************)
EXTENDS Codec

CONSTANTS Declarations,  \* <<type, size, scale>> of the values
          Texts, Ints, Bytes, Floats, Numbers, Strings_, Dates,  \* what setters are given
          MaxMoves       \* bound on the moves to other declarations

VARIABLES decl,   \* what the value was declared as
          val,    \* the value
          moves   \* how often it was moved

vars == <<decl, val, moves>>

Fresh(d) == Declared(d[1], d[2], d[3])

\* Bounds: what a number is counted in has at most six digits, so that its
\* hundredths stay within what can be counted.
MaxDigits == 6
DigitCount(s) == Len(SelectSeq(s, IsDigit))
CountableText(s) == DigitCount(s) <= MaxDigits
DigitsIn(v) ==
  CASE v.type \in StringTypes -> DigitCount(v.body.sval)
    [] v.type = "NUMBER"      -> v.body.flen
    [] v.type = "TIMESTAMP"   -> 14
    [] v.type = "DATE"        -> 8
    [] OTHER                  -> 0
Countable(v) == DigitsIn(v) <= MaxDigits

\* Whether v has a number of seconds.
Datable(v) == v.type \in DateTypes => InEpoch(v.body)

-----------------------------------------------------------------------------
Init == /\ decl \in Declarations
        /\ val = Fresh(decl)
        /\ moves = 0

StringSet == /\ \E s \in {t \in Texts : val.type = "FLOAT" => CountableText(t)} :
                  val' = SetValueString(val, s)
             /\ UNCHANGED <<decl, moves>>

IntegerSet == /\ \E i \in Ints : val' = SetValueInteger(val, i)
              /\ UNCHANGED <<decl, moves>>

CharSet == /\ \E c \in Bytes : val' = SetValueChar(val, c)
           /\ UNCHANGED <<decl, moves>>

BoolSet == /\ \E b \in BOOLEAN : val' = SetValueBool(val, b)
           /\ UNCHANGED <<decl, moves>>

FloatSet == /\ \E f \in {g \in Floats : val.type = "NUMBER" => FitsFixed(val.body, g)} :
                 val' = SetValueFloat(val, f)
            /\ UNCHANGED <<decl, moves>>

FixedSet == /\ \E x \in Numbers : val' = SetValueFixed(val, x)
            /\ UNCHANGED <<decl, moves>>

BinarySet == /\ val.type \in CharTypes \cup {"OBJECT"}
             /\ \E s \in Strings_ : val' = SetValueBinary(val, s)
             /\ UNCHANGED <<decl, moves>>

DateSet == /\ \E t \in Dates : val' = SetValueDateTime(val, t)
           /\ UNCHANGED <<decl, moves>>

Initialize == /\ val' = InitializeValue(val)
              /\ UNCHANGED <<decl, moves>>

Fill == /\ ~CannotFill(val)
        /\ val' = FillValue(val)
        /\ UNCHANGED <<decl, moves>>

MakeNil == /\ val' = Nil(val)
           /\ UNCHANGED <<decl, moves>>

\* MoveValue and AssignValue to a value of another declaration.
Moved(d) == moves < MaxMoves /\ decl' = d /\ moves' = moves + 1

Move(d) ==
  /\ Moved(d)
  /\ Movable(Fresh(d), val)
  /\ d[1] \in {"INT", "FLOAT", "BOOL"} => Datable(val)
  /\ d[1] = "FLOAT" => Countable(val)
  /\ val' = MoveValue(Fresh(d), val)

Assign(d) ==
  /\ Moved(d)
  /\ d[1] = "FLOAT" => CountableText(ValueToString(val))
  /\ val' = AssignValue(Fresh(d), val)

Convert ==
  \/ StringSet \/ IntegerSet \/ CharSet \/ BoolSet \/ FloatSet \/ FixedSet \/ BinarySet \/ DateSet
  \/ Initialize \/ Fill \/ MakeNil
  \/ \E d \in Declarations : Move(d)
  \/ \E d \in Declarations : Assign(d)

-----------------------------------------------------------------------------
(* Properties *)

\* The value keeps the shape of its type: a buffer has room for the text in
\* it and for its terminator, a length lies in its buffer, a NUMBER has as
\* many digits as it was declared with, an int is an int.
TypeOK ==
  /\ decl \in Declarations /\ val.type = decl[1]
  /\ val.attr \subseteq {"NIL", "EXPANDABLE", "DESC"}
  /\ CASE val.type \in StringTypes -> IsNULL(val) \/ Len(val.body.sval) < val.body.asize
       [] val.type \in BitTypes    -> /\ val.body.length <= val.body.asize
                                      /\ Len(val.body.sval) = val.body.asize
       [] val.type = "NUMBER"      -> /\ val.body.flen = decl[2] /\ val.body.slen = decl[3]
                                      /\ Len(val.body.sval) = decl[2]
       [] val.type = "INT"         -> val.body = Wrap(val.body)
       [] val.type = "OBJECT"      -> Len(val.body) = Uuid + 1
       [] OTHER                    -> TRUE

\* A month and a day that mktime leaves as they are, and what fits the two
\* digits of its fields.
ProperDate(v) ==
  v.type \in DateTypes => /\ v.type # "TIME" => Normalized(v.body) = v.body /\ v.body[1] \in 0..9999
                          /\ \A i \in 4..6 : v.body[i] \in 0..99

\* What a value shows is what sets another of its declaration to show the
\* same: escapes, points, signs and dates are read as they are written.  It
\* is what the text codecs rest on.
StringFormRoundTrips ==
  (ProperDate(val) /\ Countable(val)) =>
    ValueToString(AssignValue(Fresh(decl), val)) = ValueToString(val)

\* An int that a value has room for is read as it was set.  NUMBERs have it
\* for what is not negative: FixedToInt stops at the sign.
RoomForInt(v, i) ==
  CASE v.type = "NUMBER"         -> /\ i >= 0 /\ i * 10^v.body.slen < 10^Smaller(v.body.flen, MaxDigits)
                                    /\ i * 10^v.body.slen = Wrap(i * 10^v.body.slen)
    [] v.type = "BOOL"           -> i \in {0, 1}
    [] v.type \in CharTypes      -> v.type \in ReadTypes
    [] v.type = "OBJECT"         -> FALSE
    [] OTHER                     -> TRUE
NumbersSurvive ==
  \A i \in Ints : RoomForInt(val, i) => ValueToInteger(SetValueInteger(val, i)) = i

\* Whether a value of d has room for all that v can say: a float has no minus
\* zero and a TIMESTAMP no hours that are too many.
WiderThan(d, v) ==
  CASE v.type \in StringTypes            -> d[1] \in StringTypes
    [] v.type \in BitTypes               -> d[1] = "BINARY"
    [] v.type = "INT" /\ v.body >= 0     -> d[1] \in {"NUMBER", "FLOAT"} /\ d[2] \in {0, 14}
    [] v.type = "BOOL"                   -> d[1] \in {"INT", "NUMBER", "FLOAT"}
    [] v.type = "NUMBER"                 -> d[1] = "FLOAT" /\ Countable(v) /\ FixedToFloat(v.body) # 0
    [] v.type = "OBJECT"                 -> d[1] = "OBJECT"
    [] v.type = "TIMESTAMP"              -> d[1] = "NUMBER" /\ d[2] = 14
    [] v.type \in {"DATE", "TIME"}       -> d[1] = "TIMESTAMP" /\ TimePart(Normalized(v.body)) = TimePart(v.body)
    [] OTHER                             -> FALSE

\* What moves to a wider type and back shows what it showed.
MoveThereAndBack ==
  \A d \in Declarations :
    (WiderThan(d, val) /\ ProperDate(val)) =>
      ValueToString(MoveValue(Fresh(decl), MoveValue(Fresh(d), val))) = ValueToString(val)

\* Other values of the same declaration.
Peers == {SetValueString(Fresh(decl), s) : s \in {t \in Texts : CountableText(t)}}

Comparable(a, b) ==
  /\ ~IsNil(a) /\ ~IsNil(b) /\ Countable(a) /\ Countable(b)
  /\ a.type \in DateTypes => Datable(a) /\ Datable(b)
  /\ a.type = "INT" => \A d \in {a.body - b.body, b.body - a.body} : d = Wrap(d)

Desc(v) == [v EXCEPT !.attr = @ \cup {"DESC"}]

Orders(compare, peers) ==
  /\ \A p \in peers :
       /\ Comparable(val, p) =>
            /\ compare[val, p] = -compare[p, val]
            /\ val.type # "OBJECT" => compare[val, Desc(p)] = compare[p, val]
       /\ ~IsNil(p) => compare[Nil(val), p] = -1 /\ compare[p, Nil(val)] = 1
  /\ val.type # "FLOAT" =>
       \A p, q \in peers :
         (/\ Comparable(val, p) /\ Comparable(p, q) /\ Comparable(val, q)
          /\ compare[val, p] <= 0 /\ compare[p, q] <= 0) => compare[val, q] <= 0

\* CompareValue orders the values of a type, which is what sorting and a
\* search tree need: one way round is the opposite of the other unless the
\* difference is too large for an int, and the order is transitive (but for
\* FLOATs, of which those less than 1 apart count as equal).  DESC on the right
\* turns it round.  A nil is before everything that it is not alike with,
\* whatever it last held.
CompareOrders ==
  LET values(all) == all \cup {val, Nil(val)} \cup {Desc(v) : v \in all}
  IN Orders([l, r \in values(Peers) |-> CompareValue(l, r)], Peers)

\* The reference for FixedRescale: the number, cut off at the places that the
\* target has on either side of the point.
RescaleCuts ==
  (val.type = "NUMBER" /\ Countable(val)) =>
    \A flen \in 1..4 : \A slen \in 0..flen :
      LET to == FixedRescale([flen |-> flen, slen |-> slen, sval |-> <<>>], val.body)
          n  == Number([i \in DOMAIN val.body.sval |-> Low6(val.body.sval[i])])
      IN /\ Number([i \in 1..flen |-> Low6(to.sval[i])])
              = ((n * 10^slen) \div 10^val.body.slen) % 10^flen
         /\ Signed(to.sval[1]) = Signed(val.body.sval[1])

\* The two ways to a number agree, the float of fixed.c and the Numeric of
\* numerici.c that values are compared by, and NumericToFixed leads back to the
\* digits unless they are those of a minus zero.
FixedReadingsAgree ==
  (val.type = "NUMBER" /\ Countable(val)) =>
    LET x == val.body
        n == FixedToNumeric(x)
    IN /\ FixedToFloat(x) = n
       /\ (n # 0 /\ x.slen <= Scale) => NumericToFixed(n, x.flen, x.slen) = x.sval

\* A number comes through a value unchanged where the value has room for it,
\* however it is set, rescaled and read (getset.c:149-211, fixed.c, numerici.c).
NumbersAgree == NumbersSurvive /\ RescaleCuts /\ FixedReadingsAgree

=============================================================================
