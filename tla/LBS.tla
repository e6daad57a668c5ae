-------------------------------- MODULE LBS ---------------------------------
(***************************************************************************)
(* The LargeByteString of src/src/LBSfunc.c: a growing buffer of bytes     *)
(* with a cursor.  Each function of the API is an operator that takes an   *)
(* LBS to the LBS it leaves behind, so that functions that call each other *)
(* compose as they do in the code; the actions call them in any order.     *)
(*                                                                         *)
(* Memory that was allocated and not written holds Junk.  When realloc     *)
(* fails MonErrorPrintf ends the process: up is FALSE and nothing follows. *)
(* Definitions marked "Fault" are mistakes that one property catches.      *)
(***************************************************************************)
EXTENDS Integers, Sequences

CONSTANTS Bytes,     \* the values of a byte
          NUL, Top,  \* 0 and 255
          Junk,      \* what is in memory that nobody wrote
          Grow,      \* SIZE_GROWN
          Word,      \* 2^w for the w of size_t
          Limit,     \* the largest block malloc can provide
          Texts,     \* the strings callers emit
          Blocks,    \* the buffers they have copied
          Converted, \* pairs of a declared size and what iconv makes of a text
          Ints,      \* the ints they emit, as four bytes each
          Sizes      \* the sizes and offsets they pass

ASSUME BytesAssumption == {NUL, Top} \subseteq Bytes /\ NUL # Top /\ Junk \notin Bytes
ASSUME SizeAssumption ==
  /\ Grow \in Nat \ {0} /\ Word \in Nat /\ Limit \in Nat /\ Limit < Word
  /\ Sizes \subseteq 0..Word-1
ASSUME TextAssumption ==
  /\ Texts \subseteq Seq(Bytes \ {NUL})
  /\ Blocks \subseteq Seq(Bytes)
  /\ Ints \subseteq [1..4 -> Bytes]
ASSUME ConversionAssumption ==
  /\ Converted \subseteq Nat \X Seq(Bytes)
  /\ \A c \in Converted : Len(c[2]) <= 2 * c[1] + 1

\* iconv leaves a byte for the terminator that the code writes behind it.
Fits == \A c \in Converted : Len(c[2]) <= 2 * c[1]

VARIABLES lbs,       \* the structure
          reserved   \* the client asked for bytes that nobody wrote

vars == <<lbs, reserved>>

Empty(u) == [ptr |-> 0, size |-> 0, asize |-> 0, body |-> [i \in {} |-> NUL], up |-> u]

NewLBS == Empty(TRUE)

-----------------------------------------------------------------------------
(* Memory *)

\* b reallocated to n bytes.
Resized(b, n, new) == [i \in 0..n-1 |-> IF i \in DOMAIN b THEN b[i] ELSE new]
\* t copied to b at offset k.
Copied(b, k, t) == [i \in DOMAIN b |-> IF i \in k..k+Len(t)-1 THEN t[i-k+1] ELSE b[i]]
\* The bytes i..j-1 of b cleared.
Cleared(b, i, j) == [k \in DOMAIN b |-> IF k \in i..j-1 THEN NUL ELSE b[k]]

Grown(l, n, fKeep) ==
  IF l.asize >= n THEN l
  ELSE IF n > Limit THEN [l EXCEPT !.up = FALSE]
  ELSE [l EXCEPT !.asize = n,
                 !.body = IF fKeep THEN Resized(@, n, Junk) ELSE [i \in 0..n-1 |-> NUL]]

ReserveSize(l, n, fKeep) == [Grown(l, n, fKeep) EXCEPT !.size = n, !.ptr = n]

-----------------------------------------------------------------------------
(* The cursor *)

\* size_t arithmetic.
Wrapped(x) == IF x < 0 THEN x + Word ELSE IF x >= Word THEN x - Word ELSE x

NewPos(l, off, whence) ==
  CASE whence = "SET" -> off
    [] whence = "CUR" -> Wrapped(l.ptr + off)
    [] whence = "END" -> Wrapped(l.size - off)

SeekTo(l, newpos) ==
  IF newpos > l.size THEN ReserveSize(l, newpos, TRUE) ELSE [l EXCEPT !.ptr = newpos]

\* LBS_FetchByte moves unless the end is reached; LBS_FetchInt fetches four.
Past(l, n) == IF l.ptr + n <= l.size THEN l.ptr + n ELSE l.size

\* The digits of what LBS_FetchInt returns: every byte is ORed in, and the -1
\* of a missing one sets all bits, the earlier ones' too.
FetchedInt(l) ==
  [k \in 1..4 |-> IF l.ptr + 4 <= l.size THEN l.body[l.ptr + k - 1] ELSE Top]

-----------------------------------------------------------------------------
(* Writing *)

EmitStart(l) == [l EXCEPT !.ptr = 0, !.size = 0, !.body = Cleared(@, 0, l.asize)]

\* Fault: what follows the cursor is lost.
SizeAfterCut(l) == l.ptr + 1

\* The size once a byte is written at ptr.
SizeAfter(l) == IF l.ptr + 1 > l.size THEN l.ptr + 1 ELSE l.size

Emit(l, c) ==
  LET g == IF l.ptr = l.asize THEN Grown(l, l.asize + Grow, TRUE) ELSE l
  IN [g EXCEPT !.body = Copied(@, l.ptr, <<c>>), !.ptr = l.ptr + 1, !.size = SizeAfter(l)]

\* Fault: the bytes of an int are emitted in the wrong order.
EmitIntReversed(l, d) == Emit(Emit(Emit(Emit(l, d[4]), d[3]), d[2]), d[1])

EmitInt(l, d) == Emit(Emit(Emit(Emit(l, d[1]), d[2]), d[3]), d[4])

\* LBS_Emit64, and LBS_EmitPointer under __LP64__.
Emit64(l, d, e) == EmitInt(EmitInt(l, d), e)

\* LBS_EmitEnd, where last is what it reads before the cursor.
EmitEnd(l, last) ==
  IF l.ptr = 0 \/ last # NUL THEN Emit(Grown(l, l.size + 1, TRUE), NUL) ELSE l

\* Fault: more is taken off than there is before the cursor.
MayTrimFromEnd(l, n) == l.size >= n

MayTrim(l, n) == l.ptr >= n

Trim(l, n) ==
  IF MayTrim(l, n)
  THEN [l EXCEPT !.body = Cleared(@, l.ptr - n, l.ptr), !.ptr = @ - n, !.size = @ - n]
  ELSE l

EmitString(l, t) ==
  LET left == l.asize - l.ptr
      g == IF left < Len(t)
           THEN Grown(l, l.asize + ((Len(t) - left) \div Grow + 1) * Grow, TRUE)
           ELSE l
  IN [g EXCEPT !.body = Copied(@, l.ptr, t), !.ptr = l.ptr + Len(t), !.size = l.ptr + Len(t)]

\* LBS_String; what precedes the cursor is the last byte of t, never 0.
String(l, t) == EmitEnd(EmitString(EmitStart(l), t), Top)

\* LBS_EmitStringCodeset without a codeset: isize bytes are copied as they are.
EmitBlock(l, b) ==
  LET n == Len(b)
  IN [Grown(l, n + 1, FALSE) EXCEPT !.body = Copied(@, 0, b), !.size = n, !.ptr = n]

\* Fault: the size stays what was reserved.
ConvertedSizeReserved(n, out) == 2 * n + 1

\* ssize: the bytes iconv stored, and the terminator.
ConvertedSize(n, out) == Len(out) + 1

\* LBS_EmitStringCodeset with one: isize = n, and iconv stores out before it
\* ends or reports E2BIG.
EmitConverted(l, n, out) ==
  LET size == ConvertedSize(n, out)
  IN [ReserveSize(l, 2 * n + 1, TRUE) EXCEPT !.body = Copied(@, 0, Append(out, NUL)),
                                             !.size = size, !.ptr = size]

-----------------------------------------------------------------------------
(* The whole contents *)

\* Fault: asize is not brought up to date.
FixedSizeForgotten(l) == l.asize

FixedSize(l) == l.size

EmitFix(l) == [l EXCEPT !.body = Resized(@, l.size, Junk), !.asize = FixedSize(l), !.ptr = 0]

Duplicate(l) ==
  IF l.size = 0 THEN NewLBS
  ELSE LET d == ReserveSize(NewLBS, l.size, FALSE)
       IN [d EXCEPT !.body = [i \in DOMAIN @ |-> l.body[i]]]

-----------------------------------------------------------------------------
Init == lbs = NewLBS /\ reserved = FALSE

\* What is left when the process has ended.
Gone == Empty(FALSE)

Call(l, r) ==
  /\ lbs.up
  /\ lbs' = IF l.up THEN l ELSE Gone
  /\ reserved' = r

LBS_ReserveSize == \E n \in Sizes, fKeep \in BOOLEAN : Call(ReserveSize(lbs, n, fKeep), TRUE)

\* LBS_UnFetchChar is a seek by -1 from the cursor.
LBS_Seek == \E off \in Sizes \cup {Word - 1}, whence \in {"SET", "CUR", "END"} :
              LET newpos == NewPos(lbs, off, whence)
              IN Call(SeekTo(lbs, newpos), reserved \/ newpos > lbs.size)

LBS_FetchByte == Call([lbs EXCEPT !.ptr = Past(lbs, 1)], reserved)
LBS_FetchInt  == Call([lbs EXCEPT !.ptr = Past(lbs, 4)], reserved)
LBS_Fetch64   == Call([lbs EXCEPT !.ptr = Past(lbs, 8)], reserved)

LBS_EmitStart == Call(EmitStart(lbs), FALSE)
LBS_Emit      == \E c \in Bytes : Call(Emit(lbs, c), reserved)
LBS_EmitInt   == \E d \in Ints : Call(EmitInt(lbs, d), reserved)
LBS_Emit64    == \E d, e \in Ints : Call(Emit64(lbs, d, e), reserved)

LBS_EmitEnd ==
  /\ lbs.up
  /\ \E last \in Bytes :
       /\ lbs.ptr > 0 => lbs.body[lbs.ptr - 1] \in {last, Junk}
       /\ Call(EmitEnd(lbs, last), reserved)

LBS_Trim       == \E n \in Sizes : Call(Trim(lbs, n), reserved)
LBS_EmitString == \E t \in Texts : Call(EmitString(lbs, t), reserved)
LBS_String     == \E t \in Texts : Call(String(lbs, t), FALSE)

\* An empty text is ignored.
LBS_EmitStringCodeset ==
  \/ \E b \in Blocks : /\ b # <<>> /\ b[1] # NUL
                        /\ Call(EmitBlock(lbs, b), FALSE)
  \/ \E c \in Converted : Call(EmitConverted(lbs, c[1], c[2]), FALSE)

LBS_EmitFix   == Call(EmitFix(lbs), reserved)
LBS_Duplicate == Call(Duplicate(lbs), reserved)

\* LBS_ToByte and LBS_ToString return a copy and rewind.
RewindLBS == Call([lbs EXCEPT !.ptr = 0], reserved)

Next == \/ LBS_ReserveSize \/ LBS_Seek
        \/ LBS_FetchByte \/ LBS_FetchInt \/ LBS_Fetch64
        \/ LBS_EmitStart \/ LBS_Emit \/ LBS_EmitInt \/ LBS_Emit64 \/ LBS_EmitEnd
        \/ LBS_Trim \/ LBS_EmitString \/ LBS_String \/ LBS_EmitStringCodeset
        \/ LBS_EmitFix \/ LBS_Duplicate \/ RewindLBS

Spec == Init /\ [][Next]_vars

-----------------------------------------------------------------------------
(* Properties *)

\* The buffer has exactly the asize bytes that it is taken to have.
TypeOK ==
  /\ lbs \in [ptr : Int, size : Int, asize : Nat, up : BOOLEAN,
              body : UNION {[0..n-1 -> Bytes \cup {Junk}] : n \in 0..Limit}]
  /\ DOMAIN lbs.body = 0..lbs.asize-1
  /\ reserved \in BOOLEAN

\* After any sequence of calls, wrapped seeks and failed growths included, the
\* cursor is inside the used part and the used part inside the buffer: no
\* function that trusts ptr or size reads or writes outside of body.
CursorInside ==
  lbs.up => /\ 0 <= lbs.ptr
            /\ lbs.ptr <= lbs.size
            /\ lbs.size <= lbs.asize

\* A text that does not fit is a buffer size error; one that fits ends inside
\* the buffer, its terminator included.
TerminatorInside == lbs.up => lbs.size <= lbs.asize

\* Unless the client itself asked for bytes it did not write, every byte of the
\* used part was written: a buffer that was grown, cut and refilled, in any
\* order, never shows what malloc left in it.
AllWritten ==
  lbs.up /\ ~reserved => \A i \in 0..lbs.size-1 : lbs.body[i] # Junk

\* Wherever in the buffer an int is emitted, across a growth or over old bytes,
\* seeking back and fetching gives that int.
IntRoundTrip ==
  \A d \in Ints :
    LET e == EmitInt(lbs, d)
    IN lbs.up /\ e.up => FetchedInt(SeekTo(e, Wrapped(e.ptr + (Word - 4)))) = d

\* The LBS is a byte stream: no call shows how the buffer is managed.
View(l) == [len |-> l.size, pos |-> l.ptr, at |-> [i \in 0..l.size-1 |-> l.body[i]]]

ABS == INSTANCE ByteStream
         WITH s    <- View(lbs),
              open <- lbs.up

ImplementsStream == ABS!Spec
=============================================================================
