------------------------------ MODULE Encodings ------------------------------
(***************************************************************************)
(* The encodings of strings of src/src/others.c, each with the length that *)
(* clients reserve for it, and the choice between them that an option of   *)
(* the codecs makes: none, "URL", "BASE64", "BACKSLASH", "BACKSLASH_CRLF". *)
(***************************************************************************)
EXTENDS Strings

IsSpace(c) == c \in 9..13 \cup {Space}
IsAlnum(c) == IsDigit(c) \/ c \in 65..90 \/ c \in 97..122

EachByte(Code(_), s) == FlattenSeq([i \in DOMAIN s |-> Code(s[i])])
EachLength(Size(_), s) == FoldLeft(LAMBDA n, c : n + Size(c), 0, s)

-----------------------------------------------------------------------------
(* URL *)

UrlByte(c) == CASE c = Space   -> <<Plus>>
                [] IsAlnum(c) -> <<c>>
                [] OTHER      -> <<37>> \o Hex(c)
EncodeStringURL(s) == EachByte(UrlByte, s)

UrlSize(c) == IF c = Space \/ IsAlnum(c) THEN 1 ELSE 3
EncodeStringLengthURL(s) == EachLength(UrlSize, s)

UrlStep(c) == IF c = 37 THEN 3 ELSE 1

\* Spaces at the beginning are skipped, and "%" is not looked behind.
DecodeStringURL(s) ==
  LET text == From(s, Len(Leading(s, IsSpace)))
      read(r, i) ==
        LET c == At(text, r.at)
        IN IF r.at >= Len(text) THEN r
           ELSE [at  |-> r.at + UrlStep(c),
                 out |-> Append(r.out, CASE c = Plus -> Space
                                         [] c = 37   -> HexToInt(From(text, r.at + 1), 2) % 256
                                         [] OTHER    -> c)]
  IN FoldLeft(read, [at |-> 0, out |-> <<>>], text).out

-----------------------------------------------------------------------------
(* Base64: three bytes in four characters                                    *)

Base64Char(n) == CASE n < 26 -> 65 + n
                   [] n \in 26..51 -> 71 + n
                   [] n \in 52..61 -> n - 4
                   [] n = 62 -> Plus
                   [] OTHER  -> 47
Base64Val(c) == CASE c \in 65..90  -> c - 65
                  [] c \in 97..122 -> c - 71
                  [] c \in 48..57  -> c + 4
                  [] c = Plus      -> 62
                  [] c = 47        -> 63
                  [] OTHER         -> -1
Equals == 61

\* The last two characters of a group of which len bytes are there.
Base64Tail(b, len) ==
  CASE len = 3 -> <<Base64Char((b[2] % 16) * 4 + (b[3] \div 64)), Base64Char(b[3] % 64)>>
    [] len = 2 -> <<Base64Char((b[2] % 16) * 4), Equals>>
    [] OTHER   -> <<Equals, Equals>>

EncodeBase64(s) ==
  LET group(k) ==
        LET len == Smaller(3, Len(s) - 3 * k)
            b   == [i \in 1..3 |-> IF i <= len THEN s[3 * k + i] ELSE 0]
        IN <<Base64Char(b[1] \div 4), Base64Char((b[1] % 4) * 16 + (b[2] \div 16))>>
             \o Base64Tail(b, len)
  IN FlattenSeq([k \in 1..((Len(s) + 2) \div 3) |-> group(k - 1)])

EncodeLengthBase64(s) == ((Len(s) + 2) \div 3) * 4

\* Whole groups up to one with a character that is none of the 64; "=" ends
\* its group, not the text.
DecodeBase64(s) ==
  LET group(k) == SubSeq(s, 4 * k + 1, 4 * k + 4)
      proper(g) == \A i \in 1..4 : Base64Val(g[i]) # -1 \/ (i > 2 /\ g[i] = Equals)
      bytes(g) ==
        LET v == [i \in 1..4 |-> Base64Val(g[i])]
        IN <<v[1] * 4 + ((v[2] \div 16) % 4)>>
             \o (IF g[3] = Equals THEN <<>> ELSE <<(v[2] % 16) * 16 + ((v[3] \div 4) % 16)>>)
             \o (IF Equals \in {g[3], g[4]} THEN <<>> ELSE <<(v[3] % 4) * 64 + v[4]>>)
      groups == Leading([k \in 1..(Len(s) \div 4) |-> group(k - 1)], proper)
  IN FlattenSeq([k \in DOMAIN groups |-> bytes(groups[k])])

-----------------------------------------------------------------------------
(* Backslashes *)

BackslashByte(c) == IF c \in {DQuote, Backslash} THEN <<Backslash, c>> ELSE <<c>>
EncodeStringBackslash(s) == EachByte(BackslashByte, s)

BackslashSize(c) == IF c \in {DQuote, Backslash} THEN 2 ELSE 1
EncodeStringLengthBackslash(s) == EachLength(BackslashSize, s)

CRLFByte(c) == CASE c = Newline          -> <<Backslash, 110>>
                 [] c = CR               -> <<Backslash, 114>>
                 [] c \in {DQuote, Backslash} -> <<Backslash, c>>
                 [] OTHER                -> <<c>>
EncodeStringBackslashCRLF(s) == EachByte(CRLFByte, s)

CRLFSize(c) == IF c \in {DQuote, Backslash, Newline, CR} THEN 2 ELSE 1
EncodeStringLengthBackslashCRLF(s) == EachLength(CRLFSize, s)

-----------------------------------------------------------------------------
(* The encoding that an option says.  EncodeString and DecodeString know no   *)
(* backslashes: their buffer then keeps what it held before.                  *)

EncodeLength(encode, s) ==
  CASE encode = "NULL"           -> Len(s)
    [] encode = "URL"            -> EncodeStringLengthURL(s)
    [] encode = "BASE64"         -> EncodeLengthBase64(s)
    [] encode = "BACKSLASH"      -> EncodeStringLengthBackslash(s)
    [] encode = "BACKSLASH_CRLF" -> EncodeStringLengthBackslashCRLF(s)
    [] OTHER                     -> 0

EncodeString(encode, s) ==
  CASE encode = "URL"    -> EncodeStringURL(s)
    [] encode = "BASE64" -> EncodeBase64(s)
    [] OTHER             -> s

DecodeString(encode, s) ==
  CASE encode = "URL"    -> DecodeStringURL(s)
    [] encode = "BASE64" -> CString(DecodeBase64(s))
    [] OTHER             -> s

=============================================================================
