---------------------------- MODULE MCConversions ----------------------------
(* Eight-bit ints, OBJECTs of two bytes and inputs that meet the edges: signs, *)
(* points, escapes, NULs, texts longer than their fields, dates to be carried. *)
EXTENDS Codecs

MCDeclarations ==
  {<<"INT", 0, 0>>, <<"FLOAT", 0, 0>>, <<"BOOL", 0, 0>>, <<"NUMBER", 1, 0>>, <<"NUMBER", 3, 1>>,
   <<"NUMBER", 14, 0>>, <<"CHAR", 2, 0>>, <<"VARCHAR", 3, 0>>, <<"DBCODE", 0, 0>>,
   <<"TEXT", 0, 0>>, <<"SYMBOL", 0, 0>>, <<"BYTE", 2, 0>>, <<"BINARY", 0, 0>>, <<"OBJECT", 0, 0>>,
   <<"TIMESTAMP", 0, 0>>, <<"DATE", 0, 0>>, <<"TIME", 0, 0>>}

\* "", nil, "-1.5", "T", "a\n", " ,\"", "00700231"
MCTexts   == {<<>>, <<1>>, <<45, 49, 46, 53>>, <<84>>, <<97, 92, 110>>, <<32, 44, 34>>,
              <<48, 48, 55, 48, 48, 50, 51, 49>>}
MCInts    == {-7, 127}
MCBytes   == {57}
MCFloats  == {-125}
MCNumbers == {[flen |-> 3, slen |-> 2, sval |-> <<112, 48, 53>>]}
MCStrings == {<<0>>, <<65, 1, 0, 34>>}
MCDates   == {<<70, 0, 31, 23, 59, 60>>}
MCOptions == {[textsize |-> 4, arraysize |-> 1, fBigEndian |-> stale = NUL, stale |-> stale] : stale \in {NUL, 65}}
MCTextOptions ==
  {[encode |-> o[1], fName |-> o[2], recname |-> <<97>>, fNewLine |-> o[2]] :
     o \in {<<"NULL", FALSE>>, <<"NULL", TRUE>>, <<"URL", TRUE>>, <<"BASE64", FALSE>>}}
MCNeighbour == [NewValue("INT") EXCEPT !.body = 5]
=============================================================================
